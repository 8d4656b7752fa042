---------------------------- MODULE IndexProofs ----------------------------
(***************************************************************************)
(* The index of client addresses, for every set of pods, addresses,        *)
(* lookups and ids and every bound on the events.                          *)
(*                                                                         *)
(* PlaceInv says where pods and lookups are: an address is that of at most *)
(* one running pod, and a lookup whose client lives is about the address   *)
(* of that pod. It holds whatever the cluster does. On it rest three       *)
(* arguments:                                                              *)
(*                                                                         *)
(* - ServedInv, while pods do not complete and lists do not fail: the list *)
(* of the fallback can only find the client itself, so the lookup of a     *)
(* labelled pod never strays to the branches that end without an id.       *)
(*                                                                         *)
(* - QueueTyped and FlagsTyped complete the types.                         *)
(*                                                                         *)
(* - FreshInv, while an address is not given out again before its traces   *)
(* are gone. An address is owned by the pod that runs or is listed at it,  *)
(* and by the one the informer's store has there; OneOwner says that all   *)
(* of these are one pod with one label. The events, the entry of the index *)
(* and the answers of lookups about an owned address then all carry the    *)
(* owner's label (EventInv, IndexInv, AnswerInv), and what the informer's  *)
(* store knows is registered or will be (AnnouncedInv).                    *)
(***************************************************************************)
EXTENDS IdentifyProofs, SequenceTheorems, FiniteSetTheorems

(* A pod that is not there has no fields, and a published address is the   *)
(* pod's own.                                                              *)
PodInv ==
    \A p \in Pods :
        /\ pod[p].phase = "none" => pod[p] = NoPod
        /\ pod[p].ip # None => pod[p].ip = pod[p].addr

(* Running pods have addresses of their own. *)
OneRunner ==
    \A p, q \in Pods :
        /\ pod[p].phase = "running" /\ pod[q].phase = "running"
        /\ pod[p].addr = pod[q].addr
        => p = q

(* The client of a lookup runs at the address that is looked up. *)
ClientInv ==
    \A l \in Lookups, p \in Pods :
        look[l].client = p => /\ pod[p].phase = "running"
                              /\ pod[p].addr = look[l].ip
                              /\ look[l].pc # "idle"

(* What is about to be stored is an id. *)
StoreInv == \A l \in Lookups : look[l].pc = "store" => look[l].id \in Ids

(* The base of the three arguments. *)
PlaceInv == DiagnosisInv /\ PodInv /\ OneRunner /\ ClientInv /\ StoreInv

(* What can become of a pod: it starts at an assignable address, *)
Starts(p, new) ==
    /\ pod[p].phase = "none"
    /\ new.phase = "running" /\ new.addr \in Assignable /\ new.ip = None

(* has its address published, *)
Patched(p, new) ==
    /\ pod[p].phase = "running" /\ pod[p].ip = None
    /\ new.phase = "running" /\ new.label = pod[p].label
    /\ new.addr = pod[p].addr /\ new.ip = pod[p].addr

(* completes, *)
Completes(p, new) ==
    /\ "jobs" \in Faults
    /\ pod[p].phase = "running"
    /\ new.phase = "done" /\ new.label = pod[p].label
    /\ new.addr = pod[p].addr /\ new.ip = pod[p].ip

(* changes otherwise once complete, *)
Touched(p, new) == pod[p].phase = "done" /\ new = pod[p]

(* or goes. *)
Deleted(p, new) == new = NoPod

(* The steps of the cluster are these five. *)
LEMMA ClusterShape ==
  ASSUME PlaceInv, ClusterStep
  PROVE  \E p \in Pods, new \in Pod :
            /\ PodBecomes(p, new)
            /\ \/ Starts(p, new) \/ Patched(p, new) \/ Completes(p, new)
               \/ Touched(p, new) \/ Deleted(p, new)
<1>0. pod \in [Pods -> Pod] /\ \A p \in Pods : pod[p].phase = "running" => pod[p].addr \in IPs
  BY DEF PlaceInv, DiagnosisInv, Typed, Located
<1> DEFINE Goal(p, new) ==
            /\ PodBecomes(p, new)
            /\ \/ Starts(p, new) \/ Patched(p, new) \/ Completes(p, new)
               \/ Touched(p, new) \/ Deleted(p, new)
<1>1. ASSUME NEW p \in Pods, NEW label \in Labels, NEW x \in IPs, PodStarts(p, label, x)
      PROVE  \E new \in Pod : Goal(p, new)
  <2> DEFINE new == [phase |-> "running", label |-> label, addr |-> x, ip |-> None]
  <2>1. new \in Pod
    BY DEF Pod
  <2>2. pod[p].phase = "none" /\ x \in Assignable /\ PodBecomes(p, new)
    BY <1>1 DEF PodStarts
  <2>3. Starts(p, new)
    BY <2>2 DEF Starts
  <2> QED BY <2>1, <2>2, <2>3
<1>2. ASSUME NEW p \in Pods, StatusPatched(p) PROVE \E new \in Pod : Goal(p, new)
  <2> DEFINE new == [pod[p] EXCEPT !.ip = pod[p].addr]
  <2>1. new \in Pod
    BY <1>0 DEF Pod
  <2>2. pod[p].phase = "running" /\ pod[p].ip = None /\ PodBecomes(p, new)
    BY <1>2 DEF StatusPatched
  <2>3. Patched(p, new)
    BY <1>0, <2>2 DEF Patched, Pod
  <2> HIDE DEF new
  <2> QED BY <2>1, <2>2, <2>3
<1>3. ASSUME NEW p \in Pods, PodCompletes(p) PROVE \E new \in Pod : Goal(p, new)
  <2> DEFINE new == [pod[p] EXCEPT !.phase = "done"]
  <2>1. new \in Pod
    BY <1>0 DEF Pod
  <2>2. "jobs" \in Faults /\ pod[p].phase = "running" /\ PodBecomes(p, new)
    BY <1>3 DEF PodCompletes
  <2>3. Completes(p, new)
    BY <1>0, <2>2 DEF Completes, Pod
  <2> HIDE DEF new
  <2> QED BY <2>1, <2>2, <2>3
<1>4. ASSUME NEW p \in Pods, PodTouched(p) PROVE \E new \in Pod : Goal(p, new)
  BY <1>0, <1>4 DEF PodTouched, Touched
<1>5. ASSUME NEW p \in Pods, PodDeleted(p) PROVE \E new \in Pod : Goal(p, new)
  <2>1. NoPod \in Pod
    BY DEF NoPod, Pod, Labels
  <2> QED BY <1>5, <2>1 DEF PodDeleted, Deleted
<1> QED BY <1>1, <1>2, <1>3, <1>4, <1>5 DEF ClusterStep

(* An address given out is not one of a running pod, whatever Faults is. *)
LEMMA AssignableFree == Assignable \subseteq IPs \ InUse
<1>1. CASE "early" \in Faults
  BY <1>1, Zenon DEF Assignable
<1>2. CASE "early" \notin Faults /\ "reuse" \in Faults
  <2>1. Assignable = IPs \ (InUse \cup Announced)
    BY <1>2, Zenon DEF Assignable
  <2> QED BY <2>1
<1>3. CASE "early" \notin Faults /\ "reuse" \notin Faults
  <2>1. Assignable = IPs \ (InUse \cup Announced \cup Remembered)
    BY <1>3, Zenon DEF Assignable
  <2> QED BY <2>1
<1> QED BY <1>1, <1>2, <1>3

(* What can become of a lookup: the index has the address, *)
Hit(l, v) ==
    /\ look[l].pc = "check" /\ v.pc = "done"
    /\ v.id = byPodIP[look[l].ip] /\ v.id # None
    /\ byPodIP' = byPodIP

(* the list finds a pod, *)
Found(l, v) ==
    /\ look[l].pc = "list"
    /\ \E p \in PodsAt(look[l].ip) :
          \/ pod[p].label = Blank /\ v.pc = "blank" /\ v.id = None
          \/ pod[p].label \in Ids /\ v.pc = "store" /\ v.id = pod[p].label
    /\ byPodIP' = byPodIP

(* the id that was found is stored and returned, *)
Stored(l, v) ==
    /\ look[l].pc = "store" /\ v.pc = "done" /\ v.id = look[l].id
    /\ byPodIP' = [byPodIP EXCEPT ![look[l].ip] = look[l].id]

(* or the lookup moves on with the id it has; it leaves the list this way  *)
(* only if nothing is found or the list fails.                             *)
Moved(l, v) ==
    /\ v.pc # "store" /\ v.id = look[l].id
    /\ \/ look[l].pc = "check" /\ v.pc = "list"
       \/ look[l].pc = "list" /\ (PodsAt(look[l].ip) = {} \/ "api" \in Faults)
       \/ look[l].pc \in {"blank", "claim", "diagnose", "sleep"}
    /\ byPodIP' = byPodIP

(* All of them keep the address, the client and its status. *)
GoesOn(l, v) ==
    /\ look[l].pc # "idle" /\ v.pc # "idle"
    /\ v.ip = look[l].ip /\ v.client = look[l].client /\ v.status = look[l].status
    /\ Hit(l, v) \/ Found(l, v) \/ Stored(l, v) \/ Moved(l, v)

(* The steps of a lookup are these four, and its end. *)
LEMMA LookupShape ==
  ASSUME PlaceInv, NEW l \in Lookups, LookupStep(l)
  PROVE  \E v \in Lookup :
           /\ look' = [look EXCEPT ![l] = v]
           /\ UNCHANGED clusterVars
           /\ GoesOn(l, v) \/ (v = NoLookup /\ byPodIP' = byPodIP)
<1> USE DEF indexVars
<1>0. /\ look \in [Lookups -> Lookup] /\ look[l] \in Lookup
      /\ look[l].pc # "idle" => look[l].ip \in IPs
      /\ look[l].pc # "done" => look[l].tries < MaxTries
      /\ pod \in [Pods -> Pod]
      /\ byPodIP \in [IPs -> Ids \cup {None}]
  BY DEF PlaceInv, DiagnosisInv, Typed, Located, Counting
<1> DEFINE Goal(v) == /\ look' = [look EXCEPT ![l] = v]
                      /\ UNCHANGED clusterVars
                      /\ GoesOn(l, v) \/ (v = NoLookup /\ byPodIP' = byPodIP)
<1>1. CASE CacheHit(l)
  <2> DEFINE v == [look[l] EXCEPT !.pc = "done", !.id = byPodIP[look[l].ip]]
  <2>1. /\ look' = [look EXCEPT ![l] = v] /\ UNCHANGED clusterVars /\ byPodIP' = byPodIP
        /\ look[l].pc = "check" /\ byPodIP[look[l].ip] # None
    BY <1>0, <1>1 DEF CacheHit, Returns
  <2>2. look[l].ip \in IPs
    BY <1>0, <2>1
  <2>3. /\ v \in Lookup /\ v.pc = "done" /\ v.ip = look[l].ip
        /\ v.client = look[l].client /\ v.status = look[l].status
        /\ v.id = byPodIP[look[l].ip]
    BY <1>0, <2>2 DEF Lookup
  <2> HIDE DEF v
  <2> QED BY <2>1, <2>3 DEF GoesOn, Hit
<1>2. CASE \/ CacheMiss(l) \/ ListFindsNothing(l) \/ ListFails(l)
           \/ ClaimRefused(l) \/ DiagnoseDone(l) \/ ClaimSucceeds(l)
           \/ DiagnoseFails(l)
  <2>1. PICK pc \in {"list", "claim", "sleep", "diagnose"} :
           /\ look' = [look EXCEPT ![l].pc = pc]
           /\ UNCHANGED clusterVars /\ byPodIP' = byPodIP
           /\ \/ look[l].pc = "check" /\ pc = "list"
              \/ look[l].pc = "list" /\ (PodsAt(look[l].ip) = {} \/ "api" \in Faults)
              \/ look[l].pc \in {"blank", "claim", "diagnose"}
    BY <1>2 DEF CacheMiss, ListFindsNothing, ListFails, ClaimRefused,
                DiagnoseDone, ClaimSucceeds, DiagnoseFails, Moves
  <2> DEFINE v == [look[l] EXCEPT !.pc = pc]
  <2>2. look' = [look EXCEPT ![l] = v]
    BY <1>0, <2>1
  <2>3. /\ v \in Lookup /\ v.pc = pc /\ v.ip = look[l].ip
        /\ v.client = look[l].client /\ v.status = look[l].status
        /\ v.id = look[l].id
    BY <1>0 DEF Lookup
  <2> HIDE DEF v
  <2>4. Moved(l, v)
    BY <2>1, <2>3 DEF Moved
  <2> QED BY <2>1, <2>2, <2>3, <2>4 DEF GoesOn
<1>3. CASE ListFinds(l)
  <2>1. PICK p \in PodsAt(look[l].ip) :
          look' = [look EXCEPT
                     ![l].pc = IF pod[p].label = Blank THEN "blank" ELSE "store",
                     ![l].id = IF pod[p].label = Blank THEN None ELSE pod[p].label]
    BY <1>3 DEF ListFinds
  <2> DEFINE v == [look[l] EXCEPT
                     !.pc = IF pod[p].label = Blank THEN "blank" ELSE "store",
                     !.id = IF pod[p].label = Blank THEN None ELSE pod[p].label]
  <2>2. look' = [look EXCEPT ![l] = v]
    BY <1>0, <2>1
  <2>3. pod[p].label \in Ids \cup {Blank}
    BY <1>0, <2>1 DEF PodsAt, Matches, Pod, Labels
  <2>4. /\ v \in Lookup /\ v.pc \in {"blank", "store"} /\ v.ip = look[l].ip
        /\ v.client = look[l].client /\ v.status = look[l].status
        /\ \/ pod[p].label = Blank /\ v.pc = "blank" /\ v.id = None
           \/ pod[p].label \in Ids /\ v.pc = "store" /\ v.id = pod[p].label
    BY <1>0, <2>3 DEF Lookup
  <2>5. UNCHANGED clusterVars /\ byPodIP' = byPodIP /\ look[l].pc = "list"
    BY <1>3 DEF ListFinds
  <2> HIDE DEF v
  <2>6. Found(l, v)
    BY <2>1, <2>4, <2>5 DEF Found
  <2> QED BY <2>2, <2>4, <2>5, <2>6 DEF GoesOn
<1>4. CASE Stores(l)
  <2> DEFINE v == [look[l] EXCEPT !.pc = "done"]
  <2>1. look' = [look EXCEPT ![l].pc = "done", ![l].id = look[l].id]
    BY <1>4 DEF Stores, Returns
  <2>2. look' = [look EXCEPT ![l] = v]
    BY <1>0, <2>1 DEF Lookup
  <2>3. /\ v \in Lookup /\ v.pc = "done" /\ v.ip = look[l].ip
        /\ v.client = look[l].client /\ v.status = look[l].status
        /\ v.id = look[l].id
    BY <1>0 DEF Lookup
  <2>4. /\ UNCHANGED clusterVars /\ look[l].pc = "store"
        /\ byPodIP' = [byPodIP EXCEPT ![look[l].ip] = look[l].id]
    BY <1>4 DEF Stores, Returns
  <2> HIDE DEF v
  <2>5. Stored(l, v)
    BY <2>3, <2>4 DEF Stored
  <2> QED BY <2>2, <2>3, <2>4, <2>5 DEF GoesOn
<1>5. CASE SleepEnds(l)
  <2> DEFINE v == [look[l] EXCEPT !.pc = IF look[l].tries + 1 < MaxTries
                                            THEN "check" ELSE "done",
                                  !.tries = look[l].tries + 1]
  <2>1. look' = [look EXCEPT ![l] = v] /\ UNCHANGED clusterVars /\ byPodIP' = byPodIP
        /\ look[l].pc = "sleep"
    BY <1>0, <1>5 DEF SleepEnds
  <2>2. look[l].tries \in 0..MaxTries /\ look[l].tries + 1 \in 0..MaxTries
    BY <1>0, <2>1, IdentifyAssumption DEF Lookup
  <2>3. /\ v \in Lookup /\ v.pc \in {"check", "done"} /\ v.ip = look[l].ip
        /\ v.client = look[l].client /\ v.status = look[l].status
        /\ v.id = look[l].id
    BY <1>0, <2>2 DEF Lookup
  <2> HIDE DEF v
  <2>4. Moved(l, v)
    BY <2>1, <2>3 DEF Moved
  <2> QED BY <2>1, <2>3, <2>4 DEF GoesOn
<1>6. CASE LookupEnds(l)
  <2>1. NoLookup \in Lookup
    BY IdentifyAssumption DEF NoLookup, Lookup
  <2> QED BY <1>6, <2>1 DEF LookupEnds
<1> QED BY <1>1, <1>2, <1>3, <1>4, <1>5, <1>6 DEF LookupStep

(* A lookup starts at the address of its client. *)
LEMMA StartShape ==
  ASSUME PlaceInv, NEW l \in Lookups, NEW p \in Pods, LookupStarts(l, p)
  PROVE  \E v \in Lookup :
           /\ look' = [look EXCEPT ![l] = v]
           /\ UNCHANGED clusterVars /\ byPodIP' = byPodIP
           /\ pod[p].phase = "running" /\ pod[p].addr \in IPs
           /\ v.pc = "check" /\ v.ip = pod[p].addr /\ v.id = None
           /\ v.client = p /\ v.status = pod[p].ip
<1> DEFINE v == [NoLookup EXCEPT !.pc = "check", !.ip = pod[p].addr,
                                 !.client = p, !.status = pod[p].ip]
<1>1. /\ look' = [look EXCEPT ![l] = v] /\ UNCHANGED clusterVars /\ byPodIP' = byPodIP
      /\ pod[p].phase = "running" /\ pod[p].addr \in IPs
  BY DEF LookupStarts, indexVars, PlaceInv, DiagnosisInv, Located
<1>2. pod[p].ip \in IPs \cup {None} /\ 0 \in 0..MaxTries
  BY IdentifyAssumption DEF PlaceInv, DiagnosisInv, Typed, Pod
<1>3. /\ v \in Lookup /\ v.pc = "check" /\ v.ip = pod[p].addr /\ v.id = None
      /\ v.client = p /\ v.status = pod[p].ip
  BY <1>1, <1>2 DEF NoLookup, Lookup
<1> HIDE DEF v
<1> QED BY <1>1, <1>3

(* A change of one lookup preserves PlaceInv if its new state conforms. *)
LEMMA PlaceLook ==
  ASSUME PlaceInv, DiagnosisInv', pod' = pod,
         NEW l \in Lookups, NEW v \in Lookup, look' = [look EXCEPT ![l] = v],
         v.client \in Pods => /\ pod[v.client].phase = "running"
                              /\ pod[v.client].addr = v.ip
                              /\ v.pc # "idle",
         v.pc = "store" => v.id \in Ids
  PROVE  PlaceInv'
<1>1. look \in [Lookups -> Lookup]
  BY DEF PlaceInv, DiagnosisInv, Typed
<1>2. \A m \in Lookups : look'[m] = IF m = l THEN v ELSE look[m]
  BY <1>1
<1>3. ClientInv'
  BY <1>2 DEF PlaceInv, ClientInv
<1>4. StoreInv'
  BY <1>2 DEF PlaceInv, StoreInv
<1> QED BY <1>3, <1>4 DEF PlaceInv, PodInv, OneRunner

(* The steps of a lookup preserve PlaceInv. *)
LEMMA PlaceStep ==
  ASSUME PlaceInv, NEW l \in Lookups, LookupStep(l)
  PROVE  PlaceInv'
<1>1. DiagnosisInv'
  BY LookupInv DEF PlaceInv
<1>2. PICK v \in Lookup :
           /\ look' = [look EXCEPT ![l] = v]
           /\ UNCHANGED clusterVars
           /\ GoesOn(l, v) \/ (v = NoLookup /\ byPodIP' = byPodIP)
  BY LookupShape
<1>3. pod' = pod
  BY <1>2 DEF clusterVars
<1>4. CASE GoesOn(l, v)
  <2>1. v.client = look[l].client /\ v.ip = look[l].ip /\ v.pc # "idle"
    BY <1>4 DEF GoesOn
  <2>2. v.pc = "store" => v.id \in Ids
    BY <1>4 DEF GoesOn, Hit, Found, Stored, Moved
  <2>3. v.client \in Pods => /\ pod[v.client].phase = "running"
                             /\ pod[v.client].addr = v.ip
    BY <2>1 DEF PlaceInv, ClientInv
  <2> QED BY <1>1, <1>2, <1>3, <2>1, <2>2, <2>3, PlaceLook
<1>5. CASE v = NoLookup
  <2>1. v.client \notin Pods /\ v.pc = "idle"
    BY <1>5, IdentifyAssumption DEF NoLookup
  <2> QED BY <1>1, <1>2, <1>3, <2>1, PlaceLook
<1> QED BY <1>2, <1>4, <1>5

(* So does its start. *)
LEMMA PlaceStarts ==
  ASSUME PlaceInv, NEW l \in Lookups, NEW p \in Pods, LookupStarts(l, p)
  PROVE  PlaceInv'
<1>1. DiagnosisInv'
  BY LookupStartsInv DEF PlaceInv
<1>2. PICK v \in Lookup :
           /\ look' = [look EXCEPT ![l] = v]
           /\ UNCHANGED clusterVars /\ byPodIP' = byPodIP
           /\ pod[p].phase = "running" /\ pod[p].addr \in IPs
           /\ v.pc = "check" /\ v.ip = pod[p].addr /\ v.id = None
           /\ v.client = p /\ v.status = pod[p].ip
  BY StartShape
<1> QED BY <1>1, <1>2, PlaceLook DEF clusterVars

(* A change of a pod takes at most the client from a lookup, and does when *)
(* the pod no longer runs.                                                 *)
LEMMA ClientLeaves ==
  ASSUME PlaceInv, NEW p \in Pods, NEW new \in Pod, PodBecomes(p, new),
         NEW l \in Lookups
  PROVE  /\ look'[l].pc = look[l].pc /\ look'[l].ip = look[l].ip
         /\ look'[l].id = look[l].id /\ look'[l].status = look[l].status
         /\ look'[l].client \in {None, look[l].client}
         /\ new.phase # "running" => look'[l].client # p
<1>1. look[l] \in Lookup
  BY DEF PlaceInv, DiagnosisInv, Typed
<1>2. look'[l] = IF new.phase # "running" /\ look[l].client = p
                    THEN [look[l] EXCEPT !.client = None]
                    ELSE look[l]
  BY DEF PodBecomes
<1> QED BY <1>1, <1>2, IdentifyAssumption DEF Lookup

(* Only that pod changes. *)
LEMMA PodChanges ==
  ASSUME PlaceInv, NEW p \in Pods, NEW new \in Pod, PodBecomes(p, new)
  PROVE  \A q \in Pods : pod'[q] = IF q = p THEN new ELSE pod[q]
  BY DEF PodBecomes, PlaceInv, DiagnosisInv, Typed

(* The cluster preserves PlaceInv: a new pod gets a free address, and no   *)
(* lookup keeps a client that stopped.                                     *)
LEMMA PlaceCluster == PlaceInv /\ ClusterStep => PlaceInv'
<1> SUFFICES ASSUME PlaceInv, ClusterStep PROVE PlaceInv'
  OBVIOUS
<1>1. PICK p \in Pods, new \in Pod :
            /\ PodBecomes(p, new)
            /\ \/ Starts(p, new) \/ Patched(p, new) \/ Completes(p, new)
               \/ Touched(p, new) \/ Deleted(p, new)
  BY ClusterShape
<1>2. \A q \in Pods : pod'[q] = IF q = p THEN new ELSE pod[q]
  BY <1>1, PodChanges
<1>3. DiagnosisInv'
  BY ClusterInv DEF PlaceInv
<1>4. PodInv'
  <2>1. /\ new.phase = "none" => new = NoPod
        /\ new.ip # None => new.ip = new.addr
    BY <1>1 DEF PlaceInv, PodInv, Starts, Patched, Completes, Touched, Deleted, NoPod
  <2> QED BY <1>2, <2>1 DEF PlaceInv, PodInv
<1>5. OneRunner'
  <2>1. \A q \in Pods : /\ q # p /\ pod[q].phase = "running"
                        /\ new.phase = "running"
                        => pod[q].addr # new.addr
    <3>1. CASE Starts(p, new)
      BY <3>1, AssignableFree DEF Starts, InUse
    <3>2. CASE Patched(p, new)
      BY <3>2 DEF PlaceInv, OneRunner, Patched
    <3>3. CASE Completes(p, new) \/ Touched(p, new) \/ Deleted(p, new)
      BY <3>3 DEF Completes, Touched, Deleted, NoPod
    <3> QED BY <1>1, <3>1, <3>2, <3>3
  <2> QED BY <1>2, <2>1 DEF PlaceInv, OneRunner
<1>6. ClientInv'
  <2> SUFFICES ASSUME NEW l \in Lookups, NEW q \in Pods, look'[l].client = q
               PROVE  /\ pod'[q].phase = "running" /\ pod'[q].addr = look'[l].ip
                      /\ look'[l].pc # "idle"
    BY DEF ClientInv
  <2>1. /\ look'[l].pc = look[l].pc /\ look'[l].ip = look[l].ip
        /\ look[l].client = q /\ (new.phase # "running" => q # p)
    BY <1>1, ClientLeaves, IdentifyAssumption
  <2>2. pod[q].phase = "running" /\ pod[q].addr = look[l].ip /\ look[l].pc # "idle"
    BY <2>1 DEF PlaceInv, ClientInv
  <2>3. CASE q # p
    BY <1>2, <2>1, <2>2, <2>3
  <2>4. CASE q = p
    BY <1>1, <1>2, <2>1, <2>2, <2>4 DEF Starts, Patched, Completes, Touched, Deleted, NoPod
  <2> QED BY <2>3, <2>4
<1>7. StoreInv'
  BY <1>1, ClientLeaves DEF PlaceInv, StoreInv
<1> QED BY <1>3, <1>4, <1>5, <1>6, <1>7 DEF PlaceInv

(* Every step preserves PlaceInv. *)
LEMMA PlaceNext == PlaceInv /\ [Next]_vars => PlaceInv'
<1> SUFFICES ASSUME PlaceInv, [Next]_vars PROVE PlaceInv'
  OBVIOUS
<1>1. DiagnosisInv'
  BY DiagnosisNext DEF PlaceInv
<1>2. CASE UNCHANGED <<pod, look>>
  BY <1>1, <1>2 DEF PlaceInv, PodInv, OneRunner, ClientInv, StoreInv
<1>3. InformerStep => UNCHANGED <<pod, look>>
  BY DEF InformerStep, InformerLists, WatchBreaks, BecomesReady, HandlerRuns,
         clusterVars
<1>4. (\E x \in IPs : EntryExpires(x) \/ TimerFires(x) \/ OverdueTimerFires(x))
         => UNCHANGED <<pod, look>>
  BY DEF EntryExpires, TimerFires, OverdueTimerFires, clusterVars
<1>5. UNCHANGED vars => UNCHANGED <<pod, look>>
  BY DEF vars
<1> QED BY <1>2, <1>3, <1>4, <1>5, PlaceCluster, PlaceStarts, PlaceStep DEF Next

(* It holds before the first pod. *)
LEMMA PlaceInit == Init => PlaceInv
<1> SUFFICES ASSUME Init PROVE PlaceInv
  OBVIOUS
<1>1. DiagnosisInv
  BY DiagnosisInit
<1>2. /\ \A p \in Pods : pod[p] = NoPod
      /\ \A l \in Lookups : look[l] = NoLookup
  BY DEF Init
<1>3. PodInv /\ OneRunner
  BY <1>2 DEF PodInv, OneRunner, NoPod
<1>4. ClientInv /\ StoreInv
  BY <1>2, IdentifyAssumption DEF ClientInv, StoreInv, NoLookup
<1> QED BY <1>1, <1>3, <1>4 DEF PlaceInv

(* A lookup whose client had its address published is about the published  *)
(* address; if the client is labelled, the lookup only checks, lists,      *)
(* stores or is done, and then with an id.                                 *)
ServedInv ==
    /\ \A p \in Pods : pod[p].phase # "done"
    /\ \A l \in Lookups, p \in Pods :
          look[l].client = p /\ look[l].status # None =>
             /\ pod[p].ip = look[l].ip
             /\ pod[p].label \in Ids =>
                   /\ look[l].pc \in {"check", "list", "store", "done"}
                   /\ look[l].pc = "done" => look[l].id \in Ids

(* A change of one lookup preserves ServedInv if its new state conforms. *)
LEMMA ServedLook ==
  ASSUME PlaceInv, ServedInv, pod' = pod,
         NEW l \in Lookups, NEW v \in Lookup, look' = [look EXCEPT ![l] = v],
         v.client \in Pods /\ v.status # None =>
             /\ pod[v.client].ip = v.ip
             /\ pod[v.client].label \in Ids =>
                   /\ v.pc \in {"check", "list", "store", "done"}
                   /\ v.pc = "done" => v.id \in Ids
  PROVE  ServedInv'
<1>1. look \in [Lookups -> Lookup]
  BY DEF PlaceInv, DiagnosisInv, Typed
<1>2. \A m \in Lookups : look'[m] = IF m = l THEN v ELSE look[m]
  BY <1>1
<1> QED BY <1>2 DEF ServedInv

(* The steps of a lookup preserve ServedInv: the list finds the client,    *)
(* and only it, because no other pod runs at its address and none is left  *)
(* from before.                                                            *)
LEMMA ServedStep ==
  ASSUME PlaceInv, ServedInv, "api" \notin Faults,
         NEW l \in Lookups, LookupStep(l)
  PROVE  ServedInv'
<1>1. PICK v \in Lookup :
           /\ look' = [look EXCEPT ![l] = v]
           /\ UNCHANGED clusterVars
           /\ GoesOn(l, v) \/ (v = NoLookup /\ byPodIP' = byPodIP)
  BY LookupShape
<1>2. pod' = pod
  BY <1>1 DEF clusterVars
<1>3. CASE GoesOn(l, v)
  <2> SUFFICES ASSUME v.client \in Pods, v.status # None
               PROVE  /\ pod[v.client].ip = v.ip
                      /\ pod[v.client].label \in Ids =>
                           /\ v.pc \in {"check", "list", "store", "done"}
                           /\ v.pc = "done" => v.id \in Ids
    BY <1>1, <1>2, ServedLook
  <2> DEFINE p == v.client
  <2>1. /\ look[l].client = p /\ look[l].status # None /\ v.ip = look[l].ip
        /\ look[l].pc # "idle"
    BY <1>3 DEF GoesOn
  <2>2. /\ pod[p].ip = look[l].ip /\ pod[p].phase = "running" /\ look[l].ip \in IPs
        /\ pod[p].label \in Ids =>
                   /\ look[l].pc \in {"check", "list", "store", "done"}
                   /\ look[l].pc = "done" => look[l].id \in Ids
    BY <2>1 DEF ServedInv, PlaceInv, ClientInv, DiagnosisInv, Located
  <2> SUFFICES ASSUME pod[p].label \in Ids
               PROVE  /\ v.pc \in {"check", "list", "store", "done"}
                      /\ v.pc = "done" => v.id \in Ids
    BY <2>1, <2>2
  <2>3. PodsAt(look[l].ip) = {p}
    <3>1. p \in PodsAt(look[l].ip)
      BY <2>2, IdentifyAssumption DEF PodsAt, Matches
    <3>2. ASSUME NEW q \in PodsAt(look[l].ip) PROVE q = p
      <4>1. pod[q].phase = "running" /\ pod[q].ip = look[l].ip
        BY <3>2 DEF PodsAt, Matches, ServedInv, PlaceInv, DiagnosisInv, Typed, Pod
      <4>2. look[l].ip # None
        BY <2>2, IdentifyAssumption
      <4>3. pod[q].addr = look[l].ip /\ pod[p].addr = look[l].ip
        BY <2>2, <4>1, <4>2 DEF PodsAt, PlaceInv, PodInv
      <4> QED BY <2>2, <4>1, <4>3 DEF PodsAt, PlaceInv, OneRunner
    <3> QED BY <3>1, <3>2
  <2>4. CASE Hit(l, v)
    <3>1. byPodIP[look[l].ip] \in Ids \cup {None}
      BY <2>2 DEF PlaceInv, DiagnosisInv, Typed
    <3> QED BY <2>4, <3>1 DEF Hit
  <2>5. CASE Found(l, v)
    BY <2>3, <2>5, IdentifyAssumption DEF Found
  <2>6. CASE Stored(l, v)
    BY <2>6 DEF Stored, PlaceInv, StoreInv
  <2>7. CASE Moved(l, v)
    BY <2>2, <2>3, <2>7 DEF Moved
  <2> QED BY <1>3, <2>4, <2>5, <2>6, <2>7 DEF GoesOn
<1>4. CASE v = NoLookup
  <2>1. v.client \notin Pods
    BY <1>4, IdentifyAssumption DEF NoLookup
  <2> QED BY <1>1, <1>2, <2>1, ServedLook
<1> QED BY <1>1, <1>3, <1>4

(* So does its start. *)
LEMMA ServedStarts ==
  ASSUME PlaceInv, ServedInv, NEW l \in Lookups, NEW p \in Pods, LookupStarts(l, p)
  PROVE  ServedInv'
<1>1. PICK v \in Lookup :
           /\ look' = [look EXCEPT ![l] = v]
           /\ UNCHANGED clusterVars /\ byPodIP' = byPodIP
           /\ pod[p].phase = "running" /\ pod[p].addr \in IPs
           /\ v.pc = "check" /\ v.ip = pod[p].addr /\ v.id = None
           /\ v.client = p /\ v.status = pod[p].ip
  BY StartShape
<1>2. v.status # None => pod[p].ip = v.ip
  BY <1>1 DEF PlaceInv, PodInv
<1> QED BY <1>1, <1>2, ServedLook DEF clusterVars

(* So does the cluster: the client of such a lookup can only go. *)
LEMMA ServedCluster ==
  ASSUME PlaceInv, ServedInv, "jobs" \notin Faults, ClusterStep
  PROVE  ServedInv'
<1>1. PICK p \in Pods, new \in Pod :
            /\ PodBecomes(p, new)
            /\ \/ Starts(p, new) \/ Patched(p, new) \/ Completes(p, new)
               \/ Touched(p, new) \/ Deleted(p, new)
  BY ClusterShape
<1>2. \A q \in Pods : pod'[q] = IF q = p THEN new ELSE pod[q]
  BY <1>1, PodChanges
<1>3. Starts(p, new) \/ Patched(p, new) \/ Deleted(p, new)
  BY <1>1 DEF Completes, Touched, ServedInv
<1>4. \A q \in Pods : pod'[q].phase # "done"
  BY <1>2, <1>3 DEF ServedInv, Starts, Patched, Deleted, NoPod
<1>5. ASSUME NEW l \in Lookups, NEW q \in Pods, look'[l].client = q,
             look'[l].status # None
      PROVE  /\ pod'[q].ip = look'[l].ip
             /\ pod'[q].label \in Ids =>
                   /\ look'[l].pc \in {"check", "list", "store", "done"}
                   /\ look'[l].pc = "done" => look'[l].id \in Ids
  <2>1. /\ look'[l].pc = look[l].pc /\ look'[l].ip = look[l].ip
        /\ look'[l].id = look[l].id /\ look'[l].status = look[l].status
        /\ look[l].client = q /\ (new.phase # "running" => q # p)
    BY <1>1, <1>5, ClientLeaves, IdentifyAssumption
  <2>2. pod[q].phase = "running" /\ pod[q].ip = look[l].ip /\ look[l].ip \in IPs
    BY <1>5, <2>1 DEF PlaceInv, ClientInv, ServedInv, DiagnosisInv, Located
  <2>3. q # p
    BY <1>3, <2>1, <2>2, IdentifyAssumption DEF Starts, Patched, Deleted, NoPod
  <2> QED BY <1>2, <1>5, <2>1, <2>3 DEF ServedInv
<1> QED BY <1>4, <1>5 DEF ServedInv

(* A labelled pod whose address was published before it asked is never     *)
(* answered 403, as long as pods do not complete and lists do not fail:    *)
(* whatever the informer missed, and however quickly addresses pass from   *)
(* pod to pod, the fallback of Lookup makes up for it.                     *)
THEOREM LabelledServed ==
  Faults \cap {"jobs", "api"} = {} => (Spec => []NoFalseForbidden)
<1> SUFFICES ASSUME Faults \cap {"jobs", "api"} = {} PROVE Spec => []NoFalseForbidden
  OBVIOUS
<1>0. "jobs" \notin Faults /\ "api" \notin Faults
  OBVIOUS
<1>1. Init => ServedInv
  <2> SUFFICES ASSUME Init PROVE ServedInv
    OBVIOUS
  <2>1. /\ \A p \in Pods : pod[p] = NoPod
        /\ \A l \in Lookups : look[l] = NoLookup
    BY DEF Init
  <2> QED BY <2>1 DEF ServedInv, NoPod, NoLookup
<1>2. PlaceInv /\ ServedInv /\ [Next]_vars => ServedInv'
  <2> SUFFICES ASSUME PlaceInv, ServedInv, [Next]_vars PROVE ServedInv'
    OBVIOUS
  <2>1. CASE UNCHANGED <<pod, look>>
    BY <2>1 DEF ServedInv
  <2>2. InformerStep => UNCHANGED <<pod, look>>
    BY DEF InformerStep, InformerLists, WatchBreaks, BecomesReady, HandlerRuns,
           clusterVars
  <2>3. (\E x \in IPs : EntryExpires(x) \/ TimerFires(x) \/ OverdueTimerFires(x))
           => UNCHANGED <<pod, look>>
    BY DEF EntryExpires, TimerFires, OverdueTimerFires, clusterVars
  <2>4. UNCHANGED vars => UNCHANGED <<pod, look>>
    BY DEF vars
  <2> QED BY <1>0, <2>1, <2>2, <2>3, <2>4, ServedCluster, ServedStarts, ServedStep
             DEF Next
<1>3. ServedInv => NoFalseForbidden
  BY IdentifyAssumption DEF ServedInv, NoFalseForbidden, Answered
<1> QED BY <1>1, <1>2, <1>3, PlaceInit, PlaceNext, PTL DEF Spec

(* The members of a sequence. *)
Elems(s) == {s[i] : i \in DOMAIN s}

(* Append adds one, *)
LEMMA ElemsAppend ==
  ASSUME NEW s \in Seq(Event), NEW e \in Event
  PROVE  Append(s, e) \in Seq(Event) /\ Elems(Append(s, e)) = Elems(s) \cup {e}
<1>1. /\ Append(s, e) \in Seq(Event)
      /\ DOMAIN Append(s, e) = 1..(Len(s) + 1) /\ DOMAIN s = 1..Len(s) /\ Len(s) \in Nat
      /\ \A i \in 1..Len(s) : Append(s, e)[i] = s[i]
      /\ Append(s, e)[Len(s) + 1] = e
  OBVIOUS
<1>2. \A i \in 1..(Len(s) + 1) : i \in 1..Len(s) \/ i = Len(s) + 1
  BY <1>1
<1>3. Len(s) + 1 \in 1..(Len(s) + 1) /\ 1..Len(s) \subseteq 1..(Len(s) + 1)
  BY <1>1
<1> HIDE DEF Elems
<1>4. \A d : d \in Elems(Append(s, e)) <=> d \in Elems(s) \cup {e}
  <2>1. \A d : d \in Elems(Append(s, e)) => d \in Elems(s) \cup {e}
    BY <1>1, <1>2 DEF Elems
  <2>2. \A d \in Elems(s) : d \in Elems(Append(s, e))
    BY <1>1, <1>3 DEF Elems
  <2>3. e \in Elems(Append(s, e))
    BY <1>1, <1>3 DEF Elems
  <2> QED BY <2>1, <2>2, <2>3
<1> QED BY <1>1, <1>4

(* Head and Tail split them, *)
LEMMA ElemsTail ==
  ASSUME NEW s \in Seq(Event), s # <<>>
  PROVE  /\ Head(s) \in Event /\ Tail(s) \in Seq(Event)
         /\ Elems(s) = Elems(Tail(s)) \cup {Head(s)}
<1>1. /\ Head(s) \in Event /\ Tail(s) \in Seq(Event)
      /\ Len(s) \in Nat \ {0} /\ DOMAIN s = 1..Len(s)
      /\ DOMAIN Tail(s) = 1..(Len(s) - 1) /\ Head(s) = s[1]
      /\ \A i \in 1..(Len(s) - 1) : Tail(s)[i] = s[i + 1]
  OBVIOUS
<1>2. \A i \in 1..Len(s) : i = 1 \/ (i - 1 \in 1..(Len(s) - 1) /\ i = (i - 1) + 1)
  BY <1>1
<1>3. 1 \in 1..Len(s) /\ \A i \in 1..(Len(s) - 1) : i + 1 \in 1..Len(s)
  BY <1>1
<1>4. \A d \in Elems(s) : d \in Elems(Tail(s)) \cup {Head(s)}
  <2> SUFFICES ASSUME NEW i \in 1..Len(s) PROVE s[i] \in Elems(Tail(s)) \cup {Head(s)}
    BY <1>1 DEF Elems
  <2>1. CASE i = 1
    BY <1>1, <2>1
  <2>2. CASE i # 1
    <3>1. i - 1 \in DOMAIN Tail(s) /\ s[i] = Tail(s)[i - 1]
      BY <1>1, <1>2, <2>2
    <3> QED BY <3>1 DEF Elems
  <2> QED BY <2>1, <2>2
<1>5. \A d \in Elems(Tail(s)) : d \in Elems(s)
  BY <1>1, <1>3 DEF Elems
<1>6. Head(s) \in Elems(s)
  BY <1>1, <1>3 DEF Elems
<1> QED BY <1>1, <1>4, <1>5, <1>6

(* and concatenation unites them. *)
LEMMA ElemsConcat ==
  ASSUME NEW s \in Seq(Event), NEW t \in Seq(Event)
  PROVE  s \o t \in Seq(Event) /\ Elems(s \o t) = Elems(s) \cup Elems(t)
<1>1. /\ s \o t \in Seq(Event) /\ Len(s) \in Nat /\ Len(t) \in Nat
      /\ DOMAIN s = 1..Len(s) /\ DOMAIN t = 1..Len(t)
      /\ DOMAIN (s \o t) = 1..(Len(s) + Len(t))
      /\ \A i \in 1..(Len(s) + Len(t)) :
            (s \o t)[i] = IF i <= Len(s) THEN s[i] ELSE t[i - Len(s)]
  BY ConcatProperties
<1>2. \A i \in 1..(Len(s) + Len(t)) :
         \/ i <= Len(s) /\ i \in 1..Len(s)
         \/ ~(i <= Len(s)) /\ i - Len(s) \in 1..Len(t)
  BY <1>1
<1>3. \A i \in 1..Len(s) : i \in 1..(Len(s) + Len(t)) /\ i <= Len(s)
  BY <1>1
<1>4. \A i \in 1..Len(t) : /\ Len(s) + i \in 1..(Len(s) + Len(t))
                           /\ ~(Len(s) + i <= Len(s)) /\ (Len(s) + i) - Len(s) = i
  BY <1>1
<1>5. \A d \in Elems(s \o t) : d \in Elems(s) \cup Elems(t)
  BY <1>1, <1>2 DEF Elems
<1>6. \A d \in Elems(s) : d \in Elems(s \o t)
  BY <1>1, <1>3 DEF Elems
<1>7. \A d \in Elems(t) : d \in Elems(s \o t)
  <2> SUFFICES ASSUME NEW i \in 1..Len(t) PROVE t[i] \in Elems(s \o t)
    BY <1>1 DEF Elems
  <2>1. (s \o t)[Len(s) + i] = t[i]
    BY <1>1, <1>4
  <2> QED BY <1>1, <1>4, <2>1 DEF Elems
<1> QED BY <1>1, <1>5, <1>6, <1>7

(* The types of the informer's side. *)
QueueTyped ==
    /\ known \in [Pods -> Pod]
    /\ events \in Seq(Event)

(* A notification carries the new object, or the old one if the object     *)
(* left the selection.                                                     *)
LEMMA ChangeTyped ==
  ASSUME NEW old \in Pod, NEW new \in Pod
  PROVE  /\ Change(old, new) \in Event
         /\ Change(old, new).pod = IF Matches(new) THEN new ELSE old
         /\ Change(old, new).type = "delete" <=> ~Matches(new)
  BY DEF Change, Event

(* What a change of a pod does to the informer's store and to the events. *)
LEMMA QueuePod ==
  ASSUME PlaceInv, QueueTyped, NEW p \in Pods, NEW new \in Pod, PodBecomes(p, new)
  PROVE  /\ QueueTyped'
         /\ \A q \in Pods : known'[q] = IF watching /\ q = p
                                          THEN IF Matches(new) THEN new ELSE NoPod
                                          ELSE known[q]
         /\ Elems(events') = Elems(events) \cup
               {e \in {Change(known[p], new)} :
                   watching /\ (Matches(known[p]) \/ Matches(new))}
<1>1. NoPod \in Pod /\ known[p] \in Pod
  BY DEF NoPod, Pod, Labels, QueueTyped
<1>2. Change(known[p], new) \in Event
  BY <1>1, ChangeTyped
<1>3. /\ known' \in [Pods -> Pod]
      /\ \A q \in Pods : known'[q] = IF watching /\ q = p
                                          THEN IF Matches(new) THEN new ELSE NoPod
                                          ELSE known[q]
  BY <1>1 DEF PodBecomes, QueueTyped
<1>4. CASE watching /\ (Matches(known[p]) \/ Matches(new))
  <2>1. events' = Append(events, Change(known[p], new)) /\ events \in Seq(Event)
    BY <1>4 DEF PodBecomes, QueueTyped
  <2>2. events' \in Seq(Event) /\ Elems(events') = Elems(events) \cup {Change(known[p], new)}
    BY <1>2, <2>1, ElemsAppend
  <2> QED BY <1>3, <1>4, <2>2 DEF QueueTyped
<1>5. CASE ~(watching /\ (Matches(known[p]) \/ Matches(new)))
  <2>1. events' = events
    BY <1>5 DEF PodBecomes
  <2> QED BY <1>3, <1>5, <2>1 DEF QueueTyped
<1> QED BY <1>4, <1>5

(* What a list does to them, in whatever order it reports. *)
LEMMA QueueLists ==
  ASSUME PlaceInv, QueueTyped, NEW f \in ListOrders, InformerLists(f)
  PROVE  /\ QueueTyped'
         /\ \A p \in Pods : known'[p] = IF Matches(pod[p]) THEN pod[p] ELSE NoPod
         /\ Elems(events') = Elems(events) \cup
               {Change(known[p], IF Matches(pod[p]) THEN pod[p] ELSE NoPod) :
                   p \in {q \in Pods : Matches(known[q]) \/ Matches(pod[q])}}
<1> DEFINE told == {p \in Pods : Matches(known[p]) \/ Matches(pod[p])}
           t == [i \in DOMAIN f |-> Change(known[f[i]], Listed[f[i]])]
           now(p) == IF Matches(pod[p]) THEN pod[p] ELSE NoPod
           tell == {Change(known[p], now(p)) : p \in told}
<1>1. /\ f \in [1..Cardinality(told) -> told]
      /\ \A p \in told : \E i \in DOMAIN f : f[i] = p
  BY DEF ListOrders
<1>2. Cardinality(told) \in Nat
  <2>1. IsFiniteSet(told)
    BY IdentifyAssumption, FS_Subset
  <2> QED BY <2>1, FS_CardinalityType
<1>3. NoPod \in Pod /\ pod \in [Pods -> Pod] /\ known \in [Pods -> Pod]
  BY DEF NoPod, Pod, Labels, QueueTyped, PlaceInv, DiagnosisInv, Typed
<1>4. /\ Listed \in [Pods -> Pod]
      /\ \A p \in Pods : Listed[p] = now(p)
  BY <1>3 DEF Listed
<1>5. \A p \in Pods : Change(known[p], now(p)) \in Event
  BY <1>3, <1>4, ChangeTyped
<1>6. t \in Seq(Event)
  <2>1. t \in [1..Cardinality(told) -> Event]
    BY <1>1, <1>4, <1>5
  <2> HIDE DEF t
  <2> QED BY <1>2, <2>1, SeqDef
<1>7. Elems(t) = tell
  <2>1. \A i \in DOMAIN f : t[i] = Change(known[f[i]], now(f[i])) /\ f[i] \in told
    BY <1>1, <1>4
  <2>2. DOMAIN t = DOMAIN f
    OBVIOUS
  <2> HIDE DEF t, now, told
  <2> QED BY <1>1, <2>1, <2>2 DEF Elems
<1>8. events' = events \o t /\ known' = Listed
  BY DEF InformerLists
<1> HIDE DEF t
<1>9. events' \in Seq(Event) /\ Elems(events') = Elems(events) \cup tell
  BY <1>6, <1>7, <1>8, ElemsConcat DEF QueueTyped
<1> QED BY <1>4, <1>8, <1>9 DEF QueueTyped

(* Every step preserves QueueTyped. *)
LEMMA QueueTypedNext == PlaceInv /\ QueueTyped /\ [Next]_vars => QueueTyped'
<1> SUFFICES ASSUME PlaceInv, QueueTyped, [Next]_vars PROVE QueueTyped'
  OBVIOUS
<1>1. CASE UNCHANGED <<known, events>>
  BY <1>1 DEF QueueTyped
<1>2. CASE ClusterStep
  BY <1>2, ClusterShape, QueuePod
<1>3. CASE InformerStep
  <2>1. CASE \E f \in ListOrders : InformerLists(f)
    BY <2>1, QueueLists
  <2>2. CASE HandlerRuns
    BY <2>2, ElemsTail DEF HandlerRuns, QueueTyped
  <2>3. CASE WatchBreaks \/ BecomesReady
    BY <1>1, <2>3 DEF WatchBreaks, BecomesReady, clusterVars
  <2> QED BY <1>3, <2>1, <2>2, <2>3 DEF InformerStep
<1>4. ASSUME NEW l \in Lookups, NEW p \in Pods, LookupStarts(l, p) PROVE QueueTyped'
  BY <1>1, <1>4 DEF LookupStarts, clusterVars
<1>5. ASSUME NEW l \in Lookups, LookupStep(l) PROVE QueueTyped'
  BY <1>1, <1>5, LookupShape DEF clusterVars
<1>6. ASSUME NEW x \in IPs, EntryExpires(x) \/ TimerFires(x) \/ OverdueTimerFires(x)
      PROVE  QueueTyped'
  BY <1>1, <1>6 DEF EntryExpires, TimerFires, OverdueTimerFires, clusterVars
<1>7. CASE UNCHANGED vars
  BY <1>1, <1>7 DEF vars
<1> QED BY <1>2, <1>3, <1>4, <1>5, <1>6, <1>7 DEF Next

(* The types of the rest. *)
FlagsTyped == ready \in BOOLEAN /\ watching \in BOOLEAN /\ overdue \in SUBSET IPs

(* Every step preserves FlagsTyped. *)
LEMMA FlagsTypedNext == PlaceInv /\ FlagsTyped /\ [Next]_vars => FlagsTyped'
<1> SUFFICES ASSUME PlaceInv, FlagsTyped, [Next]_vars PROVE FlagsTyped'
  OBVIOUS
<1> USE DEF clusterVars, indexVars
<1>1. CASE UNCHANGED <<ready, watching, overdue>>
  BY <1>1 DEF FlagsTyped
<1>2. CASE ClusterStep
  BY <1>1, <1>2, ClusterShape DEF PodBecomes
<1>3. CASE InformerStep
  BY <1>3 DEF InformerStep, InformerLists, HandlerRuns, WatchBreaks, BecomesReady, FlagsTyped
<1>4. ASSUME NEW l \in Lookups, NEW p \in Pods, LookupStarts(l, p) PROVE FlagsTyped'
  BY <1>1, <1>4 DEF LookupStarts
<1>5. ASSUME NEW l \in Lookups, LookupStep(l) PROVE FlagsTyped'
  <2>1. look[l].pc # "idle" => look[l].ip \in IPs
    BY DEF PlaceInv, DiagnosisInv, Located
  <2>2. CASE ClaimSucceeds(l) \/ DiagnoseFails(l)
    BY <2>1, <2>2 DEF ClaimSucceeds, DiagnoseFails, Moves, FlagsTyped
  <2>3. CASE \/ CacheHit(l) \/ CacheMiss(l) \/ ListFinds(l) \/ ListFindsNothing(l)
             \/ ListFails(l) \/ ClaimRefused(l) \/ DiagnoseDone(l)
             \/ Stores(l) \/ SleepEnds(l) \/ LookupEnds(l)
    BY <1>1, <2>3 DEF CacheHit, CacheMiss, ListFinds, ListFindsNothing, ListFails,
       ClaimRefused, DiagnoseDone, Stores, SleepEnds, LookupEnds, Moves, Returns
  <2> QED BY <1>5, <2>2, <2>3 DEF LookupStep
<1>6. ASSUME NEW x \in IPs, EntryExpires(x) \/ TimerFires(x) \/ OverdueTimerFires(x)
      PROVE  FlagsTyped'
  BY <1>6 DEF EntryExpires, TimerFires, OverdueTimerFires, FlagsTyped
<1>7. CASE UNCHANGED vars
  BY <1>1, <1>7 DEF vars
<1> QED BY <1>2, <1>3, <1>4, <1>5, <1>6, <1>7 DEF Next

(* Both hold at first. *)
LEMMA QueueInit == Init => QueueTyped /\ FlagsTyped
<1> SUFFICES ASSUME Init PROVE QueueTyped /\ FlagsTyped
  OBVIOUS
<1>1. NoPod \in Pod
  BY DEF NoPod, Pod, Labels
<1>2. known \in [Pods -> Pod] /\ FlagsTyped
  BY <1>1 DEF Init, FlagsTyped
<1>3. events \in Seq(Event)
  BY EmptySeq DEF Init
<1> QED BY <1>2, <1>3 DEF QueueTyped

(* The index, the events and the lookups stay typed: what Registers lets   *)
(* into byPodIP is an id, never an empty label, and no lookup polls more   *)
(* than MaxTries times.                                                    *)
THEOREM IndexTypeCorrect == Spec => []TypeOK
<1>1. PlaceInv /\ QueueTyped /\ FlagsTyped => TypeOK
  BY DEF PlaceInv, DiagnosisInv, Typed, QueueTyped, FlagsTyped, TypeOK
<1> QED BY <1>1, PlaceInit, PlaceNext, QueueInit, QueueTypedNext, FlagsTypedNext, PTL DEF Spec

(* The informer's store has only labelled pods, and while the watch is     *)
(* open exactly those of the cluster.                                      *)
KnownInv ==
    /\ \A p \in Pods : known[p] = NoPod \/ Matches(known[p])
    /\ watching => \A p \in Pods :
                      known[p] = IF Matches(pod[p]) THEN pod[p] ELSE NoPod

(* Every step preserves KnownInv. *)
LEMMA KnownNext == PlaceInv /\ QueueTyped /\ KnownInv /\ [Next]_vars => KnownInv'
<1> SUFFICES ASSUME PlaceInv, QueueTyped, KnownInv, [Next]_vars PROVE KnownInv'
  OBVIOUS
<1>1. CASE UNCHANGED <<pod, known, watching>>
  BY <1>1 DEF KnownInv, Matches
<1>2. CASE ClusterStep
  <2>1. PICK p \in Pods, new \in Pod : PodBecomes(p, new)
    BY <1>2, ClusterShape
  <2>2. \A q \in Pods : pod'[q] = IF q = p THEN new ELSE pod[q]
    BY <2>1, PodChanges
  <2>3. \A q \in Pods : known'[q] = IF watching /\ q = p
                                          THEN IF Matches(new) THEN new ELSE NoPod
                                          ELSE known[q]
    BY <2>1, QueuePod
  <2>4. watching' = watching
    BY <2>1 DEF PodBecomes
  <2> QED BY <2>2, <2>3, <2>4 DEF KnownInv, Matches
<1>3. CASE InformerStep
  <2>1. ASSUME NEW f \in ListOrders, InformerLists(f) PROVE KnownInv'
    <3>1. \A p \in Pods : known'[p] = IF Matches(pod[p]) THEN pod[p] ELSE NoPod
      BY <2>1, QueueLists
    <3>2. pod' = pod
      BY <2>1 DEF InformerLists
    <3> QED BY <3>1, <3>2 DEF KnownInv, Matches
  <2>2. CASE HandlerRuns \/ BecomesReady
    BY <1>1, <2>2 DEF HandlerRuns, BecomesReady, clusterVars
  <2>3. CASE WatchBreaks
    BY <2>3 DEF WatchBreaks, KnownInv, Matches
  <2> QED BY <1>3, <2>1, <2>2, <2>3 DEF InformerStep
<1>4. ASSUME NEW l \in Lookups, NEW p \in Pods, LookupStarts(l, p) PROVE KnownInv'
  BY <1>1, <1>4 DEF LookupStarts, clusterVars
<1>5. ASSUME NEW l \in Lookups, LookupStep(l) PROVE KnownInv'
  BY <1>1, <1>5, LookupShape DEF clusterVars
<1>6. ASSUME NEW x \in IPs, EntryExpires(x) \/ TimerFires(x) \/ OverdueTimerFires(x)
      PROVE  KnownInv'
  BY <1>1, <1>6 DEF EntryExpires, TimerFires, OverdueTimerFires, clusterVars
<1>7. CASE UNCHANGED vars
  BY <1>1, <1>7 DEF vars
<1> QED BY <1>2, <1>3, <1>4, <1>5, <1>6, <1>7 DEF Next

(* Object o, or what the informer's store has under its name, k, is at     *)
(* address x with label b.                                                 *)
Holds(o, k, x, b) ==
    \/ o.label = b /\ (o.ip = x \/ (o.phase = "running" /\ o.addr = x))
    \/ k.label = b /\ k.ip = x

(* Pod p owns address x, with label b. *)
Owns(p, x, b) == Holds(pod[p], known[p], x, b)

(* An address has one owner, with one label. *)
OneOwner ==
    \A x \in IPs, p, q \in Pods, b, c \in Labels :
        Owns(p, x, b) /\ Owns(q, x, c) => p = q /\ b = c

(* An event about an owned address is no delete and carries the owner's    *)
(* label.                                                                  *)
EventInv ==
    \A e \in Elems(events), p \in Pods, b \in Labels :
        e.pod.ip \in IPs /\ Owns(p, e.pod.ip, b)
            => e.type # "delete" /\ e.pod.label = b

(* The entry of an owned address is the owner's label, if there is one. *)
IndexInv ==
    \A x \in IPs, p \in Pods, b \in Labels :
        Owns(p, x, b) => byPodIP[x] \in {None, b}

(* So is what a lookup of it has found. *)
AnswerInv ==
    \A l \in Lookups, p \in Pods, b \in Labels :
        look[l].ip \in IPs /\ Owns(p, look[l].ip, b) => look[l].id \in {None, b}

(* What the informer's store knows is in the index or on its way there. *)
AnnouncedInv ==
    \A p \in Pods :
        known[p].label \in Ids /\ known[p].ip \in IPs =>
            \/ byPodIP[known[p].ip] = known[p].label
            \/ \E e \in Elems(events) : Registers(e) /\ e.pod.ip = known[p].ip

(* What holds while addresses are not reused early. *)
FreshInv == OneOwner /\ EventInv /\ IndexInv /\ AnswerInv /\ AnnouncedInv

(* What it rests on. *)
BaseInv == PlaceInv /\ QueueTyped /\ KnownInv

(* The types the argument needs. *)
LEMMA FreshTyped ==
  ASSUME BaseInv
  PROVE  /\ pod \in [Pods -> Pod] /\ known \in [Pods -> Pod]
         /\ \A p \in Pods : /\ pod[p].label \in Labels /\ known[p].label \in Labels
                            /\ pod[p].ip \in IPs \cup {None} /\ known[p].ip \in IPs \cup {None}
         /\ events \in Seq(Event)
         /\ byPodIP \in [IPs -> Ids \cup {None}]
         /\ look \in [Lookups -> Lookup]
  BY DEF BaseInv, PlaceInv, DiagnosisInv, Typed, QueueTyped, Pod

(* An address that is given out has left no trace. *)
LEMMA StartsFresh ==
  ASSUME BaseInv, Faults \cap {"reuse", "early"} = {},
         NEW p \in Pods, NEW new \in Pod, Starts(p, new)
  PROVE  /\ new.addr \in IPs
         /\ \A q \in Pods, b \in Labels : ~Owns(q, new.addr, b)
         /\ \A e \in Elems(events) : e.pod.ip # new.addr
         /\ byPodIP[new.addr] = None
         /\ \A l \in Lookups : look[l].ip # new.addr
<1>1. "early" \notin Faults /\ "reuse" \notin Faults
  OBVIOUS
<1>2. Assignable = IPs \ (InUse \cup Announced \cup Remembered)
  BY <1>1, Zenon DEF Assignable
<1>3. new.addr \in IPs \ (InUse \cup Announced \cup Remembered)
  BY <1>2 DEF Starts
<1>4. \A q \in Pods, b \in Labels : ~Owns(q, new.addr, b)
  BY <1>3 DEF Owns, Holds, InUse, Announced
<1>5. \A e \in Elems(events) : e.pod.ip # new.addr
  BY <1>3 DEF Elems, Announced
<1>6. byPodIP[new.addr] = None /\ \A l \in Lookups : look[l].ip # new.addr
  BY <1>3 DEF Remembered
<1> QED BY <1>3, <1>4, <1>5, <1>6

(* When the informer is told that a pod it knew at x is gone, nobody owns  *)
(* x any more: the owner could only be that pod under that label, and its  *)
(* object o is gone or unlabelled.                                         *)
LEMMA GoneUnowned ==
  ASSUME BaseInv, FreshInv, NEW p \in Pods, NEW x \in IPs, known[p].ip = x,
         NEW o \in Pod, ~Matches(o), o.phase = "none" => o = NoPod,
         NEW q \in Pods, NEW b \in Labels, Owns(q, x, b)
  PROVE  q = p /\ ~Holds(o, NoPod, x, b)
<1>1. known[p].label \in Labels /\ known[p].label # None
  BY IdentifyAssumption, FreshTyped DEF BaseInv, KnownInv, Matches, NoPod
<1>2. Owns(p, x, known[p].label)
  BY DEF Owns, Holds
<1>3. q = p /\ b = known[p].label
  BY <1>1, <1>2 DEF FreshInv, OneOwner
<1>4. ~Holds(o, NoPod, x, b)
  BY <1>1, <1>3, IdentifyAssumption DEF Holds, Matches, NoPod
<1> QED BY <1>3, <1>4

(* The cluster preserves FreshInv.  Only a start makes an owner, and of an *)
(* address without traces.                                                 *)
LEMMA FreshCluster ==
  ASSUME BaseInv, BaseInv', FreshInv, Faults \cap {"reuse", "early"} = {}, ClusterStep
  PROVE  FreshInv'
<1>0. PlaceInv /\ QueueTyped
  BY DEF BaseInv
<1>1. PICK p \in Pods, new \in Pod :
            /\ PodBecomes(p, new)
            /\ \/ Starts(p, new) \/ Patched(p, new) \/ Completes(p, new)
               \/ Touched(p, new) \/ Deleted(p, new)
  BY <1>0, ClusterShape
<1>2. \A q \in Pods : pod'[q] = IF q = p THEN new ELSE pod[q]
  BY <1>0, <1>1, PodChanges
<1>3. /\ \A q \in Pods : known'[q] = IF watching /\ q = p
                                          THEN IF Matches(new) THEN new ELSE NoPod
                                          ELSE known[q]
      /\ Elems(events') = Elems(events) \cup
               {e \in {Change(known[p], new)} :
                   watching /\ (Matches(known[p]) \/ Matches(new))}
  BY <1>0, <1>1, QueuePod
<1>4. new \in Pod /\ known[p] \in Pod
  BY FreshTyped
<1>5. /\ Change(known[p], new).pod = IF Matches(new) THEN new ELSE known[p]
      /\ Change(known[p], new).type = "delete" <=> ~Matches(new)
  BY <1>4, ChangeTyped
<1>6. byPodIP' = byPodIP
  BY <1>1 DEF PodBecomes, indexVars
<1>7. \A l \in Lookups : look'[l].ip = look[l].ip /\ look'[l].id = look[l].id
  BY <1>0, <1>1, ClientLeaves
<1>8. None \notin IPs
  BY IdentifyAssumption
<1>9. ASSUME NEW q \in Pods, NEW x \in IPs, NEW b \in Labels, Owns(q, x, b)'
      PROVE  \/ Owns(q, x, b)
             \/ Starts(p, new) /\ q = p /\ x = new.addr /\ b = new.label
  <2>1. CASE q # p
    BY <1>2, <1>3, <1>9, <2>1 DEF Owns
  <2>2. CASE q = p
    <3>1. Holds(new, known'[p], x, b)
      BY <1>2, <1>9, <2>2 DEF Owns
    <3>2. CASE known'[p].label = b /\ known'[p].ip = x /\ ~watching
      BY <1>3, <2>2, <3>2 DEF Owns, Holds
    <3>3. CASE new.label = b /\ (new.ip = x \/ (new.phase = "running" /\ new.addr = x))
      BY <1>1, <1>8, <2>2, <3>3 DEF Owns, Holds, Starts, Patched, Completes,
         Touched, Deleted, NoPod
    <3>4. CASE known'[p].label = b /\ known'[p].ip = x /\ watching
      BY <1>3, <1>8, <3>3, <3>4 DEF NoPod
    <3> QED BY <3>1, <3>2, <3>3, <3>4 DEF Holds
  <2> QED BY <2>1, <2>2
<1>10. OneOwner'
  <2> SUFFICES ASSUME NEW x \in IPs, NEW q \in Pods, NEW r \in Pods,
                      NEW b \in Labels, NEW c \in Labels,
                      Owns(q, x, b)', Owns(r, x, c)'
               PROVE  q = r /\ b = c
    BY DEF OneOwner
  <2>1. CASE Owns(q, x, b) /\ Owns(r, x, c)
    BY <2>1 DEF FreshInv, OneOwner
  <2>2. CASE Starts(p, new) /\ x = new.addr
    BY <1>9, <2>2, StartsFresh
  <2> QED BY <1>9, <2>1, <2>2
<1>11. EventInv'
  <2> SUFFICES ASSUME NEW e \in Elems(events'), NEW q \in Pods, NEW b \in Labels,
                      e.pod.ip \in IPs, Owns(q, e.pod.ip, b)'
               PROVE  e.type # "delete" /\ e.pod.label = b
    BY DEF EventInv
  <2>1. CASE e \in Elems(events)
    <3>1. Owns(q, e.pod.ip, b)
      BY <1>9, <2>1, StartsFresh
    <3> QED BY <2>1, <3>1 DEF FreshInv, EventInv
  <2>2. CASE /\ watching /\ (Matches(known[p]) \/ Matches(new))
             /\ e = Change(known[p], new)
    <3>1. CASE Matches(new)
      <4>1. e.pod = new /\ e.type # "delete"
        BY <1>5, <2>2, <3>1
      <4>2. new.label \in Labels
        BY <1>4 DEF Pod
      <4>3. Owns(p, e.pod.ip, new.label)'
        BY <1>2, <4>1 DEF Owns, Holds
      <4> QED BY <1>10, <4>1, <4>2, <4>3 DEF OneOwner
    <3>2. CASE ~Matches(new)
      <4>1. e.pod = known[p]
        BY <1>5, <2>2, <3>2
      <4>2. Owns(p, e.pod.ip, known[p].label) /\ known[p].label \in Labels
        BY <4>1, FreshTyped DEF Owns, Holds
      <4>3. Owns(q, e.pod.ip, b)
        BY <1>9, <4>2, StartsFresh
      <4>4. new.phase = "none" => new = NoPod
        BY <1>2 DEF BaseInv, PlaceInv, PodInv
      <4>5. q = p /\ ~Holds(new, NoPod, e.pod.ip, b)
        BY <1>4, <3>2, <4>1, <4>3, <4>4, GoneUnowned
      <4>6. Holds(new, NoPod, e.pod.ip, b)
        BY <1>2, <1>3, <2>2, <3>2, <4>5 DEF Owns
      <4> QED BY <4>5, <4>6
    <3> QED BY <3>1, <3>2
  <2> QED BY <1>3, <2>1, <2>2
<1>12. IndexInv'
  <2> SUFFICES ASSUME NEW x \in IPs, NEW q \in Pods, NEW b \in Labels, Owns(q, x, b)'
               PROVE  byPodIP[x] \in {None, b}
    BY <1>6 DEF IndexInv
  <2> QED BY <1>9, StartsFresh DEF FreshInv, IndexInv
<1>13. AnswerInv'
  <2> SUFFICES ASSUME NEW l \in Lookups, NEW q \in Pods, NEW b \in Labels,
                      NEW x \in IPs, look[l].ip = x, Owns(q, x, b)'
               PROVE  look[l].id \in {None, b}
    BY <1>7 DEF AnswerInv, Owns
  <2> QED BY <1>9, StartsFresh DEF FreshInv, AnswerInv
<1>14. AnnouncedInv'
  <2> SUFFICES ASSUME NEW q \in Pods, known'[q].label \in Ids, known'[q].ip \in IPs
               PROVE  \/ byPodIP[known'[q].ip] = known'[q].label
                      \/ \E e \in Elems(events') : Registers(e) /\ e.pod.ip = known'[q].ip
    BY <1>6 DEF AnnouncedInv, Registers
  <2>1. CASE known'[q] = known[q]
    BY <1>3, <2>1 DEF FreshInv, AnnouncedInv
  <2>2. CASE known'[q] # known[q]
    <3>1. watching /\ q = p /\ known'[p] = new /\ Matches(new)
      BY <1>3, <1>8, <2>2 DEF NoPod
    <3>2. Change(known[p], new) \in Elems(events')
      BY <1>3, <3>1
    <3>3. Registers(Change(known[p], new)) /\ Change(known[p], new).pod = new
      BY <1>5, <1>8, <3>1 DEF Registers
    <3> QED BY <3>1, <3>2, <3>3
  <2> QED BY <2>1, <2>2
<1> QED BY <1>10, <1>11, <1>12, <1>13, <1>14 DEF FreshInv

(* So does a list after a break of the watch, though pods may have gone    *)
(* and come back under their names meanwhile.                              *)
LEMMA FreshLists ==
  ASSUME BaseInv, FreshInv, NEW f \in ListOrders, InformerLists(f)
  PROVE  FreshInv'
<1>0. PlaceInv /\ QueueTyped
  BY DEF BaseInv
<1> DEFINE now(p) == IF Matches(pod[p]) THEN pod[p] ELSE NoPod
           told == {q \in Pods : Matches(known[q]) \/ Matches(pod[q])}
<1>1. /\ \A p \in Pods : known'[p] = now(p)
      /\ Elems(events') = Elems(events) \cup {Change(known[p], now(p)) : p \in told}
  BY <1>0, QueueLists
<1>2. pod' = pod /\ byPodIP' = byPodIP /\ look' = look
  BY DEF InformerLists, indexVars
<1>3. NoPod \in Pod /\ None \notin IPs
  BY IdentifyAssumption DEF NoPod, Pod, Labels
<1>4. ASSUME NEW p \in Pods
      PROVE  /\ Change(known[p], now(p)).pod = IF Matches(pod[p]) THEN pod[p] ELSE known[p]
             /\ Change(known[p], now(p)).type = "delete" <=> ~Matches(pod[p])
  <2>1. now(p) \in Pod /\ known[p] \in Pod /\ (Matches(now(p)) <=> Matches(pod[p]))
    BY <1>3, FreshTyped DEF Matches, NoPod
  <2> HIDE DEF now
  <2>2. /\ Change(known[p], now(p)).pod = IF Matches(now(p)) THEN now(p) ELSE known[p]
        /\ Change(known[p], now(p)).type = "delete" <=> ~Matches(now(p))
    BY <2>1, ChangeTyped
  <2> QED BY <2>1, <2>2 DEF now
<1>5. ASSUME NEW q \in Pods, NEW x \in IPs, NEW b \in Labels, Owns(q, x, b)'
      PROVE  Owns(q, x, b) /\ Holds(pod[q], NoPod, x, b)
  BY <1>1, <1>2, <1>3, <1>5 DEF Owns, Holds, NoPod
<1>6. OneOwner'
  <2> SUFFICES ASSUME NEW x \in IPs, NEW q \in Pods, NEW r \in Pods,
                      NEW b \in Labels, NEW c \in Labels,
                      Owns(q, x, b)', Owns(r, x, c)'
               PROVE  q = r /\ b = c
    BY DEF OneOwner
  <2> QED BY <1>5 DEF FreshInv, OneOwner
<1>7. EventInv'
  <2> SUFFICES ASSUME NEW e \in Elems(events'), NEW q \in Pods, NEW b \in Labels,
                      e.pod.ip \in IPs, Owns(q, e.pod.ip, b)'
               PROVE  e.type # "delete" /\ e.pod.label = b
    BY DEF EventInv
  <2>0. Owns(q, e.pod.ip, b) /\ Holds(pod[q], NoPod, e.pod.ip, b)
    BY <1>5
  <2>1. CASE e \in Elems(events)
    BY <2>0, <2>1 DEF FreshInv, EventInv
  <2>2. ASSUME NEW p \in Pods, e = Change(known[p], now(p))
        PROVE  e.type # "delete" /\ e.pod.label = b
    <3>1. CASE Matches(pod[p])
      <4>1. e.pod = pod[p] /\ e.type # "delete"
        BY <1>4, <2>2, <3>1
      <4>2. Owns(p, e.pod.ip, pod[p].label) /\ pod[p].label \in Labels
        BY <4>1, FreshTyped DEF Owns, Holds
      <4> QED BY <2>0, <4>1, <4>2 DEF FreshInv, OneOwner
    <3>2. CASE ~Matches(pod[p])
      <4>1. e.pod = known[p]
        BY <1>4, <2>2, <3>2
      <4>2. pod[p] \in Pod /\ (pod[p].phase = "none" => pod[p] = NoPod)
        BY FreshTyped DEF BaseInv, PlaceInv, PodInv
      <4>3. q = p /\ ~Holds(pod[p], NoPod, e.pod.ip, b)
        BY <2>0, <3>2, <4>1, <4>2, GoneUnowned
      <4> QED BY <2>0, <4>3
    <3> QED BY <3>1, <3>2
  <2> QED BY <1>1, <2>1, <2>2
<1>8. IndexInv'
  <2> SUFFICES ASSUME NEW x \in IPs, NEW q \in Pods, NEW b \in Labels, Owns(q, x, b)'
               PROVE  byPodIP[x] \in {None, b}
    BY <1>2 DEF IndexInv
  <2> QED BY <1>5 DEF FreshInv, IndexInv
<1>9. AnswerInv'
  <2> SUFFICES ASSUME NEW l \in Lookups, NEW q \in Pods, NEW b \in Labels,
                      NEW x \in IPs, look[l].ip = x, Owns(q, x, b)'
               PROVE  look[l].id \in {None, b}
    BY <1>2 DEF AnswerInv, Owns
  <2> QED BY <1>5 DEF FreshInv, AnswerInv
<1>10. AnnouncedInv'
  <2> SUFFICES ASSUME NEW p \in Pods, known'[p].label \in Ids, known'[p].ip \in IPs
               PROVE  \E e \in Elems(events') : Registers(e) /\ e.pod.ip = known'[p].ip
    BY DEF AnnouncedInv, Registers
  <2>1. Matches(pod[p]) /\ known'[p] = pod[p]
    BY <1>1, <1>3 DEF NoPod
  <2>2. Change(known[p], now(p)) \in Elems(events')
    BY <1>1, <2>1
  <2>3. /\ Change(known[p], now(p)).pod = pod[p]
        /\ Change(known[p], now(p)).type # "delete"
    BY <1>4, <2>1
  <2> HIDE DEF now
  <2> QED BY <1>3, <2>1, <2>2, <2>3 DEF Registers
<1> QED BY <1>6, <1>7, <1>8, <1>9, <1>10 DEF FreshInv

(* So do the event handlers: what they do to an owned address is to        *)
(* register it under the owner's label.                                    *)
LEMMA FreshHandler ==
  ASSUME BaseInv, FreshInv, HandlerRuns
  PROVE  FreshInv'
<1> DEFINE e == Head(events)
<1>1. /\ events \in Seq(Event) /\ events # <<>> /\ events' = Tail(events)
      /\ UNCHANGED <<pod, known, look>>
      /\ byPodIP' = [x \in IPs |-> IF x # e.pod.ip THEN byPodIP[x]
                                   ELSE IF Registers(e) THEN e.pod.label
                                   ELSE IF Unregisters(e) THEN None
                                   ELSE byPodIP[x]]
  BY FreshTyped DEF HandlerRuns
<1>2. e \in Event /\ Elems(events) = Elems(events') \cup {e}
  BY <1>1, ElemsTail
<1>3. \A p \in Pods, x \in IPs, b \in Labels : Owns(p, x, b)' <=> Owns(p, x, b)
  BY <1>1 DEF Owns
<1> HIDE DEF e
<1>4. OneOwner'
  BY <1>1 DEF FreshInv, OneOwner, Owns
<1>5. EventInv'
  BY <1>1, <1>2 DEF FreshInv, EventInv, Owns
<1>6. IndexInv'
  <2> SUFFICES ASSUME NEW x \in IPs, NEW q \in Pods, NEW b \in Labels, Owns(q, x, b)
               PROVE  byPodIP'[x] \in {None, b}
    BY <1>3 DEF IndexInv
  <2>1. byPodIP[x] \in {None, b}
    BY DEF FreshInv, IndexInv
  <2>2. x = e.pod.ip => e.pod.label = b
    BY <1>2 DEF FreshInv, EventInv
  <2> QED BY <1>1, <2>1, <2>2
<1>7. AnswerInv'
  BY <1>1 DEF FreshInv, AnswerInv, Owns
<1>8. AnnouncedInv'
  <2> SUFFICES ASSUME NEW p \in Pods, known[p].label \in Ids, known[p].ip \in IPs
               PROVE  \/ byPodIP'[known[p].ip] = known[p].label
                      \/ \E d \in Elems(events') : Registers(d) /\ d.pod.ip = known[p].ip
    BY <1>1 DEF AnnouncedInv, Registers
  <2>1. Owns(p, known[p].ip, known[p].label) /\ known[p].label \in Labels
    BY FreshTyped DEF Owns, Holds
  <2>2. CASE known[p].ip = e.pod.ip
    <3>1. e.type # "delete" /\ e.pod.label = known[p].label
      BY <1>2, <2>1, <2>2 DEF FreshInv, EventInv
    <3>2. Registers(e)
      BY <2>2, <3>1, IdentifyAssumption DEF Registers
    <3> QED BY <1>1, <2>2, <3>1, <3>2
  <2>3. CASE known[p].ip # e.pod.ip
    <3>1. byPodIP'[known[p].ip] = byPodIP[known[p].ip]
      BY <1>1, <2>3
    <3> QED BY <1>2, <2>3, <3>1 DEF FreshInv, AnnouncedInv
  <2> QED BY <2>2, <2>3
<1> QED BY <1>4, <1>5, <1>6, <1>7, <1>8 DEF FreshInv

(* A change of one lookup, and the store of its id, preserve FreshInv if   *)
(* the answer is the owner's label.                                        *)
LEMMA FreshLook ==
  ASSUME BaseInv, FreshInv, UNCHANGED clusterVars,
         NEW l \in Lookups, NEW v \in Lookup, look' = [look EXCEPT ![l] = v],
         \A p \in Pods, b \in Labels :
             v.ip \in IPs /\ Owns(p, v.ip, b) => v.id \in {None, b},
         \/ byPodIP' = byPodIP
         \/ /\ look[l].ip \in IPs /\ look[l].id \in Ids
            /\ byPodIP' = [byPodIP EXCEPT ![look[l].ip] = look[l].id]
  PROVE  FreshInv'
<1>1. pod' = pod /\ known' = known /\ events' = events
  BY DEF clusterVars
<1>2. \A m \in Lookups : look'[m] = IF m = l THEN v ELSE look[m]
  BY FreshTyped
<1>3. OneOwner' /\ EventInv'
  BY <1>1 DEF FreshInv, OneOwner, EventInv, Owns
<1>4. AnswerInv'
  <2> SUFFICES ASSUME NEW m \in Lookups, NEW q \in Pods, NEW b \in Labels,
                      NEW x \in IPs, look'[m].ip = x, Owns(q, x, b)
               PROVE  look'[m].id \in {None, b}
    BY <1>1 DEF AnswerInv, Owns
  <2> QED BY <1>2 DEF FreshInv, AnswerInv
<1>5. ASSUME NEW x \in IPs
      PROVE  byPodIP'[x] = byPodIP[x] \/ /\ byPodIP'[x] = look[l].id
                                         /\ look[l].ip = x /\ look[l].id \in Ids
  BY FreshTyped
<1>6. IndexInv'
  <2> SUFFICES ASSUME NEW x \in IPs, NEW q \in Pods, NEW b \in Labels, Owns(q, x, b)
               PROVE  byPodIP'[x] \in {None, b}
    BY <1>1 DEF IndexInv, Owns
  <2> QED BY <1>5 DEF FreshInv, IndexInv, AnswerInv
<1>7. AnnouncedInv'
  <2> SUFFICES ASSUME NEW p \in Pods, known[p].label \in Ids, known[p].ip \in IPs
               PROVE  \/ byPodIP'[known[p].ip] = known[p].label
                      \/ \E e \in Elems(events) : Registers(e) /\ e.pod.ip = known[p].ip
    BY <1>1 DEF AnnouncedInv, Registers
  <2>1. Owns(p, known[p].ip, known[p].label) /\ known[p].label \in Labels
    BY FreshTyped DEF Owns, Holds
  <2>2. CASE byPodIP'[known[p].ip] = byPodIP[known[p].ip]
    BY <2>2 DEF FreshInv, AnnouncedInv
  <2>3. CASE /\ byPodIP'[known[p].ip] = look[l].id
             /\ look[l].ip = known[p].ip /\ look[l].id \in Ids
    <3>1. look[l].id \in {None, known[p].label}
      BY <2>1, <2>3 DEF FreshInv, AnswerInv
    <3> QED BY <2>3, <3>1, IdentifyAssumption
  <2> QED BY <1>5, <2>2, <2>3
<1> QED BY <1>3, <1>4, <1>6, <1>7 DEF FreshInv

(* The steps of a lookup preserve FreshInv: the index and the list both    *)
(* name the owner.                                                         *)
LEMMA FreshStep ==
  ASSUME BaseInv, FreshInv, NEW l \in Lookups, LookupStep(l)
  PROVE  FreshInv'
<1>0. PlaceInv
  BY DEF BaseInv
<1>1. PICK v \in Lookup :
           /\ look' = [look EXCEPT ![l] = v]
           /\ UNCHANGED clusterVars
           /\ GoesOn(l, v) \/ (v = NoLookup /\ byPodIP' = byPodIP)
  BY <1>0, LookupShape
<1>2. CASE GoesOn(l, v)
  <2>1. v.ip = look[l].ip /\ look[l].ip \in IPs
    BY <1>0, <1>2 DEF GoesOn, PlaceInv, DiagnosisInv, Located
  <2>2. ASSUME NEW p \in Pods, NEW b \in Labels, Owns(p, v.ip, b)
        PROVE  v.id \in {None, b}
    <3>1. CASE Hit(l, v)
      BY <2>1, <2>2, <3>1 DEF Hit, FreshInv, IndexInv
    <3>2. CASE Found(l, v)
      <4>1. PICK q \in PodsAt(look[l].ip) :
               \/ v.id = None
               \/ pod[q].label \in Ids /\ v.id = pod[q].label
        BY <3>2 DEF Found
      <4>2. q \in Pods /\ Owns(q, v.ip, pod[q].label) /\ pod[q].label \in Labels
        BY <2>1, <4>1, FreshTyped DEF PodsAt, Owns, Holds
      <4>3. b = pod[q].label
        BY <2>1, <2>2, <4>2 DEF FreshInv, OneOwner
      <4> QED BY <4>1, <4>3
    <3>3. CASE Stored(l, v) \/ Moved(l, v)
      <4>1. v.id = look[l].id
        BY <3>3 DEF Stored, Moved
      <4> QED BY <2>1, <2>2, <4>1 DEF FreshInv, AnswerInv
    <3> QED BY <1>2, <3>1, <3>2, <3>3 DEF GoesOn
  <2>3. \/ byPodIP' = byPodIP
        \/ /\ look[l].ip \in IPs /\ look[l].id \in Ids
           /\ byPodIP' = [byPodIP EXCEPT ![look[l].ip] = look[l].id]
    BY <1>0, <1>2, <2>1 DEF GoesOn, Hit, Found, Stored, Moved, PlaceInv, StoreInv
  <2> QED BY <1>1, <2>2, <2>3, FreshLook
<1>3. CASE v = NoLookup /\ byPodIP' = byPodIP
  <2>1. v.ip \notin IPs
    BY <1>3, IdentifyAssumption DEF NoLookup
  <2> QED BY <1>1, <1>3, <2>1, FreshLook
<1> QED BY <1>1, <1>2, <1>3

(* So does its start. *)
LEMMA FreshStarts ==
  ASSUME BaseInv, FreshInv, NEW l \in Lookups, NEW p \in Pods, LookupStarts(l, p)
  PROVE  FreshInv'
<1>1. PICK v \in Lookup :
           /\ look' = [look EXCEPT ![l] = v]
           /\ UNCHANGED clusterVars /\ byPodIP' = byPodIP
           /\ pod[p].phase = "running" /\ pod[p].addr \in IPs
           /\ v.pc = "check" /\ v.ip = pod[p].addr /\ v.id = None
           /\ v.client = p /\ v.status = pod[p].ip
  BY StartShape DEF BaseInv
<1> QED BY <1>1, FreshLook

(* Every step preserves FreshInv. *)
LEMMA FreshNext ==
  ASSUME Faults \cap {"reuse", "early"} = {}
  PROVE  BaseInv /\ BaseInv' /\ FreshInv /\ [Next]_vars => FreshInv'
<1> SUFFICES ASSUME BaseInv, BaseInv', FreshInv, [Next]_vars PROVE FreshInv'
  OBVIOUS
<1>1. CASE UNCHANGED <<pod, known, events, byPodIP, look>>
  BY <1>1 DEF FreshInv, OneOwner, EventInv, IndexInv, AnswerInv, AnnouncedInv,
              Owns, Registers
<1>2. CASE ClusterStep
  BY <1>2, FreshCluster
<1>3. CASE InformerStep
  <2>1. CASE WatchBreaks \/ BecomesReady
    BY <1>1, <2>1 DEF WatchBreaks, BecomesReady, clusterVars, indexVars
  <2> QED BY <1>3, <2>1, FreshLists, FreshHandler DEF InformerStep
<1>4. ASSUME NEW x \in IPs, EntryExpires(x) \/ TimerFires(x) \/ OverdueTimerFires(x)
      PROVE  FreshInv'
  BY <1>1, <1>4 DEF EntryExpires, TimerFires, OverdueTimerFires, clusterVars
<1>5. CASE UNCHANGED vars
  BY <1>1, <1>5 DEF vars
<1> QED BY <1>2, <1>3, <1>4, <1>5, FreshStep, FreshStarts DEF Next

(* It holds at first. *)
LEMMA FreshInit == Init => BaseInv /\ FreshInv
<1> SUFFICES ASSUME Init PROVE BaseInv /\ FreshInv
  OBVIOUS
<1>1. /\ \A p \in Pods : pod[p] = NoPod /\ known[p] = NoPod
      /\ \A l \in Lookups : look[l] = NoLookup
      /\ \A x \in IPs : byPodIP[x] = None
      /\ watching = FALSE /\ events = <<>>
  BY DEF Init
<1>2. BaseInv
  BY <1>1, PlaceInit, QueueInit DEF BaseInv, KnownInv
<1>3. None \notin IPs /\ Elems(events) = {}
  BY <1>1, IdentifyAssumption DEF Elems
<1>4. \A p \in Pods, x \in IPs, b \in Labels : ~Owns(p, x, b)
  BY <1>1, <1>3 DEF Owns, Holds, NoPod
<1>5. OneOwner /\ EventInv /\ IndexInv /\ AnswerInv
  BY <1>3, <1>4 DEF OneOwner, EventInv, IndexInv, AnswerInv
<1>6. AnnouncedInv
  BY <1>1, <1>3 DEF AnnouncedInv, NoPod
<1> QED BY <1>2, <1>5, <1>6 DEF FreshInv

(* What it rests on is preserved too. *)
LEMMA BaseNext == BaseInv /\ [Next]_vars => BaseInv'
  BY PlaceNext, QueueTypedNext, KnownNext DEF BaseInv

(* A client is only ever taken for the id of its own label, however the    *)
(* informer's handlers and the stores of lookups interleave, as long as an *)
(* address is not given out again while the index, an event or a lookup    *)
(* still has it.                                                           *)
THEOREM NeverMisidentified ==
  Faults \cap {"reuse", "early"} = {} => (Spec => []NoMisidentification)
<1> SUFFICES ASSUME Faults \cap {"reuse", "early"} = {}
             PROVE  Spec => []NoMisidentification
  OBVIOUS
<1>1. BaseInv /\ FreshInv => NoMisidentification
  <2> SUFFICES ASSUME BaseInv, FreshInv, NEW l \in Lookups, NEW p \in Pods,
                      NEW id \in Ids, Answered(l, p, id)
               PROVE  pod[p].label = id
    BY DEF NoMisidentification
  <2>1. look[l].client = p /\ look[l].id = id /\ look[l].pc = "done"
    BY DEF Answered
  <2>2. pod[p].phase = "running" /\ pod[p].addr = look[l].ip /\ look[l].ip \in IPs
    BY <2>1 DEF BaseInv, PlaceInv, ClientInv, DiagnosisInv, Located
  <2>3. Owns(p, look[l].ip, pod[p].label) /\ pod[p].label \in Labels
    BY <2>2, FreshTyped DEF Owns, Holds
  <2> QED BY <2>1, <2>2, <2>3, IdentifyAssumption DEF FreshInv, AnswerInv
<1> QED BY <1>1, FreshInit, FreshNext, BaseNext, PTL DEF Spec

(* Under the same condition no event is lost on the index: once the        *)
(* informer has caught up, every labelled pod with a published address is  *)
(* registered, across any number of breaks of the watch, relists and       *)
(* stores of lookups.                                                      *)
THEOREM InformerCatchesUp ==
  Faults \cap {"reuse", "early"} = {} => (Spec => []CaughtUp)
<1> SUFFICES ASSUME Faults \cap {"reuse", "early"} = {} PROVE Spec => []CaughtUp
  OBVIOUS
<1>1. BaseInv /\ FreshInv => CaughtUp
  <2> SUFFICES ASSUME BaseInv, FreshInv, watching, events = <<>>, NEW p \in Pods,
                      pod[p].phase = "running", pod[p].label \in Ids, pod[p].ip # None
               PROVE  byPodIP[pod[p].ip] = pod[p].label
    BY DEF CaughtUp
  <2>1. Matches(pod[p])
    BY IdentifyAssumption DEF Matches
  <2>2. known[p] = pod[p] /\ pod[p].ip \in IPs
    BY <2>1, FreshTyped DEF BaseInv, KnownInv
  <2>3. Elems(events) = {}
    BY DEF Elems
  <2> QED BY <2>2, <2>3 DEF FreshInv, AnnouncedInv
<1> QED BY <1>1, FreshInit, FreshNext, BaseNext, PTL DEF Spec

(* So unlabelled callers do receive 403, as README-proxy.md says, as long  *)
(* as addresses are not given out again while anything remembers them: the *)
(* condition that claim_unlabelled drops, and the only one it needs.       *)
COROLLARY UnlabelledTurnedAway ==
  Faults \cap {"reuse", "early"} = {} => (Spec => []UnlabelledForbidden)
<1>1. NoMisidentification => UnlabelledForbidden
  BY DEF NoMisidentification, UnlabelledForbidden
<1> QED BY <1>1, NeverMisidentified, PTL
=============================================================================
