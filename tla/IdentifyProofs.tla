--------------------------- MODULE IdentifyProofs ---------------------------
(***************************************************************************)
(* Proofs about Identify for every set of pods, addresses and lookups.     *)
(*                                                                         *)
(* SingleDiagnosis is not inductive: a lookup that runs the unlabelled     *)
(* list must be known to own a valid entry (Claimed), which keeps others   *)
(* out; that in turn needs the address of a lookup to be one (Located).    *)
(* Counting is what keeps the number of polls within its type.             *)
(***************************************************************************)
EXTENDS Identify, TLAPS

(* The part of TypeOK the argument needs. *)
Typed ==
    /\ pod \in [Pods -> Pod]
    /\ diagnosed \in [IPs -> {"none", "valid", "expired"}]
    /\ byPodIP \in [IPs -> Ids \cup {None}]
    /\ look \in [Lookups -> Lookup]

Located ==
    /\ \A p \in Pods : pod[p].phase = "running" => pod[p].addr \in IPs
    /\ \A l \in Lookups : look[l].pc # "idle" => look[l].ip \in IPs

Counting ==
    \A l \in Lookups : look[l].pc # "done" => look[l].tries < MaxTries

Claimed ==
    \A l \in Lookups : look[l].pc = "diagnose" => diagnosed[look[l].ip] = "valid"

DiagnosisInv == Typed /\ Located /\ Counting /\ Claimed /\ SingleDiagnosis

(* Before the first pod starts there is no lookup. *)
LEMMA DiagnosisInit == Init => DiagnosisInv
  BY IdentifyAssumption DEF Init, DiagnosisInv, Typed, Located, Counting, Claimed,
     SingleDiagnosis, NoPod, Pod, Labels, NoLookup, Lookup

(* A change of a pod leaves the lookups where they are.                    *)
LEMMA PodBecomesInv ==
  ASSUME DiagnosisInv, NEW p \in Pods, NEW new \in Pod, PodBecomes(p, new),
         new.phase = "running" => new.addr \in IPs
  PROVE  DiagnosisInv'
<1>1. \A l \in Lookups : /\ look'[l] \in Lookup
                         /\ look'[l].pc = look[l].pc
                         /\ look'[l].ip = look[l].ip
                         /\ look'[l].tries = look[l].tries
  <2> SUFFICES ASSUME NEW l \in Lookups
               PROVE  /\ look'[l] \in Lookup /\ look'[l].pc = look[l].pc
                      /\ look'[l].ip = look[l].ip /\ look'[l].tries = look[l].tries
    OBVIOUS
  <2>1. look[l] \in Lookup
    BY DEF DiagnosisInv, Typed
  <2>2. look'[l] \in {look[l], [look[l] EXCEPT !.client = None]}
    BY DEF PodBecomes
  <2> QED BY <2>1, <2>2 DEF Lookup
<1>2. look' \in [Lookups -> Lookup]
  BY <1>1 DEF PodBecomes
<1>3. pod' \in [Pods -> Pod] /\ diagnosed' = diagnosed /\ byPodIP' = byPodIP
  BY DEF PodBecomes, DiagnosisInv, Typed, indexVars
<1>4. Typed'
  BY <1>2, <1>3 DEF DiagnosisInv, Typed
<1>5. \A q \in Pods : pod'[q].phase = "running" => pod'[q].addr \in IPs
  BY DEF PodBecomes, DiagnosisInv, Typed, Located
<1>6. Located' /\ Counting' /\ Claimed' /\ SingleDiagnosis'
  BY <1>1, <1>3, <1>5 DEF DiagnosisInv, Located, Counting, Claimed, SingleDiagnosis
<1> QED BY <1>4, <1>6 DEF DiagnosisInv

(* No step of the cluster disturbs the invariant. *)
LEMMA ClusterInv == DiagnosisInv /\ ClusterStep => DiagnosisInv'
<1> SUFFICES ASSUME DiagnosisInv, ClusterStep PROVE DiagnosisInv'
  OBVIOUS
<1> USE DEF Pod, Labels
<1>0. pod \in [Pods -> Pod] /\ \A p \in Pods : pod[p].phase = "running" => pod[p].addr \in IPs
  BY DEF DiagnosisInv, Typed, Located
<1>1. ASSUME NEW p \in Pods, NEW label \in Labels, NEW x \in IPs, PodStarts(p, label, x)
      PROVE  DiagnosisInv'
  BY <1>1, PodBecomesInv DEF PodStarts
<1>2. ASSUME NEW p \in Pods, StatusPatched(p) PROVE DiagnosisInv'
  <2> DEFINE new == [pod[p] EXCEPT !.ip = pod[p].addr]
  <2>1. new \in Pod /\ new.phase = pod[p].phase /\ new.addr = pod[p].addr
    BY <1>0
  <2>2. PodBecomes(p, new)
    BY <1>2 DEF StatusPatched
  <2> HIDE DEF new
  <2> QED BY <1>0, <2>1, <2>2, PodBecomesInv
<1>3. ASSUME NEW p \in Pods, PodCompletes(p) PROVE DiagnosisInv'
  <2> DEFINE new == [pod[p] EXCEPT !.phase = "done"]
  <2>1. new \in Pod /\ new.phase = "done"
    BY <1>0
  <2>2. PodBecomes(p, new)
    BY <1>3 DEF PodCompletes
  <2> HIDE DEF new
  <2> QED BY <2>1, <2>2, PodBecomesInv
<1>4. ASSUME NEW p \in Pods, PodTouched(p) PROVE DiagnosisInv'
  BY <1>0, <1>4, PodBecomesInv DEF PodTouched
<1>5. ASSUME NEW p \in Pods, PodDeleted(p) PROVE DiagnosisInv'
  <2>1. NoPod \in Pod /\ NoPod.phase = "none"
    BY DEF NoPod
  <2> QED BY <1>5, <2>1, PodBecomesInv DEF PodDeleted
<1> QED BY <1>1, <1>2, <1>3, <1>4, <1>5 DEF ClusterStep

(* What a step of the informer writes keeps the index typed, and it leaves *)
(* the lookups and the diagnostics alone.                                  *)
LEMMA InformerInv == DiagnosisInv /\ InformerStep => DiagnosisInv'
<1> SUFFICES ASSUME DiagnosisInv, InformerStep PROVE DiagnosisInv'
  OBVIOUS
<1>1. UNCHANGED <<pod, diagnosed, look>>
  BY DEF InformerStep, InformerLists, WatchBreaks, BecomesReady, HandlerRuns,
         indexVars, clusterVars
<1>2. byPodIP' \in [IPs -> Ids \cup {None}]
  <2>1. CASE HandlerRuns
    BY <2>1 DEF HandlerRuns, Registers, DiagnosisInv, Typed
  <2>2. CASE ~HandlerRuns
    BY <2>2 DEF InformerStep, InformerLists, WatchBreaks, BecomesReady,
       indexVars, DiagnosisInv, Typed
  <2> QED BY <2>1, <2>2
<1> QED BY <1>1, <1>2 DEF DiagnosisInv, Typed, Located, Counting, Claimed, SingleDiagnosis

(* A step of lookup l that does not reach the unlabelled list and leaves   *)
(* the diagnostics alone is harmless.                                      *)
LEMMA LookMoves ==
  ASSUME DiagnosisInv, NEW l \in Lookups, NEW v \in Lookup,
         look' = [look EXCEPT ![l] = v],
         v.pc # "diagnose", v.pc # "idle" => v.ip \in IPs,
         v.pc # "done" => v.tries < MaxTries,
         diagnosed' = diagnosed, pod' = pod,
         byPodIP' \in [IPs -> Ids \cup {None}]
  PROVE  DiagnosisInv'
  BY DEF DiagnosisInv, Typed, Located, Counting, Claimed, SingleDiagnosis

(* Every step of a lookup preserves the invariant.  The claim does because *)
(* it succeeds only without a valid entry, so with no list under way; the  *)
(* release because it ends the list the entry was claimed for.             *)
LEMMA LookupInv ==
  ASSUME DiagnosisInv, NEW l \in Lookups, LookupStep(l)
  PROVE  DiagnosisInv'
<1> USE DEF clusterVars, indexVars
<1>0. /\ look \in [Lookups -> Lookup] /\ look[l] \in Lookup
      /\ look[l].pc # "idle" => look[l].ip \in IPs
      /\ look[l].pc # "done" => look[l].tries < MaxTries
      /\ pod \in [Pods -> Pod]
      /\ byPodIP \in [IPs -> Ids \cup {None}]
  BY DEF DiagnosisInv, Typed, Located, Counting
<1>1. CASE CacheHit(l)
  <2> DEFINE v == [look[l] EXCEPT !.pc = "done", !.id = byPodIP[look[l].ip]]
  <2>1. look' = [look EXCEPT ![l] = v] /\ UNCHANGED <<diagnosed, pod, byPodIP>>
    BY <1>0, <1>1 DEF CacheHit, Returns
  <2>2. look[l].ip \in IPs
    BY <1>0, <1>1 DEF CacheHit
  <2>3. v \in Lookup /\ v.pc = "done" /\ v.ip = look[l].ip
    BY <1>0, <2>2 DEF Lookup
  <2> HIDE DEF v
  <2> QED BY <1>0, <2>1, <2>2, <2>3, LookMoves
<1>2. CASE \/ CacheMiss(l) \/ ListFindsNothing(l) \/ ListFails(l)
           \/ ClaimRefused(l) \/ DiagnoseDone(l)
  <2>1. PICK pc \in {"list", "claim", "sleep"} :
           /\ look' = [look EXCEPT ![l].pc = pc]
           /\ UNCHANGED <<diagnosed, pod, byPodIP>>
           /\ look[l].pc \notin {"idle", "done"}
    BY <1>2 DEF CacheMiss, ListFindsNothing, ListFails, ClaimRefused,
                DiagnoseDone, Moves
  <2> DEFINE v == [look[l] EXCEPT !.pc = pc]
  <2>2. look' = [look EXCEPT ![l] = v]
    BY <1>0, <2>1
  <2>3. v \in Lookup /\ v.pc # "diagnose" /\ v.ip = look[l].ip /\ v.tries = look[l].tries
    BY <1>0 DEF Lookup
  <2> HIDE DEF v
  <2> QED BY <1>0, <2>1, <2>2, <2>3, LookMoves
<1>3. CASE ListFinds(l)
  <2>1. PICK p \in PodsAt(look[l].ip) :
          look' = [look EXCEPT
                     ![l].pc = IF pod[p].label = Blank THEN "blank" ELSE "store",
                     ![l].id = IF pod[p].label = Blank THEN None ELSE pod[p].label]
    BY <1>3 DEF ListFinds
  <2> DEFINE v == [look[l] EXCEPT
                     !.pc = IF pod[p].label = Blank THEN "blank" ELSE "store",
                     !.id = IF pod[p].label = Blank THEN None ELSE pod[p].label]
  <2>2. look' = [look EXCEPT ![l] = v]
    BY <1>0, <2>1
  <2>3. pod[p].label \in Ids \cup {Blank}
    BY <1>0, <2>1 DEF PodsAt, Matches, Pod, Labels
  <2>4. v \in Lookup /\ v.pc # "diagnose" /\ v.ip = look[l].ip /\ v.tries = look[l].tries
    BY <1>0, <2>3 DEF Lookup
  <2>5. UNCHANGED <<diagnosed, pod, byPodIP>> /\ look[l].pc = "list"
    BY <1>3 DEF ListFinds
  <2> HIDE DEF v
  <2> QED BY <1>0, <2>2, <2>4, <2>5, LookMoves
<1>4. CASE ClaimSucceeds(l)
  <2> DEFINE pc == IF look[l].pc = "claim" THEN "diagnose" ELSE "sleep"
  <2>1. /\ look' = [look EXCEPT ![l].pc = pc]
        /\ diagnosed' = [diagnosed EXCEPT ![look[l].ip] = "valid"]
        /\ UNCHANGED <<pod, byPodIP>>
        /\ look[l].ip \in IPs /\ diagnosed[look[l].ip] # "valid"
        /\ look[l].pc # "done"
    BY <1>0, <1>4 DEF ClaimSucceeds, Moves
  <2>2. /\ look' \in [Lookups -> Lookup]
        /\ \A m \in Lookups : look'[m].ip = look[m].ip /\ look'[m].tries = look[m].tries
        /\ \A m \in Lookups : m # l => look'[m] = look[m]
    BY <1>0, <2>1 DEF Lookup
  <2>3. Typed' /\ Located' /\ Counting'
    BY <1>0, <2>1, <2>2 DEF DiagnosisInv, Typed, Located, Counting
  <2>4. Claimed'
    BY <2>1, <2>2 DEF DiagnosisInv, Typed, Claimed
  <2>5. \A m \in Lookups : m # l /\ look[m].pc = "diagnose" => look[m].ip # look[l].ip
    BY <2>1 DEF DiagnosisInv, Claimed
  <2>6. SingleDiagnosis'
    BY <2>2, <2>5 DEF DiagnosisInv, SingleDiagnosis
  <2> QED BY <2>3, <2>4, <2>6 DEF DiagnosisInv
<1>5. CASE DiagnoseFails(l)
  <2>1. /\ look' = [look EXCEPT ![l].pc = "sleep"]
        /\ diagnosed' = [diagnosed EXCEPT ![look[l].ip] = "none"]
        /\ UNCHANGED <<pod, byPodIP>>
        /\ look[l].pc = "diagnose" /\ look[l].ip \in IPs
    BY <1>0, <1>5 DEF DiagnoseFails, Moves
  <2>2. /\ look' \in [Lookups -> Lookup]
        /\ look'[l].pc = "sleep"
        /\ \A m \in Lookups : look'[m].ip = look[m].ip /\ look'[m].tries = look[m].tries
        /\ \A m \in Lookups : m # l => look'[m] = look[m]
    BY <1>0, <2>1 DEF Lookup
  <2>3. Typed' /\ Located' /\ Counting'
    BY <1>0, <2>1, <2>2 DEF DiagnosisInv, Typed, Located, Counting
  <2>4. \A m \in Lookups : look'[m].pc = "diagnose" => look[m].ip # look[l].ip
    BY <2>1, <2>2 DEF DiagnosisInv, SingleDiagnosis
  <2>5. Claimed' /\ SingleDiagnosis'
    BY <2>1, <2>2, <2>4 DEF DiagnosisInv, Typed, Claimed, SingleDiagnosis
  <2> QED BY <2>3, <2>5 DEF DiagnosisInv
<1>6. CASE Stores(l)
  <2> DEFINE v == [look[l] EXCEPT !.pc = "done"]
  <2>1. look' = [look EXCEPT ![l].pc = "done", ![l].id = look[l].id]
    BY <1>6 DEF Stores, Returns
  <2>2. look' = [look EXCEPT ![l] = v]
    BY <1>0, <2>1 DEF Lookup
  <2>3. v \in Lookup /\ v.pc = "done" /\ v.ip = look[l].ip
    BY <1>0 DEF Lookup
  <2>4. UNCHANGED <<diagnosed, pod>> /\ look[l].pc # "idle"
    BY <1>6 DEF Stores, Returns
  <2>5. look[l].id \in Ids \cup {None}
    BY <1>0 DEF Lookup
  <2>6. byPodIP' \in [IPs -> Ids \cup {None}]
    BY <1>0, <1>6, <2>5 DEF Stores
  <2> HIDE DEF v
  <2> QED BY <1>0, <2>2, <2>3, <2>4, <2>6, LookMoves
<1>7. CASE SleepEnds(l)
  <2> DEFINE v == [look[l] EXCEPT !.pc = IF look[l].tries + 1 < MaxTries
                                            THEN "check" ELSE "done",
                                  !.tries = look[l].tries + 1]
  <2>1. look' = [look EXCEPT ![l] = v] /\ UNCHANGED <<diagnosed, pod, byPodIP>>
        /\ look[l].pc = "sleep"
    BY <1>0, <1>7 DEF SleepEnds
  <2>2. look[l].tries \in 0..MaxTries /\ look[l].tries + 1 \in 0..MaxTries
    BY <1>0, <2>1, IdentifyAssumption DEF Lookup
  <2>3. /\ v \in Lookup /\ v.pc # "diagnose" /\ v.pc # "idle"
        /\ v.ip = look[l].ip /\ v.tries = look[l].tries + 1
        /\ v.pc # "done" => v.tries < MaxTries
    BY <1>0, <2>2 DEF Lookup
  <2> HIDE DEF v
  <2> QED BY <1>0, <2>1, <2>3, LookMoves
<1>8. CASE LookupEnds(l)
  <2>1. NoLookup \in Lookup /\ NoLookup.pc = "idle" /\ NoLookup.tries < MaxTries
    BY IdentifyAssumption DEF NoLookup, Lookup
  <2> QED BY <1>0, <1>8, <2>1, LookMoves DEF LookupEnds
<1> QED BY <1>1, <1>2, <1>3, <1>4, <1>5, <1>6, <1>7, <1>8 DEF LookupStep

(* A new lookup starts at the address of a pod that runs. *)
LEMMA LookupStartsInv ==
  ASSUME DiagnosisInv, NEW l \in Lookups, NEW p \in Pods, LookupStarts(l, p)
  PROVE  DiagnosisInv'
<1> DEFINE v == [NoLookup EXCEPT !.pc = "check", !.ip = pod[p].addr,
                                 !.client = p, !.status = pod[p].ip]
<1>1. look' = [look EXCEPT ![l] = v] /\ UNCHANGED <<diagnosed, pod, byPodIP>>
      /\ pod[p].addr \in IPs
  BY DEF LookupStarts, clusterVars, indexVars, DiagnosisInv, Located
<1>2. pod[p].ip \in IPs \cup {None} /\ 0 \in 0..MaxTries
  BY IdentifyAssumption DEF DiagnosisInv, Typed, Pod
<1>3. v \in Lookup /\ v.pc = "check" /\ v.ip = pod[p].addr /\ v.tries = 0
  BY <1>1, <1>2 DEF NoLookup, Lookup
<1>4. 0 < MaxTries
  BY IdentifyAssumption
<1> HIDE DEF v
<1> QED BY <1>1, <1>3, <1>4, LookMoves DEF DiagnosisInv, Typed

(* Expiry and timers never touch the entry of a list that is under way. *)
LEMMA TimeInv ==
  ASSUME DiagnosisInv, NEW x \in IPs,
         EntryExpires(x) \/ TimerFires(x) \/ OverdueTimerFires(x)
  PROVE  DiagnosisInv'
<1>1. UNCHANGED <<pod, byPodIP, look>>
  BY DEF EntryExpires, TimerFires, OverdueTimerFires, clusterVars
<1>2. diagnosed' \in [IPs -> {"none", "valid", "expired"}]
  BY DEF EntryExpires, TimerFires, OverdueTimerFires, DiagnosisInv, Typed
<1>3. Claimed'
  BY <1>1 DEF EntryExpires, TimerFires, OverdueTimerFires, DiagnosisInv,
              Typed, Located, Counting, Claimed
<1> QED BY <1>1, <1>2, <1>3 DEF DiagnosisInv, Typed, Located, Counting, SingleDiagnosis

(* Every step preserves the invariant. *)
LEMMA DiagnosisNext == DiagnosisInv /\ [Next]_vars => DiagnosisInv'
<1>1. DiagnosisInv /\ UNCHANGED vars => DiagnosisInv'
  BY DEF vars, DiagnosisInv, Typed, Located, Counting, Claimed, SingleDiagnosis
<1> QED BY <1>1, ClusterInv, InformerInv, LookupStartsInv, LookupInv, TimeInv
           DEF Next

(* At most one unlabelled list is under way per address, for any number of *)
(* concurrent lookups, releases and late timers: what claimDiagnostic is   *)
(* for.                                                                    *)
THEOREM AtMostOneDiagnosis == Spec => []SingleDiagnosis
<1>1. DiagnosisInv => SingleDiagnosis
  BY DEF DiagnosisInv
<1> QED BY <1>1, DiagnosisInit, DiagnosisNext, PTL DEF Spec

-----------------------------------------------------------------------------
(* What a lookup has before it within a poll. *)
StageRank(pc) ==
    CASE pc = "check" -> 5               [] pc = "list" -> 4
      [] pc \in {"blank", "claim"} -> 3  [] pc = "diagnose" -> 2
      [] pc \in {"store", "sleep"} -> 1  [] pc \in {"done", "idle"} -> 0

(* The steps a lookup can still take at most. *)
LookupRank(v) == 6 * (MaxTries - v.tries) + StageRank(v.pc)

(* A lookup stays, begins with all its polls, has returned, or has less    *)
(* before it.                                                              *)
Proceeds(u, v) ==
    \/ v.pc = u.pc /\ v.tries = u.tries
    \/ u.pc = "idle" /\ v.pc = "check" /\ v.tries = 0
    \/ u.pc = "done" /\ v.pc = "idle"
    \/ LookupRank(v) < LookupRank(u)

(* The stages, as numbers. *)
LEMMA Stages ==
  /\ StageRank("check") = 5 /\ StageRank("list") = 4 /\ StageRank("blank") = 3
  /\ StageRank("claim") = 3 /\ StageRank("diagnose") = 2 /\ StageRank("store") = 1
  /\ StageRank("sleep") = 1 /\ StageRank("done") = 0 /\ StageRank("idle") = 0
BY DEF StageRank

(* Within a poll a lookup goes to a later stage. *)
LEMMA StageDrops ==
  ASSUME NEW u \in Lookup, NEW v, v.tries = u.tries,
         StageRank(u.pc) \in Nat, StageRank(v.pc) \in Nat,
         StageRank(v.pc) < StageRank(u.pc)
  PROVE  Proceeds(u, v)
<1>1. MaxTries - u.tries \in Nat
  BY IdentifyAssumption DEF Lookup
<1> QED BY <1>1 DEF Proceeds, LookupRank

(* Every step of a lookup proceeds. *)
LEMMA LookupProceeds ==
  ASSUME DiagnosisInv, NEW l \in Lookups, LookupStep(l)
  PROVE  /\ Proceeds(look[l], look'[l])
         /\ \A m \in Lookups : m # l => look'[m] = look[m]
<1>0. look \in [Lookups -> Lookup] /\ look[l] \in Lookup
  BY DEF DiagnosisInv, Typed
<1>1. ASSUME NEW pc, look' = [look EXCEPT ![l].pc = pc],
             StageRank(look[l].pc) \in Nat, StageRank(pc) \in Nat,
             StageRank(pc) < StageRank(look[l].pc)
      PROVE  /\ Proceeds(look[l], look'[l])
             /\ \A m \in Lookups : m # l => look'[m] = look[m]
  <2>1. /\ look'[l].pc = pc /\ look'[l].tries = look[l].tries
        /\ \A m \in Lookups : m # l => look'[m] = look[m]
    BY <1>0, <1>1 DEF Lookup
  <2> QED BY <1>0, <1>1, <2>1, StageDrops
<1>m. ASSUME NEW pc, NEW id, look' = [look EXCEPT ![l].pc = pc, ![l].id = id],
             StageRank(look[l].pc) \in Nat, StageRank(pc) \in Nat,
             StageRank(pc) < StageRank(look[l].pc)
      PROVE  /\ Proceeds(look[l], look'[l])
             /\ \A m \in Lookups : m # l => look'[m] = look[m]
  <2>1. /\ look'[l].pc = pc /\ look'[l].tries = look[l].tries
        /\ \A m \in Lookups : m # l => look'[m] = look[m]
    BY <1>0, <1>m DEF Lookup
  <2> QED BY <1>0, <1>m, <2>1, StageDrops
<1>2. CASE CacheHit(l) \/ CacheMiss(l)
  <2>1. look[l].pc = "check"
    BY <1>2 DEF CacheHit, CacheMiss
  <2>2. \/ look' = [look EXCEPT ![l].pc = "list"]
        \/ look' = [look EXCEPT ![l].pc = "done", ![l].id = byPodIP[look[l].ip]]
    BY <1>2 DEF CacheHit, CacheMiss, Moves, Returns
  <2>3. /\ StageRank(look[l].pc) = 5 /\ StageRank("list") = 4
        /\ StageRank("done") = 0
    BY <2>1, Stages
  <2> QED BY <1>1, <1>m, <2>2, <2>3
<1>3. CASE ListFindsNothing(l) \/ ListFails(l)
  <2>1. PICK pc \in {"claim", "sleep"} : look' = [look EXCEPT ![l].pc = pc]
    BY <1>3 DEF ListFindsNothing, ListFails, Moves
  <2>2. /\ StageRank(look[l].pc) \in Nat /\ StageRank(pc) \in Nat
        /\ StageRank(pc) < StageRank(look[l].pc)
    BY <1>3, Stages DEF ListFindsNothing, ListFails
  <2> QED BY <1>1, <2>1, <2>2, Zenon
<1>4. CASE ListFinds(l)
  <2>1. PICK p \in PodsAt(look[l].ip) :
          look' = [look EXCEPT
                     ![l].pc = IF pod[p].label = Blank THEN "blank" ELSE "store",
                     ![l].id = IF pod[p].label = Blank THEN None ELSE pod[p].label]
    BY <1>4 DEF ListFinds
  <2> DEFINE pc == IF pod[p].label = Blank THEN "blank" ELSE "store"
             id == IF pod[p].label = Blank THEN None ELSE pod[p].label
  <2>2. look' = [look EXCEPT ![l].pc = pc, ![l].id = id]
    BY <2>1
  <2>3. /\ StageRank(look[l].pc) \in Nat /\ StageRank(pc) \in Nat
        /\ StageRank(pc) < StageRank(look[l].pc)
    BY <1>4, Stages DEF ListFinds
  <2> HIDE DEF pc, id
  <2> QED BY <1>m, <2>2, <2>3, Zenon
<1>5. CASE ClaimSucceeds(l) \/ ClaimRefused(l)
  <2>1. PICK pc \in {"diagnose", "sleep"} : look' = [look EXCEPT ![l].pc = pc]
    BY <1>5 DEF ClaimSucceeds, ClaimRefused, Moves
  <2>2. /\ StageRank(look[l].pc) \in Nat /\ StageRank(pc) \in Nat
        /\ StageRank(pc) < StageRank(look[l].pc)
    BY <1>5, Stages DEF ClaimSucceeds, ClaimRefused
  <2> QED BY <1>1, <2>1, <2>2, Zenon
<1>6. CASE DiagnoseDone(l) \/ DiagnoseFails(l)
  <2>1. look' = [look EXCEPT ![l].pc = "sleep"]
    BY <1>6 DEF DiagnoseDone, DiagnoseFails, Moves
  <2>2. /\ StageRank(look[l].pc) \in Nat /\ StageRank("sleep") \in Nat
        /\ StageRank("sleep") < StageRank(look[l].pc)
    BY <1>6, Stages DEF DiagnoseDone, DiagnoseFails
  <2> QED BY <1>1, <2>1, <2>2, Zenon
<1>7. CASE Stores(l)
  <2>1. look' = [look EXCEPT ![l].pc = "done", ![l].id = look[l].id]
    BY <1>7 DEF Stores, Returns
  <2>2. /\ StageRank(look[l].pc) \in Nat /\ StageRank("done") \in Nat
        /\ StageRank("done") < StageRank(look[l].pc)
    BY <1>7, Stages DEF Stores
  <2> QED BY <1>m, <2>1, <2>2, Zenon
<1>8. CASE SleepEnds(l)
  <2>1. /\ look[l].pc = "sleep" /\ look'[l].pc \in {"check", "done"}
        /\ look'[l].tries = look[l].tries + 1
        /\ \A m \in Lookups : m # l => look'[m] = look[m]
    BY <1>0, <1>8 DEF SleepEnds, Lookup
  <2>2. StageRank(look[l].pc) = 1 /\ StageRank(look'[l].pc) \in {0, 5}
    BY <2>1, Stages
  <2>3. look[l].tries \in Nat /\ MaxTries \in Nat
    BY <1>0, IdentifyAssumption DEF Lookup
  <2>4. LookupRank(look'[l]) < LookupRank(look[l])
    BY <2>1, <2>2, <2>3 DEF LookupRank
  <2> QED BY <2>1, <2>4 DEF Proceeds
<1>9. CASE LookupEnds(l)
  BY <1>0, <1>9 DEF LookupEnds, NoLookup, Proceeds
<1> QED BY <1>2, <1>3, <1>4, <1>5, <1>6, <1>7, <1>8, <1>9 DEF LookupStep

(* Lookup polls at most MaxTries times, whatever the informer, the cluster *)
(* and other lookups do meanwhile: each of its steps makes the rank        *)
(* smaller, a natural number, and nobody else's step changes it.  So it    *)
(* returns after at most 6 * MaxTries + 5 steps of its own.                *)
THEOREM LookupsProceed ==
  Spec => /\ [](\A l \in Lookups : LookupRank(look[l]) \in Nat)
          /\ [][\A l \in Lookups : Proceeds(look[l], look'[l])]_vars
<1>1. DiagnosisInv => \A l \in Lookups : LookupRank(look[l]) \in Nat
  <2> SUFFICES ASSUME DiagnosisInv, NEW l \in Lookups PROVE LookupRank(look[l]) \in Nat
    OBVIOUS
  <2>1. look[l] \in Lookup
    BY DEF DiagnosisInv, Typed
  <2>2. StageRank(look[l].pc) \in Nat
    BY <2>1, Stages DEF Lookup
  <2>3. MaxTries - look[l].tries \in Nat
    BY <2>1, IdentifyAssumption DEF Lookup
  <2> QED BY <2>2, <2>3 DEF LookupRank
<1>2. DiagnosisInv /\ [Next]_vars
        => [\A l \in Lookups : Proceeds(look[l], look'[l])]_vars
  <2> SUFFICES ASSUME DiagnosisInv, Next, NEW l \in Lookups
               PROVE  Proceeds(look[l], look'[l])
    OBVIOUS
  <2>1. CASE look'[l] = look[l]
    BY <2>1 DEF Proceeds
  <2>2. CASE ClusterStep
    <3>1. PICK p \in Pods : \E new : PodBecomes(p, new)
      BY <2>2, Zenon DEF ClusterStep, PodStarts, StatusPatched, PodCompletes, PodTouched,
         PodDeleted
    <3>2. look'[l] \in {look[l], [look[l] EXCEPT !.client = None]}
      BY <3>1 DEF PodBecomes
    <3>3. look[l] \in Lookup
      BY DEF DiagnosisInv, Typed
    <3> QED BY <3>2, <3>3 DEF Proceeds, Lookup
  <2>3. CASE InformerStep
    BY <2>1, <2>3 DEF InformerStep, InformerLists, WatchBreaks, BecomesReady, HandlerRuns,
                      clusterVars
  <2>4. ASSUME NEW m \in Lookups, NEW p \in Pods, LookupStarts(m, p)
        PROVE  Proceeds(look[l], look'[l])
    BY <2>1, <2>4 DEF LookupStarts, NoLookup, Proceeds, DiagnosisInv, Typed
  <2>5. ASSUME NEW m \in Lookups, LookupStep(m) PROVE Proceeds(look[l], look'[l])
    BY <2>1, <2>5, LookupProceeds
  <2>6. ASSUME NEW x \in IPs, EntryExpires(x) \/ TimerFires(x) \/ OverdueTimerFires(x)
        PROVE  Proceeds(look[l], look'[l])
    BY <2>1, <2>6 DEF EntryExpires, TimerFires, OverdueTimerFires
  <2> QED BY <2>2, <2>3, <2>4, <2>5, <2>6 DEF Next
<1> QED BY <1>1, <1>2, DiagnosisInit, DiagnosisNext, PTL DEF Spec
=============================================================================
