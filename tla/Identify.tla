------------------------------ MODULE Identify ------------------------------
(***************************************************************************)
(* internal/identify: which playwright-id a client address belongs to.     *)
(* The index byPodIP is fed by a pod informer; a lookup that misses it     *)
(* polls the API server and stores what it finds there.  Both write the    *)
(* same map, neither knows of the other, and the map is keyed by address,  *)
(* which outlives no pod.                                                  *)
(*                                                                         *)
(* The cluster is the environment: pods come with or without the label,    *)
(* get an address, have it published in status.podIP some time after they  *)
(* can send requests, may complete (the object and its status stay, the    *)
(* address is free again) and are deleted.  events holds what the informer *)
(* has been told of and has not yet handed to the event handlers.          *)
(***************************************************************************)
EXTENDS Integers, Sequences, FiniteSets

CONSTANTS
    Ids,        \* playwright-ids
    Blank,      \* the label is present with an empty value
    None,       \* no label, no address, no id, no client
    Pods,       \* pod names
    IPs,        \* pod addresses
    Lookups,    \* lookups that may run at once
    MaxTries,   \* polls of a lookup (100 in the code)
    MaxEvents,  \* bound on the undelivered events
    Faults      \* what the cluster may do, see below

ASSUME IdentifyAssumption ==
    /\ None \notin Ids \cup IPs \cup Pods \cup {Blank}
    /\ Blank \notin Ids
    /\ MaxTries \in Nat \ {0}
    /\ MaxEvents \in Nat
    /\ IsFiniteSet(Pods)
    \* "reuse": an address is given out again once every event about it is
    \* handled, "early": as soon as it is free; "jobs": pods complete;
    \* "watch": the watch breaks; "api": lists fail; "time": ten minutes pass.
    /\ Faults \subseteq {"reuse", "early", "jobs", "watch", "api", "time"}

VARIABLES
    pod,        \* the pods at the API server
    byPodIP,    \* Index.byPodIP
    ready,      \* Index.ready
    diagnosed,  \* Index.diagnosedIPs: no entry, one that is valid, or expired
    overdue,    \* addresses with a timer whose entry is gone or was replaced
    watching,   \* the informer has listed the pods and its watch is open
    known,      \* the informer's own store of labelled pods
    events,     \* notifications on their way to the handlers
    look        \* the lookups

clusterVars == <<pod, watching, known, events>>
indexVars == <<byPodIP, ready, diagnosed, overdue>>
vars == <<pod, byPodIP, ready, diagnosed, overdue, watching, known, events, look>>

Labels == Ids \cup {Blank, None}

(* addr is where the pod can be reached, ip what its status says. *)
Pod == [phase : {"none", "running", "done"}, label : Labels,
        addr : IPs \cup {None}, ip : IPs \cup {None}]

NoPod == [phase |-> "none", label |-> None, addr |-> None, ip |-> None]

Event == [type : {"add", "update", "delete"}, pod : Pod]

(* client is the pod that waits for the lookup, None once it is gone;      *)
(* status is the address its status had when the lookup began.             *)
Lookup == [pc : {"idle", "check", "list", "blank", "claim", "diagnose",
                 "store", "sleep", "done"},
           ip : IPs \cup {None}, id : Ids \cup {None}, tries : 0..MaxTries,
           client : Pods \cup {None}, status : IPs \cup {None}]

NoLookup == [pc |-> "idle", ip |-> None, id |-> None, tries |-> 0,
             client |-> None, status |-> None]

TypeOK ==
    /\ pod \in [Pods -> Pod]
    /\ byPodIP \in [IPs -> Ids \cup {None}]
    /\ ready \in BOOLEAN
    /\ diagnosed \in [IPs -> {"none", "valid", "expired"}]
    /\ overdue \in SUBSET IPs
    /\ watching \in BOOLEAN
    /\ known \in [Pods -> Pod]
    /\ events \in Seq(Event)
    /\ look \in [Lookups -> Lookup]

Init ==
    /\ pod = [p \in Pods |-> NoPod]
    /\ byPodIP = [x \in IPs |-> None]
    /\ ready = FALSE
    /\ diagnosed = [x \in IPs |-> "none"]
    /\ overdue = {}
    /\ watching = FALSE
    /\ known = [p \in Pods |-> NoPod]
    /\ events = <<>>
    /\ look = [l \in Lookups |-> NoLookup]

-----------------------------------------------------------------------------
(***************************************************************************)
(* The informer selects pods that have the label, with any value.  A pod   *)
(* that enters or leaves the selection is an add or a delete to it.        *)
(***************************************************************************)
Matches(o) == o.phase # "none" /\ o.label # None

(* What it is told of a pod it selects, or did so far. *)
Change(old, new) ==
    IF Matches(new)
      THEN [type |-> IF Matches(old) THEN "update" ELSE "add", pod |-> new]
      ELSE [type |-> "delete", pod |-> old]

(* Pod p becomes new at the API server.  The lookups it waits for lose     *)
(* their client when it stops.                                             *)
PodBecomes(p, new) ==
    /\ pod' = [pod EXCEPT ![p] = new]
    /\ events' = IF watching /\ (Matches(known[p]) \/ Matches(new))
                   THEN Append(events, Change(known[p], new)) ELSE events
    /\ Len(events') <= MaxEvents
    /\ known' = IF watching
                  THEN [known EXCEPT ![p] = IF Matches(new) THEN new ELSE NoPod]
                  ELSE known
    /\ look' = [l \in Lookups |->
                  IF new.phase # "running" /\ look[l].client = p
                    THEN [look[l] EXCEPT !.client = None]
                    ELSE look[l]]
    /\ UNCHANGED <<watching, indexVars>>

(* The addresses a pod may get: one no running pod has, and no dead one    *)
(* has left a trace of, depending on Faults.                               *)
InUse == {pod[p].addr : p \in {q \in Pods : pod[q].phase = "running"}}

Announced == {events[i].pod.ip : i \in DOMAIN events}
                \cup {known[p].ip : p \in Pods} \cup {pod[p].ip : p \in Pods}

Remembered == {x \in IPs : byPodIP[x] # None} \cup {look[l].ip : l \in Lookups}

Assignable ==
    CASE "early" \in Faults -> IPs \ InUse
      [] "reuse" \in Faults -> IPs \ (InUse \cup Announced)
      [] OTHER              -> IPs \ (InUse \cup Announced \cup Remembered)

PodStarts(p, label, x) ==
    /\ pod[p].phase = "none"
    /\ x \in Assignable
    /\ PodBecomes(p, [phase |-> "running", label |-> label, addr |-> x, ip |-> None])

(* The kubelet publishes the address. *)
StatusPatched(p) ==
    /\ pod[p].phase = "running"
    /\ pod[p].ip = None
    /\ PodBecomes(p, [pod[p] EXCEPT !.ip = pod[p].addr])

PodCompletes(p) ==
    /\ "jobs" \in Faults
    /\ pod[p].phase = "running"
    /\ PodBecomes(p, [pod[p] EXCEPT !.phase = "done"])

(* Any other change of the object, the removal of a finalizer for one. *)
PodTouched(p) ==
    /\ pod[p].phase = "done"
    /\ PodBecomes(p, pod[p])

PodDeleted(p) ==
    /\ pod[p].phase # "none"
    /\ PodBecomes(p, NoPod)

-----------------------------------------------------------------------------
(***************************************************************************)
(* Run: the informer lists, at first and whenever its watch broke, and     *)
(* compares with its store; objects that vanished meanwhile come last, as  *)
(* tombstones with the last state it knew, and a pod recreated under its   *)
(* name meanwhile is an update to it.  f is the order of the changes.      *)
(***************************************************************************)
Listed == [p \in Pods |-> IF Matches(pod[p]) THEN pod[p] ELSE NoPod]

ListOrders ==
    LET told == {p \in Pods : Matches(known[p]) \/ Matches(pod[p])}
    IN  {f \in [1..Cardinality(told) -> told] :
           /\ \A p \in told : \E i \in DOMAIN f : f[i] = p
           /\ \A i, j \in DOMAIN f :
                 i < j /\ Matches(pod[f[j]]) => Matches(pod[f[i]])}

InformerLists(f) ==
    /\ ~watching
    /\ watching' = TRUE
    /\ known' = Listed
    /\ events' = events \o [i \in DOMAIN f |-> Change(known[f[i]], Listed[f[i]])]
    /\ Len(events') <= MaxEvents
    /\ UNCHANGED <<pod, indexVars, look>>

WatchBreaks ==
    /\ "watch" \in Faults
    /\ watching
    /\ watching' = FALSE
    /\ UNCHANGED <<pod, known, events, indexVars, look>>

(* HasSynced is true once the first list is on its way to the handlers. *)
BecomesReady ==
    /\ ~ready
    /\ watching
    /\ ready' = TRUE
    /\ UNCHANGED <<clusterVars, byPodIP, diagnosed, overdue, look>>

(* Mutants: an empty label value is taken for an id; pods are registered   *)
(* only when they are added.                                               *)
Registers_Blank(e) == e.type # "delete" /\ e.pod.label # None /\ e.pod.ip # None

Registers_AddOnly(e) == e.type = "add" /\ e.pod.label \in Ids /\ e.pod.ip # None

(* upsertFromObj does something: the label has a value and there is an     *)
(* address.                                                                *)
Registers(e) == e.type # "delete" /\ e.pod.label \in Ids /\ e.pod.ip # None

(* deleteFromObj removes the entry of the address, whosever it is. *)
Unregisters(e) == e.type = "delete" /\ e.pod.ip # None

HandlerRuns ==
    /\ events # <<>>
    /\ LET e == Head(events)
       IN  byPodIP' = [x \in IPs |->
                         IF x # e.pod.ip THEN byPodIP[x]
                         ELSE IF Registers(e) THEN e.pod.label
                         ELSE IF Unregisters(e) THEN None
                         ELSE byPodIP[x]]
    /\ events' = Tail(events)
    /\ UNCHANGED <<pod, watching, known, ready, diagnosed, overdue, look>>

-----------------------------------------------------------------------------
(***************************************************************************)
(* Lookup, for the connection of a pod that runs.  Connections come        *)
(* through the Service, which sends them once /readyz has answered 200.    *)
(***************************************************************************)
LookupStarts(l, p) ==
    /\ ready
    /\ look[l].pc = "idle"
    /\ pod[p].phase = "running"
    /\ look' = [look EXCEPT ![l] = [NoLookup EXCEPT
                    !.pc = "check", !.ip = pod[p].addr, !.client = p,
                    !.status = pod[p].ip]]
    /\ UNCHANGED <<clusterVars, indexVars>>

(* Lookup l moves to pc and nothing else changes. *)
Moves(l, pc) ==
    /\ look' = [look EXCEPT ![l].pc = pc]
    /\ UNCHANGED clusterVars

(* Lookup l returns id. *)
Returns(l, id) ==
    /\ look' = [look EXCEPT ![l].pc = "done", ![l].id = id]
    /\ UNCHANGED clusterVars

CacheHit(l) ==
    /\ look[l].pc = "check"
    /\ byPodIP[look[l].ip] # None
    /\ Returns(l, byPodIP[look[l].ip])
    /\ UNCHANGED indexVars

(* Mutant: an address the informer has not announced is unknown. *)
CacheMiss_NoFallback(l) ==
    /\ look[l].pc = "check"
    /\ byPodIP[look[l].ip] = None
    /\ Returns(l, None)
    /\ UNCHANGED indexVars

CacheMiss(l) ==
    /\ look[l].pc = "check"
    /\ byPodIP[look[l].ip] = None
    /\ Moves(l, "list")
    /\ UNCHANGED indexVars

(* Mutant: the field selector is forgotten. *)
PodsAt_Any(x) == {p \in Pods : Matches(pod[p])}

(* What lists with the label and the field selector return. *)
PodsAt(x) == {p \in Pods : Matches(pod[p]) /\ pod[p].ip = x}

(* lookupViaAPI, the list with the label selector. *)
ListFinds(l) ==
    /\ look[l].pc = "list"
    /\ \E p \in PodsAt(look[l].ip) :
          look' = [look EXCEPT
                     ![l].pc = IF pod[p].label = Blank THEN "blank" ELSE "store",
                     ![l].id = IF pod[p].label = Blank THEN None ELSE pod[p].label]
    /\ UNCHANGED <<clusterVars, indexVars>>

ListFindsNothing(l) ==
    /\ look[l].pc = "list"
    /\ PodsAt(look[l].ip) = {}
    /\ Moves(l, "claim")
    /\ UNCHANGED indexVars

ListFails(l) ==
    /\ "api" \in Faults
    /\ look[l].pc = "list"
    /\ Moves(l, "sleep")
    /\ UNCHANGED indexVars

(* claimDiagnostic: true when the address has no valid entry.  The timer   *)
(* of an expired one may still be to come.                                 *)
ClaimSucceeds(l) ==
    /\ look[l].pc \in {"blank", "claim"}
    /\ diagnosed[look[l].ip] # "valid"
    /\ Moves(l, IF look[l].pc = "claim" THEN "diagnose" ELSE "sleep")
    /\ diagnosed' = [diagnosed EXCEPT ![look[l].ip] = "valid"]
    /\ overdue' = IF diagnosed[look[l].ip] = "expired"
                    THEN overdue \cup {look[l].ip} ELSE overdue
    /\ UNCHANGED <<byPodIP, ready>>

ClaimRefused(l) ==
    /\ look[l].pc \in {"blank", "claim"}
    /\ diagnosed[look[l].ip] = "valid"
    /\ Moves(l, "sleep")
    /\ UNCHANGED indexVars

(* The list without the label selector only serves the log. *)
DiagnoseDone(l) ==
    /\ look[l].pc = "diagnose"
    /\ Moves(l, "sleep")
    /\ UNCHANGED indexVars

(* It fails: releaseDiagnostic removes the entry, not its timer. *)
DiagnoseFails(l) ==
    /\ "api" \in Faults
    /\ look[l].pc = "diagnose"
    /\ Moves(l, "sleep")
    /\ diagnosed' = [diagnosed EXCEPT ![look[l].ip] = "none"]
    /\ overdue' = overdue \cup {look[l].ip}
    /\ UNCHANGED <<byPodIP, ready>>

Stores(l) ==
    /\ look[l].pc = "store"
    /\ byPodIP' = [byPodIP EXCEPT ![look[l].ip] = look[l].id]
    /\ Returns(l, look[l].id)
    /\ UNCHANGED <<ready, diagnosed, overdue>>

(* Mutant: the polls are not counted. *)
SleepEnds_Forever(l) ==
    /\ look[l].pc = "sleep"
    /\ Moves(l, "check")
    /\ UNCHANGED indexVars

SleepEnds(l) ==
    /\ look[l].pc = "sleep"
    /\ look' = [look EXCEPT ![l].pc = IF look[l].tries + 1 < MaxTries
                                        THEN "check" ELSE "done",
                            ![l].tries = @ + 1]
    /\ UNCHANGED <<clusterVars, indexVars>>

(* ServeHTTP goes on with the id, or answers 403. *)
LookupEnds(l) ==
    /\ look[l].pc = "done"
    /\ look' = [look EXCEPT ![l] = NoLookup]
    /\ UNCHANGED <<clusterVars, indexVars>>

(***************************************************************************)
(* Time: an entry expires after diagnosticTTL, ten minutes, so not while   *)
(* the list it was claimed for, which has two seconds, is under way.  Its  *)
(* timer removes it then; a timer that finds another entry leaves it.      *)
(***************************************************************************)
EntryExpires(x) ==
    /\ "time" \in Faults
    /\ diagnosed[x] = "valid"
    /\ \A l \in Lookups : ~(look[l].pc = "diagnose" /\ look[l].ip = x)
    /\ diagnosed' = [diagnosed EXCEPT ![x] = "expired"]
    /\ UNCHANGED <<clusterVars, byPodIP, ready, overdue, look>>

TimerFires(x) ==
    /\ diagnosed[x] = "expired"
    /\ diagnosed' = [diagnosed EXCEPT ![x] = "none"]
    /\ UNCHANGED <<clusterVars, byPodIP, ready, overdue, look>>

(* Mutant: the timer does not look whose entry it removes. *)
OverdueTimerFires_Blind(x) ==
    /\ "time" \in Faults
    /\ x \in overdue
    /\ overdue' = overdue \ {x}
    /\ diagnosed' = [diagnosed EXCEPT ![x] = "none"]
    /\ UNCHANGED <<clusterVars, byPodIP, ready, look>>

OverdueTimerFires(x) ==
    /\ "time" \in Faults
    /\ x \in overdue
    /\ overdue' = overdue \ {x}
    /\ UNCHANGED <<clusterVars, byPodIP, ready, diagnosed, look>>

-----------------------------------------------------------------------------
LookupStep(l) ==
    \/ CacheHit(l) \/ CacheMiss(l)
    \/ ListFinds(l) \/ ListFindsNothing(l) \/ ListFails(l)
    \/ ClaimSucceeds(l) \/ ClaimRefused(l)
    \/ DiagnoseDone(l) \/ DiagnoseFails(l)
    \/ Stores(l) \/ SleepEnds(l) \/ LookupEnds(l)

ClusterStep ==
    \/ \E p \in Pods, label \in Labels, x \in IPs : PodStarts(p, label, x)
    \/ \E p \in Pods : \/ StatusPatched(p) \/ PodCompletes(p)
                       \/ PodTouched(p) \/ PodDeleted(p)

InformerStep ==
    \/ \E f \in ListOrders : InformerLists(f)
    \/ WatchBreaks
    \/ BecomesReady
    \/ HandlerRuns

Next ==
    \/ ClusterStep
    \/ InformerStep
    \/ \E l \in Lookups, p \in Pods : LookupStarts(l, p)
    \/ \E l \in Lookups : LookupStep(l)
    \/ \E x \in IPs : EntryExpires(x) \/ TimerFires(x) \/ OverdueTimerFires(x)

Spec == Init /\ [][Next]_vars

FairSpec == Spec /\ \A l \in Lookups : WF_vars(LookupStep(l))

-----------------------------------------------------------------------------
(***************************************************************************)
(* Properties.                                                             *)
(***************************************************************************)

(* The pod that waits for l, and is still there, gets id. *)
Answered(l, p, id) ==
    look[l].pc = "done" /\ look[l].client = p /\ look[l].id = id

(* A client is only ever taken for the id of its own label, whichever of   *)
(* the informer and the fallback wrote the index and whatever the order.   *)
(* Holds as long as addresses are not reused while the index has them.     *)
NoMisidentification ==
    \A l \in Lookups, p \in Pods, id \in Ids :
        Answered(l, p, id) => pod[p].label = id

(* Once the informer has caught up, every labelled pod with an address is  *)
(* registered: no event, however it interleaves with the lists, breaks of  *)
(* the watch and stores of lookups, is lost on the index.                  *)
CaughtUp ==
    watching /\ events = <<>> =>
        \A p \in Pods :
            /\ pod[p].phase = "running"
            /\ pod[p].label \in Ids
            /\ pod[p].ip # None
            => byPodIP[pod[p].ip] = pod[p].label

(* A labelled pod whose address is published before it asks is not turned  *)
(* away, even when the informer is late or the late delete of a previous   *)
(* owner of the address took its entry away: the fallback makes up for it  *)
(* as long as the API answers.                                             *)
NoFalseForbidden ==
    \A l \in Lookups, p \in Pods :
        look[l].status # None /\ pod[p].label \in Ids => ~Answered(l, p, None)

(* "Claim the diagnostic lookup atomically so concurrent retries cannot    *)
(* run the same unlabelled List": at most one such list per address,       *)
(* whatever the releases and the timers of earlier claims do meanwhile.    *)
SingleDiagnosis ==
    \A l, m \in Lookups :
        /\ look[l].pc = "diagnose" /\ look[m].pc = "diagnose"
        /\ look[l].ip = look[m].ip
        => l = m

(* Every lookup comes to an end, whatever the cluster does. *)
LookupsEnd == \A l \in Lookups : look[l].pc # "idle" ~> look[l].pc = "idle"

(* "Unlabelled callers receive 403" (README-proxy.md).  The store of a     *)
(* lookup is not ordered with the events: one that comes after the delete  *)
(* event of the pod was handled leaves an entry nothing removes, and the   *)
(* next pod with that address, labelled or not, is taken for the old one.  *)
UnlabelledForbidden ==
    \A l \in Lookups, p \in Pods, id \in Ids :
        pod[p].label \notin Ids => ~Answered(l, p, id)
=============================================================================
