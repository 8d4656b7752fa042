--------------------------- MODULE SessionManager ---------------------------
(***************************************************************************)
(* internal/session: the map from playwright-id to session, the goroutine  *)
(* that resolves a session with backend.Ensure, and the idle reaper.       *)
(*                                                                         *)
(* A *Session is a slot of Sess; obj[s] is what the struct holds.  A slot  *)
(* that neither the map nor a request refers to is Unused, as after a      *)
(* garbage collection, and may be allocated again, so that a finite Sess   *)
(* serves behaviours of any length.                                        *)
(*                                                                         *)
(* Time is kept as ages.  obj[s].idle is the age of lastActive, capped at  *)
(* IdleTTL, and lastRefresh[id] the age of the entry of that map, capped   *)
(* at Cooldown (also the value when there is no entry: an expired entry    *)
(* and an absent one are treated alike).  The code only compares the ages  *)
(* with those two limits.                                                  *)
(***************************************************************************)
EXTENDS Backend

CONSTANTS
    Sess,      \* slots for *Session values
    IdleTTL,   \* ticks without activity after which a session is reapable
    Cooldown   \* refreshCooldown in ticks

ASSUME SessionAssumption ==
    /\ Sess \subseteq Nat
    /\ None \notin Sess
    /\ IdleTTL \in Nat \ {0}
    /\ Cooldown \in Nat \ {0}

VARIABLES
    sessions,     \* Manager.sessions
    lastRefresh,  \* Manager.lastRefresh, as ages
    obj,          \* the Session structs
    victims       \* ids that reapOnce took off the map and has yet to Delete

managerVars == <<sessions, lastRefresh, obj, victims>>

Resolving == {"ensure", "poll"}              \* ready is still open
Phases == Resolving \cup {"unused", "ready", "failed"}

Session ==
    [id : Ids \cup {None}, phase : Phases, endpoint : Addrs \cup {None},
     idle : 0..IdleTTL, conns : Int]

Unused == [id |-> None, phase |-> "unused", endpoint |-> None,
           idle |-> 0, conns |-> 0]

(* Mutant: the new session does not know its id. *)
NewSession_NoId(id) == [Unused EXCEPT !.phase = "ensure"]

NewSession(id) == [Unused EXCEPT !.id = id, !.phase = "ensure"]

ManagerTypeOK ==
    /\ sessions \in [Ids -> Sess \cup {None}]
    /\ lastRefresh \in [Ids -> 0..Cooldown]
    /\ obj \in [Sess -> Session]
    /\ victims \in SUBSET Ids

ManagerInit ==
    /\ sessions = [id \in Ids |-> None]
    /\ lastRefresh = [id \in Ids |-> Cooldown]
    /\ obj = [s \in Sess |-> Unused]
    /\ victims = {}

(***************************************************************************)
(* Updates of one session.  They take and return the value of obj, so that *)
(* an action can do several.                                               *)
(***************************************************************************)
MarkActive(o, s) == [o EXCEPT ![s].idle = 0]

ConnOpened(o, s) == [o EXCEPT ![s].conns = @ + 1, ![s].idle = 0]

(* Mutant: a closed connection stays counted. *)
ConnReleased_Leaks(o, s) == o

(* The first of the two atomic writes of ConnClosed; MarkActive follows.   *)
ConnReleased(o, s) == [o EXCEPT ![s].conns = @ - 1]

(* Garbage collection: what neither the map m nor a request refers to (and *)
(* no resolve goroutine still runs for) becomes Unused.                    *)
Collect(o, m, held) ==
    [s \in Sess |->
        IF s \in held \/ o[s].phase \in Resolving \/ \E id \in Ids : m[id] = s
          THEN o[s]
          ELSE Unused]

(* The slot a new session gets: any would do, and the least one keeps the  *)
(* number of states down.                                                  *)
NextSlot(s) ==
    /\ obj[s].phase = "unused"
    /\ \A t \in Sess : obj[t].phase = "unused" => s <= t

(***************************************************************************)
(* Get, up to the unlock: the session of id, created and handed to a new   *)
(* resolve goroutine when the map has none.                                *)
(***************************************************************************)
GetSession(id, s) ==
    \/ /\ s = sessions[id]
       /\ UNCHANGED <<sessions, obj>>
    \/ /\ sessions[id] = None
       /\ NextSlot(s)
       /\ sessions' = [sessions EXCEPT ![id] = s]
       /\ obj' = [obj EXCEPT ![s] = NewSession(id)]

(* Mutant: whatever session the id has by now is dropped. *)
DropFailed_Any(id, s) == [sessions EXCEPT ![id] = None]

(* The map after Get saw session s of id fail.                             *)
DropFailed(id, s) ==
    IF sessions[id] = s THEN [sessions EXCEPT ![id] = None] ELSE sessions

(***************************************************************************)
(* Refresh, its two outcomes under the lock.                               *)
(***************************************************************************)
(* Mutant: the cooldown ends one tick early. *)
WithinCooldown_Short(id) == lastRefresh[id] + 1 < Cooldown

WithinCooldown(id) == lastRefresh[id] < Cooldown

(* Mutant: whatever session the id has by now is dropped. *)
DropStale_Any(id, stale) == [sessions EXCEPT ![id] = None]

(* The map after Refresh dropped the stale session: only the session the   *)
(* caller found unreachable is dropped, not a replacement of it.           *)
DropStale(id, stale) ==
    IF sessions[id] = stale THEN [sessions EXCEPT ![id] = None] ELSE sessions

RefreshStale(id, stale) ==
    /\ ~WithinCooldown(id)
    /\ sessions' = DropStale(id, stale)
    /\ lastRefresh' = [lastRefresh EXCEPT ![id] = 0]

(* Mutant: a refresh that does nothing restarts the cooldown. *)
RefreshNoop_Rearms(id) ==
    /\ WithinCooldown(id)
    /\ lastRefresh' = [lastRefresh EXCEPT ![id] = 0]
    /\ UNCHANGED sessions

RefreshNoop(id) ==
    /\ WithinCooldown(id)
    /\ UNCHANGED <<sessions, lastRefresh>>

(***************************************************************************)
(* The resolve goroutine: Ensure creates the resource, polls it for an     *)
(* endpoint, and ends with an endpoint or an error.  An error is always    *)
(* possible: an API call fails or ensureTimeout expires.  Closing ready    *)
(* publishes the outcome to every waiter.                                  *)
(***************************************************************************)
EnsureCreate(s) ==
    /\ obj[s].phase = "ensure"
    /\ BackendCreate(obj[s].id)
    /\ obj' = [obj EXCEPT ![s].phase = "poll"]
    /\ UNCHANGED <<sessions, lastRefresh, victims>>

EnsureDone(s) ==
    /\ obj[s].phase = "poll"
    /\ obj[s].id \in resource
    /\ \E a \in EndpointsFound(obj[s].id) :
          obj' = [obj EXCEPT ![s].phase = "ready", ![s].endpoint = a]
    /\ UNCHANGED <<backendVars, sessions, lastRefresh, victims>>

(* Mutant: nothing bounds the polling. *)
EnsureFail_NoTimeout(s) ==
    /\ obj[s].phase = "ensure"
    /\ obj' = [obj EXCEPT ![s].phase = "failed"]
    /\ UNCHANGED <<backendVars, sessions, lastRefresh, victims>>

EnsureFail(s) ==
    /\ obj[s].phase \in Resolving
    /\ obj' = [obj EXCEPT ![s].phase = "failed"]
    /\ UNCHANGED <<backendVars, sessions, lastRefresh, victims>>

(***************************************************************************)
(* The reaper.  ReapScan is reapOnce up to the unlock: it takes every      *)
(* reapable session off the map at once.  The Delete calls follow one by   *)
(* one, without the lock; one that fails is logged and not retried.  The   *)
(* next scan starts when all of them have returned.                        *)
(***************************************************************************)
(* Mutants: open connections do not count; a session that is resolving may *)
(* be reaped; one whose Ensure failed may not.                             *)
Reapable_IgnoresConns(id) ==
    /\ sessions[id] # None
    /\ obj[sessions[id]].phase \notin Resolving
    /\ obj[sessions[id]].idle = IdleTTL

Reapable_Unresolved(id) ==
    /\ sessions[id] # None
    /\ obj[sessions[id]].conns = 0
    /\ obj[sessions[id]].idle = IdleTTL

Reapable_OnlyReady(id) ==
    /\ sessions[id] # None
    /\ obj[sessions[id]].phase = "ready"
    /\ obj[sessions[id]].conns = 0
    /\ obj[sessions[id]].idle = IdleTTL

Reapable(id) ==
    /\ sessions[id] # None
    /\ obj[sessions[id]].phase \notin Resolving
    /\ obj[sessions[id]].conns = 0
    /\ obj[sessions[id]].idle = IdleTTL

ReapScan(held) ==
    LET reaped == {id \in Ids : Reapable(id)}
        remaining == [id \in Ids |-> IF id \in reaped THEN None ELSE sessions[id]]
    IN  /\ victims = {}
        /\ reaped # {}
        /\ victims' = reaped
        /\ sessions' = remaining
        /\ lastRefresh' =
              [id \in Ids |-> IF id \in reaped THEN Cooldown ELSE lastRefresh[id]]
        /\ obj' = Collect(obj, remaining, held)
        /\ UNCHANGED backendVars

ReapDelete(id) ==
    /\ id \in victims
    /\ BackendDelete(id)
    /\ victims' = victims \ {id}
    /\ UNCHANGED <<sessions, lastRefresh, obj>>

ReapDeleteFail(id) ==
    /\ id \in victims
    /\ victims' = victims \ {id}
    /\ UNCHANGED <<backendVars, sessions, lastRefresh, obj>>

(***************************************************************************)
(* Reconcile: one unresolved session per listed resource.  It runs before  *)
(* the listeners start, on an empty map; f says which slot each id gets.   *)
(***************************************************************************)
Reconcile(f) ==
    /\ \A id \in resource : obj[f[id]].phase = "unused"
    /\ \A i, j \in resource : f[i] = f[j] => i = j
    /\ sessions' = [id \in Ids |-> IF id \in resource THEN f[id] ELSE None]
    /\ obj' = [s \in Sess |->
                 IF \E id \in resource : f[id] = s
                   THEN NewSession(CHOOSE id \in resource : f[id] = s)
                   ELSE obj[s]]
    /\ UNCHANGED <<backendVars, lastRefresh, victims>>

(* The process ends: everything the manager holds is in memory only.       *)
ManagerLost ==
    /\ sessions' = [id \in Ids |-> None]
    /\ lastRefresh' = [id \in Ids |-> Cooldown]
    /\ obj' = [s \in Sess |-> Unused]
    /\ victims' = {}

(* One tick of the clock.  Unused slots do not age.                        *)
Tick ==
    /\ obj' = [s \in Sess |->
                 IF obj[s].phase = "unused" \/ obj[s].idle = IdleTTL
                   THEN obj[s]
                   ELSE [obj[s] EXCEPT !.idle = @ + 1]]
    /\ lastRefresh' = [id \in Ids |->
                         IF lastRefresh[id] = Cooldown
                           THEN Cooldown
                           ELSE lastRefresh[id] + 1]
    /\ UNCHANGED <<backendVars, sessions, victims>>
=============================================================================
