----------------------------- MODULE RateProofs -----------------------------
(***************************************************************************)
(* Proof that Refresh drops an id's session at most once per cooldown, for *)
(* every set of ids, requests and sessions, every choice of faults and all *)
(* durations with IdleTTL >= Cooldown.                                     *)
(*                                                                         *)
(* Refresh itself only looks at lastRefresh, which the reaper clears.  The *)
(* argument is that it clears it too late to matter: the session in the    *)
(* map is younger than the last drop, which emptied the map, and the       *)
(* reaper only takes it when it has been idle for IdleTTL (RateInv).       *)
(***************************************************************************)
EXTENDS RefreshRate, ProxyProofs

(* What a step other than a tick does to the ages: an age stays or starts  *)
(* again, and a session that is new in the map is new.                     *)
AgesReset ==
    /\ \A s \in Sess : obj'[s].idle \in {obj[s].idle, 0}
    /\ \A id \in Ids : sessions'[id] \in {sessions[id], None}
                         \/ obj'[sessions'[id]].idle = 0

(* The updates of a session that handlers make. *)
LEMMA IdleFacts ==
  ASSUME Inv, NEW s \in Sess
  PROVE  /\ \A t \in Sess : MarkActive(obj, s)[t].idle \in {obj[t].idle, 0}
         /\ \A t \in Sess : ConnOpened(obj, s)[t].idle \in {obj[t].idle, 0}
         /\ \A t \in Sess : ConnReleased(obj, s)[t].idle = obj[t].idle
         /\ Unused.idle = 0 /\ \A id \in Ids : NewSession(id).idle = 0
<1>1. obj \in [Sess -> Session]
  BY DEF Inv, TypeOK, ManagerTypeOK
<1>2. \A x \in Session : /\ [x EXCEPT !.idle = 0].idle = 0
                         /\ [x EXCEPT !.conns = x.conns + 1, !.idle = 0].idle = 0
                         /\ [x EXCEPT !.conns = x.conns - 1].idle = x.idle
  BY DEF Session
<1>3. \A t \in Sess : MarkActive(obj, s)[t].idle \in {obj[t].idle, 0}
  BY <1>1, <1>2 DEF MarkActive
<1>4. \A t \in Sess : ConnOpened(obj, s)[t].idle \in {obj[t].idle, 0}
  BY <1>1, <1>2 DEF ConnOpened
<1>5. \A t \in Sess : ConnReleased(obj, s)[t].idle = obj[t].idle
  BY <1>1, <1>2 DEF ConnReleased
<1>6. Unused.idle = 0 /\ \A id \in Ids : NewSession(id).idle = 0
  BY DEF Unused, NewSession
<1> QED BY <1>3, <1>4, <1>5, <1>6

(* Garbage collection makes no session older. *)
LEMMA CollectedAges ==
  ASSUME Inv, NEW n \in [Sess -> Session],
         \A t \in Sess : n[t].idle \in {obj[t].idle, 0}, NEW m, NEW held,
         obj' = n \/ obj' = Collect(n, m, held)
  PROVE  \A t \in Sess : obj'[t].idle \in {obj[t].idle, 0}
<1>1. \A t \in Sess : obj'[t] \in {n[t], Unused}
  BY CollectFacts
<1>2. Unused.idle = 0
  BY DEF Unused
<1> QED BY <1>1, <1>2

(* Get hands out the session the map has, or a new one. *)
LEMMA GetAges ==
  ASSUME Inv, NEW id \in Ids, NEW s \in Sess, GetSession(id, s)
  PROVE  AgesReset
<1>0. obj \in [Sess -> Session] /\ sessions \in [Ids -> Sess \cup {None}]
  BY DEF Inv, TypeOK, ManagerTypeOK
<1>1. CASE UNCHANGED <<sessions, obj>>
  BY <1>1 DEF AgesReset
<1>2. CASE /\ sessions' = [sessions EXCEPT ![id] = s]
           /\ obj' = [obj EXCEPT ![s] = NewSession(id)]
  BY <1>0, <1>2, IdleFacts DEF AgesReset
<1> QED BY <1>1, <1>2 DEF GetSession

(* No step of a handler makes a session older. *)
LEMMA HandlerAges ==
  ASSUME Inv, NEW r \in Reqs, HandlerStep(r)
  PROVE  AgesReset
<1>0. obj \in [Sess -> Session] /\ sessions \in [Ids -> Sess \cup {None}]
  BY DEF Inv, TypeOK, ManagerTypeOK
<1>1. req[r].pc # "idle"
  BY DEF HandlerStep, GetReturns, GetFails, GetCancelled, BodyReadFails, Connects,
     DialFails, GivesUp, RefreshReturnsCurrent, RefreshFindsNone, RefreshDrops, RefreshGet,
     RefreshReturns, RefreshFails, RefreshCancelled, UpgradeAccepted, UpgradeFails,
     TunnelEnds, ConnClosedMarks, HttpDone, HttpAborted
<1>2. req[r].id \in Ids /\ req[r].sess \in Sess /\ obj[req[r].sess].phase # "unused"
  BY <1>1, Serving
<1>3. CASE RefreshGet(r)
  BY <1>2, <1>3, GetAges DEF RefreshGet
<1>4. CASE ~RefreshGet(r)
  <2>1. \A id \in Ids : sessions'[id] \in {sessions[id], None}
    <3>1. CASE \/ GetReturns(r) \/ Connects(r) \/ DialFails(r)
               \/ RefreshReturnsCurrent(r) \/ RefreshFindsNone(r)
               \/ RefreshReturns(r) \/ UpgradeAccepted(r) \/ TunnelEnds(r)
      BY <3>1 DEF GetReturns, Connects, DialFails, RefreshReturnsCurrent,
           RefreshFindsNone, RefreshNoop, RefreshReturns, UpgradeAccepted, TunnelEnds
    <3>2. CASE RefreshDrops(r)
      BY <1>0, <3>2 DEF RefreshDrops, RefreshStale, DropStale
    <3>3. CASE GetFails(r) \/ RefreshFails(r)
      BY <1>0, <3>3 DEF GetFails, RefreshFails, Return, DropFailed
    <3>4. CASE \/ GetCancelled(r) \/ BodyReadFails(r) \/ GivesUp(r)
               \/ RefreshCancelled(r) \/ UpgradeFails(r)
               \/ ConnClosedMarks(r) \/ HttpDone(r) \/ HttpAborted(r)
      BY <3>4 DEF GetCancelled, BodyReadFails, GivesUp, RefreshCancelled,
           UpgradeFails, ConnClosedMarks, HttpDone, HttpAborted, Return
    <3> QED BY <1>4, <3>1, <3>2, <3>3, <3>4 DEF HandlerStep
  <2> DEFINE N == {obj, MarkActive(obj, req[r].sess), ConnOpened(obj, req[r].sess),
                   ConnReleased(obj, req[r].sess)}
  <2>2. \E n \in N : obj' = n \/ \E m, held : obj' = Collect(n, m, held)
    <3>1. CASE \/ GetReturns(r) \/ DialFails(r) \/ RefreshFindsNone(r) \/ RefreshDrops(r)
               \/ UpgradeAccepted(r) \/ TunnelEnds(r)
      BY <3>1 DEF GetReturns, DialFails, RefreshFindsNone, RefreshDrops, UpgradeAccepted,
           TunnelEnds
    <3>2. CASE Connects(r) \/ RefreshReturnsCurrent(r) \/ RefreshReturns(r)
      BY <3>2 DEF Connects, RefreshReturnsCurrent, RefreshReturns
    <3>3. CASE \/ GetFails(r) \/ GetCancelled(r) \/ BodyReadFails(r) \/ GivesUp(r)
               \/ RefreshFails(r) \/ RefreshCancelled(r) \/ UpgradeFails(r)
               \/ ConnClosedMarks(r) \/ HttpDone(r) \/ HttpAborted(r)
      BY <3>3 DEF GetFails, GetCancelled, BodyReadFails, GivesUp, RefreshFails,
         RefreshCancelled, UpgradeFails, ConnClosedMarks, HttpDone, HttpAborted,
         AfterFailure, Return
    <3> QED BY <1>4, <3>1, <3>2, <3>3 DEF HandlerStep
  <2>3. PICK n \in N : obj' = n \/ \E m, held : obj' = Collect(n, m, held)
    BY <2>2
  <2>4. n \in [Sess -> Session] /\ \A t \in Sess : n[t].idle \in {obj[t].idle, 0}
    BY <1>2, SessionUpdates, IdleFacts
  <2> HIDE DEF N
  <2>5. \A t \in Sess : obj'[t].idle \in {obj[t].idle, 0}
    BY <2>3, <2>4, CollectedAges
  <2> QED BY <2>1, <2>5 DEF AgesReset
<1> QED BY <1>3, <1>4

(* Nothing but the clock does. *)
LEMMA StepAges ==
  ASSUME Inv, Step
  PROVE  AgesReset
<1>0. /\ obj \in [Sess -> Session] /\ sessions \in [Ids -> Sess \cup {None}]
      /\ resource \subseteq Ids
  BY DEF Inv, TypeOK, ManagerTypeOK, BackendTypeOK
<1>1. ASSUME NEW r \in Reqs, NEW id \in Ids, NEW k \in Kinds, Accept(r, id, k)
      PROVE  AgesReset
  BY <1>1, GetAges DEF Accept
<1>2. CASE ResolveStep
  <2>1. sessions' = sessions
    BY <1>2 DEF ResolveStep, EnsureCreate, EnsureDone, EnsureFail
  <2>2. \A t \in Sess : obj'[t].idle = obj[t].idle
    BY <1>0, <1>2 DEF ResolveStep, EnsureCreate, EnsureDone, EnsureFail, Session
  <2> QED BY <2>1, <2>2 DEF AgesReset
<1>3. CASE ReapStep
  <2>1. obj' = obj \/ \E m : obj' = Collect(obj, m, HeldBy(req))
    BY <1>3 DEF ReapStep, ReapScan, ReapDelete, ReapDeleteFail
  <2>2. \A t \in Sess : obj'[t].idle \in {obj[t].idle, 0}
    BY <1>0, <2>1, CollectedAges
  <2>3. \A id \in Ids : sessions'[id] \in {sessions[id], None}
    BY <1>3 DEF ReapStep, ReapScan, ReapDelete, ReapDeleteFail
  <2> QED BY <2>2, <2>3 DEF AgesReset
<1>4. CASE Crash
  BY <1>4 DEF Crash, ManagerLost, AgesReset, Unused
<1>5. CASE Start
  <2>1. CASE UNCHANGED <<backendVars, managerVars>>
    BY <2>1 DEF managerVars, AgesReset
  <2>2. ASSUME NEW f \in [resource -> Sess], Reconcile(f) PROVE AgesReset
    <3>1. \A s \in Sess : obj[s] = Unused
      BY <1>5 DEF Start, Inv, IndInv, UnusedInv
    <3>2. ASSUME NEW s \in Sess PROVE obj'[s].idle = 0
      <4>1. CASE \E id \in resource : f[id] = s
        <5>1. obj'[s] = NewSession(CHOOSE id \in resource : f[id] = s)
          BY <2>2, <4>1 DEF Reconcile
        <5>2. (CHOOSE id \in resource : f[id] = s) \in Ids
          BY <1>0, <4>1
        <5> QED BY <5>1, <5>2 DEF NewSession, Unused
      <4>2. CASE ~\E id \in resource : f[id] = s
        BY <2>2, <3>1, <4>2 DEF Reconcile, Unused
      <4> QED BY <4>1, <4>2
    <3>3. \A id \in Ids : sessions'[id] \in Sess \cup {None}
      BY <2>2 DEF Reconcile
    <3> QED BY <3>2, <3>3 DEF AgesReset
  <2> QED BY <1>5, <2>1, <2>2 DEF Start
<1>6. CASE \E id \in Ids : PodStarts(id) \/ PodEvicted(id)
  BY <1>6 DEF PodStarts, PodEvicted, managerVars, AgesReset
<1> QED BY <1>1, <1>2, <1>3, <1>4, <1>5, <1>6, HandlerAges DEF Step

(* Only Refresh, the end of the process and the reaper write lastRefresh;  *)
(* the reaper only for the sessions it takes.                              *)
LEMMA StepRefreshes ==
  ASSUME Inv, Step, NEW id \in Ids
  PROVE  \/ lastRefresh'[id] \in {lastRefresh[id], 0}
         \/ ~up'
         \/ Reapable(id) /\ lastRefresh'[id] = Cooldown
<1>0. lastRefresh \in [Ids -> 0..Cooldown]
  BY DEF Inv, TypeOK, ManagerTypeOK
<1>1. ASSUME NEW r \in Reqs, HandlerStep(r) PROVE lastRefresh'[id] \in {lastRefresh[id], 0}
  <2>1. CASE RefreshDrops(r)
    BY <1>0, <2>1 DEF RefreshDrops, RefreshStale
  <2>2. CASE ~RefreshDrops(r)
    <3>1. lastRefresh' = lastRefresh
      BY <1>1, <2>2 DEF HandlerStep, GetReturns, GetFails, GetCancelled, BodyReadFails,
         Connects, DialFails, GivesUp, RefreshReturnsCurrent, RefreshFindsNone, RefreshNoop,
         RefreshGet, RefreshReturns, RefreshFails, RefreshCancelled, UpgradeAccepted,
         UpgradeFails, TunnelEnds, ConnClosedMarks, HttpDone, HttpAborted, HandlerFrame
    <3> QED BY <3>1
  <2> QED BY <2>1, <2>2
<1>2. CASE ReapStep
  BY <1>2 DEF ReapStep, ReapScan, ReapDelete, ReapDeleteFail
<1>3. CASE Crash
  BY <1>3 DEF Crash
<1>4. CASE \/ ResolveStep \/ Start \/ \E i \in Ids : PodStarts(i) \/ PodEvicted(i)
           \/ \E r \in Reqs, i \in Ids, k \in Kinds : Accept(r, i, k)
  <2>1. lastRefresh' = lastRefresh
    BY <1>4 DEF ResolveStep, EnsureCreate, EnsureDone, EnsureFail, Start, Reconcile,
       PodStarts, PodEvicted, managerVars, Accept, HandlerFrame
  <2> QED BY <2>1
<1> QED BY <1>1, <1>2, <1>3, <1>4 DEF Step

(* Only a request's own Refresh moves it past the lock of Refresh. *)
LEMMA OthersStay ==
  ASSUME Inv, Next, NEW r \in Reqs, req[r].pc = "refresh", req'[r].pc = "rget"
  PROVE  RefreshFindsNone(r) \/ RefreshDrops(r)
<1>0. req \in [Reqs -> Request] /\ NoRequest.pc = "idle"
  BY DEF Inv, TypeOK, NoRequest
<1>1. ASSUME NEW p \in Reqs, p # r, HandlerStep(p) PROVE FALSE
  <2>1. \E q : req' = [req EXCEPT ![p] = q]
    BY <1>1 DEF HandlerStep, GetReturns, GetFails, GetCancelled, BodyReadFails,
         Connects, DialFails, GivesUp, RefreshReturnsCurrent, RefreshFindsNone, RefreshDrops,
         RefreshGet, RefreshReturns, RefreshFails, RefreshCancelled, UpgradeAccepted,
         UpgradeFails, TunnelEnds, ConnClosedMarks, HttpDone, HttpAborted, Return, Goto
  <2> QED BY <1>0, <1>1, <2>1
<1>2. ASSUME HandlerStep(r) PROVE RefreshFindsNone(r) \/ RefreshDrops(r)
  <2>1. \/ RefreshReturnsCurrent(r) \/ RefreshFindsNone(r) \/ RefreshDrops(r)
    BY <1>2 DEF HandlerStep, GetReturns, GetFails, GetCancelled, BodyReadFails,
         Connects, DialFails, GivesUp,
         RefreshGet, RefreshReturns, RefreshFails, RefreshCancelled, UpgradeAccepted,
         UpgradeFails, TunnelEnds, ConnClosedMarks, HttpDone, HttpAborted
  <2>2. ASSUME RefreshReturnsCurrent(r) PROVE FALSE
    <3>1. \A s : RefreshResult(req[r], s).pc = "redial"
      BY <1>0 DEF RefreshResult, Request
    <3> QED BY <1>0, <2>2, <3>1 DEF RefreshReturnsCurrent
  <2> QED BY <2>1, <2>2
<1>3. ASSUME NEW p \in Reqs, NEW id \in Ids, NEW k \in Kinds, Accept(p, id, k) PROVE FALSE
  <2>1. p # r
    BY <1>3 DEF Accept
  <2> QED BY <1>0, <1>3, <2>1 DEF Accept
<1>4. ASSUME Crash PROVE FALSE
  BY <1>0, <1>4 DEF Crash
<1>5. ASSUME \/ TimePasses \/ Start \/ \E id \in Ids : PodStarts(id) \/ PodEvicted(id)
             \/ (ResolveStep \/ ReapStep) /\ UNCHANGED <<up, req>>
      PROVE FALSE
  BY <1>5 DEF TimePasses, Start, PodStarts, PodEvicted
<1> QED BY <1>1, <1>2, <1>3, <1>4, <1>5 DEF Next, Step

(* A Refresh that drops a session found no entry, or an expired one, in    *)
(* lastRefresh, and leaves a fresh one.                                    *)
LEMMA DropFactsOf ==
  ASSUME Inv, Next, NEW id \in Ids, Drops(id)
  PROVE  lastRefresh[id] = Cooldown /\ lastRefresh'[id] = 0
<1>0. lastRefresh \in [Ids -> 0..Cooldown]
  BY DEF Inv, TypeOK, ManagerTypeOK
<1>1. PICK r \in Reqs : req[r].pc = "refresh" /\ req[r].id = id /\ req'[r].pc = "rget"
  BY DEF Drops
<1>2. RefreshDrops(r)
  BY <1>1, OthersStay DEF Drops, RefreshFindsNone
<1> QED BY <1>0, <1>1, <1>2, SessionAssumption DEF RefreshDrops, RefreshStale, WithinCooldown

(* lastRefresh is never older than the last drop, and neither is the       *)
(* session in the map, unless the last drop is a cooldown ago.             *)
RateInv ==
    /\ sinceDrop \in [Ids -> 0..Cooldown]
    /\ \A id \in Ids :
         /\ lastRefresh[id] <= sinceDrop[id]
         /\ \/ sessions[id] = None \/ sinceDrop[id] = Cooldown
            \/ obj[sessions[id]].idle <= sinceDrop[id]

(* Nothing has been dropped at first. *)
LEMMA RateInitInv == RateInit => RateInv
BY SessionAssumption DEF RateInit, Init, ManagerInit, RateInv

(* The clock keeps the invariant. *)
LEMMA RateTick ==
  ASSUME Inv, RateInv, TimePasses,
         sinceDrop' = [id \in Ids |->
             IF sinceDrop[id] = Cooldown THEN Cooldown ELSE sinceDrop[id] + 1]
  PROVE  RateInv'
<1>0. /\ obj \in [Sess -> Session] /\ sessions \in [Ids -> Sess \cup {None}]
      /\ lastRefresh \in [Ids -> 0..Cooldown] /\ sinceDrop \in [Ids -> 0..Cooldown]
  BY DEF Inv, TypeOK, ManagerTypeOK, RateInv
<1>1. ASSUME NEW id \in Ids
      PROVE  /\ sinceDrop'[id] \in 0..Cooldown
             /\ lastRefresh'[id] <= sinceDrop'[id]
             /\ sinceDrop'[id] = IF sinceDrop[id] = Cooldown THEN Cooldown ELSE sinceDrop[id] + 1
  <2>1. lastRefresh'[id] = IF lastRefresh[id] = Cooldown THEN Cooldown ELSE lastRefresh[id] + 1
    BY DEF TimePasses, Tick
  <2>2. lastRefresh[id] <= sinceDrop[id]
    BY DEF RateInv
  <2> QED BY <1>0, <2>1, <2>2, SessionAssumption
<1>2. ASSUME NEW id \in Ids, sessions'[id] # None, sinceDrop'[id] # Cooldown
      PROVE  obj'[sessions'[id]].idle <= sinceDrop'[id]
  <2>1. sessions' = sessions
    BY DEF TimePasses, Tick
  <2>2. sessions[id] \in Sess /\ obj[sessions[id]] \in Session
    BY <1>0, <1>2, <2>1
  <2>3. sinceDrop'[id] = sinceDrop[id] + 1 /\ sinceDrop[id] \in Nat
    BY <1>0, <1>1, <1>2, SessionAssumption
  <2>4. obj[sessions[id]].idle <= sinceDrop[id] /\ obj[sessions[id]].idle \in Nat
    BY <1>1, <1>2, <2>1, <2>2, SessionAssumption DEF RateInv, Session
  <2>5. obj'[sessions[id]].idle \in {obj[sessions[id]].idle, obj[sessions[id]].idle + 1}
    BY <2>2 DEF TimePasses, Tick, Session
  <2> QED BY <2>1, <2>3, <2>4, <2>5
<1>3. sinceDrop' \in [Ids -> 0..Cooldown]
  BY <1>1
<1> QED BY <1>1, <1>2, <1>3 DEF RateInv

(* So does every other step.  When the reaper clears lastRefresh, the      *)
(* session it takes has been idle for IdleTTL, so the last drop is a       *)
(* cooldown ago.                                                           *)
LEMMA RateStep ==
  ASSUME Inv, RateInv, IdleTTL >= Cooldown, Step,
         sinceDrop' = [id \in Ids |->
             IF ~up' THEN Cooldown ELSE IF Drops(id) THEN 0 ELSE sinceDrop[id]]
  PROVE  RateInv'
<1>0. /\ obj \in [Sess -> Session] /\ sessions \in [Ids -> Sess \cup {None}]
      /\ lastRefresh \in [Ids -> 0..Cooldown] /\ sinceDrop \in [Ids -> 0..Cooldown]
      /\ IdleTTL \in Nat /\ Cooldown \in Nat
  BY SessionAssumption DEF Inv, TypeOK, ManagerTypeOK, RateInv
<1>1. Inv' /\ lastRefresh' \in [Ids -> 0..Cooldown]
  BY NextInv DEF Next, Inv, TypeOK, ManagerTypeOK
<1>2. sinceDrop' \in [Ids -> 0..Cooldown]
  BY <1>0
<1>3. ASSUME NEW id \in Ids PROVE lastRefresh'[id] <= sinceDrop'[id]
  <2>1. CASE ~up'
    BY <1>0, <1>1, <2>1
  <2>2. CASE up' /\ Drops(id)
    BY <1>0, <2>2, DropFactsOf DEF Next
  <2>3. CASE up' /\ ~Drops(id)
    <3>1. sinceDrop'[id] = sinceDrop[id] /\ lastRefresh[id] <= sinceDrop[id]
      BY <2>3 DEF RateInv
    <3>2. CASE lastRefresh'[id] \in {lastRefresh[id], 0}
      BY <1>0, <3>1, <3>2
    <3>3. CASE Reapable(id) /\ lastRefresh'[id] = Cooldown
      <4>1. sessions[id] # None /\ obj[sessions[id]].idle = IdleTTL
        BY <3>3 DEF Reapable
      <4>2. sinceDrop[id] = Cooldown
        BY <1>0, <4>1 DEF RateInv
      <4> QED BY <1>0, <3>1, <3>3, <4>2
    <3> QED BY <2>3, <3>2, <3>3, StepRefreshes
  <2> QED BY <2>1, <2>2, <2>3
<1>4. ASSUME NEW id \in Ids, sessions'[id] # None, sinceDrop'[id] # Cooldown
      PROVE  obj'[sessions'[id]].idle <= sinceDrop'[id]
  <2>1. sinceDrop'[id] = IF Drops(id) THEN 0 ELSE sinceDrop[id]
    BY <1>4
  <2>2. ~Drops(id)
    BY <1>4 DEF Drops
  <2>3. CASE sessions'[id] = sessions[id]
    <3>1. /\ obj'[sessions[id]].idle \in {obj[sessions[id]].idle, 0}
          /\ obj[sessions[id]].idle <= sinceDrop[id] /\ sinceDrop[id] \in Nat
      BY <1>0, <1>4, <2>1, <2>2, <2>3, StepAges DEF AgesReset, RateInv
    <3> QED BY <2>1, <2>2, <2>3, <3>1
  <2>4. CASE obj'[sessions'[id]].idle = 0
    BY <1>0, <2>1, <2>2, <2>4
  <2> QED BY <1>4, <2>3, <2>4, StepAges DEF AgesReset
<1> QED BY <1>2, <1>3, <1>4 DEF RateInv

(* The history variable does not restrict the proxy. *)
LEMMA RateImplements == RateSpec => Spec
<1>1. RateInit => Init
  BY DEF RateInit
<1>2. [RateNext]_rateVars => [Next]_vars
  BY DEF RateNext, Next, rateVars
<1> QED BY <1>1, <1>2, PTL DEF RateSpec, Spec

(* Within refreshCooldown of dropping a session of an id Refresh does not  *)
(* drop another, however many requests fail to dial it and although the    *)
(* reaper clears lastRefresh (session.go:189), provided that sessions are  *)
(* not reaped sooner than that.                                            *)
THEOREM DropsSpaced == IdleTTL >= Cooldown => (RateSpec => DropsAreSpaced)
<1> SUFFICES ASSUME IdleTTL >= Cooldown PROVE RateSpec => DropsAreSpaced
  OBVIOUS
<1>1. Inv /\ RateInv /\ [RateNext]_rateVars => RateInv'
  <2> SUFFICES ASSUME Inv, RateInv, [RateNext]_rateVars PROVE RateInv'
    OBVIOUS
  <2>1. CASE UNCHANGED rateVars
    BY <2>1 DEF rateVars, vars, RateInv
  <2> QED BY <2>1, RateTick, RateStep DEF RateNext
<1>2. Inv /\ RateInv /\ [RateNext]_rateVars =>
        [\A id \in Ids : Drops(id) => sinceDrop[id] = Cooldown]_rateVars
  <2> SUFFICES ASSUME Inv, RateInv, RateNext, NEW id \in Ids, Drops(id)
               PROVE  sinceDrop[id] = Cooldown
    OBVIOUS
  <2>1. lastRefresh[id] = Cooldown
    BY DropFactsOf DEF RateNext, Next
  <2> QED BY <2>1, SessionAssumption DEF RateInv
<1> QED BY <1>1, <1>2, RateInitInv, RateImplements, InductiveInvariant, PTL
        DEF RateSpec, DropsAreSpaced
=============================================================================
