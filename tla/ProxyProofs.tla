---------------------------- MODULE ProxyProofs ----------------------------
(***************************************************************************)
(* Proofs about ProxyHandler for every set of ids, requests, sessions and  *)
(* addresses and every choice of faults.                                   *)
(*                                                                         *)
(* The invariant SingleEnsure is not inductive: that Refresh cannot drop a *)
(* session while it is resolving, and so let Get start a second Ensure,    *)
(* follows from what the handlers hold (RequestInv), and that Get creates  *)
(* no second session follows from the map naming every session that is     *)
(* resolving (ResolvingInv).  IndInv is the conjunction that is inductive. *)
(*                                                                         *)
(* Most steps only move one request and touch sessions in the harmless     *)
(* ways of Evolves; MoveInv does the work for all of them at once.  Steps  *)
(* that create sessions (Get, Reconcile) and the crash have lemmas of      *)
(* their own.                                                              *)
(***************************************************************************)
EXTENDS ProxyGate, TLAPS

(* What is shown to be inductive. *)
Inv == TypeOK /\ IndInv

(* The invariant holds when the process has just started for the first     *)
(* time, before any request.                                               *)
LEMMA InitInv == Init => Inv
<1> SUFFICES ASSUME Init PROVE Inv
  OBVIOUS
<1> USE NoneAssumption, SessionAssumption, HandlerAssumption
<1> USE DEF Init, BackendInit, ManagerInit, NoRequest, Unused
<1>1. TypeOK
  BY DEF TypeOK, BackendTypeOK, ManagerTypeOK, Session, Phases, Request, PCs
<1>2. IndInv
  BY DEF IndInv, MapInv, ResolvingInv, RequestInv, RequestOK, UnusedInv, HoldsOwn, Resolving
<1> QED BY <1>1, <1>2 DEF Inv

(* Garbage collection keeps what is referred to and frees the rest. *)
LEMMA CollectFacts ==
  ASSUME NEW o \in [Sess -> Session], NEW m, NEW held
  PROVE  /\ Collect(o, m, held) \in [Sess -> Session]
         /\ \A s \in Sess : Collect(o, m, held)[s] \in {o[s], Unused}
         /\ \A s \in Sess : s \in held => Collect(o, m, held)[s] = o[s]
         /\ \A s \in Sess : o[s].phase \in Resolving => Collect(o, m, held)[s] = o[s]
         /\ \A id \in Ids : m[id] \in Sess => Collect(o, m, held)[m[id]] = o[m[id]]
<1>1. Unused \in Session
  BY SessionAssumption DEF Unused, Session, Phases
<1> QED BY <1>1 DEF Collect

(* A session that a handler refers to is one the garbage collection        *)
(* spares.                                                                 *)
LEMMA HeldFacts ==
  ASSUME NEW q \in [Reqs -> Request], NEW r \in Reqs
  PROVE  /\ q[r].sess # None => q[r].sess \in HeldBy(q)
         /\ q[r].ref # None => q[r].ref \in HeldBy(q)
  BY DEF HeldBy, Request

(* An empty slot is in order. *)
LEMMA NoRequestFacts ==
  ASSUME NEW o
  PROVE  NoRequest \in Request /\ NoRequest.pc = "idle" /\ RequestOK(NoRequest, o)
<1>1. NoRequest.pc = "idle" /\ NoRequest.ref = None
  BY DEF NoRequest
<1>2. NoRequest \in Request
  BY DEF NoRequest, Request, PCs
<1>3. RequestOK(NoRequest, o)
  BY <1>1 DEF RequestOK
<1> QED BY <1>1, <1>2, <1>3

(* How a session that stays in use may change in a step. *)
Evolves(a, b) ==
    /\ a.id = b.id
    /\ a.phase = b.phase \/ (a.phase \in Resolving /\ b.phase # "unused")

(* A request that does not move stays in order when its sessions evolve. *)
LEMMA RequestStable ==
  ASSUME NEW q \in Request, NEW o, NEW n, RequestOK(q, o),
         q.sess # None => Evolves(o[q.sess], n[q.sess]),
         q.ref # None => Evolves(o[q.ref], n[q.ref])
  PROVE  RequestOK(q, n)
<1> USE NoneAssumption, SessionAssumption, HandlerAssumption
<1>1. CASE q.pc = "idle"
  BY <1>1 DEF RequestOK, NoRequest
<1>2. CASE q.pc # "idle"
  BY <1>2 DEF RequestOK, HoldsOwn, Evolves, Resolving
<1> QED BY <1>1, <1>2

(* The steps that create no session.  n is what they make of the sessions  *)
(* before garbage collection.  They may take a session off the map, but    *)
(* not one that is resolving.                                              *)
Updates(n) ==
    \A s \in Sess : /\ Evolves(obj[s], n[s])
                    /\ n[s].phase \in Resolving => obj[s].phase \in Resolving
                    /\ n[s].phase = "unused" => n[s] = Unused

OnlyDrops(m) ==
    \A id \in Ids : \/ m[id] = sessions[id]
                    \/ m[id] = None /\ obj[sessions[id]].phase \notin Resolving

(* A step in which one request moves, sessions evolve, and the map loses   *)
(* at most sessions that are not resolving preserves the invariant.        *)
LEMMA MoveInv ==
  ASSUME Inv, TypeOK', NEW n \in [Sess -> Session],
         Updates(n), OnlyDrops(sessions'),
         obj' = n \/ obj' = Collect(n, sessions', HeldBy(req')),
         \A p \in Reqs : req'[p] = req[p] \/ RequestOK(req'[p], n),
         up' = up, up \/ req' = req
  PROVE  Inv'
<1> USE NoneAssumption, SessionAssumption, HandlerAssumption
<1>1. /\ \A s \in Sess : obj'[s] \in {n[s], Unused}
      /\ \A s \in Sess : s \in HeldBy(req') => obj'[s] = n[s]
      /\ \A s \in Sess : n[s].phase \in Resolving => obj'[s] = n[s]
      /\ \A id \in Ids : sessions'[id] \in Sess => obj'[sessions'[id]] = n[sessions'[id]]
  BY CollectFacts
<1>2. MapInv'
  <2> SUFFICES ASSUME NEW id \in Ids, sessions'[id] # None
               PROVE  /\ obj'[sessions'[id]].id = id
                      /\ obj'[sessions'[id]].phase # "unused"
    BY DEF MapInv
  <2>1. sessions'[id] = sessions[id] /\ sessions[id] \in Sess
    BY DEF OnlyDrops, Inv, TypeOK, ManagerTypeOK
  <2>2. obj[sessions[id]].id = id /\ obj[sessions[id]].phase # "unused"
    BY <2>1 DEF Inv, IndInv, MapInv
  <2>3. Evolves(obj[sessions[id]], n[sessions[id]])
    BY <2>1 DEF Updates
  <2>4. n[sessions[id]].id = id /\ n[sessions[id]].phase # "unused"
    BY <2>2, <2>3 DEF Evolves
  <2>5. obj'[sessions'[id]] = n[sessions[id]]
    BY <2>1, <1>1
  <2> QED BY <2>1, <2>4, <2>5
<1>3. ResolvingInv'
  <2> SUFFICES ASSUME NEW s \in Sess, obj'[s].phase \in Resolving
               PROVE  obj'[s].id \in Ids /\ sessions'[obj'[s].id] = s
    BY DEF ResolvingInv
  <2>1. Unused.phase \notin Resolving
    BY DEF Unused, Resolving
  <2>2. obj'[s] = n[s]
    BY <2>1, <1>1
  <2>3. obj[s].phase \in Resolving /\ n[s].id = obj[s].id
    BY <2>2 DEF Updates, Evolves
  <2>4. obj[s].id \in Ids /\ sessions[obj[s].id] = s
    BY <2>3 DEF Inv, IndInv, ResolvingInv
  <2>5. sessions'[obj[s].id] = s
    BY <2>3, <2>4 DEF OnlyDrops
  <2> QED BY <2>2, <2>3, <2>4, <2>5
<1>4. RequestInv'
  <2> SUFFICES ASSUME NEW p \in Reqs PROVE RequestOK(req'[p], obj')
    BY DEF RequestInv
  <2>1. RequestOK(req'[p], n)
    <3>1. CASE req'[p] = req[p]
      <4>1. RequestOK(req[p], obj) /\ req[p] \in Request
        BY DEF Inv, IndInv, RequestInv, TypeOK
      <4>2. /\ req[p].sess # None => Evolves(obj[req[p].sess], n[req[p].sess])
            /\ req[p].ref # None => Evolves(obj[req[p].ref], n[req[p].ref])
        BY <4>1 DEF Updates, Request
      <4> QED BY <3>1, <4>1, <4>2, RequestStable
    <3> QED BY <3>1
  <2>2. req' \in [Reqs -> Request]
    BY DEF TypeOK
  <2>3. /\ req'[p].sess # None => req'[p].sess \in HeldBy(req')
        /\ req'[p].ref # None => req'[p].ref \in HeldBy(req')
    BY <2>2, HeldFacts
  <2>4. req'[p].sess \in Sess \cup {None} /\ req'[p].ref \in Sess \cup {None}
    BY <2>2 DEF Request
  <2>5. /\ req'[p].sess # None => Evolves(n[req'[p].sess], obj'[req'[p].sess])
        /\ req'[p].ref # None => Evolves(n[req'[p].ref], obj'[req'[p].ref])
    BY <2>3, <2>4, <1>1 DEF Evolves
  <2> QED BY <2>1, <2>2, <2>5, RequestStable
<1>5. UnusedInv'
  <2>1. ASSUME NEW s \in Sess, obj'[s].phase = "unused"
        PROVE  obj'[s] = Unused
    BY <2>1, <1>1 DEF Updates
  <2>2. ASSUME ~up', NEW s \in Sess
        PROVE  obj'[s] = Unused
    <3>1. obj[s].phase = "unused"
      <4>1. obj[s] = Unused
        BY <2>2 DEF Inv, IndInv, UnusedInv
      <4> QED BY <4>1 DEF Unused
    <3>2. n[s].phase = "unused"
      BY <3>1 DEF Updates, Evolves, Resolving
    <3> QED BY <3>2, <1>1 DEF Updates
  <2>3. ASSUME ~up', NEW p \in Reqs
        PROVE  req'[p].pc = "idle"
    BY <2>3 DEF Inv, IndInv, UnusedInv
  <2> QED BY <2>1, <2>2, <2>3 DEF UnusedInv
<1> QED BY <1>2, <1>3, <1>4, <1>5 DEF Inv, IndInv

(* The updates of one session that handlers make leave its id and phase,   *)
(* and the other sessions, alone.                                          *)
LEMMA UpdateFields ==
  ASSUME NEW o \in [Sess -> Session], NEW s \in Sess, NEW t \in Sess
  PROVE  /\ t # s => /\ MarkActive(o, s)[t] = o[t]
                     /\ ConnOpened(o, s)[t] = o[t]
                     /\ ConnReleased(o, s)[t] = o[t]
         /\ MarkActive(o, s)[t].id = o[t].id /\ MarkActive(o, s)[t].phase = o[t].phase
         /\ ConnOpened(o, s)[t].id = o[t].id /\ ConnOpened(o, s)[t].phase = o[t].phase
         /\ ConnReleased(o, s)[t].id = o[t].id /\ ConnReleased(o, s)[t].phase = o[t].phase
<1>1. ASSUME NEW x \in Session
      PROVE  /\ [x EXCEPT !.idle = 0].id = x.id /\ [x EXCEPT !.idle = 0].phase = x.phase
             /\ [x EXCEPT !.conns = @ + 1, !.idle = 0].id = x.id
             /\ [x EXCEPT !.conns = @ + 1, !.idle = 0].phase = x.phase
             /\ [x EXCEPT !.conns = @ - 1].id = x.id
             /\ [x EXCEPT !.conns = @ - 1].phase = x.phase
  BY DEF Session
<1>2. CASE t # s
  BY <1>2 DEF MarkActive, ConnOpened, ConnReleased
<1>3. CASE t = s
  <2>1. /\ MarkActive(o, s)[s] = [o[s] EXCEPT !.idle = 0]
        /\ ConnOpened(o, s)[s] = [o[s] EXCEPT !.conns = @ + 1, !.idle = 0]
        /\ ConnReleased(o, s)[s] = [o[s] EXCEPT !.conns = @ - 1]
    BY DEF MarkActive, ConnOpened, ConnReleased
  <2> QED BY <1>1, <1>3, <2>1
<1> QED BY <1>2, <1>3

(* Such an update conforms to the invariant. *)
LEMMA SessionUpdates ==
  ASSUME Inv, NEW s \in Sess, obj[s].phase # "unused"
  PROVE  \A n \in {obj, MarkActive(obj, s), ConnOpened(obj, s), ConnReleased(obj, s)} :
            n \in [Sess -> Session] /\ Updates(n)
<1> USE SessionAssumption
<1>0. obj \in [Sess -> Session] /\ (\A t \in Sess : obj[t].phase = "unused" => obj[t] = Unused)
  BY DEF Inv, TypeOK, ManagerTypeOK, IndInv, UnusedInv
<1>1. Updates(obj)
  BY <1>0 DEF Updates, Evolves
<1>2. ASSUME NEW n \in [Sess -> Session],
             \A t \in Sess : t # s => n[t] = obj[t],
             n[s].id = obj[s].id, n[s].phase = obj[s].phase
      PROVE  Updates(n)
  BY <1>0, <1>2 DEF Updates, Evolves
<1>3. /\ MarkActive(obj, s) \in [Sess -> Session]
      /\ ConnOpened(obj, s) \in [Sess -> Session]
      /\ ConnReleased(obj, s) \in [Sess -> Session]
  <2>1. obj[s] \in Session
    BY <1>0
  <2>2. 0 \in 0..IdleTTL /\ obj[s].conns + 1 \in Int /\ obj[s].conns - 1 \in Int
    BY <2>1 DEF Session
  <2>3. [obj[s] EXCEPT !.idle = 0] \in Session
    BY <2>1, <2>2 DEF Session
  <2>4. [obj[s] EXCEPT !.conns = @ + 1, !.idle = 0] \in Session
    BY <2>1, <2>2 DEF Session
  <2>5. [obj[s] EXCEPT !.conns = @ - 1] \in Session
    BY <2>1, <2>2 DEF Session
  <2> QED BY <1>0, <2>3, <2>4, <2>5 DEF MarkActive, ConnOpened, ConnReleased
<1>4. Updates(MarkActive(obj, s))
  BY <1>0, <1>2, <1>3, UpdateFields
<1>5. Updates(ConnOpened(obj, s))
  BY <1>0, <1>2, <1>3, UpdateFields
<1>6. Updates(ConnReleased(obj, s))
  BY <1>0, <1>2, <1>3, UpdateFields
<1> QED BY <1>0, <1>1, <1>3, <1>4, <1>5, <1>6

(* Facts about a request that is being served. *)
LEMMA Serving ==
  ASSUME Inv, NEW r \in Reqs, req[r].pc # "idle"
  PROVE  /\ up
         /\ req[r] \in Request
         /\ req[r].id \in Ids /\ req[r].sess \in Sess /\ req[r].kind \in Kinds
         /\ obj[req[r].sess].phase # "unused" /\ obj[req[r].sess].id = req[r].id
         /\ RequestOK(req[r], obj)
  BY DEF Inv, IndInv, UnusedInv, RequestInv, RequestOK, HoldsOwn, TypeOK

(* Leaving the map alone drops nothing.                                    *)
LEMMA NothingDropped == OnlyDrops(sessions)
  BY DEF OnlyDrops

(* A handler moves to q, having made n of the sessions. *)
LEMMA GoInv ==
  ASSUME Inv, NEW r \in Reqs, req[r].pc # "idle",
         NEW n \in [Sess -> Session], Updates(n),
         NEW q \in Request, RequestOK(q, n),
         req' = [req EXCEPT ![r] = q],
         sessions' \in [Ids -> Sess \cup {None}], OnlyDrops(sessions'),
         obj' = n \/ obj' = Collect(n, sessions', HeldBy(req')),
         lastRefresh' \in [Ids -> 0..Cooldown],
         UNCHANGED <<backendVars, victims, up>>
  PROVE  Inv'
<1>1. \A p \in Reqs : req'[p] = IF p = r THEN q ELSE req[p]
  BY DEF Inv, TypeOK
<1>2. TypeOK'
  <2>1. obj' \in [Sess -> Session]
    BY CollectFacts
  <2>2. req' \in [Reqs -> Request]
    BY DEF Inv, TypeOK
  <2> QED BY <2>1, <2>2 DEF Inv, TypeOK, BackendTypeOK, ManagerTypeOK, backendVars
<1>3. \A p \in Reqs : req'[p] = req[p] \/ RequestOK(req'[p], n)
  BY <1>1
<1>4. up' = up
  OBVIOUS
<1> QED BY <1>2, <1>3, <1>4, Serving, MoveInv

(* A handler returns. *)
LEMMA ReturnInv ==
  ASSUME Inv, NEW r \in Reqs, req[r].pc # "idle",
         NEW n \in [Sess -> Session], Updates(n),
         NEW m \in [Ids -> Sess \cup {None}], OnlyDrops(m),
         Return(r, n, m), HandlerFrame
  PROVE  Inv'
<1>1. /\ req' = [req EXCEPT ![r] = NoRequest]
      /\ sessions' = m
      /\ obj' = Collect(n, sessions', HeldBy(req'))
      /\ UNCHANGED <<backendVars, lastRefresh, victims, up>>
  BY DEF Return, HandlerFrame
<1>2. NoRequest \in Request /\ RequestOK(NoRequest, n)
  BY NoRequestFacts
<1>3. lastRefresh' \in [Ids -> 0..Cooldown]
  BY <1>1 DEF Inv, TypeOK, ManagerTypeOK
<1> QED BY <1>1, <1>2, <1>3, GoInv

(* Taking a session that is not resolving off the map. *)
LEMMA DropFacts ==
  ASSUME Inv, NEW id \in Ids, NEW s \in Sess, obj[s].phase \notin Resolving
  PROVE  /\ DropFailed(id, s) \in [Ids -> Sess \cup {None}]
         /\ OnlyDrops(DropFailed(id, s))
         /\ DropStale(id, s) \in [Ids -> Sess \cup {None}]
         /\ OnlyDrops(DropStale(id, s))
  BY DEF DropFailed, DropStale, OnlyDrops, Inv, TypeOK, ManagerTypeOK

(* The sessions a failed handler leaves. *)
LEMMA AfterFailureFacts ==
  ASSUME Inv, NEW r \in Reqs, req[r].pc # "idle"
  PROVE  AfterFailure(r) \in [Sess -> Session] /\ Updates(AfterFailure(r))
  BY Serving, SessionUpdates DEF AfterFailure

(* Every way a handler returns (GetFails, GetCancelled, BodyReadFails,     *)
(* GivesUp, RefreshFails, RefreshCancelled, UpgradeFails, ConnClosedMarks, *)
(* HttpDone, HttpAborted) preserves the invariant.                         *)
LEMMA HandlerEndsInv ==
  ASSUME Inv, NEW r \in Reqs,
         \/ GetFails(r) \/ GetCancelled(r) \/ BodyReadFails(r) \/ GivesUp(r)
         \/ RefreshFails(r) \/ RefreshCancelled(r) \/ UpgradeFails(r)
         \/ ConnClosedMarks(r) \/ HttpDone(r) \/ HttpAborted(r)
  PROVE  Inv'
<1>1. req[r].pc # "idle" /\ HandlerFrame
  BY DEF GetFails, GetCancelled, BodyReadFails, GivesUp, RefreshFails,
         RefreshCancelled, UpgradeFails, ConnClosedMarks, HttpDone, HttpAborted
<1>2. /\ obj \in [Sess -> Session] /\ Updates(obj)
      /\ MarkActive(obj, req[r].sess) \in [Sess -> Session]
      /\ Updates(MarkActive(obj, req[r].sess))
      /\ AfterFailure(r) \in [Sess -> Session] /\ Updates(AfterFailure(r))
  BY <1>1, Serving, SessionUpdates, AfterFailureFacts
<1>3. sessions \in [Ids -> Sess \cup {None}] /\ OnlyDrops(sessions)
  BY NothingDropped DEF Inv, TypeOK, ManagerTypeOK
<1>4. CASE GetFails(r)
  <2>1. /\ DropFailed(req[r].id, req[r].sess) \in [Ids -> Sess \cup {None}]
        /\ OnlyDrops(DropFailed(req[r].id, req[r].sess))
    BY <1>1, <1>4, Serving, DropFacts DEF GetFails, Resolving
  <2> QED BY <1>1, <1>2, <1>4, <2>1, ReturnInv DEF GetFails
<1>5. CASE RefreshFails(r)
  <2>1. req[r].ref \in Sess
    BY <1>1, <1>5, Serving DEF RefreshFails, RequestOK, Request
  <2>2. /\ DropFailed(req[r].id, req[r].ref) \in [Ids -> Sess \cup {None}]
        /\ OnlyDrops(DropFailed(req[r].id, req[r].ref))
    BY <1>1, <1>5, <2>1, Serving, DropFacts DEF RefreshFails, Resolving
  <2> QED BY <1>1, <1>2, <1>5, <2>2, ReturnInv DEF RefreshFails
<1>6. CASE \/ GetCancelled(r) \/ BodyReadFails(r) \/ UpgradeFails(r) \/ HttpAborted(r)
  BY <1>1, <1>2, <1>3, <1>6, ReturnInv
     DEF GetCancelled, BodyReadFails, UpgradeFails, HttpAborted
<1>7. CASE GivesUp(r) \/ RefreshCancelled(r)
  BY <1>1, <1>2, <1>3, <1>7, ReturnInv DEF GivesUp, RefreshCancelled
<1>8. CASE ConnClosedMarks(r) \/ HttpDone(r)
  BY <1>1, <1>2, <1>3, <1>8, ReturnInv DEF ConnClosedMarks, HttpDone
<1> QED BY <1>4, <1>5, <1>6, <1>7, <1>8

(* The session Refresh hands over is one of the request's id. *)
LEMMA RefreshResultFacts ==
  ASSUME Inv, NEW r \in Reqs, req[r].pc # "idle",
         NEW s \in Sess, obj[s].id = req[r].id, obj[s].phase # "unused"
  PROVE  /\ RefreshResult(req[r], s) \in Request
         /\ RequestOK(RefreshResult(req[r], s), obj)
<1> USE NoneAssumption, SessionAssumption, HandlerAssumption
<1>1. req[r] \in Request /\ RequestOK(req[r], obj)
  BY Serving
<1>2. CASE req[r].kind = "ws"
  BY <1>1, <1>2 DEF RefreshResult, Request, PCs, RequestOK, HoldsOwn
<1>3. CASE req[r].kind # "ws"
  BY <1>1, <1>3 DEF RefreshResult, Request, PCs, RequestOK, HoldsOwn
<1> QED BY <1>2, <1>3

(* Every step of a handler that neither returns nor enters Get preserves   *)
(* the invariant; RefreshDrops does because the session it drops is ready. *)
LEMMA HandlerMovesInv ==
  ASSUME Inv, NEW r \in Reqs,
         \/ GetReturns(r) \/ Connects(r) \/ DialFails(r)
         \/ RefreshReturnsCurrent(r) \/ RefreshFindsNone(r) \/ RefreshDrops(r)
         \/ RefreshReturns(r) \/ UpgradeAccepted(r) \/ TunnelEnds(r)
  PROVE  Inv'
<1> USE NoneAssumption, SessionAssumption, HandlerAssumption
<1>1. req[r].pc # "idle"
  BY DEF GetReturns, Connects, DialFails, RefreshReturnsCurrent, RefreshFindsNone,
         RefreshDrops, RefreshReturns, UpgradeAccepted, TunnelEnds
<1>2. /\ req[r] \in Request /\ req[r].id \in Ids /\ req[r].sess \in Sess
      /\ RequestOK(req[r], obj) /\ obj[req[r].sess].phase # "unused"
      /\ obj[req[r].sess].id = req[r].id
  BY <1>1, Serving
<1>3. /\ obj \in [Sess -> Session] /\ Updates(obj)
      /\ MarkActive(obj, req[r].sess) \in [Sess -> Session]
      /\ Updates(MarkActive(obj, req[r].sess))
      /\ ConnOpened(obj, req[r].sess) \in [Sess -> Session]
      /\ Updates(ConnOpened(obj, req[r].sess))
      /\ ConnReleased(obj, req[r].sess) \in [Sess -> Session]
      /\ Updates(ConnReleased(obj, req[r].sess))
  BY <1>2, SessionUpdates
<1>4. /\ sessions \in [Ids -> Sess \cup {None}] /\ OnlyDrops(sessions)
      /\ lastRefresh \in [Ids -> 0..Cooldown] /\ req \in [Reqs -> Request]
  BY NothingDropped DEF Inv, TypeOK, ManagerTypeOK
(* A session update keeps ids and phases. *)
<1>5. \A n \in {MarkActive(obj, req[r].sess), ConnOpened(obj, req[r].sess),
                ConnReleased(obj, req[r].sess)} :
         \A s \in Sess : n[s].id = obj[s].id /\ n[s].phase = obj[s].phase
  <2>1. obj \in [Sess -> Session] /\ req[r].sess \in Sess
    BY <1>2, <1>3
  <2> QED BY <2>1, UpdateFields
<1>6. CASE GetReturns(r)
  <2> DEFINE q == [req[r] EXCEPT !.pc = "dial"]
             n == MarkActive(obj, req[r].sess)
  <2>1. q \in Request /\ req' = [req EXCEPT ![r] = q]
    BY <1>2, <1>4, <1>6 DEF GetReturns, Goto, Request, PCs
  <2>2. \A s \in Sess : n[s].id = obj[s].id /\ n[s].phase = obj[s].phase
    BY <1>5
  <2>3. RequestOK(q, n)
    <3> HIDE DEF n
    <3> QED BY <1>2, <1>6, <2>2 DEF GetReturns, RequestOK, HoldsOwn, Request
  <2> QED BY <1>1, <1>3, <1>4, <1>6, <2>1, <2>3, GoInv DEF GetReturns, HandlerFrame
<1>7. CASE Connects(r)
  <2> DEFINE q == Connected(req[r])
  <2>1. Target(req[r]) \in Sess
    BY <1>2 DEF Target, Request
  <2>2. obj[Target(req[r])].endpoint \in Addrs \cup {None}
    BY <2>1, <1>3 DEF Session
  <2>3. q \in Request
    <3>1. \A pc \in PCs, a \in Addrs \cup {None} :
             [req[r] EXCEPT !.pc = pc, !.conn = a, !.ref = None] \in Request
      BY <1>2 DEF Request
    <3>2. (IF req[r].kind = "ws" THEN "upgrade" ELSE "http") \in PCs
      BY DEF PCs
    <3> QED BY <2>2, <3>1, <3>2 DEF Connected
  <2>4. RequestOK(q, obj)
    BY <1>1, <1>2 DEF Connected, RequestOK, HoldsOwn, Request
  <2> QED BY <1>1, <1>3, <1>4, <1>7, <2>3, <2>4, GoInv DEF Connects, HandlerFrame
<1>8. CASE DialFails(r) \/ RefreshFindsNone(r)
  <2> DEFINE q == [req[r] EXCEPT !.pc = IF DialFails(r) THEN "refresh" ELSE "rget"]
  <2>1. req' = [req EXCEPT ![r].pc = IF DialFails(r) THEN "refresh" ELSE "rget"]
    BY <1>8 DEF DialFails, RefreshFindsNone, Goto
  <2>2. q \in Request /\ req' = [req EXCEPT ![r] = q]
    BY <1>2, <1>4, <2>1 DEF Request, PCs
  <2>3. req[r].pc \in {"dial", "refresh"}
    BY <1>8 DEF DialFails, RefreshFindsNone
  <2>4. RequestOK(q, obj)
    BY <1>2, <2>3 DEF RequestOK, HoldsOwn, Request
  <2>5. UNCHANGED <<backendVars, sessions, obj, lastRefresh, victims, up>>
    BY <1>8 DEF DialFails, RefreshFindsNone, HandlerFrame, RefreshNoop
  <2> HIDE DEF q
  <2> QED BY <1>1, <1>3, <1>4, <2>2, <2>4, <2>5, GoInv
<1>9. CASE RefreshDrops(r)
  <2> DEFINE q == [req[r] EXCEPT !.pc = "rget"]
  <2>1. q \in Request /\ req' = [req EXCEPT ![r] = q]
    BY <1>2, <1>4, <1>9 DEF RefreshDrops, Goto, Request, PCs
  <2>2. RequestOK(q, obj) /\ obj[req[r].sess].phase \notin Resolving
    BY <1>2, <1>9 DEF RefreshDrops, RequestOK, HoldsOwn, Request, Resolving
  <2>3. /\ sessions' \in [Ids -> Sess \cup {None}]
        /\ OnlyDrops(sessions')
    BY <1>2, <1>9, <2>2, DropFacts DEF RefreshDrops, RefreshStale
  <2>4. lastRefresh' \in [Ids -> 0..Cooldown]
    <3>1. 0 \in 0..Cooldown
      OBVIOUS
    <3> QED BY <1>4, <1>9, <3>1 DEF RefreshDrops, RefreshStale
  <2> QED BY <1>1, <1>3, <1>9, <2>1, <2>2, <2>3, <2>4, GoInv DEF RefreshDrops
<1>10. CASE RefreshReturnsCurrent(r)
  <2> DEFINE s == sessions[req[r].id]
  <2>1. s \in Sess /\ obj[s].id = req[r].id /\ obj[s].phase # "unused"
    BY <1>2, <1>4, <1>10 DEF RefreshReturnsCurrent, Inv, IndInv, MapInv
  <2>2. RefreshResult(req[r], s) \in Request /\ RequestOK(RefreshResult(req[r], s), obj)
    BY <1>1, <2>1, RefreshResultFacts
  <2> QED BY <1>1, <1>3, <1>4, <1>10, <2>2, GoInv
          DEF RefreshReturnsCurrent, RefreshNoop
<1>11. CASE RefreshReturns(r)
  <2> DEFINE s == req[r].ref
  <2>1. s \in Sess /\ obj[s].id = req[r].id /\ obj[s].phase # "unused"
    BY <1>2, <1>11 DEF RefreshReturns, RequestOK, HoldsOwn, Request
  <2>2. RefreshResult(req[r], s) \in Request /\ RequestOK(RefreshResult(req[r], s), obj)
    BY <1>1, <2>1, RefreshResultFacts
  <2> QED BY <1>1, <1>3, <1>4, <1>11, <2>2, GoInv DEF RefreshReturns, HandlerFrame
<1>12. CASE UpgradeAccepted(r)
  <2> DEFINE q == [req[r] EXCEPT !.pc = "tunnel"]
             n == ConnOpened(obj, req[r].sess)
  <2>1. q \in Request /\ req' = [req EXCEPT ![r] = q]
    BY <1>2, <1>4, <1>12 DEF UpgradeAccepted, Goto, Request, PCs
  <2>2. \A s \in Sess : n[s].id = obj[s].id /\ n[s].phase = obj[s].phase
    BY <1>5
  <2>3. RequestOK(q, n)
    <3> HIDE DEF n
    <3> QED BY <1>2, <1>12, <2>2 DEF UpgradeAccepted, RequestOK, HoldsOwn, Request
  <2> QED BY <1>1, <1>3, <1>4, <1>12, <2>1, <2>3, GoInv DEF UpgradeAccepted, HandlerFrame
<1>13. CASE TunnelEnds(r)
  <2> DEFINE q == [req[r] EXCEPT !.pc = "closing", !.conn = None]
             n == ConnReleased(obj, req[r].sess)
  <2>1. q \in Request /\ req' = [req EXCEPT ![r] = q]
    BY <1>2, <1>4, <1>13 DEF TunnelEnds, Request, PCs
  <2>2. \A s \in Sess : n[s].id = obj[s].id /\ n[s].phase = obj[s].phase
    BY <1>5
  <2>3. RequestOK(q, n)
    <3> HIDE DEF n
    <3> QED BY <1>2, <1>13, <2>2 DEF TunnelEnds, RequestOK, HoldsOwn, Request
  <2> QED BY <1>1, <1>3, <1>4, <1>13, <2>1, <2>3, GoInv DEF TunnelEnds, HandlerFrame
<1> QED BY <1>6, <1>7, <1>8, <1>9, <1>10, <1>11, <1>12, <1>13

(* The session Get or Reconcile creates is well typed and of the given id. *)
LEMMA NewSessionFacts ==
  ASSUME NEW id \in Ids
  PROVE  /\ NewSession(id) \in Session
         /\ NewSession(id).id = id /\ NewSession(id).phase # "unused"
<1>1. 0 \in 0..IdleTTL /\ 0 \in Int
  BY SessionAssumption
<1>2. NewSession(id) \in Session
  BY <1>1 DEF NewSession, Unused, Session, Phases, Resolving
<1>3. NewSession(id).id = id /\ NewSession(id).phase # "unused"
  BY DEF NewSession, Unused
<1> QED BY <1>2, <1>3

(* What Get finds or creates under the lock. *)
LEMMA GetFacts ==
  ASSUME Inv, NEW id \in Ids, NEW s \in Sess, GetSession(id, s)
  PROVE  /\ obj' \in [Sess -> Session] /\ sessions' \in [Ids -> Sess \cup {None}]
         /\ sessions'[id] = s /\ obj'[s].id = id /\ obj'[s].phase # "unused"
         /\ \A t \in Sess : obj[t].phase # "unused" => obj'[t] = obj[t]
         /\ \A t \in Sess : t # s => obj'[t] = obj[t]
         /\ \A i \in Ids : i # id => sessions'[i] = sessions[i]
         /\ sessions[id] # None => sessions'[id] = sessions[id]
<1> USE NoneAssumption, SessionAssumption
<1>0. /\ obj \in [Sess -> Session] /\ sessions \in [Ids -> Sess \cup {None}]
      /\ MapInv
  BY DEF Inv, TypeOK, ManagerTypeOK, IndInv
<1>1. CASE s = sessions[id] /\ UNCHANGED <<sessions, obj>>
  BY <1>0, <1>1 DEF MapInv
<1>2. CASE /\ sessions[id] = None
           /\ NextSlot(s)
           /\ sessions' = [sessions EXCEPT ![id] = s]
           /\ obj' = [obj EXCEPT ![s] = NewSession(id)]
  <2> QED BY <1>0, <1>2, NewSessionFacts DEF NextSlot
<1> QED BY <1>1, <1>2 DEF GetSession

(* Get under the lock preserves the invariant: a session is created only   *)
(* when the map has none for the id, so no other one of it is resolving.   *)
LEMMA GetInv ==
  ASSUME Inv, up, NEW r \in Reqs, NEW id \in Ids, NEW s \in Sess, GetSession(id, s),
         NEW q \in Request, RequestOK(q, obj'), req' = [req EXCEPT ![r] = q],
         HandlerFrame
  PROVE  Inv'
<1> USE NoneAssumption, SessionAssumption, HandlerAssumption
<1>1. /\ obj' \in [Sess -> Session] /\ sessions' \in [Ids -> Sess \cup {None}]
      /\ sessions'[id] = s /\ obj'[s].id = id /\ obj'[s].phase # "unused"
      /\ \A t \in Sess : obj[t].phase # "unused" => obj'[t] = obj[t]
      /\ \A t \in Sess : t # s => obj'[t] = obj[t]
      /\ \A i \in Ids : i # id => sessions'[i] = sessions[i]
      /\ sessions[id] # None => sessions'[id] = sessions[id]
  BY GetFacts
<1>2. UNCHANGED <<backendVars, lastRefresh, victims, up>>
  BY DEF HandlerFrame
<1>3. \A p \in Reqs : req'[p] = IF p = r THEN q ELSE req[p]
  BY DEF Inv, TypeOK
<1>4. TypeOK'
  <2>1. req' \in [Reqs -> Request]
    BY DEF Inv, TypeOK
  <2> QED BY <1>1, <1>2, <2>1 DEF Inv, TypeOK, BackendTypeOK, ManagerTypeOK, backendVars
<1>5. MapInv'
  <2> SUFFICES ASSUME NEW i \in Ids, sessions'[i] # None
               PROVE  obj'[sessions'[i]].id = i /\ obj'[sessions'[i]].phase # "unused"
    BY DEF MapInv
  <2>1. CASE i = id
    BY <2>1, <1>1
  <2>2. CASE i # id
    <3>1. sessions'[i] = sessions[i] /\ sessions[i] \in Sess
      BY <2>2, <1>1 DEF Inv, TypeOK, ManagerTypeOK
    <3>2. obj[sessions[i]].id = i /\ obj[sessions[i]].phase # "unused"
      BY <3>1 DEF Inv, IndInv, MapInv
    <3>3. obj'[sessions[i]] = obj[sessions[i]]
      BY <3>1, <3>2, <1>1
    <3> QED BY <3>1, <3>2, <3>3
  <2> QED BY <2>1, <2>2
<1>6. ResolvingInv'
  <2> SUFFICES ASSUME NEW t \in Sess, obj'[t].phase \in Resolving
               PROVE  obj'[t].id \in Ids /\ sessions'[obj'[t].id] = t
    BY DEF ResolvingInv
  <2>1. CASE t = s
    BY <2>1, <1>1
  <2>2. CASE t # s
    <3>1. obj'[t] = obj[t]
      BY <2>2, <1>1
    <3>2. obj[t].id \in Ids /\ sessions[obj[t].id] = t
      BY <3>1 DEF Inv, IndInv, ResolvingInv
    <3> QED BY <3>1, <3>2, <1>1
  <2> QED BY <2>1, <2>2
<1>7. RequestInv'
  <2> SUFFICES ASSUME NEW p \in Reqs PROVE RequestOK(req'[p], obj')
    BY DEF RequestInv
  <2>1. CASE p = r
    BY <2>1, <1>3
  <2>2. CASE p # r
    <3>1. req'[p] = req[p] /\ req[p] \in Request /\ RequestOK(req[p], obj)
      BY <2>2, <1>3 DEF Inv, TypeOK, IndInv, RequestInv
    <3>2. /\ req[p].sess # None => req[p].sess \in Sess /\ obj[req[p].sess].phase # "unused"
          /\ req[p].ref # None => req[p].ref \in Sess /\ obj[req[p].ref].phase # "unused"
      BY <3>1 DEF Request, RequestOK, HoldsOwn, NoRequest
    <3>3. /\ req[p].sess # None => Evolves(obj[req[p].sess], obj'[req[p].sess])
          /\ req[p].ref # None => Evolves(obj[req[p].ref], obj'[req[p].ref])
      BY <3>2, <1>1 DEF Evolves
    <3> QED BY <3>1, <3>3, RequestStable
  <2> QED BY <2>1, <2>2
<1>8. UnusedInv'
  BY <1>1, <1>2 DEF Inv, IndInv, UnusedInv
<1> QED BY <1>4, <1>5, <1>6, <1>7, <1>8 DEF Inv, IndInv

(* Accepting a request preserves the invariant.                            *)
LEMMA AcceptInv ==
  ASSUME Inv, NEW r \in Reqs, NEW id \in Ids, NEW k \in Kinds, Accept(r, id, k)
  PROVE  Inv'
<1> USE NoneAssumption, SessionAssumption, HandlerAssumption
<1> DEFINE q(s) == [NoRequest EXCEPT !.pc = "wait", !.id = id, !.kind = k, !.sess = s]
<1>1. PICK s \in Sess : GetSession(id, s) /\ req' = [req EXCEPT ![r] = q(s)]
  BY DEF Accept
<1>2. q(s) \in Request
  BY DEF NoRequest, Request, PCs
<1>3. obj'[s].id = id /\ obj'[s].phase # "unused"
  BY <1>1, GetFacts
<1>4. RequestOK(q(s), obj')
  BY <1>3 DEF RequestOK, HoldsOwn, NoRequest
<1> HIDE DEF q
<1> QED BY <1>1, <1>2, <1>4, GetInv DEF Accept

(* The Get inside Refresh preserves the invariant.                         *)
LEMMA RefreshGetInv ==
  ASSUME Inv, NEW r \in Reqs, RefreshGet(r)
  PROVE  Inv'
<1> USE NoneAssumption, SessionAssumption, HandlerAssumption
<1> DEFINE q(s) == [req[r] EXCEPT !.pc = "rwait", !.ref = s]
<1>1. /\ up /\ req[r].pc = "rget" /\ req[r] \in Request /\ req[r].id \in Ids
      /\ req[r].sess \in Sess /\ obj[req[r].sess].phase # "unused"
      /\ RequestOK(req[r], obj)
  BY Serving DEF RefreshGet
<1>2. PICK s \in Sess : /\ GetSession(req[r].id, s)
                       /\ req' = [req EXCEPT ![r].pc = "rwait", ![r].ref = s]
  BY DEF RefreshGet
<1>3. req' = [req EXCEPT ![r] = q(s)]
  BY <1>2 DEF Inv, TypeOK
<1>4. q(s) \in Request
  BY <1>1 DEF Request, PCs
<1>5. /\ obj'[s].id = req[r].id /\ obj'[s].phase # "unused"
      /\ obj'[req[r].sess] = obj[req[r].sess]
  BY <1>1, <1>2, GetFacts
<1>6. RequestOK(q(s), obj')
  BY <1>1, <1>5 DEF RequestOK, HoldsOwn, Request
<1> HIDE DEF q
<1> QED BY <1>1, <1>2, <1>3, <1>4, <1>6, GetInv DEF RefreshGet

(* Steps of resolve goroutines, of the reaper, of the provider and of time *)
(* leave the requests alone.                                               *)
LEMMA BackgroundInv ==
  ASSUME Inv, NEW n \in [Sess -> Session], Updates(n),
         sessions' \in [Ids -> Sess \cup {None}], OnlyDrops(sessions'),
         obj' = n \/ obj' = Collect(n, sessions', HeldBy(req)),
         lastRefresh' \in [Ids -> 0..Cooldown],
         victims' \in SUBSET Ids,
         BackendTypeOK',
         UNCHANGED <<up, req>>
  PROVE  Inv'
<1>1. TypeOK'
  <2>1. obj' \in [Sess -> Session]
    BY CollectFacts
  <2> QED BY <2>1 DEF Inv, TypeOK, ManagerTypeOK
<1>2. HeldBy(req') = HeldBy(req)
  OBVIOUS
<1> QED BY <1>1, <1>2, MoveInv

(* A step of a resolve goroutine preserves the invariant.                  *)
LEMMA ResolveInv ==
  ASSUME Inv, UNCHANGED <<up, req>>, NEW s \in Sess,
         EnsureCreate(s) \/ EnsureDone(s) \/ EnsureFail(s)
  PROVE  Inv'
<1> USE NoneAssumption, SessionAssumption
<1>0. /\ obj \in [Sess -> Session] /\ sessions \in [Ids -> Sess \cup {None}]
      /\ lastRefresh \in [Ids -> 0..Cooldown] /\ victims \in SUBSET Ids
      /\ resource \in SUBSET Ids /\ addr \in [Ids -> Addrs \cup {None}]
      /\ serving \in SUBSET Ids
      /\ \A t \in Sess : obj[t].phase = "unused" => obj[t] = Unused
  BY DEF Inv, TypeOK, BackendTypeOK, ManagerTypeOK, IndInv, UnusedInv
<1>1. obj[s].phase \in Resolving /\ obj[s].id \in Ids
  BY DEF EnsureCreate, EnsureDone, EnsureFail, Resolving, Inv, IndInv, ResolvingInv
<1>2. PICK b \in Session :
        /\ obj' = [obj EXCEPT ![s] = b]
        /\ b.id = obj[s].id /\ b.phase # "unused"
  <2>1. CASE EnsureCreate(s)
    <3> DEFINE b == [obj[s] EXCEPT !.phase = "poll"]
    <3>1. b \in Session /\ b.id = obj[s].id /\ b.phase # "unused"
      BY <1>0 DEF Session, Phases, Resolving
    <3>2. obj' = [obj EXCEPT ![s] = b]
      BY <1>0, <2>1 DEF EnsureCreate
    <3> QED BY <3>1, <3>2
  <2>2. CASE EnsureDone(s)
    <3>1. PICK a \in EndpointsFound(obj[s].id) :
             obj' = [obj EXCEPT ![s].phase = "ready", ![s].endpoint = a]
      BY <2>2 DEF EnsureDone
    <3> DEFINE b == [obj[s] EXCEPT !.phase = "ready", !.endpoint = a]
    <3>2. a \in Addrs
      BY <1>0, <1>1 DEF EndpointsFound
    <3>3. b \in Session /\ b.id = obj[s].id /\ b.phase # "unused"
      <4>1. obj[s] \in Session /\ "ready" \in Phases /\ a \in Addrs \cup {None}
        BY <1>0, <3>2 DEF Phases
      <4> QED BY <4>1 DEF Session
    <3>4. obj' = [obj EXCEPT ![s] = b]
      BY <1>0, <3>1
    <3> QED BY <3>3, <3>4
  <2>3. CASE EnsureFail(s)
    <3> DEFINE b == [obj[s] EXCEPT !.phase = "failed"]
    <3>1. b \in Session /\ b.id = obj[s].id /\ b.phase # "unused"
      BY <1>0 DEF Session, Phases, Resolving
    <3>2. obj' = [obj EXCEPT ![s] = b]
      BY <1>0, <2>3 DEF EnsureFail
    <3> QED BY <3>1, <3>2
  <2> QED BY <2>1, <2>2, <2>3
<1>3. obj' \in [Sess -> Session] /\ Updates(obj')
  BY <1>0, <1>1, <1>2 DEF Updates, Evolves
<1>4. UNCHANGED <<sessions, lastRefresh, victims>> /\ BackendTypeOK'
  <2>1. UNCHANGED <<sessions, lastRefresh, victims>>
    BY DEF EnsureCreate, EnsureDone, EnsureFail
  <2>2. CASE EnsureCreate(s)
    BY <1>0, <1>1, <2>2 DEF EnsureCreate, BackendCreate, BackendTypeOK
  <2>3. CASE EnsureDone(s) \/ EnsureFail(s)
    BY <1>0, <2>3 DEF EnsureDone, EnsureFail, backendVars, BackendTypeOK
  <2> QED BY <2>1, <2>2, <2>3
<1>5. OnlyDrops(sessions')
  BY <1>4, NothingDropped
<1> QED BY <1>0, <1>3, <1>4, <1>5, BackgroundInv

(* The reaper preserves the invariant: it never takes a resolving session  *)
(* off the map, and what handlers hold is not collected.                   *)
LEMMA ReapInv ==
  ASSUME Inv, UNCHANGED <<up, req>>, ReapStep
  PROVE  Inv'
<1> USE NoneAssumption, SessionAssumption
<1>0. /\ obj \in [Sess -> Session] /\ sessions \in [Ids -> Sess \cup {None}]
      /\ lastRefresh \in [Ids -> 0..Cooldown] /\ victims \in SUBSET Ids
      /\ resource \in SUBSET Ids /\ addr \in [Ids -> Addrs \cup {None}]
      /\ serving \in SUBSET Ids /\ Updates(obj)
  BY DEF Inv, TypeOK, BackendTypeOK, ManagerTypeOK, IndInv, UnusedInv, Updates, Evolves
<1>1. CASE ReapScan(HeldBy(req))
  <2> DEFINE reaped == {id \in Ids : Reapable(id)}
             remaining == [id \in Ids |-> IF id \in reaped THEN None ELSE sessions[id]]
  <2>1. /\ sessions' = remaining /\ victims' = reaped
        /\ obj' = Collect(obj, sessions', HeldBy(req))
        /\ lastRefresh' =
              [id \in Ids |-> IF id \in reaped THEN Cooldown ELSE lastRefresh[id]]
        /\ UNCHANGED backendVars
    BY <1>1 DEF ReapScan
  <2>2. remaining \in [Ids -> Sess \cup {None}]
    BY <1>0
  <2>3. OnlyDrops(remaining)
    BY DEF OnlyDrops, Reapable
  <2>4. lastRefresh' \in [Ids -> 0..Cooldown]
    <3>1. Cooldown \in 0..Cooldown
      OBVIOUS
    <3> QED BY <1>0, <2>1, <3>1
  <2>5. BackendTypeOK'
    BY <1>0, <2>1 DEF BackendTypeOK, backendVars
  <2>6. victims' \in SUBSET Ids
    BY <2>1
  <2> HIDE DEF reaped, remaining
  <2> QED BY <1>0, <2>1, <2>2, <2>3, <2>4, <2>5, <2>6, BackgroundInv
<1>2. CASE \E id \in Ids : ReapDelete(id) \/ ReapDeleteFail(id)
  <2>1. PICK id \in Ids : ReapDelete(id) \/ ReapDeleteFail(id)
    BY <1>2
  <2>2. UNCHANGED <<sessions, lastRefresh, obj>> /\ victims' \in SUBSET Ids
    BY <1>0, <2>1 DEF ReapDelete, ReapDeleteFail
  <2>3. BackendTypeOK'
    BY <1>0, <2>1 DEF ReapDelete, ReapDeleteFail, BackendDelete, BackendTypeOK, backendVars
  <2>4. OnlyDrops(sessions')
    BY <2>2, NothingDropped
  <2> QED BY <1>0, <2>2, <2>3, <2>4, BackgroundInv
<1> QED BY <1>1, <1>2 DEF ReapStep

(* The passing of time preserves the invariant.                            *)
LEMMA TickInv ==
  ASSUME Inv, TimePasses
  PROVE  Inv'
<1> USE NoneAssumption, SessionAssumption
<1>0. /\ obj \in [Sess -> Session] /\ sessions \in [Ids -> Sess \cup {None}]
      /\ lastRefresh \in [Ids -> 0..Cooldown] /\ victims \in SUBSET Ids
      /\ \A t \in Sess : obj[t].phase = "unused" => obj[t] = Unused
      /\ BackendTypeOK
  BY DEF Inv, TypeOK, ManagerTypeOK, IndInv, UnusedInv
<1>1. UNCHANGED <<resource, addr, serving, sessions, victims, up, req>>
  BY DEF TimePasses, Tick, backendVars
<1>2. ASSUME NEW s \in Sess
      PROVE  /\ obj'[s] \in Session
             /\ obj'[s].id = obj[s].id /\ obj'[s].phase = obj[s].phase
             /\ obj[s].phase = "unused" => obj'[s] = obj[s]
  <2>1. obj[s] \in Session /\ obj[s].idle \in 0..IdleTTL
    BY <1>0 DEF Session
  <2>2. CASE obj[s].phase = "unused" \/ obj[s].idle = IdleTTL
    BY <2>1, <2>2 DEF TimePasses, Tick
  <2>3. CASE ~(obj[s].phase = "unused" \/ obj[s].idle = IdleTTL)
    <3>1. obj'[s] = [obj[s] EXCEPT !.idle = obj[s].idle + 1]
      BY <2>3 DEF TimePasses, Tick
    <3>2. obj[s].idle + 1 \in 0..IdleTTL
      BY <2>1, <2>3
    <3> QED BY <2>1, <2>3, <3>1, <3>2 DEF Session
  <2> QED BY <2>2, <2>3
<1>3. obj' \in [Sess -> Session]
  <2>1. obj' = [s \in Sess |-> obj'[s]]
    BY DEF TimePasses, Tick
  <2> QED BY <1>2, <2>1
<1>4. Updates(obj')
  BY <1>0, <1>2 DEF Updates, Evolves
<1>5. lastRefresh' \in [Ids -> 0..Cooldown]
  <2>1. ASSUME NEW i \in Ids
        PROVE  (IF lastRefresh[i] = Cooldown THEN Cooldown ELSE lastRefresh[i] + 1)
                  \in 0..Cooldown
    BY <1>0
  <2> QED BY <2>1 DEF TimePasses, Tick
<1>6. BackendTypeOK'
  BY <1>0, <1>1 DEF BackendTypeOK
<1>7. OnlyDrops(sessions')
  BY <1>1, NothingDropped
<1> QED BY <1>0, <1>1, <1>3, <1>4, <1>5, <1>6, <1>7, BackgroundInv

(* Pods starting and dying preserve the invariant.                         *)
LEMMA ProviderInv ==
  ASSUME Inv, NEW id \in Ids, PodStarts(id) \/ PodEvicted(id)
  PROVE  Inv'
<1>0. /\ obj \in [Sess -> Session] /\ Updates(obj)
      /\ sessions \in [Ids -> Sess \cup {None}]
      /\ lastRefresh \in [Ids -> 0..Cooldown] /\ victims \in SUBSET Ids
      /\ BackendTypeOK
  BY DEF Inv, TypeOK, ManagerTypeOK, IndInv, UnusedInv, Updates, Evolves
<1>1. UNCHANGED <<sessions, lastRefresh, obj, victims, up, req>>
  BY DEF PodStarts, PodEvicted, managerVars
<1>2. BackendTypeOK'
  BY <1>0 DEF PodStarts, PodEvicted, PodReady, Evict, BackendTypeOK, AssignableAddrs
<1>3. OnlyDrops(sessions')
  BY <1>1, NothingDropped
<1> QED BY <1>0, <1>1, <1>2, <1>3, BackgroundInv

(* The end of the process preserves the invariant.                         *)
LEMMA CrashInv ==
  ASSUME Inv, Crash
  PROVE  Inv'
<1> USE NoneAssumption, SessionAssumption, HandlerAssumption
<1>1. /\ \A id \in Ids : sessions'[id] = None
      /\ \A s \in Sess : obj'[s] = Unused
      /\ \A r \in Reqs : req'[r] = NoRequest
      /\ up' = FALSE
  BY DEF Crash, ManagerLost
<1>2. TypeOK'
  <2>1. Unused \in Session
    BY DEF Unused, Session, Phases
  <2>2. NoRequest \in Request
    BY NoRequestFacts
  <2>3. Cooldown \in 0..Cooldown
    OBVIOUS
  <2>4. BackendTypeOK'
    BY DEF Crash, backendVars, Inv, TypeOK, BackendTypeOK
  <2>5. ManagerTypeOK'
    BY <2>1, <2>3 DEF Crash, ManagerLost, ManagerTypeOK
  <2>6. req' \in [Reqs -> Request] /\ up' \in BOOLEAN
    BY <2>2 DEF Crash
  <2> QED BY <2>4, <2>5, <2>6 DEF TypeOK
<1>3. MapInv' /\ ResolvingInv'
  BY <1>1 DEF MapInv, ResolvingInv, Unused, Resolving
<1>4. RequestInv'
  BY <1>1, NoRequestFacts DEF RequestInv
<1>5. UnusedInv'
  BY <1>1, NoRequestFacts DEF UnusedInv
<1> QED BY <1>2, <1>3, <1>4, <1>5 DEF Inv, IndInv

(* A start of the process, with or without a successful Reconcile,         *)
(* establishes the invariant from an empty manager.                        *)
LEMMA StartInv ==
  ASSUME Inv, Start
  PROVE  Inv'
<1> USE NoneAssumption, SessionAssumption, HandlerAssumption
<1>0. /\ ~up /\ up' = TRUE /\ req' = req
      /\ \A s \in Sess : obj[s] = Unused
      /\ \A r \in Reqs : req[r] = NoRequest
      /\ resource \subseteq Ids
  BY DEF Start, Inv, IndInv, UnusedInv, RequestInv, RequestOK, TypeOK, BackendTypeOK
<1>1. RequestInv'
  <2>1. \A r \in Reqs : req'[r] = NoRequest
    BY <1>0
  <2> QED BY <2>1, NoRequestFacts DEF RequestInv
<1>2. CASE UNCHANGED <<backendVars, managerVars>>
  <2>1. UNCHANGED <<resource, addr, serving, sessions, lastRefresh, obj, victims, req>>
    BY <1>0, <1>2 DEF backendVars, managerVars
  <2>2. TypeOK'
    BY <2>1, <1>0 DEF Inv, TypeOK, BackendTypeOK, ManagerTypeOK
  <2>3. MapInv' /\ ResolvingInv'
    BY <2>1 DEF Inv, IndInv, MapInv, ResolvingInv
  <2>4. UnusedInv'
    BY <2>1, <1>0 DEF UnusedInv
  <2> QED BY <1>1, <2>2, <2>3, <2>4 DEF Inv, IndInv
<1>3. CASE \E f \in [resource -> Sess] : Reconcile(f)
  <2>1. PICK f \in [resource -> Sess] : Reconcile(f)
    BY <1>3
  <2>2. /\ \A i, j \in resource : f[i] = f[j] => i = j
        /\ sessions' = [id \in Ids |-> IF id \in resource THEN f[id] ELSE None]
        /\ obj' = [s \in Sess |->
                     IF \E id \in resource : f[id] = s
                       THEN NewSession(CHOOSE id \in resource : f[id] = s)
                       ELSE obj[s]]
        /\ UNCHANGED <<resource, addr, serving, lastRefresh, victims>>
    BY <2>1 DEF Reconcile, backendVars
  <2>3. ASSUME NEW id \in resource
        PROVE  /\ obj'[f[id]] = NewSession(id) /\ f[id] \in Sess
               /\ sessions'[id] = f[id]
    <3>1. (CHOOSE i \in resource : f[i] = f[id]) = id
      BY <2>2
    <3> QED BY <2>2, <3>1, <1>0
  <2>4. ASSUME NEW s \in Sess, ~\E id \in resource : f[id] = s
        PROVE  obj'[s] = Unused
    BY <2>2, <2>4, <1>0
  <2>5. TypeOK'
    <3>1. obj' \in [Sess -> Session]
      <4>1. ASSUME NEW s \in Sess PROVE obj'[s] \in Session
        <5>1. CASE \E id \in resource : f[id] = s
          <6>1. PICK id \in resource : f[id] = s
            BY <5>1
          <6> QED BY <6>1, <2>3, <1>0, NewSessionFacts
        <5>2. CASE ~\E id \in resource : f[id] = s
          BY <5>2, <2>2 DEF Inv, TypeOK, ManagerTypeOK
        <5> QED BY <5>1, <5>2
      <4> QED BY <4>1, <2>2
    <3>2. sessions' \in [Ids -> Sess \cup {None}]
      BY <2>2
    <3> QED BY <3>1, <3>2, <2>2, <1>0 DEF Inv, TypeOK, BackendTypeOK, ManagerTypeOK
  <2>6. MapInv'
    <3> SUFFICES ASSUME NEW id \in Ids, sessions'[id] # None
                 PROVE  obj'[sessions'[id]].id = id /\ obj'[sessions'[id]].phase # "unused"
      BY DEF MapInv
    <3>1. id \in resource
      BY <2>2
    <3> QED BY <3>1, <2>3, NewSessionFacts
  <2>7. ResolvingInv'
    <3> SUFFICES ASSUME NEW s \in Sess, obj'[s].phase \in Resolving
                 PROVE  obj'[s].id \in Ids /\ sessions'[obj'[s].id] = s
      BY DEF ResolvingInv
    <3>1. Unused.phase \notin Resolving
      BY DEF Unused, Resolving
    <3>2. PICK id \in resource : f[id] = s
      BY <3>1, <2>4
    <3> QED BY <3>2, <2>3, <1>0, NewSessionFacts
  <2>8. UnusedInv'
    <3> SUFFICES ASSUME NEW s \in Sess, obj'[s].phase = "unused"
                 PROVE  obj'[s] = Unused
      BY <1>0 DEF UnusedInv
    <3>1. ~\E id \in resource : f[id] = s
      BY <2>3, <1>0, NewSessionFacts
    <3> QED BY <3>1, <2>4
  <2> QED BY <1>1, <2>5, <2>6, <2>7, <2>8 DEF Inv, IndInv
<1> QED BY <1>2, <1>3 DEF Start

(* The invariant only depends on the variables of the specification.       *)
LEMMA StutterInv == Inv /\ UNCHANGED vars => Inv'
<1> SUFFICES ASSUME Inv, UNCHANGED vars PROVE Inv'
  OBVIOUS
<1> USE DEF vars
<1>1. TypeOK'
  BY DEF Inv, TypeOK, BackendTypeOK, ManagerTypeOK
<1>2. IndInv'
  BY DEF Inv, IndInv, MapInv, ResolvingInv, RequestInv, UnusedInv
<1> QED BY <1>1, <1>2 DEF Inv

(* Every step preserves the invariant.                                     *)
LEMMA NextInv == Inv /\ [Next]_vars => Inv'
<1> SUFFICES ASSUME Inv, [Next]_vars PROVE Inv'
  OBVIOUS
<1>1. ASSUME NEW r \in Reqs, HandlerStep(r) PROVE Inv'
  BY <1>1, HandlerEndsInv, HandlerMovesInv, RefreshGetInv DEF HandlerStep
<1>2. CASE Step
  BY <1>1, <1>2, AcceptInv, ResolveInv, ReapInv, CrashInv, StartInv, ProviderInv
     DEF Step, ResolveStep
<1> QED BY <1>2, TickInv, StutterInv DEF Next

(* The proxy's state is well typed and the inductive invariant holds in    *)
(* every reachable state, for any number of ids, requests and sessions.    *)
THEOREM InductiveInvariant == Spec => []Inv
BY InitInv, NextInv, PTL DEF Spec

(* Every variable keeps its type; in particular the provider is only ever  *)
(* asked for resources of real ids.                                        *)
THEOREM TypeCorrect == Spec => []TypeOK
<1>1. Inv => TypeOK
  BY DEF Inv
<1> QED BY <1>1, InductiveInvariant, PTL

(* Its second part, which handlers checks on an instance: the map, the     *)
(* sessions that resolve and the handlers agree.                           *)
THEOREM HandlersAgree == Spec => []IndInv
<1>1. Inv => IndInv
  BY DEF Inv
<1> QED BY <1>1, InductiveInvariant, PTL

(* Two sessions of an id cannot both be resolving, since the map names     *)
(* both.                                                                   *)
LEMMA InvSingle == Inv => SingleEnsure
<1> SUFFICES ASSUME Inv, NEW s \in Sess, NEW t \in Sess,
                    obj[s].phase \in Resolving, obj[t].phase \in Resolving,
                    obj[s].id = obj[t].id
             PROVE  s = t
  BY DEF SingleEnsure
<1> QED BY DEF Inv, IndInv, ResolvingInv

(* At most one Ensure is in flight per id, whatever the number of requests *)
(* and however they, the reaper and restarts interleave.                   *)
THEOREM AtMostOneEnsure == Spec => []SingleEnsure
BY InvSingle, InductiveInvariant, PTL

-----------------------------------------------------------------------------
(* The map never goes from one session of an id to another in one step:    *)
(* every critical section either leaves the entry, removes it, or fills an *)
(* empty one.                                                              *)
NotSupplanted ==
    \A id \in Ids : sessions[id] # None => sessions'[id] \in {sessions[id], None}

(* No step of a handler replaces the session the map has for an id by      *)
(* another.                                                                *)
LEMMA HandlerMap ==
  ASSUME Inv, NEW r \in Reqs, HandlerStep(r)
  PROVE  NotSupplanted
<1> USE DEF NotSupplanted
<1>0. sessions \in [Ids -> Sess \cup {None}]
  BY DEF Inv, TypeOK, ManagerTypeOK
<1>1. CASE RefreshGet(r)
  <2>1. req[r].id \in Ids
    BY <1>1, Serving DEF RefreshGet
  <2>2. PICK s \in Sess : GetSession(req[r].id, s)
    BY <1>1 DEF RefreshGet
  <2> QED BY <2>1, <2>2, GetFacts
<1>2. CASE \/ GetReturns(r) \/ Connects(r) \/ DialFails(r)
           \/ RefreshReturnsCurrent(r) \/ RefreshFindsNone(r)
           \/ RefreshReturns(r) \/ UpgradeAccepted(r) \/ TunnelEnds(r)
  <2>1. sessions' = sessions
    BY <1>2 DEF GetReturns, Connects, DialFails, RefreshReturnsCurrent,
         RefreshFindsNone, RefreshNoop, RefreshReturns, UpgradeAccepted, TunnelEnds
  <2> QED BY <2>1
<1>3. CASE RefreshDrops(r)
  BY <1>0, <1>3 DEF RefreshDrops, RefreshStale, DropStale
<1>4. CASE GetFails(r) \/ RefreshFails(r)
  BY <1>0, <1>4 DEF GetFails, RefreshFails, Return, DropFailed
<1>5. CASE \/ GetCancelled(r) \/ BodyReadFails(r) \/ GivesUp(r)
           \/ RefreshCancelled(r) \/ UpgradeFails(r)
           \/ ConnClosedMarks(r) \/ HttpDone(r) \/ HttpAborted(r)
  <2>1. sessions' = sessions
    BY <1>5 DEF GetCancelled, BodyReadFails, GivesUp, RefreshCancelled,
         UpgradeFails, ConnClosedMarks, HttpDone, HttpAborted, Return
  <2> QED BY <2>1
<1> QED BY <1>1, <1>2, <1>3, <1>4, <1>5 DEF HandlerStep

(* No step at all does.                                                    *)
LEMMA StepMap == Inv /\ [Next]_vars => NotSupplanted
<1> SUFFICES ASSUME Inv, [Next]_vars PROVE NotSupplanted
  OBVIOUS
<1> USE DEF NotSupplanted
<1>1. ASSUME NEW r \in Reqs, NEW id \in Ids, NEW k \in Kinds, Accept(r, id, k)
      PROVE  NotSupplanted
  <2>1. PICK s \in Sess : GetSession(id, s)
    BY <1>1 DEF Accept
  <2> QED BY <2>1, GetFacts
<1>2. CASE Start
  <2>1. \A id \in Ids : sessions[id] = None
    BY <1>2 DEF Start, Inv, IndInv, UnusedInv, MapInv, Unused, TypeOK, ManagerTypeOK
  <2> QED BY <2>1
<1>3. CASE Crash
  BY <1>3 DEF Crash, ManagerLost
<1>4. CASE ReapStep
  BY <1>4 DEF ReapStep, ReapScan, ReapDelete, ReapDeleteFail
<1>5. CASE ResolveStep \/ TimePasses \/ UNCHANGED vars
           \/ (\E id \in Ids : PodStarts(id) \/ PodEvicted(id))
  <2>1. sessions' = sessions
    BY <1>5 DEF ResolveStep, EnsureCreate, EnsureDone, EnsureFail, TimePasses, Tick,
         vars, PodStarts, PodEvicted, managerVars
  <2> QED BY <2>1
<1> QED BY <1>1, <1>2, <1>3, <1>4, <1>5, HandlerMap DEF Next, Step

(* The proxy implements the concurrency contract of backend.Backend: an    *)
(* Ensure of an id begins only when none is in flight and is never         *)
(* replaced by another before it has ended.                                *)
THEOREM ImplementsGate == Spec => GateSpec
<1>1. Init => Gate!Init
  BY DEF Init, ManagerInit, Unused, Resolving, Holder, Gate!Init
<1>2. Inv /\ Inv' /\ [Next]_vars => [Gate!Next]_Holder
  <2> SUFFICES ASSUME Inv, Inv', [Next]_vars PROVE Gate!Next
    OBVIOUS
  <2>1. Holder' \in [Ids -> SUBSET Sess]
    BY DEF Holder
  <2> SUFFICES ASSUME NEW id \in Ids
               PROVE  Gate!Begin(id) \/ Gate!End(id) \/ Holder'[id] = Holder[id]
    BY <2>1 DEF Gate!Next
  <2>2. /\ \A s \in Holder[id] : s \in Sess /\ sessions[id] = s
        /\ \A s \in Holder'[id] : s \in Sess /\ sessions'[id] = s
    BY DEF Holder, Inv, IndInv, ResolvingInv
  <2>3. sessions[id] # None => sessions'[id] \in {sessions[id], None}
    BY StepMap DEF NotSupplanted
  <2>4. CASE Holder[id] = {}
    <3>1. CASE Holder'[id] = {}
      BY <3>1, <2>4
    <3>2. CASE Holder'[id] # {}
      <4>1. PICK s \in Holder'[id] : TRUE
        BY <3>2
      <4>2. Holder'[id] = {s} /\ s \in Sess
        BY <4>1, <2>2
      <4> QED BY <4>2, <2>4 DEF Gate!Begin, Gate!Free
    <3> QED BY <3>1, <3>2
  <2>5. CASE Holder[id] # {}
    <3>1. PICK s \in Holder[id] : TRUE
      BY <2>5
    <3>2. Holder[id] = {s} /\ sessions[id] = s /\ s # None
      BY <3>1, <2>2, SessionAssumption
    <3>3. Holder'[id] \subseteq {s}
      BY <3>2, <2>2, <2>3, SessionAssumption
    <3>4. Holder'[id] = {} \/ Holder'[id] = Holder[id]
      BY <3>2, <3>3
    <3> QED BY <3>4, <2>5 DEF Gate!End, Gate!Free
  <2> QED BY <2>4, <2>5
<1> QED BY <1>1, <1>2, InductiveInvariant, PTL DEF Spec, GateSpec, Gate!Spec

-----------------------------------------------------------------------------
(***************************************************************************)
(* Waiting and retrying.                                                   *)
(***************************************************************************)

(* A handler in the select of a Get waits on a session of its id that has  *)
(* its outcome, or on the one the map has, whose Ensure is under way.      *)
AwaitsOutcome(q, s) ==
    /\ obj[s].id = q.id
    /\ \/ obj[s].phase \in {"ready", "failed"}
       \/ obj[s].phase \in Resolving /\ sessions[q.id] = s

NobodyWaitsInVain ==
    \A r \in Reqs :
        /\ req[r].pc = "wait" => AwaitsOutcome(req[r], req[r].sess)
        /\ req[r].pc = "rwait" => AwaitsOutcome(req[r], req[r].ref)

(* No waiter is lost: whatever Refresh, the reaper, failed Gets and        *)
(* restarts do to the map meanwhile, the session a handler waits on is     *)
(* never given up before its ready channel is closed (session.go:118).     *)
THEOREM WaitersAnswered == Spec => []NobodyWaitsInVain
<1>1. Inv => NobodyWaitsInVain
  <2> SUFFICES ASSUME Inv, NEW r \in Reqs
               PROVE  /\ req[r].pc = "wait" => AwaitsOutcome(req[r], req[r].sess)
                      /\ req[r].pc = "rwait" => AwaitsOutcome(req[r], req[r].ref)
    BY DEF NobodyWaitsInVain
  <2>1. req[r] \in Request /\ RequestOK(req[r], obj)
    BY DEF Inv, TypeOK, IndInv, RequestInv
  <2>2. ASSUME NEW s \in Sess, HoldsOwn(req[r], obj, s) PROVE AwaitsOutcome(req[r], s)
    <3>1. obj[s].id = req[r].id /\ obj[s].phase # "unused"
      BY <2>2 DEF HoldsOwn
    <3>2. obj[s].phase \in Phases
      BY DEF Inv, TypeOK, ManagerTypeOK, Session
    <3>3. obj[s].phase \in Resolving => sessions[obj[s].id] = s
      BY DEF Inv, IndInv, ResolvingInv
    <3> QED BY <3>1, <3>2, <3>3 DEF AwaitsOutcome, Phases
  <2>3. CASE req[r].pc = "wait"
    BY <2>1, <2>2, <2>3 DEF RequestOK
  <2>4. CASE req[r].pc = "rwait"
    <3>1. req[r].ref \in Sess /\ HoldsOwn(req[r], obj, req[r].ref)
      BY <2>1, <2>4 DEF RequestOK, Request
    <3> QED BY <2>2, <2>4, <3>1
  <2> QED BY <2>3, <2>4
<1> QED BY <1>1, InductiveInvariant, PTL

(* The order of the places of a handler. *)
PlaceOf(pc) ==
    CASE pc = "idle" -> 0     [] pc = "wait" -> 1      [] pc = "dial" -> 2
      [] pc = "refresh" -> 3  [] pc = "rget" -> 4      [] pc = "rwait" -> 5
      [] pc = "redial" -> 6   [] pc \in {"upgrade", "http"} -> 7
      [] pc = "tunnel" -> 8   [] pc = "closing" -> 9

(* Between two steps a handler stays, moves on, or has returned. *)
Onward(p, q) == q.pc = p.pc \/ q.pc = "idle" \/ PlaceOf(p.pc) < PlaceOf(q.pc)

(* The places, as numbers. *)
LEMMA Places ==
  /\ PlaceOf("idle") = 0 /\ PlaceOf("wait") = 1 /\ PlaceOf("dial") = 2
  /\ PlaceOf("refresh") = 3 /\ PlaceOf("rget") = 4 /\ PlaceOf("rwait") = 5
  /\ PlaceOf("redial") = 6 /\ PlaceOf("upgrade") = 7 /\ PlaceOf("http") = 7
  /\ PlaceOf("tunnel") = 8 /\ PlaceOf("closing") = 9
BY DEF PlaceOf

(* A handler moves on with each of its steps, and no other request moves.  *)
LEMMA HandlerOnward ==
  ASSUME Inv, NEW r \in Reqs, HandlerStep(r)
  PROVE  Onward(req[r], req'[r]) /\ \A p \in Reqs : p # r => req'[p] = req[p]
<1>0. req \in [Reqs -> Request] /\ req[r] \in Request
  BY DEF Inv, TypeOK
<1>1. CASE req' = [req EXCEPT ![r] = NoRequest]
  BY <1>0, <1>1 DEF NoRequest, Onward
<1>2. ASSUME NEW q, req' = [req EXCEPT ![r] = q], PlaceOf(req[r].pc) < PlaceOf(q.pc)
      PROVE  Onward(req[r], req'[r]) /\ \A p \in Reqs : p # r => req'[p] = req[p]
  BY <1>0, <1>2 DEF Onward
<1>3. CASE \/ GetFails(r) \/ GetCancelled(r) \/ BodyReadFails(r) \/ GivesUp(r)
           \/ RefreshFails(r) \/ RefreshCancelled(r) \/ UpgradeFails(r)
           \/ ConnClosedMarks(r) \/ HttpDone(r) \/ HttpAborted(r)
  BY <1>1, <1>3 DEF GetFails, GetCancelled, BodyReadFails, GivesUp, RefreshFails,
     RefreshCancelled, UpgradeFails, ConnClosedMarks, HttpDone, HttpAborted, Return
<1>4. CASE \/ GetReturns(r) \/ DialFails(r) \/ RefreshFindsNone(r) \/ RefreshDrops(r)
           \/ UpgradeAccepted(r)
  <2>1. PICK pc \in {"dial", "refresh", "rget", "tunnel"} :
           /\ req' = [req EXCEPT ![r].pc = pc]
           /\ \/ req[r].pc = "wait" /\ pc = "dial"
              \/ req[r].pc = "dial" /\ pc = "refresh"
              \/ req[r].pc = "refresh" /\ pc = "rget"
              \/ req[r].pc = "upgrade" /\ pc = "tunnel"
    BY <1>4 DEF GetReturns, DialFails, RefreshFindsNone, RefreshDrops, UpgradeAccepted, Goto
  <2> DEFINE q == [req[r] EXCEPT !.pc = pc]
  <2>2. req' = [req EXCEPT ![r] = q] /\ q.pc = pc
    BY <1>0, <2>1 DEF Request
  <2>3. PlaceOf(req[r].pc) < PlaceOf(pc)
    BY <2>1, Places
  <2> HIDE DEF q
  <2> QED BY <1>2, <2>2, <2>3
<1>5. CASE RefreshGet(r) \/ TunnelEnds(r)
  <2>1. /\ \A p \in Reqs : p # r => req'[p] = req[p]
        /\ \/ req[r].pc = "rget" /\ req'[r].pc = "rwait"
           \/ req[r].pc = "tunnel" /\ req'[r].pc = "closing"
    BY <1>0, <1>5 DEF RefreshGet, TunnelEnds, Request
  <2> QED BY <2>1, Places DEF Onward
<1>6. CASE Connects(r)
  <2>1. req[r].pc \in {"dial", "redial"} /\ req' = [req EXCEPT ![r] = Connected(req[r])]
    BY <1>6 DEF Connects
  <2>2. Connected(req[r]).pc \in {"upgrade", "http"}
    BY <1>0 DEF Connected, Request
  <2>3. PlaceOf(req[r].pc) < PlaceOf(Connected(req[r]).pc)
    BY <2>1, <2>2, Places
  <2> QED BY <1>2, <2>1, <2>3
<1>7. CASE RefreshReturnsCurrent(r) \/ RefreshReturns(r)
  <2>1. PICK s : req' = [req EXCEPT ![r] = RefreshResult(req[r], s)]
    BY <1>7 DEF RefreshReturnsCurrent, RefreshReturns
  <2>2. req[r].pc \in {"refresh", "rwait"}
    BY <1>7 DEF RefreshReturnsCurrent, RefreshReturns
  <2>3. RefreshResult(req[r], s).pc = "redial"
    BY <1>0 DEF RefreshResult, Request
  <2>4. PlaceOf(req[r].pc) < PlaceOf(RefreshResult(req[r], s).pc)
    BY <2>2, <2>3, Places
  <2> QED BY <1>2, <2>1, <2>4
<1> QED BY <1>3, <1>4, <1>5, <1>6, <1>7 DEF HandlerStep

(* A request dials at most twice and refreshes at most once, whatever the  *)
(* dials and other requests do (proxy.go:244): its handler never goes back *)
(* to a place it has left.                                                 *)
THEOREM RequestsMoveOn == Spec => [][\A r \in Reqs : Onward(req[r], req'[r])]_vars
<1>1. Inv /\ [Next]_vars => [\A r \in Reqs : Onward(req[r], req'[r])]_vars
  <2> SUFFICES ASSUME Inv, Next, NEW r \in Reqs PROVE Onward(req[r], req'[r])
    OBVIOUS
  <2>1. CASE req' = req
    BY <2>1 DEF Onward
  <2>2. ASSUME NEW p \in Reqs, NEW id \in Ids, NEW k \in Kinds, Accept(p, id, k)
        PROVE  Onward(req[r], req'[r])
    <3>1. req \in [Reqs -> Request] /\ req[p].pc = "idle"
      BY <2>2 DEF Accept, Inv, TypeOK
    <3>2. PICK s \in Sess : req' = [req EXCEPT ![p] = [NoRequest EXCEPT
                        !.pc = "wait", !.id = id, !.kind = k, !.sess = s]]
      BY <2>2 DEF Accept
    <3>3. [NoRequest EXCEPT !.pc = "wait", !.id = id, !.kind = k, !.sess = s].pc = "wait"
      BY DEF NoRequest
    <3>4. \A x \in Reqs : req'[x] = req[x] \/ (req[x].pc = "idle" /\ req'[x].pc = "wait")
      BY <3>1, <3>2, <3>3
    <3> QED BY <3>4, Places DEF Onward
  <2>3. ASSUME NEW p \in Reqs, HandlerStep(p) PROVE Onward(req[r], req'[r])
    BY <2>3, HandlerOnward DEF Onward
  <2>4. CASE Crash
    BY <2>4 DEF Crash, NoRequest, Onward
  <2> QED BY <2>1, <2>2, <2>3, <2>4 DEF Next, Step, TimePasses, Start, PodStarts, PodEvicted
<1> QED BY <1>1, InductiveInvariant, PTL DEF Spec
=============================================================================
