----------------------------- MODULE ConnProofs -----------------------------
(***************************************************************************)
(* Proofs about the connections of ProxyHandler, on top of the invariant   *)
(* of ProxyProofs, for every set of ids, sessions and addresses, every     *)
(* finite set of requests and every choice of faults.                      *)
(*                                                                         *)
(* The argument: activeConn of a session is the number of its tunnels, a   *)
(* session that has an endpoint is resolved, and a WebSocket only goes on  *)
(* to the upgrade with the session it dialled (ConnInv).  Almost every     *)
(* step is Quiet: it leaves the counters and the endpoints of all sessions *)
(* in use as they are, and no request enters or leaves a tunnel.  So the   *)
(* reaper, which looks for sessions with no connection, and a Get that saw *)
(* an error cannot take the session of a tunnel.                           *)
(***************************************************************************)
EXTENDS ProxyProofs, FiniteSetTheorems

(* Only a resolved session has an endpoint. *)
EndpointInv == \A s \in Sess : obj[s].endpoint # None => obj[s].phase = "ready"

(* A request that is upgrading or tunnelling does so with a resolved       *)
(* session, and a first dial, or any dial of a WebSocket, goes to sess.    *)
ConnReady(q, o) ==
    /\ q.pc \in {"upgrade", "tunnel"} => o[q.sess].phase = "ready"
    /\ q.pc \in {"wait", "dial"} => q.ref = None
    /\ q.pc = "redial" /\ q.kind = "ws" => q.ref = None

(* Every request is so. *)
ReadyInv == \A r \in Reqs : ConnReady(req[r], obj)

(* What is shown to be inductive, given Inv. *)
ConnInv == EndpointInv /\ ReadyInv /\ ConnAccounting

(* The requests whose tunnel counts for session s. *)
TunnelsOf(s) == {r \in Reqs : req[r].pc = "tunnel" /\ req[r].sess = s}

(* A session that a step leaves in use, its endpoint and count unchanged. *)
Same(a, b) ==
    /\ b.id = a.id /\ b.endpoint = a.endpoint /\ b.conns = a.conns
    /\ b.phase = a.phase \/ (a.phase \in Resolving /\ b.phase # "unused")

(* A session that is new, or gone. *)
Blank(b) == b.endpoint = None /\ b.conns = 0

(* What a step does to the sessions, if it neither opens nor closes a      *)
(* connection nor resolves a session.                                      *)
SessionsKept ==
    \A s \in Sess : \/ Same(obj[s], obj'[s])
                    \/ Blank(obj'[s]) /\ (obj[s].phase = "unused" \/ obj'[s].phase = "unused")

(* r moves, but neither into a tunnel nor out of one. *)
Untunnelled(r) ==
    /\ req[r].pc # "tunnel" /\ req'[r].pc # "tunnel"
    /\ ConnReady(req'[r], obj')

(* The steps that leave all connections alone. *)
Quiet == SessionsKept /\ \A p \in Reqs : req'[p] = req[p] \/ Untunnelled(p)

(* A session that was collected, and one just created, have no connection. *)
LEMMA BlankFacts == Blank(Unused) /\ Unused.phase = "unused" /\ \A id \in Ids : Blank(NewSession(id))
BY DEF Blank, Unused, NewSession

(* A request that does not move finds its session as it was. *)
LEMMA HeldKept ==
  ASSUME Inv, Inv', SessionsKept, NEW r \in Reqs, req'[r] = req[r], req[r].pc # "idle"
  PROVE  Same(obj[req[r].sess], obj'[req[r].sess])
<1>1. req[r].sess \in Sess /\ obj[req[r].sess].phase # "unused"
  BY Serving
<1>2. obj'[req[r].sess].phase # "unused"
  BY DEF Inv, IndInv, RequestInv, RequestOK, HoldsOwn
<1> QED BY <1>1, <1>2 DEF SessionsKept

(* A slot that is not in use has no tunnels. *)
LEMMA NoTunnels ==
  ASSUME Inv, NEW s \in Sess, obj[s].phase = "unused"
  PROVE  TunnelsOf(s) = {}
BY DEF TunnelsOf, Inv, IndInv, RequestInv, RequestOK, HoldsOwn

(* A quiet step keeps the invariant. *)
LEMMA QuietInv ==
  ASSUME Inv, Inv', ConnInv, Quiet
  PROVE  ConnInv'
<1>1. EndpointInv'
  <2> SUFFICES ASSUME NEW s \in Sess, obj'[s].endpoint # None
               PROVE  obj'[s].phase = "ready"
    BY DEF EndpointInv
  <2>1. Same(obj[s], obj'[s])
    BY DEF Quiet, SessionsKept, Blank
  <2>2. obj[s].phase = "ready"
    BY <2>1 DEF Same, ConnInv, EndpointInv
  <2> QED BY <2>1, <2>2 DEF Same, Resolving
<1>2. ReadyInv'
  <2> SUFFICES ASSUME NEW r \in Reqs PROVE ConnReady(req'[r], obj')
    BY DEF ReadyInv
  <2>1. CASE req'[r] = req[r]
    <3>1. ConnReady(req[r], obj)
      BY DEF ConnInv, ReadyInv
    <3>2. req[r].pc \in {"upgrade", "tunnel"} => obj'[req[r].sess].phase = "ready"
      BY <2>1, <3>1, HeldKept DEF ConnReady, Same, Quiet, Resolving
    <3> QED BY <2>1, <3>1, <3>2 DEF ConnReady
  <2> QED BY <2>1 DEF Quiet, Untunnelled
<1>3. ConnAccounting'
  <2> SUFFICES ASSUME NEW s \in Sess
               PROVE  obj'[s].conns = Cardinality(TunnelsOf(s)')
    BY DEF ConnAccounting, TunnelsOf
  <2>1. TunnelsOf(s)' = TunnelsOf(s)
    BY DEF Quiet, Untunnelled, TunnelsOf
  <2>2. obj[s].conns = Cardinality(TunnelsOf(s))
    BY DEF ConnInv, ConnAccounting, TunnelsOf
  <2>3. CASE Same(obj[s], obj'[s])
    BY <2>1, <2>2, <2>3 DEF Same
  <2>4. CASE Blank(obj'[s]) /\ (obj[s].phase = "unused" \/ obj'[s].phase = "unused")
    <3>1. TunnelsOf(s) = {} \/ TunnelsOf(s)' = {}
      <4>1. CASE obj[s].phase = "unused"
        BY <4>1, NoTunnels
      <4>2. CASE obj'[s].phase = "unused"
        BY <4>2 DEF TunnelsOf, Inv, IndInv, RequestInv, RequestOK, HoldsOwn
      <4> QED BY <2>4, <4>1, <4>2
    <3> QED BY <2>1, <2>4, <3>1, FS_EmptySet DEF Blank
  <2> QED BY <2>3, <2>4 DEF Quiet, SessionsKept
<1> QED BY <1>1, <1>2, <1>3 DEF ConnInv

(* Garbage collection leaves the sessions in use as they are. *)
LEMMA CollectedKept ==
  ASSUME Inv, NEW n \in [Sess -> Session], \A t \in Sess : Same(obj[t], n[t]),
         NEW m, NEW held, obj' = n \/ obj' = Collect(n, m, held)
  PROVE  SessionsKept
<1>1. \A t \in Sess : obj'[t] \in {n[t], Unused}
  BY CollectFacts
<1> QED BY <1>1, BlankFacts DEF SessionsKept

(* So does MarkActive. *)
LEMMA MarkedSame ==
  ASSUME Inv, NEW s \in Sess
  PROVE  /\ \A t \in Sess : Same(obj[t], obj[t])
         /\ \A t \in Sess : Same(obj[t], MarkActive(obj, s)[t])
<1>1. obj \in [Sess -> Session]
  BY DEF Inv, TypeOK, ManagerTypeOK
<1>2. \A x \in Session : Same(x, x) /\ Same(x, [x EXCEPT !.idle = 0])
  BY DEF Same, Session
<1> QED BY <1>1, <1>2 DEF MarkActive

(* A handler that returns was not in its tunnel any more. *)
LEMMA EndsQuiet ==
  ASSUME Inv, NEW r \in Reqs,
         \/ GetFails(r) \/ GetCancelled(r) \/ BodyReadFails(r) \/ GivesUp(r)
         \/ RefreshFails(r) \/ RefreshCancelled(r) \/ UpgradeFails(r)
         \/ ConnClosedMarks(r) \/ HttpDone(r) \/ HttpAborted(r)
  PROVE  Quiet
<1>1. req[r].pc # "idle" /\ req[r].pc # "tunnel"
  BY DEF GetFails, GetCancelled, BodyReadFails, GivesUp, RefreshFails, RefreshCancelled,
         UpgradeFails, ConnClosedMarks, HttpDone, HttpAborted
<1>2. \E n \in {obj, MarkActive(obj, req[r].sess)} : \E m : Return(r, n, m)
  BY DEF GetFails, GetCancelled, BodyReadFails, GivesUp, RefreshFails, RefreshCancelled,
         UpgradeFails, ConnClosedMarks, HttpDone, HttpAborted, AfterFailure
<1>3. PICK n \in {obj, MarkActive(obj, req[r].sess)} : \E m : Return(r, n, m)
  BY <1>2
<1>4. n \in [Sess -> Session] /\ \A t \in Sess : Same(obj[t], n[t])
  BY <1>1, <1>3, Serving, SessionUpdates, MarkedSame
<1>5. SessionsKept
  BY <1>3, <1>4, CollectedKept DEF Return
<1>6. \A p \in Reqs : req'[p] = IF p = r THEN NoRequest ELSE req[p]
  BY <1>3 DEF Return, Inv, TypeOK
<1>7. Untunnelled(r)
  BY <1>1, <1>6 DEF Untunnelled, ConnReady, NoRequest
<1> QED BY <1>5, <1>6, <1>7 DEF Quiet

(* Waiting, failing to dial and refreshing are quiet. *)
LEMMA MovesQuiet ==
  ASSUME Inv, ConnInv, NEW r \in Reqs,
         \/ GetReturns(r) \/ DialFails(r)
         \/ RefreshReturnsCurrent(r) \/ RefreshFindsNone(r) \/ RefreshDrops(r)
         \/ RefreshReturns(r)
  PROVE  Quiet
<1>0. obj \in [Sess -> Session] /\ req \in [Reqs -> Request]
  BY DEF Inv, TypeOK, ManagerTypeOK
<1>1. req[r].pc # "idle" /\ req[r].pc # "tunnel"
  BY DEF GetReturns, DialFails, RefreshReturnsCurrent, RefreshFindsNone, RefreshDrops,
         RefreshReturns
<1>2. SessionsKept
  <2>1. PICK n \in {obj, MarkActive(obj, req[r].sess)} :
            obj' = n \/ obj' = Collect(n, sessions, HeldBy(req'))
    BY DEF GetReturns, DialFails, RefreshReturnsCurrent, RefreshFindsNone, RefreshDrops,
           RefreshReturns
  <2>2. n \in [Sess -> Session] /\ \A t \in Sess : Same(obj[t], n[t])
    BY <1>1, <2>1, Serving, SessionUpdates, MarkedSame
  <2> QED BY <2>1, <2>2, CollectedKept
<1>3. /\ \A p \in Reqs : p # r => req'[p] = req[p]
      /\ \/ req'[r].pc = "dial" /\ req'[r].ref = req[r].ref /\ req[r].pc = "wait"
         \/ req'[r].pc \in {"refresh", "rget"}
         \/ req'[r].pc = "redial" /\ req'[r].kind = req[r].kind
            /\ (req'[r].kind = "ws" => req'[r].ref = None)
  <2>1. CASE GetReturns(r)
    BY <1>0, <2>1 DEF GetReturns, Goto, Request
  <2>2. CASE DialFails(r) \/ RefreshFindsNone(r) \/ RefreshDrops(r)
    BY <1>0, <2>2 DEF DialFails, RefreshFindsNone, RefreshDrops, Goto, Request
  <2>3. ASSUME NEW s, req' = [req EXCEPT ![r] = RefreshResult(req[r], s)]
        PROVE  /\ \A p \in Reqs : p # r => req'[p] = req[p]
               /\ req'[r].pc = "redial" /\ req'[r].kind = req[r].kind
               /\ req'[r].kind = "ws" => req'[r].ref = None
    BY <1>0, <2>3 DEF RefreshResult, Request
  <2> QED BY <2>1, <2>2, <2>3 DEF RefreshReturnsCurrent, RefreshReturns
<1>4. Untunnelled(r)
  <2>1. req[r].pc = "wait" => req[r].ref = None
    BY DEF ConnInv, ReadyInv, ConnReady
  <2> QED BY <1>1, <1>3, <2>1 DEF Untunnelled, ConnReady
<1> QED BY <1>2, <1>3, <1>4 DEF Quiet

(* So is connecting: what a WebSocket dialled is the endpoint of its sess, *)
(* which is therefore resolved.                                            *)
LEMMA ConnectsQuiet ==
  ASSUME Inv, Inv', ConnInv, NEW r \in Reqs, Connects(r)
  PROVE  Quiet
<1>0. obj \in [Sess -> Session] /\ req \in [Reqs -> Request]
  BY DEF Inv, TypeOK, ManagerTypeOK
<1>1. req[r].pc \in {"dial", "redial"} /\ req[r].sess \in Sess /\ req[r].kind \in Kinds
  BY Serving DEF Connects
<1>2. SessionsKept
  BY <1>0, <1>1, MarkedSame, CollectedKept DEF Connects
<1>3. /\ \A p \in Reqs : p # r => req'[p] = req[p]
      /\ req'[r].pc = IF req[r].kind = "ws" THEN "upgrade" ELSE "http"
      /\ req'[r].sess = req[r].sess /\ req'[r].ref = None
  BY <1>0 DEF Connects, Connected, Request
<1>4. ASSUME req[r].kind = "ws" PROVE obj'[req[r].sess].phase = "ready"
  <2>1. Target(req[r]) = req[r].sess
    BY <1>1, <1>4 DEF Target, ConnInv, ReadyInv, ConnReady
  <2>2. obj[req[r].sess].phase = "ready"
    BY <1>1, <2>1 DEF Connects, Answers, ConnInv, EndpointInv
  <2>3. obj'[req[r].sess].phase # "unused"
    BY <1>3, <1>4 DEF Inv, IndInv, RequestInv, RequestOK, HoldsOwn
  <2> QED BY <1>1, <1>2, <2>2, <2>3 DEF SessionsKept, Same, Resolving
<1>5. Untunnelled(r)
  BY <1>1, <1>3, <1>4 DEF Untunnelled, ConnReady
<1> QED BY <1>2, <1>3, <1>5 DEF Quiet

(* Get hands out the session the map has, or a new one. *)
LEMMA GetKept ==
  ASSUME Inv, NEW id \in Ids, NEW s \in Sess, GetSession(id, s)
  PROVE  SessionsKept
<1>0. obj \in [Sess -> Session]
  BY DEF Inv, TypeOK, ManagerTypeOK
<1>1. CASE obj' = obj
  BY <1>1, MarkedSame DEF SessionsKept
<1>2. CASE obj[s].phase = "unused" /\ obj' = [obj EXCEPT ![s] = NewSession(id)]
  BY <1>0, <1>2, MarkedSame, BlankFacts DEF SessionsKept
<1> QED BY <1>1, <1>2 DEF GetSession, NextSlot

(* Both calls of Get are quiet. *)
LEMMA GetQuiet ==
  ASSUME Inv, NEW r \in Reqs,
         (\E id \in Ids, k \in Kinds : Accept(r, id, k)) \/ RefreshGet(r)
  PROVE  Quiet
<1>0. req \in [Reqs -> Request]
  BY DEF Inv, TypeOK
<1>1. CASE \E id \in Ids, k \in Kinds : Accept(r, id, k)
  <2>1. PICK id \in Ids, k \in Kinds : Accept(r, id, k)
    BY <1>1
  <2>2. PICK s \in Sess :
          /\ GetSession(id, s)
          /\ req' = [req EXCEPT ![r] = [NoRequest EXCEPT
                        !.pc = "wait", !.id = id, !.kind = k, !.sess = s]]
    BY <2>1 DEF Accept
  <2>3. SessionsKept
    BY <2>2, GetKept
  <2>4. /\ \A p \in Reqs : p # r => req'[p] = req[p]
        /\ req'[r].pc = "wait" /\ req'[r].ref = None
    BY <1>0, <2>2 DEF NoRequest
  <2>5. Untunnelled(r)
    BY <2>1, <2>4 DEF Untunnelled, ConnReady, Accept
  <2> QED BY <2>3, <2>4, <2>5 DEF Quiet
<1>2. CASE RefreshGet(r)
  <2>1. req[r].id \in Ids
    BY <1>2, Serving DEF RefreshGet
  <2>2. PICK s \in Sess :
          /\ GetSession(req[r].id, s)
          /\ req' = [req EXCEPT ![r].pc = "rwait", ![r].ref = s]
    BY <1>2 DEF RefreshGet
  <2>3. SessionsKept
    BY <2>1, <2>2, GetKept
  <2>4. /\ \A p \in Reqs : p # r => req'[p] = req[p]
        /\ req'[r].pc = "rwait"
    BY <1>0, <2>2 DEF Request
  <2>5. Untunnelled(r)
    BY <1>2, <2>4 DEF Untunnelled, ConnReady, RefreshGet
  <2> QED BY <2>3, <2>4, <2>5 DEF Quiet
<1> QED BY <1>1, <1>2

(* So are the resolver until it is done, the reaper, the clock, a start    *)
(* and the pods.                                                           *)
LEMMA BackgroundQuiet ==
  ASSUME Inv,
         \/ /\ \/ \E s \in Sess : EnsureCreate(s) \/ EnsureFail(s)
               \/ ReapStep
            /\ UNCHANGED <<up, req>>
         \/ TimePasses \/ Start \/ UNCHANGED vars
         \/ \E id \in Ids : PodStarts(id) \/ PodEvicted(id)
  PROVE  Quiet
<1>0. obj \in [Sess -> Session]
  BY DEF Inv, TypeOK, ManagerTypeOK
<1>1. req' = req
  BY DEF TimePasses, Start, vars, PodStarts, PodEvicted
<1>2. SessionsKept
  <2>1. ASSUME NEW s \in Sess, EnsureCreate(s) \/ EnsureFail(s) PROVE SessionsKept
    <3>1. PICK p \in {"poll", "failed"} : obj' = [obj EXCEPT ![s].phase = p]
      BY <2>1 DEF EnsureCreate, EnsureFail
    <3>2. obj[s].phase \in Resolving
      BY <2>1 DEF EnsureCreate, EnsureFail, Resolving
    <3>3. Same(obj[s], obj'[s])
      BY <1>0, <3>1, <3>2 DEF Same, Session
    <3>4. \A t \in Sess : t # s => obj'[t] = obj[t]
      BY <1>0, <3>1
    <3> QED BY <3>3, <3>4, MarkedSame DEF SessionsKept
  <2>2. CASE obj' = obj
    BY <2>2, MarkedSame DEF SessionsKept
  <2>3. CASE ReapStep
    <3>1. \/ obj' = obj \/ \E m : obj' = Collect(obj, m, HeldBy(req))
      BY <2>3 DEF ReapStep, ReapScan, ReapDelete, ReapDeleteFail
    <3>2. \A t \in Sess : Same(obj[t], obj[t])
      BY MarkedSame
    <3> QED BY <1>0, <3>1, <3>2, CollectedKept
  <2>4. CASE TimePasses
    <3>1. \A x \in Session : \A k \in 0..IdleTTL : Same(x, x) /\ Same(x, [x EXCEPT !.idle = k])
      BY DEF Same, Session
    <3>2. ASSUME NEW t \in Sess PROVE Same(obj[t], obj'[t])
      <4>1. CASE obj'[t] = obj[t]
        BY <4>1, MarkedSame
      <4>2. CASE obj[t].idle # IdleTTL /\ obj'[t] = [obj[t] EXCEPT !.idle = obj[t].idle + 1]
        <5>1. obj[t].idle + 1 \in 0..IdleTTL
          BY <1>0, <4>2, SessionAssumption DEF Session
        <5> QED BY <1>0, <3>1, <4>2, <5>1
      <4> QED BY <2>4, <4>1, <4>2 DEF TimePasses, Tick
    <3> QED BY <3>2 DEF SessionsKept
  <2>5. CASE Start
    <3>1. \A s \in Sess : obj[s] = Unused
      BY <2>5 DEF Start, Inv, IndInv, UnusedInv
    <3>2. ASSUME NEW f \in [resource -> Sess], Reconcile(f), NEW s \in Sess
          PROVE  Blank(obj'[s])
      <4>1. CASE \E id \in resource : f[id] = s
        <5>1. obj'[s] = NewSession(CHOOSE id \in resource : f[id] = s)
          BY <3>2, <4>1 DEF Reconcile
        <5>2. (CHOOSE id \in resource : f[id] = s) \in Ids
          BY <4>1 DEF Inv, TypeOK, BackendTypeOK
        <5> QED BY <5>1, <5>2, BlankFacts
      <4>2. CASE ~\E id \in resource : f[id] = s
        BY <3>1, <3>2, <4>2, BlankFacts DEF Reconcile
      <4> QED BY <4>1, <4>2
    <3>3. CASE UNCHANGED <<backendVars, managerVars>>
      BY <2>2, <3>3 DEF managerVars
    <3> QED BY <2>5, <3>1, <3>2, <3>3, BlankFacts DEF Start, SessionsKept
  <2> QED BY <2>1, <2>2, <2>3, <2>4, <2>5 DEF vars, PodStarts, PodEvicted, managerVars
<1> QED BY <1>1, <1>2 DEF Quiet

(* Resolving a session keeps the invariant. *)
LEMMA EnsureDoneConn ==
  ASSUME Inv, ConnInv, NEW s \in Sess, EnsureDone(s), UNCHANGED <<up, req>>
  PROVE  ConnInv'
<1>0. obj \in [Sess -> Session]
  BY DEF Inv, TypeOK, ManagerTypeOK
<1>1. /\ obj'[s].phase = "ready" /\ obj'[s].conns = obj[s].conns
      /\ \A t \in Sess : t # s => obj'[t] = obj[t]
      /\ obj[s].phase = "poll"
  BY <1>0 DEF EnsureDone, Session
<1>2. EndpointInv'
  BY <1>1 DEF ConnInv, EndpointInv
<1>3. ReadyInv'
  <2> SUFFICES ASSUME NEW r \in Reqs PROVE ConnReady(req[r], obj')
    BY DEF ReadyInv
  <2>1. ConnReady(req[r], obj)
    BY DEF ConnInv, ReadyInv
  <2>2. req[r].pc \in {"upgrade", "tunnel"} => req[r].sess \in Sess
    BY Serving
  <2> QED BY <1>1, <2>1, <2>2 DEF ConnReady
<1>4. ConnAccounting'
  BY <1>1 DEF ConnInv, ConnAccounting
<1> QED BY <1>2, <1>3, <1>4 DEF ConnInv

(* So does the end of the process: nothing is left. *)
LEMMA CrashConn ==
  ASSUME Inv, Crash
  PROVE  ConnInv'
<1>1. /\ \A s \in Sess : obj'[s] = Unused
      /\ \A r \in Reqs : req'[r].pc = "idle"
  BY NoRequestFacts DEF Crash, ManagerLost
<1>2. EndpointInv' /\ ReadyInv'
  BY <1>1, BlankFacts DEF EndpointInv, ReadyInv, ConnReady, Blank
<1>3. ASSUME NEW s \in Sess
      PROVE  obj'[s].conns = Cardinality({r \in Reqs : req'[r].pc = "tunnel" /\ req'[r].sess = s})
  <2>1. {r \in Reqs : req'[r].pc = "tunnel" /\ req'[r].sess = s} = {}
    BY <1>1
  <2> QED BY <1>1, <2>1, BlankFacts, FS_EmptySet DEF Blank
<1>4. ConnAccounting'
  BY <1>3 DEF ConnAccounting
<1> QED BY <1>2, <1>4 DEF ConnInv

(* A session has finitely many tunnels. *)
LEMMA TunnelsFinite == \A s \in Sess : IsFiniteSet(TunnelsOf(s))
BY HandlerAssumption, FS_Subset DEF TunnelsOf

(* Opening and closing a tunnel keep the invariant: the count and the set  *)
(* of tunnels of the same session change, also after a Refresh has         *)
(* replaced the handler's session.                                         *)
LEMMA CountConn ==
  ASSUME Inv, ConnInv, NEW r \in Reqs, UpgradeAccepted(r) \/ TunnelEnds(r)
  PROVE  ConnInv'
<1> DEFINE u == req[r].sess
<1>0. obj \in [Sess -> Session] /\ req \in [Reqs -> Request]
  BY DEF Inv, TypeOK, ManagerTypeOK
<1>1. u \in Sess /\ obj[u] \in Session
  BY <1>0, Serving DEF UpgradeAccepted, TunnelEnds
<1>2. /\ \A t \in Sess : t # u => obj'[t] = obj[t]
      /\ obj'[u].phase = obj[u].phase /\ obj'[u].endpoint = obj[u].endpoint
  BY <1>0, <1>1 DEF UpgradeAccepted, TunnelEnds, ConnOpened, ConnReleased, Session
<1>3. /\ \A p \in Reqs : p # r => req'[p] = req[p]
      /\ req'[r].sess = u /\ req'[r].pc \in {"tunnel", "closing"}
      /\ req[r].pc \in {"upgrade", "tunnel"}
  BY <1>0 DEF UpgradeAccepted, TunnelEnds, Goto, Request
<1>4. EndpointInv'
  BY <1>1, <1>2 DEF ConnInv, EndpointInv
<1>5. ReadyInv'
  <2> SUFFICES ASSUME NEW p \in Reqs PROVE ConnReady(req'[p], obj')
    BY DEF ReadyInv
  <2>1. CASE p = r
    <3>1. obj[u].phase = "ready"
      BY <1>3 DEF ConnInv, ReadyInv, ConnReady
    <3> QED BY <1>2, <1>3, <2>1, <3>1 DEF ConnReady
  <2>2. CASE p # r
    <3>1. ConnReady(req[p], obj)
      BY DEF ConnInv, ReadyInv
    <3>2. req[p].pc \in {"upgrade", "tunnel"} => req[p].sess \in Sess
      BY Serving
    <3> QED BY <1>2, <1>3, <2>2, <3>1, <3>2 DEF ConnReady
  <2> QED BY <2>1, <2>2
<1>6. ASSUME NEW s \in Sess PROVE obj'[s].conns = Cardinality(TunnelsOf(s)')
  <2>1. obj[s].conns = Cardinality(TunnelsOf(s)) /\ IsFiniteSet(TunnelsOf(s))
    BY TunnelsFinite DEF ConnInv, ConnAccounting, TunnelsOf
  <2>2. CASE s # u
    <3>1. TunnelsOf(s)' = TunnelsOf(s)
      BY <1>3, <2>2 DEF TunnelsOf
    <3> QED BY <1>2, <2>1, <2>2, <3>1
  <2>3. CASE s = u /\ UpgradeAccepted(r)
    <3>1. TunnelsOf(s)' = TunnelsOf(s) \cup {r} /\ r \notin TunnelsOf(s)
      <4>1. req[r].pc = "upgrade" /\ req'[r].pc = "tunnel"
        BY <1>0, <2>3 DEF UpgradeAccepted, Goto, Request
      <4> QED BY <1>3, <2>3, <4>1 DEF TunnelsOf
    <3>2. obj'[u].conns = obj[u].conns + 1
      <4>1. obj' = ConnOpened(obj, u)
        BY <2>3 DEF UpgradeAccepted
      <4>2. obj'[u] = [obj[u] EXCEPT !.conns = obj[u].conns + 1, !.idle = 0]
        BY <1>0, <1>1, <4>1 DEF ConnOpened
      <4> QED BY <1>1, <4>2 DEF Session
    <3>3. Cardinality(TunnelsOf(s)') = Cardinality(TunnelsOf(s)) + 1
      BY <2>1, <3>1, FS_AddElement
    <3> QED BY <2>1, <2>3, <3>2, <3>3
  <2>4. CASE s = u /\ TunnelEnds(r)
    <3>1. TunnelsOf(s)' = TunnelsOf(s) \ {r} /\ r \in TunnelsOf(s)
      <4>1. req[r].pc = "tunnel" /\ req'[r].pc = "closing"
        BY <1>0, <2>4 DEF TunnelEnds, Goto, Request
      <4> QED BY <1>3, <2>4, <4>1 DEF TunnelsOf
    <3>2. obj'[u].conns = obj[u].conns - 1
      BY <1>0, <1>1, <2>4 DEF TunnelEnds, ConnReleased, Session
    <3> QED BY <2>1, <2>4, <3>1, <3>2, FS_RemoveElement
  <2> QED BY <2>2, <2>3, <2>4
<1>7. ConnAccounting'
  BY <1>6 DEF ConnAccounting, TunnelsOf
<1> QED BY <1>4, <1>5, <1>7 DEF ConnInv

(* The invariant holds at first. *)
LEMMA ConnInit == Init => ConnInv
<1> SUFFICES ASSUME Init PROVE ConnInv
  OBVIOUS
<1>1. /\ \A s \in Sess : obj[s] = Unused
      /\ \A r \in Reqs : req[r].pc = "idle"
  BY NoRequestFacts DEF Init, ManagerInit
<1>2. EndpointInv /\ ReadyInv
  BY <1>1, BlankFacts DEF EndpointInv, ReadyInv, ConnReady, Blank
<1>3. ASSUME NEW s \in Sess
      PROVE  obj[s].conns = Cardinality({r \in Reqs : req[r].pc = "tunnel" /\ req[r].sess = s})
  <2>1. {r \in Reqs : req[r].pc = "tunnel" /\ req[r].sess = s} = {}
    BY <1>1
  <2> QED BY <1>1, <2>1, BlankFacts, FS_EmptySet DEF Blank
<1>4. ConnAccounting
  BY <1>3 DEF ConnAccounting
<1> QED BY <1>2, <1>4 DEF ConnInv

(* Every step is quiet or one of the four others. *)
LEMMA StepKinds ==
  ASSUME Inv, Inv', ConnInv, [Next]_vars
  PROVE  \/ Quiet
         \/ \E s \in Sess : EnsureDone(s) /\ UNCHANGED <<up, req>>
         \/ Crash
         \/ \E r \in Reqs : UpgradeAccepted(r) \/ TunnelEnds(r)
<1>1. ASSUME NEW r \in Reqs, HandlerStep(r)
      PROVE  Quiet \/ UpgradeAccepted(r) \/ TunnelEnds(r)
  BY <1>1, EndsQuiet, MovesQuiet, ConnectsQuiet, GetQuiet DEF HandlerStep
<1>2. CASE Step
  BY <1>1, <1>2, GetQuiet, BackgroundQuiet DEF Step, ResolveStep
<1> QED BY <1>2, BackgroundQuiet DEF Next

(* Every step keeps the invariant. *)
LEMMA ConnStep == Inv /\ Inv' /\ ConnInv /\ [Next]_vars => ConnInv'
BY StepKinds, QuietInv, EnsureDoneConn, CrashConn, CountConn

(* So it always holds. *)
LEMMA ConnInvariant == Spec => []ConnInv
BY ConnInit, ConnStep, InductiveInvariant, PTL DEF Spec

(* activeConn of every session is the number of its open tunnels, whatever *)
(* requests, refreshes, failures, reaps and restarts interleave: handleWS  *)
(* releases the session it counted, however many there are                 *)
(* (session.go:33).                                                        *)
THEOREM ConnectionsCounted == Spec => []ConnAccounting
<1>1. ConnInv => ConnAccounting
  BY DEF ConnInv
<1> QED BY <1>1, ConnInvariant, PTL

-----------------------------------------------------------------------------
(* A handler takes a resolved session off the map only in Refresh, and     *)
(* only the session it holds itself.                                       *)
LEMMA HandlerKeeps ==
  ASSUME Inv, ConnInv, NEW r \in Reqs, NEW id \in Ids, NEW s \in Sess,
         sessions[id] = s, obj[s].phase = "ready", HandlerStep(r),
         sessions'[id] # s
  PROVE  req[r].pc = "refresh" /\ req'[r].pc = "rget" /\ req[r].sess = s
<1>0. sessions \in [Ids -> Sess \cup {None}] /\ req \in [Reqs -> Request]
  BY DEF Inv, TypeOK, ManagerTypeOK
<1>1. s # None
  BY SessionAssumption
<1>2. CASE RefreshGet(r)
  <2>1. req[r].id \in Ids
    BY <1>2, Serving DEF RefreshGet
  <2>2. PICK t \in Sess : GetSession(req[r].id, t)
    BY <1>2 DEF RefreshGet
  <2> QED BY <1>1, <2>1, <2>2, GetFacts
<1>3. CASE \/ GetReturns(r) \/ Connects(r) \/ DialFails(r)
           \/ RefreshReturnsCurrent(r) \/ RefreshFindsNone(r)
           \/ RefreshReturns(r) \/ UpgradeAccepted(r) \/ TunnelEnds(r)
  BY <1>3 DEF GetReturns, Connects, DialFails, RefreshReturnsCurrent,
         RefreshFindsNone, RefreshNoop, RefreshReturns, UpgradeAccepted, TunnelEnds
<1>4. CASE RefreshDrops(r)
  BY <1>0, <1>4 DEF RefreshDrops, RefreshStale, DropStale, Goto, Request
<1>5. CASE GetFails(r) \/ RefreshFails(r)
  BY <1>0, <1>5 DEF GetFails, RefreshFails, Return, DropFailed
<1>6. CASE \/ GetCancelled(r) \/ BodyReadFails(r) \/ GivesUp(r)
           \/ RefreshCancelled(r) \/ UpgradeFails(r)
           \/ ConnClosedMarks(r) \/ HttpDone(r) \/ HttpAborted(r)
  BY <1>6 DEF GetCancelled, BodyReadFails, GivesUp, RefreshCancelled,
         UpgradeFails, ConnClosedMarks, HttpDone, HttpAborted, Return
<1> QED BY <1>2, <1>3, <1>4, <1>5, <1>6 DEF HandlerStep

(* The session of a tunnel is resolved and counts it. *)
LEMMA TunnelCounts ==
  ASSUME Inv, ConnInv, NEW r \in Reqs, req[r].pc = "tunnel"
  PROVE  /\ req[r].id \in Ids /\ req[r].sess \in Sess
         /\ obj[req[r].sess].phase = "ready"
         /\ obj[req[r].sess].conns # 0
<1>1. req[r].id \in Ids /\ req[r].sess \in Sess
  BY Serving
<1>2. obj[req[r].sess].phase = "ready"
  BY DEF ConnInv, ReadyInv, ConnReady
<1>3. obj[req[r].sess].conns = Cardinality(TunnelsOf(req[r].sess)) /\ r \in TunnelsOf(req[r].sess)
  BY <1>1 DEF ConnInv, ConnAccounting, TunnelsOf
<1>4. Cardinality(TunnelsOf(req[r].sess)) # 0
  BY <1>1, <1>3, TunnelsFinite, FS_EmptySet
<1> QED BY <1>1, <1>2, <1>3, <1>4

(* No other step takes the session of a tunnel off the map, the reaper's   *)
(* included, unless the process ends.                                      *)
LEMMA StepKeeps ==
  ASSUME Inv, ConnInv, [Next]_vars, up', NEW r \in Reqs, req[r].pc = "tunnel",
         sessions[req[r].id] = req[r].sess, sessions'[req[r].id] # req[r].sess
  PROVE  \E q \in Reqs : /\ req[q].pc = "refresh" /\ req'[q].pc = "rget"
                         /\ req[q].sess = req[r].sess
<1>1. /\ req[r].id \in Ids /\ req[r].sess \in Sess /\ req[r].sess # None
      /\ obj[req[r].sess].phase = "ready" /\ obj[req[r].sess].conns # 0
  BY TunnelCounts, SessionAssumption
<1>2. ASSUME NEW q \in Reqs, HandlerStep(q)
      PROVE  /\ req[q].pc = "refresh" /\ req'[q].pc = "rget" /\ req[q].sess = req[r].sess
  BY <1>1, <1>2, HandlerKeeps
<1>3. ASSUME NEW q \in Reqs, NEW id \in Ids, NEW k \in Kinds, Accept(q, id, k)
      PROVE  FALSE
  <2>1. PICK t \in Sess : GetSession(id, t)
    BY <1>3 DEF Accept
  <2> QED BY <1>1, <2>1, GetFacts
<1>4. ASSUME ReapStep PROVE FALSE
  BY <1>1, <1>4 DEF ReapStep, ReapScan, ReapDelete, ReapDeleteFail, Reapable
<1>5. ASSUME Crash PROVE FALSE
  BY <1>5 DEF Crash
<1>6. ASSUME Start PROVE FALSE
  BY <1>6 DEF Start, Inv, IndInv, UnusedInv
<1>7. ASSUME \/ ResolveStep \/ TimePasses \/ UNCHANGED vars
             \/ \E id \in Ids : PodStarts(id) \/ PodEvicted(id)
      PROVE  FALSE
  BY <1>7 DEF ResolveStep, EnsureCreate, EnsureDone, EnsureFail, TimePasses, Tick,
         vars, PodStarts, PodEvicted, managerVars
<1> QED BY <1>2, <1>3, <1>4, <1>5, <1>6, <1>7 DEF Next, Step

(* A session with an open tunnel leaves the map only by the Refresh of a   *)
(* request that could not dial it, or with the process; never by the       *)
(* reaper (session.go:170) and never by a Get that saw an error.           *)
THEOREM TunnelsKeepSessions == Spec => TunnelKeepsSession
<1>1. Inv /\ ConnInv /\ [Next]_vars =>
        [\A r \in Reqs :
          /\ req[r].pc = "tunnel"
          /\ sessions[req[r].id] = req[r].sess
          /\ up'
          => \/ sessions'[req[r].id] = req[r].sess
             \/ \E q \in Reqs : /\ req[q].pc = "refresh"
                                /\ req'[q].pc = "rget"
                                /\ req[q].sess = req[r].sess]_vars
  BY StepKeeps
<1> QED BY <1>1, InductiveInvariant, ConnInvariant, PTL DEF Spec, TunnelKeepsSession

-----------------------------------------------------------------------------
(* No two resources publish the same address, and an address that a        *)
(* session remembers is published by no resource but the session's own.    *)
AddrInv ==
    /\ \A i, j \in Ids : addr[i] # None /\ addr[i] = addr[j] => i = j
    /\ \A s \in Sess, j \in Ids :
          obj[s].endpoint # None /\ addr[j] = obj[s].endpoint => j = obj[s].id

(* At first there are no addresses. *)
LEMMA AddrInit == Init => AddrInv
BY DEF Init, BackendInit, ManagerInit, AddrInv, Unused

(* Forgetting addresses keeps this. *)
LEMMA AddrKept ==
  ASSUME Inv, AddrInv, \A i \in Ids : addr'[i] \in {addr[i], None},
         \A s \in Sess : \/ obj'[s].endpoint = None
                         \/ obj'[s].endpoint = obj[s].endpoint /\ obj'[s].id = obj[s].id
  PROVE  AddrInv'
BY DEF AddrInv

(* Only the start of a pod publishes an address. *)
LEMMA AddrsStay ==
  ASSUME Inv, [Next]_vars, ~\E id \in Ids : PodStarts(id)
  PROVE  \A i \in Ids : addr'[i] \in {addr[i], None}
<1>0. addr \in [Ids -> Addrs \cup {None}]
  BY DEF Inv, TypeOK, BackendTypeOK
<1>1. ASSUME NEW r \in Reqs, HandlerStep(r) PROVE addr' = addr
  BY <1>1 DEF HandlerStep, GetReturns, GetFails, GetCancelled, BodyReadFails, Connects,
     DialFails, GivesUp, RefreshReturnsCurrent, RefreshFindsNone, RefreshDrops, RefreshGet,
     RefreshReturns, RefreshFails, RefreshCancelled, UpgradeAccepted, UpgradeFails,
     TunnelEnds, ConnClosedMarks, HttpDone, HttpAborted, HandlerFrame, backendVars
<1>2. ASSUME NEW s \in Sess, EnsureCreate(s) \/ EnsureDone(s) \/ EnsureFail(s)
      PROVE  addr' = addr
  BY <1>2 DEF EnsureCreate, BackendCreate, EnsureDone, EnsureFail, backendVars
<1>3. ASSUME ReapStep PROVE \A i \in Ids : addr'[i] \in {addr[i], None}
  BY <1>0, <1>3 DEF ReapStep, ReapScan, ReapDelete, ReapDeleteFail, BackendDelete, backendVars
<1>4. ASSUME TimePasses \/ Crash \/ Start \/ UNCHANGED vars PROVE addr' = addr
  BY <1>4 DEF TimePasses, Tick, Crash, Start, Reconcile, vars, backendVars
<1>5. ASSUME NEW id \in Ids, PodEvicted(id) PROVE addr' = addr
  BY <1>5 DEF PodEvicted, Evict
<1>6. ASSUME NEW r \in Reqs, NEW id \in Ids, NEW k \in Kinds, Accept(r, id, k)
      PROVE  addr' = addr
  BY <1>6 DEF Accept, HandlerFrame, backendVars
<1> QED BY <1>1, <1>2, <1>3, <1>4, <1>5, <1>6 DEF Next, Step, ResolveStep

(* If addresses that somebody remembers are not given to new pods, every   *)
(* step keeps AddrInv.                                                     *)
LEMMA AddrStep ==
  "reuse" \notin Faults => (Inv /\ Inv' /\ ConnInv /\ AddrInv /\ [Next]_vars => AddrInv')
<1> SUFFICES ASSUME "reuse" \notin Faults, Inv, Inv', ConnInv, AddrInv, [Next]_vars
             PROVE  AddrInv'
  OBVIOUS
<1>0. obj \in [Sess -> Session] /\ addr \in [Ids -> Addrs \cup {None}]
  BY DEF Inv, TypeOK, ManagerTypeOK, BackendTypeOK
<1>1. ASSUME NEW id \in Ids, PodStarts(id) PROVE AddrInv'
  <2>1. PICK a \in Addrs \ Remembered : addr' = [addr EXCEPT ![id] = a]
    BY <1>1 DEF PodStarts, PodReady, AssignableAddrs
  <2>2. /\ \A i \in Ids : addr[i] # a
        /\ \A s \in Sess : obj[s].endpoint # a
    BY <2>1 DEF Remembered
  <2>3. obj' = obj
    BY <1>1 DEF PodStarts, managerVars
  <2> QED BY <1>0, <2>1, <2>2, <2>3 DEF AddrInv
<1>2. ASSUME NEW s \in Sess, EnsureDone(s) PROVE AddrInv'
  <2>1. /\ obj'[s].endpoint = addr[obj[s].id] /\ obj'[s].id = obj[s].id
        /\ \A t \in Sess : t # s => obj'[t] = obj[t]
        /\ addr' = addr
    BY <1>0, <1>2 DEF EnsureDone, EndpointsFound, backendVars, Session
  <2>2. obj[s].id \in Ids
    BY <1>2 DEF EnsureDone, Inv, IndInv, ResolvingInv, Resolving
  <2> QED BY <2>1, <2>2 DEF AddrInv
<1>3. ASSUME SessionsKept, ~\E id \in Ids : PodStarts(id) PROVE AddrInv'
  <2>1. \A i \in Ids : addr'[i] \in {addr[i], None}
    BY <1>3, AddrsStay
  <2>2. \A s \in Sess : \/ obj'[s].endpoint = None
                        \/ obj'[s].endpoint = obj[s].endpoint /\ obj'[s].id = obj[s].id
    BY <1>3 DEF SessionsKept, Same, Blank
  <2> QED BY <2>1, <2>2, AddrKept
<1>4. ASSUME Crash PROVE AddrInv'
  <2>1. addr' = addr /\ \A s \in Sess : obj'[s] = Unused
    BY <1>4 DEF Crash, ManagerLost, backendVars
  <2> QED BY <2>1, BlankFacts, AddrKept DEF Blank
<1>5. ASSUME NEW r \in Reqs, UpgradeAccepted(r) \/ TunnelEnds(r) PROVE AddrInv'
  <2>1. addr' = addr
    BY <1>5 DEF UpgradeAccepted, TunnelEnds, HandlerFrame, backendVars
  <2>2. \A s \in Sess : obj'[s].endpoint = obj[s].endpoint /\ obj'[s].id = obj[s].id
    <3>1. req[r].sess \in Sess
      BY <1>5, Serving DEF UpgradeAccepted, TunnelEnds
    <3>2. \A s \in Sess : s # req[r].sess => obj'[s] = obj[s]
      BY <1>0, <1>5, <3>1 DEF UpgradeAccepted, TunnelEnds, ConnOpened, ConnReleased
    <3>3. /\ obj'[req[r].sess].endpoint = obj[req[r].sess].endpoint
          /\ obj'[req[r].sess].id = obj[req[r].sess].id
      BY <1>0, <1>5, <3>1 DEF UpgradeAccepted, TunnelEnds, ConnOpened, ConnReleased, Session
    <3> QED BY <3>2, <3>3
  <2> QED BY <2>1, <2>2, AddrKept
<1> QED BY <1>1, <1>2, <1>3, <1>4, <1>5, StepKinds DEF Quiet

(* A request is only connected by Connects. *)
LEMMA ConnStays ==
  ASSUME Inv, Next, NEW r \in Reqs, ~Connects(r)
  PROVE  req'[r].conn \in {req[r].conn, None}
<1>0. req \in [Reqs -> Request] /\ NoRequest.conn = None
  BY DEF Inv, TypeOK, NoRequest
<1>1. ASSUME NEW p \in Reqs, HandlerStep(p) PROVE req'[r].conn \in {req[r].conn, None}
  <2>1. CASE \/ GetFails(p) \/ GetCancelled(p) \/ BodyReadFails(p) \/ GivesUp(p)
             \/ RefreshFails(p) \/ RefreshCancelled(p) \/ UpgradeFails(p)
             \/ ConnClosedMarks(p) \/ HttpDone(p) \/ HttpAborted(p)
    <3>1. req' = [req EXCEPT ![p] = NoRequest]
      BY <2>1 DEF GetFails, GetCancelled, BodyReadFails, GivesUp, RefreshFails,
             RefreshCancelled, UpgradeFails, ConnClosedMarks, HttpDone, HttpAborted, Return
    <3> QED BY <1>0, <3>1
  <2>2. CASE GetReturns(p) \/ DialFails(p) \/ RefreshFindsNone(p) \/ RefreshDrops(p)
             \/ UpgradeAccepted(p)
    BY <1>0, <2>2 DEF GetReturns, DialFails, RefreshFindsNone, RefreshDrops,
           UpgradeAccepted, Goto, Request
  <2>3. CASE RefreshReturnsCurrent(p) \/ RefreshReturns(p)
    <3>1. PICK s : req' = [req EXCEPT ![p] = RefreshResult(req[p], s)]
      BY <2>3 DEF RefreshReturnsCurrent, RefreshReturns
    <3>2. RefreshResult(req[p], s).conn = req[p].conn
      BY <1>0 DEF RefreshResult, Request
    <3> QED BY <1>0, <3>1, <3>2
  <2>4. CASE RefreshGet(p) \/ TunnelEnds(p)
    BY <1>0, <2>4 DEF RefreshGet, TunnelEnds, Request
  <2>5. CASE Connects(p)
    BY <1>0, <2>5 DEF Connects
  <2> QED BY <1>1, <2>1, <2>2, <2>3, <2>4, <2>5 DEF HandlerStep
<1>2. ASSUME NEW p \in Reqs, NEW id \in Ids, NEW k \in Kinds, Accept(p, id, k)
      PROVE  req'[r].conn \in {req[r].conn, None}
  BY <1>0, <1>2 DEF Accept, NoRequest
<1>3. CASE Crash
  BY <1>0, <1>3 DEF Crash
<1>4. CASE \/ TimePasses \/ Start \/ \E id \in Ids : PodStarts(id) \/ PodEvicted(id)
           \/ (ResolveStep \/ ReapStep) /\ UNCHANGED <<up, req>>
  BY <1>4 DEF TimePasses, Start, PodStarts, PodEvicted
<1> QED BY <1>1, <1>2, <1>3, <1>4 DEF Next, Step

(* As long as addresses are not reused while they are remembered, every    *)
(* connection the proxy opens is to the sandbox of the client's own id,    *)
(* and to no other (proxy.go:247).                                         *)
THEOREM DialsStayHome == "reuse" \notin Faults => (Spec => DialsOwnSandbox)
<1> SUFFICES ASSUME "reuse" \notin Faults PROVE Spec => DialsOwnSandbox
  OBVIOUS
<1>1. Inv /\ Inv' /\ ConnInv /\ AddrInv /\ [Next]_vars => AddrInv'
  BY AddrStep
<1>2. Inv /\ AddrInv /\ [Next]_vars =>
        [\A r \in Reqs : req[r].conn = None /\ req'[r].conn # None
             => ServersOf(req'[r].conn) = {req[r].id}]_vars
  <2> SUFFICES ASSUME Inv, AddrInv, Next, NEW r \in Reqs,
                      req[r].conn = None, req'[r].conn # None
               PROVE  ServersOf(req'[r].conn) = {req[r].id}
    OBVIOUS
  <2>0. req \in [Reqs -> Request]
    BY DEF Inv, TypeOK
  <2>1. Connects(r)
    BY ConnStays
  <2>2. req'[r].conn = obj[Target(req[r])].endpoint /\ ServersOf(req'[r].conn) # {}
    BY <2>0, <2>1 DEF Connects, Connected, Request, Answers
  <2>3. Target(req[r]) \in Sess /\ obj[Target(req[r])].id = req[r].id
    BY <2>0, <2>1, Serving DEF Connects, Target, RequestOK, HoldsOwn, Request
  <2>4. \A j \in ServersOf(req'[r].conn) : j = req[r].id
    BY <2>2, <2>3 DEF ServersOf, AddrInv, Inv, TypeOK, BackendTypeOK
  <2> QED BY <2>2, <2>4
<1> QED BY <1>1, <1>2, AddrInit, InductiveInvariant, ConnInvariant, PTL DEF Spec, DialsOwnSandbox
=============================================================================
