---------------------------- MODULE ProxyHandler ----------------------------
(***************************************************************************)
(* The proxy process: the request handlers of internal/proxy, each with    *)
(* its own goroutine, running against the session manager and against a    *)
(* provider that evicts and restarts pods.  Every critical section of      *)
(* Manager.mu is one step, and so is every wait, dial and connection end.  *)
(*                                                                         *)
(* A request is for an id (the client's pod was identified) and of a kind: *)
(*   "ws"       a WebSocket upgrade, tunnelled once accepted;              *)
(*   "http"     a plain request whose body, if any, can be replayed;       *)
(*   "bigbody"  a plain request whose body exceeds maxReplayBodyBytes.     *)
(*                                                                         *)
(* Where a handler is, req[r].pc:                                          *)
(*   idle      no request                                                  *)
(*   wait      in Get, in the select on the session's ready channel        *)
(*   dial      dialling the session's endpoint                             *)
(*   refresh   the dial failed, about to take the lock in Refresh          *)
(*   rget      in Refresh, about to take the lock in Get                   *)
(*   rwait     in the select of that Get                                   *)
(*   redial    dialling the endpoint Refresh returned                      *)
(*   upgrade   connected, the upgrade request is sent, no answer yet       *)
(*   tunnel    WebSocket open, counted in activeConn                       *)
(*   closing   in ConnClosed, between its two atomic writes                *)
(*   http      connected, the round trip is under way                      *)
(*                                                                         *)
(* Faults names what the environment may do wrong in a run.                *)
(***************************************************************************)
EXTENDS SessionManager

CONSTANTS
    Reqs,    \* request slots: how many requests are handled at once
    Kinds,   \* the kinds of request the clients send
    Faults   \* the misbehaviour of the environment

ASSUME HandlerAssumption ==
    /\ None \notin Reqs /\ IsFiniteSet(Reqs)
    /\ Kinds \subseteq {"ws", "http", "bigbody"}
    /\ Faults \subseteq {"flaky", "evict", "reuse", "delete", "list", "crash"}

VARIABLES
    up,   \* the proxy process is running
    req   \* req[r]: the request in slot r

vars == <<resource, addr, serving, sessions, lastRefresh, obj, victims, up, req>>

PCs == {"idle", "wait", "dial", "refresh", "rget", "rwait", "redial",
        "upgrade", "tunnel", "closing", "http"}

Request ==
    [pc : PCs, id : Ids \cup {None}, kind : Kinds \cup {None},
     sess : Sess \cup {None},    \* the handler's sess
     ref : Sess \cup {None},     \* the session Refresh found or returned
     conn : Addrs \cup {None}]   \* the address it is connected to

NoRequest == [pc |-> "idle", id |-> None, kind |-> None,
              sess |-> None, ref |-> None, conn |-> None]

TypeOK ==
    /\ BackendTypeOK
    /\ ManagerTypeOK
    /\ up \in BOOLEAN
    /\ req \in [Reqs -> Request]

Init ==
    /\ BackendInit
    /\ ManagerInit
    /\ up = TRUE
    /\ req = [r \in Reqs |-> NoRequest]

-----------------------------------------------------------------------------
(* The sessions the requests in q refer to. *)
HeldBy(q) == {s \in Sess : \E r \in Reqs : s \in {q[r].sess, q[r].ref}}

(* Request r moves to pc. *)
Goto(r, pc) == req' = [req EXCEPT ![r].pc = pc]

(* The handler of r returns, with o the sessions and m the map it leaves.  *)
Return(r, o, m) ==
    /\ req' = [req EXCEPT ![r] = NoRequest]
    /\ sessions' = m
    /\ obj' = Collect(o, m, HeldBy([req EXCEPT ![r] = NoRequest]))

(* What a step of a handler leaves alone, beyond req, sessions and obj.    *)
HandlerFrame == UNCHANGED <<backendVars, lastRefresh, victims, up>>

(***************************************************************************)
(* ServeHTTP up to Get's unlock.                                           *)
(***************************************************************************)
Accept(r, id, k) ==
    /\ up
    /\ req[r].pc = "idle"
    /\ \E s \in Sess :
          /\ GetSession(id, s)
          /\ req' = [req EXCEPT ![r] = [NoRequest EXCEPT
                        !.pc = "wait", !.id = id, !.kind = k, !.sess = s]]
    /\ HandlerFrame

(* Get returns the session and ServeHTTP marks it active.                  *)
GetReturns(r) ==
    /\ req[r].pc = "wait"
    /\ obj[req[r].sess].phase = "ready"
    /\ obj' = MarkActive(obj, req[r].sess)
    /\ Goto(r, "dial")
    /\ HandlerFrame /\ UNCHANGED sessions

GetFails(r) ==
    /\ req[r].pc = "wait"
    /\ obj[req[r].sess].phase = "failed"
    /\ Return(r, obj, DropFailed(req[r].id, req[r].sess))
    /\ HandlerFrame

(* The client went away or the 60 seconds are over.                        *)
GetCancelled(r) ==
    /\ req[r].pc = "wait"
    /\ Return(r, obj, sessions)
    /\ HandlerFrame

(* handleHTTP cannot read the request body from the client.                *)
BodyReadFails(r) ==
    /\ req[r].pc = "dial"
    /\ req[r].kind # "ws"
    /\ Return(r, obj, sessions)
    /\ HandlerFrame

(***************************************************************************)
(* Connecting.  A dial of the address of a running pod succeeds, or fails  *)
(* when the network is flaky; any other dial fails.  An endpoint that has  *)
(* not been populated is no address at all.                                *)
(***************************************************************************)
Answers(s) == obj[s].endpoint # None /\ ServersOf(obj[s].endpoint) # {}

MayNotConnect(s) == ~Answers(s) \/ "flaky" \in Faults

(* The session a second attempt goes to.  handleWS assigns the refreshed   *)
(* session to its sess; RoundTrip only reads its endpoint.                 *)
RefreshResult(q, s) ==
    IF q.kind = "ws" THEN [q EXCEPT !.pc = "redial", !.sess = s, !.ref = None]
                     ELSE [q EXCEPT !.pc = "redial", !.ref = s]

Target(q) == IF q.ref = None THEN q.sess ELSE q.ref

Connected(q) ==
    [q EXCEPT !.pc = IF q.kind = "ws" THEN "upgrade" ELSE "http",
              !.conn = obj[Target(q)].endpoint, !.ref = None]

Connects(r) ==
    /\ req[r].pc \in {"dial", "redial"}
    /\ Answers(Target(req[r]))
    /\ req' = [req EXCEPT ![r] = Connected(req[r])]
    /\ obj' = Collect(obj, sessions, HeldBy(req'))
    /\ HandlerFrame /\ UNCHANGED sessions

(* The first dial fails: handleWS and, when the body can be replayed,      *)
(* RoundTrip go on to Refresh.                                             *)
DialFails(r) ==
    /\ req[r].pc = "dial"
    /\ req[r].kind # "bigbody"
    /\ MayNotConnect(req[r].sess)
    /\ Goto(r, "refresh")
    /\ HandlerFrame /\ UNCHANGED <<sessions, obj>>

(* handleHTTP marks the session it started with active when it ends, also  *)
(* after an error; handleWS does not after a failed dial.                  *)
AfterFailure(r) ==
    IF req[r].kind = "ws" THEN obj ELSE MarkActive(obj, req[r].sess)

(* No further attempt: the second dial failed, the body cannot be          *)
(* replayed, or a reused connection broke, which is no dial failure.       *)
GivesUp(r) ==
    /\ \/ req[r].pc = "redial" /\ MayNotConnect(Target(req[r]))
       \/ /\ req[r].pc = "dial"
          /\ req[r].kind # "ws"
          /\ MayNotConnect(req[r].sess)
    /\ Return(r, AfterFailure(r), sessions)
    /\ HandlerFrame

(***************************************************************************)
(* Refresh.  Within the cooldown it returns whatever session the map       *)
(* holds, resolved or not.                                                 *)
(***************************************************************************)
RefreshReturnsCurrent(r) ==
    /\ req[r].pc = "refresh"
    /\ RefreshNoop(req[r].id)
    /\ sessions[req[r].id] # None
    /\ req' = [req EXCEPT ![r] = RefreshResult(req[r], sessions[req[r].id])]
    /\ obj' = Collect(obj, sessions, HeldBy(req'))
    /\ UNCHANGED <<backendVars, victims, up>>

RefreshFindsNone(r) ==
    /\ req[r].pc = "refresh"
    /\ RefreshNoop(req[r].id)
    /\ sessions[req[r].id] = None
    /\ Goto(r, "rget")
    /\ UNCHANGED <<backendVars, obj, victims, up>>

RefreshDrops(r) ==
    /\ req[r].pc = "refresh"
    /\ RefreshStale(req[r].id, req[r].sess)
    /\ Goto(r, "rget")
    /\ UNCHANGED <<backendVars, obj, victims, up>>

(* The Get inside Refresh.                                                 *)
RefreshGet(r) ==
    /\ req[r].pc = "rget"
    /\ \E s \in Sess :
          /\ GetSession(req[r].id, s)
          /\ req' = [req EXCEPT ![r].pc = "rwait", ![r].ref = s]
    /\ HandlerFrame

RefreshReturns(r) ==
    /\ req[r].pc = "rwait"
    /\ obj[req[r].ref].phase = "ready"
    /\ req' = [req EXCEPT ![r] = RefreshResult(req[r], req[r].ref)]
    /\ obj' = Collect(obj, sessions, HeldBy(req'))
    /\ HandlerFrame /\ UNCHANGED sessions

RefreshFails(r) ==
    /\ req[r].pc = "rwait"
    /\ obj[req[r].ref].phase = "failed"
    /\ Return(r, AfterFailure(r), DropFailed(req[r].id, req[r].ref))
    /\ HandlerFrame

(* Only the client's going away ends this wait early: the 60 seconds of    *)
(* ServeHTTP do not apply to it.                                           *)
RefreshCancelled(r) ==
    /\ req[r].pc = "rwait"
    /\ Return(r, AfterFailure(r), sessions)
    /\ HandlerFrame

(***************************************************************************)
(* Connected: the upgrade and the tunnel, or the round trip.               *)
(***************************************************************************)
UpgradeAccepted(r) ==
    /\ req[r].pc = "upgrade"
    /\ obj' = ConnOpened(obj, req[r].sess)
    /\ Goto(r, "tunnel")
    /\ HandlerFrame /\ UNCHANGED sessions

(* Mutant: a refused upgrade is counted as a connection. *)
UpgradeFails_Counted(r) ==
    /\ req[r].pc = "upgrade"
    /\ Return(r, ConnOpened(obj, req[r].sess), sessions)
    /\ HandlerFrame

(* The sandbox refuses, the connection breaks, or the client cannot be     *)
(* hijacked or written to.                                                 *)
UpgradeFails(r) ==
    /\ req[r].pc = "upgrade"
    /\ Return(r, obj, sessions)
    /\ HandlerFrame

TunnelEnds(r) ==
    /\ req[r].pc = "tunnel"
    /\ obj' = ConnReleased(obj, req[r].sess)
    /\ req' = [req EXCEPT ![r].pc = "closing", ![r].conn = None]
    /\ HandlerFrame /\ UNCHANGED sessions

ConnClosedMarks(r) ==
    /\ req[r].pc = "closing"
    /\ Return(r, MarkActive(obj, req[r].sess), sessions)
    /\ HandlerFrame

HttpDone(r) ==
    /\ req[r].pc = "http"
    /\ Return(r, MarkActive(obj, req[r].sess), sessions)
    /\ HandlerFrame

(* The response body breaks off: ReverseProxy panics with ErrAbortHandler, *)
(* and the MarkActive after it does not run.                               *)
HttpAborted(r) ==
    /\ req[r].pc = "http"
    /\ Return(r, obj, sessions)
    /\ HandlerFrame

-----------------------------------------------------------------------------
(* The process ends, at any point; the connections end with it.            *)
Crash ==
    /\ up
    /\ "crash" \in Faults
    /\ up' = FALSE
    /\ ManagerLost
    /\ req' = [r \in Reqs |-> NoRequest]
    /\ UNCHANGED backendVars

(* run: Reconcile, then the reaper and the listeners.  A failure to list   *)
(* is logged and ignored.                                                  *)
Start ==
    /\ ~up
    /\ up' = TRUE
    /\ \/ \E f \in [resource -> Sess] : Reconcile(f)
       \/ "list" \in Faults /\ UNCHANGED <<backendVars, managerVars>>
    /\ UNCHANGED req

(* The addresses a new pod may get.  Without "reuse" none that some        *)
(* resource's status, session or connection still names.                   *)
Remembered ==
    {addr[id] : id \in Ids} \cup {obj[s].endpoint : s \in Sess}
                            \cup {req[r].conn : r \in Reqs}

AssignableAddrs == IF "reuse" \in Faults THEN Addrs ELSE Addrs \ Remembered

PodStarts(id) ==
    /\ \E a \in AssignableAddrs : PodReady(id, a)
    /\ UNCHANGED <<managerVars, up, req>>

PodEvicted(id) ==
    /\ "evict" \in Faults
    /\ Evict(id)
    /\ UNCHANGED <<managerVars, up, req>>

-----------------------------------------------------------------------------
ResolveStep ==
    \E s \in Sess : (EnsureCreate(s) \/ EnsureDone(s) \/ EnsureFail(s))

ReapStep ==
    \/ ReapScan(HeldBy(req))
    \/ \E id \in Ids : ReapDelete(id)
    \/ "delete" \in Faults /\ \E id \in Ids : ReapDeleteFail(id)

HandlerStep(r) ==
    \/ GetReturns(r) \/ GetFails(r) \/ GetCancelled(r) \/ BodyReadFails(r)
    \/ Connects(r) \/ DialFails(r) \/ GivesUp(r)
    \/ RefreshReturnsCurrent(r) \/ RefreshFindsNone(r) \/ RefreshDrops(r)
    \/ RefreshGet(r) \/ RefreshReturns(r) \/ RefreshFails(r)
    \/ RefreshCancelled(r)
    \/ UpgradeAccepted(r) \/ UpgradeFails(r)
    \/ TunnelEnds(r) \/ ConnClosedMarks(r)
    \/ HttpDone(r) \/ HttpAborted(r)

(* Everything but the passing of time. *)
Step ==
    \/ \E r \in Reqs, id \in Ids, k \in Kinds : Accept(r, id, k)
    \/ \E r \in Reqs : HandlerStep(r)
    \/ (ResolveStep \/ ReapStep) /\ UNCHANGED <<up, req>>
    \/ Crash
    \/ Start
    \/ \E id \in Ids : PodStarts(id) \/ PodEvicted(id)

TimePasses == Tick /\ UNCHANGED <<up, req>>

Next == Step \/ TimePasses

Spec == Init /\ [][Next]_vars

-----------------------------------------------------------------------------
(***************************************************************************)
(* Properties.                                                             *)
(***************************************************************************)

(* The inductive invariant behind SingleEnsure and ConnAccounting.  The    *)
(* map only names sessions of the right id; a session that is resolving is *)
(* the one its id maps to; a handler that can still call Refresh holds a   *)
(* session whose Ensure succeeded; and every session a handler holds is    *)
(* one of the id it serves.                                                *)
MapInv ==
    \A id \in Ids :
        sessions[id] # None => /\ obj[sessions[id]].id = id
                               /\ obj[sessions[id]].phase # "unused"

ResolvingInv ==
    \A s \in Sess :
        obj[s].phase \in Resolving => /\ obj[s].id \in Ids
                                     /\ sessions[obj[s].id] = s

HoldsOwn(q, o, s) == o[s].id = q.id /\ o[s].phase # "unused"

RequestOK(q, o) ==
    /\ q.pc = "idle" => q = NoRequest
    /\ q.pc # "idle" => /\ q.id \in Ids /\ q.kind \in Kinds
                       /\ q.sess \in Sess /\ HoldsOwn(q, o, q.sess)
    /\ q.ref # None => HoldsOwn(q, o, q.ref)
    /\ q.pc = "rwait" => q.ref # None
    /\ q.pc \in {"dial", "refresh", "rget", "rwait"} => o[q.sess].phase = "ready"

RequestInv == \A r \in Reqs : RequestOK(req[r], obj)

UnusedInv ==
    /\ \A s \in Sess : obj[s].phase = "unused" => obj[s] = Unused
    /\ ~up => /\ \A s \in Sess : obj[s] = Unused
              /\ \A r \in Reqs : req[r].pc = "idle"

IndInv == MapInv /\ ResolvingInv /\ RequestInv /\ UnusedInv

(* At most one Ensure is in flight per id: what backend.Backend promises   *)
(* its implementations, and what Get and Refresh have to guarantee between *)
(* them however requests, refreshes and the reaper interleave.             *)
SingleEnsure ==
    \A s, t \in Sess :
        /\ obj[s].phase \in Resolving
        /\ obj[t].phase \in Resolving
        /\ obj[s].id = obj[t].id
        => s = t

(* activeConn of a session is the number of its open tunnels, whichever    *)
(* session a handler ended up with after a Refresh: handleWS must release  *)
(* the session it counted.                                                 *)
ConnAccounting ==
    \A s \in Sess :
        obj[s].conns =
            Cardinality({r \in Reqs : req[r].pc = "tunnel" /\ req[r].sess = s})

(* A session with an open tunnel leaves the map only because some request  *)
(* could not dial it and called Refresh, or with the process: never by the *)
(* reaper, and never by a Get that saw an error.                           *)
TunnelKeepsSession ==
    [][\A r \in Reqs :
          /\ req[r].pc = "tunnel"
          /\ sessions[req[r].id] = req[r].sess
          /\ up'
          => \/ sessions'[req[r].id] = req[r].sess
             \/ \E q \in Reqs : /\ req[q].pc = "refresh"
                                /\ req'[q].pc = "rget"
                                /\ req[q].sess = req[r].sess]_vars

(* A connection is only ever opened to a pod of the sandbox of the         *)
(* client's own id: the session a request ends up with after waits,        *)
(* refreshes, reaps and restarts is one of its id.  Holds as long as pod   *)
(* addresses are not reused while a session remembers them.                *)
DialsOwnSandbox ==
    [][\A r \in Reqs :
          req[r].conn = None /\ req'[r].conn # None
             => ServersOf(req'[r].conn) = {req[r].id}]_vars
=============================================================================
