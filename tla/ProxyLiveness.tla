--------------------------- MODULE ProxyLiveness ---------------------------
(***************************************************************************)
(* What the proxy must eventually do, and the fairness that rests on.      *)
(***************************************************************************)
EXTENDS ProxyHandler

(* The steps a handler takes by itself once it can.  Not among them:       *)
(* giving up a wait (the client's decision or a timeout nothing may depend *)
(* on), and the end of an upgrade, a tunnel or a round trip, for which the *)
(* handler waits without a deadline.                                       *)
OwnStep(r) ==
    \/ GetReturns(r) \/ GetFails(r)
    \/ Connects(r) \/ DialFails(r) \/ GivesUp(r)
    \/ RefreshReturnsCurrent(r) \/ RefreshFindsNone(r) \/ RefreshDrops(r)
    \/ RefreshGet(r) \/ RefreshReturns(r) \/ RefreshFails(r)
    \/ ConnClosedMarks(r)

(* A connection to a pod that is gone breaks: TCP keep-alives are on by    *)
(* default in net.Dialer and net/http.                                     *)
ConnectionBreaks(r) ==
    /\ req[r].conn # None
    /\ ServersOf(req[r].conn) = {}
    /\ UpgradeFails(r) \/ TunnelEnds(r) \/ HttpAborted(r)

(* Goroutines that can run do, the clock advances, ensureTimeout ends      *)
(* every Ensure, a Delete returns, and a crashed proxy is restarted by its *)
(* Deployment.                                                             *)
Fairness ==
    /\ \A r \in Reqs : WF_vars(OwnStep(r)) /\ WF_vars(ConnectionBreaks(r))
    /\ \A s \in Sess :
          WF_vars((EnsureCreate(s) \/ EnsureDone(s) \/ EnsureFail(s))
                  /\ UNCHANGED <<up, req>>)
    /\ WF_vars(ReapStep /\ UNCHANGED <<up, req>>)
    /\ WF_vars(TimePasses)
    /\ WF_vars(Start)

FairSpec == Spec /\ Fairness

(* Clients that keep asking, with requests that can be replayed, and do    *)
(* not all go away before the proxy has dialled the sandbox for them.      *)
RetryingSpec ==
    /\ FairSpec
    /\ \A r \in Reqs, id \in Ids :
          WF_vars(\E k \in Kinds \ {"bigbody"} : Accept(r, id, k))
    /\ \A r \in Reqs :
          SF_vars(GetReturns(r)) /\ SF_vars(Connects(r) \/ DialFails(r))

Busy(id) == \E r \in Reqs : req[r].id = id

(* Every request that waits for a sandbox, or for the recovery of one, is  *)
(* eventually connected or answered: the waits on ready and the hand-overs *)
(* between Get, Refresh and resolve lose no waiter.                        *)
RequestsProgress ==
    \A r \in Reqs :
        req[r].pc \in {"wait", "dial", "refresh", "rget", "rwait", "redial", "closing"}
            ~> req[r].pc \in {"idle", "upgrade", "tunnel", "http"}

(* A session nobody uses is eventually taken off the map by the reaper,    *)
(* whether its Ensure succeeded or failed.                                 *)
UnusedReaped ==
    \A id \in Ids :
        sessions[id] # None ~> (sessions[id] = None \/ Busy(id))

Failed(id) == sessions[id] # None /\ obj[sessions[id]].phase = "failed"

(* A failed session does not stick to its id: the caller that sees the     *)
(* error drops it, or the reaper does when every caller left before.       *)
FailureForgotten == \A id \in Ids : Failed(id) ~> ~Failed(id)

(* An id whose pod came back under a new address is served again: with     *)
(* clients that keep asking, a session whose endpoint nobody serves is     *)
(* replaced, in spite of the cooldown.                                     *)
Stale(id) ==
    /\ sessions[id] # None
    /\ obj[sessions[id]].phase = "ready"
    /\ ServersOf(obj[sessions[id]].endpoint) = {}

StaleReplaced == \A id \in Ids : Stale(id) ~> ~Stale(id)
=============================================================================
