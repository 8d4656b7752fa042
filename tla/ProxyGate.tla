----------------------------- MODULE ProxyGate -----------------------------
(***************************************************************************)
(* The proxy implements the concurrency contract of backend.Backend.       *)
(***************************************************************************)
EXTENDS ProxyHandler

(* The sessions whose resolve goroutine is inside Ensure(id). *)
Holder == [id \in Ids |->
              {s \in Sess : obj[s].phase \in Resolving /\ obj[s].id = id}]

Gate == INSTANCE EnsureGate WITH holder <- Holder

(* Ensure(id) is called only when no Ensure(id) is in flight, and a        *)
(* session that is resolving is never supplanted by another: the contract  *)
(* stated at backend.Backend, kept by Get, Refresh, Reconcile and resolve. *)
GateSpec == Gate!Spec
=============================================================================
