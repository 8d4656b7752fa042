----------------------------- MODULE EnsureGate -----------------------------
(***************************************************************************)
(* The contract of backend.Backend about concurrency, as a specification   *)
(* of its own: implementations can rely on at-most-one concurrent Ensure   *)
(* per id.  holder[id] is the set of sessions for which Ensure(id) is in   *)
(* flight.  A call begins only when none is in flight, and one call is     *)
(* never replaced by another without having ended.                         *)
(***************************************************************************)
CONSTANTS Ids, Sess

VARIABLE holder

Free(id) == holder[id] = {}

Begin(id) == Free(id) /\ \E s \in Sess : holder'[id] = {s}

End(id) == ~Free(id) /\ holder'[id] = {}

Init == holder = [id \in Ids |-> {}]

(* Calls for different ids are independent: several may begin in one step  *)
(* (a reconcile) or end in one step (the process stops).                   *)
Next ==
    /\ holder' \in [Ids -> SUBSET Sess]
    /\ \A id \in Ids : Begin(id) \/ End(id) \/ holder'[id] = holder[id]

Spec == Init /\ [][Next]_holder
=============================================================================
