------------------------------ MODULE MCProxy ------------------------------
(***************************************************************************)
(* ProxyHandler, its refinement of EnsureGate and the rate of refreshes,   *)
(* for TLC.  The requests are interchangeable, and so are the addresses    *)
(* and the ids: nothing orders them.  Session slots are not, since the     *)
(* least free one is taken.                                                *)
(***************************************************************************)
EXTENDS ProxyGate, RefreshRate, TLC

Symmetry == Permutations(Reqs) \cup Permutations(Addrs) \cup Permutations(Ids)
=============================================================================
