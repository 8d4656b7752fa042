----------------------------- MODULE MCIdentify -----------------------------
(***************************************************************************)
(* Identify for TLC.  Ids, pods, addresses and lookups are each            *)
(* interchangeable.                                                        *)
(***************************************************************************)
EXTENDS Identify, TLC

Symmetry == Permutations(Ids) \cup Permutations(Pods)
               \cup Permutations(IPs) \cup Permutations(Lookups)
=============================================================================
