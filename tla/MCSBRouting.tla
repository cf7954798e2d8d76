----------------------------- MODULE MCSBRouting -----------------------------
(* Symmetry for TLC: blocks and pipes are interchangeable. *)
EXTENDS SBRouting, TLC
Symmetry == Permutations(Blocks) \cup Permutations(Pipes)
=============================================================================
