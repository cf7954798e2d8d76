---------------------------- MODULE MCSoftwareBus ----------------------------
EXTENDS SoftwareBus, TLC

Symmetry == Permutations(Apps) \cup Permutations(Pipes) \cup Permutations(Bufs)
=============================================================================
