------------------------- MODULE MCMemoryAllocator -------------------------
(* Instances of MemoryAllocator for TLC: an empty memory, one that a few   *)
(* requests fill, and requests for no bytes at all.                        *)
EXTENDS MemoryAllocator

MC_MemSizes == {0, 5}
MC_Sizes == 0 .. 3

(* malloc may return any node, and process names are only compared.        *)
MC_Symmetry == Permutations(Nodes) \cup Permutations(Processes)
=============================================================================
