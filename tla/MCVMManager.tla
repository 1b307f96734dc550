---------------------------- MODULE MCVMManager ----------------------------
(* Instances of VMManager for TLC: more pages than frames, more frames     *)
(* than a TLB can cover, one address beyond the virtual address space.     *)
EXTENDS VMManager

MC_Addresses == {0, 3, 4, 7, 8}
=============================================================================
