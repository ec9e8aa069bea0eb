------------------------------- MODULE MCVmm --------------------------------
(***************************************************************************)
(* The kernel's virtual memory for TLC.  Threads are interchangeable.      *)
(***************************************************************************)
EXTENDS Vmm, TLC

Symmetry == Permutations(Thread)
=============================================================================
