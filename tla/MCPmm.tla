------------------------------- MODULE MCPmm --------------------------------
(***************************************************************************)
(* The page allocator for TLC.                                             *)
(***************************************************************************)
EXTENDS Pmm
=============================================================================
