------------------------------ MODULE MCKernel ------------------------------
(***************************************************************************)
(* Kernel for TLC: what a comment says of halt without allowing for any    *)
(* interleaving.                                                           *)
(***************************************************************************)
EXTENDS Kernel

(* "Restore parent paging" (system_calls.c:104): whoever is in user mode   *)
(* sees its own program, whenever halt is preempted.                       *)
ParentPagingRestored == Running({"user"}) => page_map = run
=============================================================================
