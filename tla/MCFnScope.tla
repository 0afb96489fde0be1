----------------------------- MODULE MCFnScope -----------------------------
(***************************************************************************)
(* FnScope on one or two threads.                                          *)
(***************************************************************************)
EXTENDS FnScope, TLC

Symmetry == Permutations(Threads)
=============================================================================
