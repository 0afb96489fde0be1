--------------------------- MODULE MCInterpStack ---------------------------
(***************************************************************************)
(* InterpStack with the main interpreter and two subinterpreters.          *)
(***************************************************************************)
EXTENDS InterpStack, TLC

Symmetry == Permutations(Threads)
=============================================================================
