---------------------------- MODULE MCLockOrder ----------------------------
(***************************************************************************)
(* LockOrder with a main interpreter and, for thread 1 alone, a            *)
(* subinterpreter.                                                         *)
(***************************************************************************)
EXTENDS LockOrder

UsesDef == [t \in Threads |-> IF t = 1 THEN Interps ELSE {0}]
=============================================================================
