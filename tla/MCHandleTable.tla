--------------------------- MODULE MCHandleTable ---------------------------
(***************************************************************************)
(* HandleTable on one or two game threads.                                 *)
(***************************************************************************)
EXTENDS HandleTable
=============================================================================
