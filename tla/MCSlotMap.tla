----------------------------- MODULE MCSlotMap -----------------------------
(***************************************************************************)
(* SlotMap with pages of two entries, so that every page boundary, an      *)
(* emptied page before and behind the next handle, and the overflow of the *)
(* handle are within reach.                                                *)
(***************************************************************************)
EXTENDS SlotMap
=============================================================================
