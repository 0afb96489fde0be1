---------------------------- MODULE MCRecompMem ----------------------------
(***************************************************************************)
(* RecompMem on two words of two-valued bytes, with every address in them  *)
(* and one on either side.  The byte 1 stands for those above 0x7F: two of *)
(* them make a character, one alone is not UTF-8.                          *)
(***************************************************************************)
EXTENDS RecompMem

PointersDef == -1 .. Size
LengthsDef == 0 .. 3
TextsDef == {<<>>, <<1>>, <<1, 1>>, <<1, 0, 1>>}
BuffersDef ==
    {[bytes |-> <<>>, items |-> 0], [bytes |-> <<1>>, items |-> 1],
     [bytes |-> <<1, 0>>, items |-> 1], [bytes |-> <<0, 1>>, items |-> 2],
     [bytes |-> <<1, 0, 0>>, items |-> 3]}
Utf8Def == {<<>>, <<0>>, <<1, 1>>}
=============================================================================
