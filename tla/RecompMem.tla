----------------------------- MODULE RecompMem -----------------------------
(***************************************************************************)
(* Memory of the game, as the recompiled game, mods and Python reach it.   *)
(*                                                                         *)
(* A recompiled game keeps its big-endian words as words of the            *)
(* little-endian host, so that the byte of address a is at a ^ 3.  The     *)
(* game loads and stores through MEM_W, MEM_H and MEM_B; the native        *)
(* functions of the mod API and the Python module _recomp_mem_byteswapped  *)
(* copy byte by byte, reversing what the host keeps in reverse.  Python is *)
(* let in on a thread of the game and with a valid first address; that the *)
(* rest of an access is inside too is up to the caller (Whole).            *)
(*                                                                         *)
(* Addresses count from MIN_PTR (0x80000000).                              *)
(***************************************************************************)
EXTENDS Integers, FiniteSets, SequencesExt

CONSTANTS
    Size,      \* bytes of memory; MAX_PTR is Size - 1
    Bytes,     \* values of a byte
    Null,      \* the one that ends a string
    Widths,    \* the widths of the numbers
    Pointers,  \* the addresses a call may be given
    Lengths,   \* the lengths a call may be given
    Texts,     \* the strings that are stored
    Buffers,   \* the buffers that are stored: their bytes, and how many items these make
    Utf8,      \* the sequences of bytes that are UTF-8
    Unfit,     \* a Python object that is no number of the width asked for
    Refused,   \* a Python exception, for a mod: handle 0
    Done       \* the answer of a store

ASSUME RecompMemAssumption ==
    /\ Size \in Nat \ {0} /\ Size % 4 = 0
    /\ Null \in Bytes
    /\ Widths \subseteq Nat \ {0}
    /\ Pointers \subseteq Int
    /\ Lengths \subseteq Nat
    /\ Texts \subseteq Seq(Bytes)
    /\ Buffers \subseteq [bytes : Seq(Bytes), items : Nat]
    /\ \A b \in Buffers : b.items <= Len(b.bytes)
    /\ Utf8 \subseteq Seq(Bytes)
    /\ Unfit \notin Seq(Bytes) \cup Buffers

Addresses == 0 .. (Size - 1)

VARIABLES
    host,      \* rdram
    call       \* the call that is answered

vars == <<host, call>>

Idle == [op |-> "idle"]

Init ==
    /\ host \in [Addresses -> Bytes]
    /\ call = Idle

TypeOK == host \in [Addresses -> Bytes]
-----------------------------------------------------------------------------
(* a ^ 3, the place of a byte, and a ^ 2, the place of a half word.        *)
Flip(a) == a + 3 - 2 * (a % 4)
FlipHalves(a) == IF a % 4 < 2 THEN a + 2 ELSE a - 2

(* MEM_B(p, i)                                                             *)
MemB(p, i) == host[Flip(p + i)]

(* memcpy_from_recomp, memcpy_rev_from_recomp: the first byte is dst[1].   *)
CopyFrom(p, n) == [k \in 1 .. n |-> MemB(p, k - 1)]
CopyRevFrom(p, n) == [k \in 1 .. n |-> MemB(p, n - k)]

(* memcpy_to_recomp, memcpy_rev_to_recomp: the byte at x is the one of     *)
(* address Flip(x).                                                        *)
CopyTo(p, s) ==
    [x \in Addresses |-> IF Flip(x) - p \in 0 .. (Len(s) - 1) THEN s[Flip(x) - p + 1] ELSE host[x]]

CopyRevTo(p, s) == CopyTo(p, Reverse(s))

(* A number of the host has its least significant byte first.              *)
Native(digits) == Reverse(digits)
Digits(native) == Reverse(native)
-----------------------------------------------------------------------------
(* The checks.                                                             *)

Inside(p, n) == p >= 0 /\ p + n <= Size

(* thread_check_exception(), mem_bounds_check_exception(); the native API  *)
(* has neither.                                                            *)
Passes(by, p) == by \in {"game", "mod"} \/ (by = "python" /\ p >= 0 /\ p <= Size - 1)

(* The caller's part: from a valid address on there are n bytes.  Nothing  *)
(* in the code checks it.  The game and its mods do not make up addresses. *)
Whole(by, p, n) ==
    /\ p \in Addresses => Inside(p, n)
    /\ by \in {"game", "mod"} => p \in Addresses

Answered(by, op, form, p, data, n, answer) ==
    call' = [by |-> by, op |-> op, form |-> form, at |-> p, data |-> data, n |-> n, answer |-> answer]

(* What the caller gets: a py::str is made of UTF-8 bytes only.            *)
Decoded(form, s) == IF form \in {"char", "text"} /\ s \notin Utf8 THEN Refused ELSE s

(* n bytes from p on are loaded, in a way of their own.                    *)
Load(by, form, p, n, loaded) ==
    /\ Whole(by, p, n)
    /\ Answered(by, "load", form, p, <<>>, n,
                IF Passes(by, p) THEN Decoded(form, loaded) ELSE Refused)
    /\ UNCHANGED host

(* m bytes from p on are stored.  A failing cast of a mod ends the process *)
(* (Escape of HandleTable).                                                *)
Store(by, form, p, data, n, m, stored) ==
    /\ Whole(by, p, m)
    /\ by = "mod" => data # Unfit
    /\ \/ /\ Passes(by, p) /\ data # Unfit
          /\ host' = stored
          /\ Answered(by, "store", form, p, data, n, Done)
       \/ /\ ~Passes(by, p) \/ data = Unfit
          /\ Answered(by, "store", form, p, data, n, Refused)
          /\ UNCHANGED host
-----------------------------------------------------------------------------
(* The game: MEM_W, MEM_H and MEM_B at an address aligned to their width,  *)
(* where the host keeps a native number of n bytes.                        *)

Place(p, n) == CASE n = 4 -> p [] n = 2 -> FlipHalves(p) [] n = 1 -> Flip(p)

GameLoad(p, n) ==
    /\ n \in {1, 2, 4} /\ p % n = 0
    /\ Load("game", "number", p, n, Digits([k \in 1 .. n |-> host[Place(p, n) + k - 1]]))

GameStore(p, d) ==
    LET at == Place(p, Len(d))
        native == Native(d)
    IN  /\ Len(d) \in {1, 2, 4} /\ p % Len(d) = 0
        /\ Store("game", "number", p, d, Len(d), Len(d),
                 [x \in Addresses |-> IF x - at \in 0 .. (Len(d) - 1)
                                      THEN native[x - at + 1] ELSE host[x]])

(* read_u8 ... read_f64, read_byte_char; from a mod the 64 bit numbers     *)
(* only, PythonNative_U64Operation and its like.                           *)
ReadNumber(by, p, n) ==
    /\ by = "mod" => n = 8
    /\ Load(by, "number", p, n, Digits(CopyRevFrom(p, n)))

(* read_char                                                               *)
ReadChar(by, p) ==
    /\ by # "mod"
    /\ Load(by, "char", p, 1, Digits(CopyRevFrom(p, 1)))

(* write_u8 ... write_byte_char, PythonNative_U64Operation ...             *)
WriteNumber(by, p, n, d) ==
    /\ by = "mod" => n = 8
    /\ d # Unfit => Len(d) = n
    /\ Store(by, "number", p, d, n, n, CopyRevTo(p, Native(d)))

(* read_bytes_n, read_bytearray_n, PythonNative_MemcpyToBytes ...          *)
ReadBlock(by, p, n, reverse) ==
    Load(by, IF reverse THEN "mirrored" ELSE "block", p, n,
         IF reverse THEN CopyRevFrom(p, n) ELSE CopyFrom(p, n))

Shorter(m, n) == IF m < n THEN m ELSE n

(* Faulty variant: a block is mirrored before it is cut.                   *)
WriteBlockMirrored(by, p, buffer, n, reverse) ==
    LET size == Shorter(buffer.items, n)
        whole == IF reverse THEN Reverse(buffer.bytes) ELSE buffer.bytes
    IN  Store(by, IF reverse THEN "mirrored" ELSE "block", p, buffer, n, size,
              CopyTo(p, SubSeq(whole, 1, size)))

(* write_buffer_n, PythonNative_MemcpyFromBuffer.  The size of the buffer  *)
(* is its number of items, and so many bytes are copied, however wide or   *)
(* far apart the items are.                                                *)
WriteBlock(by, p, buffer, n, reverse) ==
    LET size == Shorter(buffer.items, n)
        cut == SubSeq(buffer.bytes, 1, size)
    IN  Store(by, IF reverse THEN "mirrored" ELSE "block", p, buffer, n, size,
              IF reverse THEN CopyRevTo(p, cut) ELSE CopyTo(p, cut))

(* ptr_to_string_n: the loop copies byte after byte and ends at a null     *)
(* byte or after n bytes.                                                  *)
StringFrom(p, n) ==
    CopyFrom(p, Cardinality({k \in 1 .. n : \A i \in 0 .. (k - 1) : MemB(p, i) # Null}))

(* read_byte_str_n, PythonNative_CreateByteStrN ("string"); read_str_n,    *)
(* PythonNative_CreateStrN ("text").                                       *)
ReadStrN(by, form, p, n) == Load(by, form, p, n, StringFrom(p, n))

(* read_byte_str, read_str, PythonNative_CreateByteStr ...: ptr_to_string  *)
(* counts the bytes before the null byte first.                            *)
ReadStr(by, form, p, n) ==
    /\ Passes(by, p) /\ p \in Addresses =>
         /\ Inside(p, n + 1) /\ MemB(p, n) = Null
         /\ \A i \in 0 .. (n - 1) : MemB(p, i) # Null
    /\ ReadStrN(by, form, p, n)

(* write_str_n, write_byte_str_n: a null byte in the string is one like    *)
(* any other.                                                              *)
WriteStrN(by, p, s, n) ==
    LET len == Shorter(Len(s) + 1, n)
    IN  Store(by, "string", p, s, n, len,
              CopyTo(p, [k \in 1 .. len |-> IF k = len THEN Null ELSE s[k]]))

(* REPY_CastStr, REPY_CastByteStr: the string goes into len + 1 bytes.     *)
CastStr(p, s) == WriteStrN("mod", p, s, Len(s) + 1)

(* The caller goes on.                                                     *)
Return ==
    /\ call' = Idle
    /\ UNCHANGED host

Callers == {"mod", "python", "foreign"}

Call(p) ==
    \/ \E n \in Widths : GameLoad(p, n)
    \/ \E n \in Widths : \E d \in [1 .. n -> Bytes] : GameStore(p, d)
    \/ \E s \in Texts : CastStr(p, s)
    \/ \E by \in Callers :
        \/ \E n \in Widths : ReadNumber(by, p, n)
        \/ ReadChar(by, p)
        \/ \E n \in Widths : \E d \in [1 .. n -> Bytes] \cup {Unfit} : WriteNumber(by, p, n, d)
        \/ \E n \in Lengths : \E r \in BOOLEAN : ReadBlock(by, p, n, r)
        \/ \E n \in Lengths : \E r \in BOOLEAN : \E b \in Buffers : WriteBlock(by, p, b, n, r)
        \/ \E form \in {"string", "text"} : \E n \in Lengths : ReadStrN(by, form, p, n)
        \/ \E form \in {"string", "text"} : \E n \in Lengths : ReadStr(by, form, p, n)
        \/ \E n \in Lengths : \E s \in Texts : WriteStrN(by, p, s, n)

Next ==
    \/ call = Idle /\ (\E p \in Pointers : Call(p))
    \/ call # Idle /\ Return

Spec == Init /\ [][Next]_vars
-----------------------------------------------------------------------------
(* Python, mods and the game see one big-endian memory, whatever the width *)
(* and the alignment of their accesses, and of the length of what they     *)
(* store; Python reads no text that is not UTF-8.                          *)
Game == INSTANCE GameMemory WITH memory <- [a \in Addresses |-> host[Flip(a)]]
ImplementsGameMemory == Game!Spec
=============================================================================
