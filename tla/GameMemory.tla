----------------------------- MODULE GameMemory -----------------------------
(***************************************************************************)
(* What the memory functions promise: the memory of a game is an array of  *)
(* bytes, as on the big-endian console.  The game, its mods and Python     *)
(* load and store numbers, blocks and strings in it, each sees what the    *)
(* others stored, and nobody gets in who must not.                         *)
(*                                                                         *)
(* A number is its bytes, the most significant one first.  A call stays in *)
(* the state until its caller takes the answer, so that the answer and the *)
(* change of the memory can be compared with what was asked for.           *)
(***************************************************************************)
EXTENDS Integers, FiniteSets, SequencesExt

CONSTANTS
    Size,      \* bytes of memory
    Bytes,     \* values of a byte
    Null,      \* the one that ends a string
    Utf8,      \* the sequences of bytes that are UTF-8
    Unfit,     \* a Python object that is no number of the width asked for
    Refused,   \* a Python exception, for a mod: handle 0
    Done       \* the answer of a store

Addresses == 0 .. (Size - 1)

VARIABLES memory, call

Idle == [op |-> "idle"]

Init == memory \in [Addresses -> Bytes] /\ call = Idle

Shorter(m, n) == IF m < n THEN m ELSE n
Prefix(s, n) == SubSeq(s, 1, Shorter(Len(s), n))

(* The part of a sequence before its first null byte.                      *)
UpToNull(s) ==
    SubSeq(s, 1, Cardinality({k \in 1 .. Len(s) : \A j \in 1 .. k : s[j] # Null}))

Slice(a, n) == [k \in 1 .. n |-> memory[a + k - 1]]

(* Text that Python can have.                                              *)
Readable(s) == IF s \in Utf8 THEN s ELSE Refused

Loaded(form, s) ==
    CASE form \in {"number", "block"} -> s
      [] form = "mirrored" -> Reverse(s)
      [] form = "string" -> UpToNull(s)
      [] form = "char" -> Readable(s)
      [] form = "text" -> Readable(UpToNull(s))

(* The bytes of a buffer that are stored: one for each of its items.       *)
Part(b, n) == SubSeq(b.bytes, 1, Shorter(b.items, n))

(* A string is cut so that it ends with a null byte.                       *)
Stored(form, d, n) ==
    CASE form = "number" -> d
      [] form = "block" -> Part(d, n)
      [] form = "mirrored" -> Reverse(Part(d, n))
      [] form = "string" -> IF n = 0 THEN <<>> ELSE Append(Prefix(d, n - 1), Null)

(* A thread the game did not make is refused, and so is a Python call with *)
(* an address outside of the memory or with the wrong type of object.      *)
Accepted(c) ==
    /\ c.by \in {"game", "mod"} \/ (c.by = "python" /\ c.at \in Addresses)
    /\ c.data # Unfit

Refuse(c) ==
    /\ ~Accepted(c)
    /\ c.answer = Refused
    /\ UNCHANGED memory

Load(c) ==
    /\ Accepted(c) /\ c.op = "load"
    /\ c.at >= 0 /\ c.at + c.n <= Size
    /\ c.answer = Loaded(c.form, Slice(c.at, c.n))
    /\ UNCHANGED memory

Store(c) ==
    LET s == Stored(c.form, c.data, c.n)
    IN  /\ Accepted(c) /\ c.op = "store"
        /\ c.at >= 0 /\ c.at + Len(s) <= Size
        /\ c.answer = Done
        /\ memory' = [a \in Addresses |-> IF a - c.at + 1 \in 1 .. Len(s)
                                          THEN s[a - c.at + 1] ELSE memory[a]]

Return ==
    /\ call' = Idle
    /\ UNCHANGED memory

Next ==
    \/ call = Idle /\ (Refuse(call') \/ Load(call') \/ Store(call'))
    \/ call # Idle /\ Return

Spec == Init /\ [][Next]_<<memory, call>>
=============================================================================
