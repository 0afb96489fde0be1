--------------------------- MODULE RecompMemProofs ---------------------------
(***************************************************************************)
(* Proofs about RecompMem, for every size of the memory, set of bytes and  *)
(* calls: what mods, Python and the game see is one big-endian memory, as  *)
(* long as the callers name whole objects.                                 *)
(*                                                                         *)
(* The argument is that Flip is its own inverse and stays inside the       *)
(* memory, so that the copy loops load and store what GameMemory says, and *)
(* that the native words of the game are flipped as a whole just as their  *)
(* bytes are one by one.                                                   *)
(***************************************************************************)
EXTENDS RecompMem, SequenceTheorems, FiniteSetTheorems, TLAPS

Everyone == Callers \cup {"game"}

bar == [a \in Addresses |-> host[Flip(a)]]
-----------------------------------------------------------------------------
(* Places of bytes and words.                                              *)

LEMMA FlipOfAddress ==
    ASSUME NEW a \in Addresses
    PROVE  Flip(a) \in Addresses /\ Flip(Flip(a)) = a
<1>1. /\ Size \in Nat /\ Size = 4 * (Size \div 4) /\ Size \div 4 \in Int
      /\ a \in Int /\ 0 <= a /\ a < Size
  BY RecompMemAssumption DEF Addresses
<1>2. PICK q \in Int, r \in 0 .. 3 : a = 4 * q + r /\ a % 4 = r
  BY <1>1
<1>3. Flip(a) = 4 * q + (3 - r) /\ (4 * q + (3 - r)) % 4 = 3 - r
  BY <1>2 DEF Flip
<1>4. Flip(4 * q + (3 - r)) = 4 * q + r
  BY <1>2, <1>3 DEF Flip
<1>5. 0 <= 4 * q + (3 - r) /\ 4 * q + (3 - r) < Size
  BY <1>1, <1>2
<1> QED  BY <1>1, <1>2, <1>3, <1>4, <1>5 DEF Addresses

(* The native number at Place(p, n) covers the bytes of p .. p + n - 1, in *)
(* reverse.                                                                *)
LEMMA PlaceOfWord ==
    ASSUME NEW n \in {1, 2, 4}, NEW p \in Int, p % n = 0, NEW k \in 0 .. (n - 1)
    PROVE  Flip(p + k) = Place(p, n) + (n - 1 - k)
<1>1. PICK q \in Int, r \in 0 .. 3 : p = 4 * q + r /\ p % 4 = r
  OBVIOUS
<1>2. CASE n = 1
  BY <1>1, <1>2 DEF Flip, Place
<1>3. CASE n = 2
  <2>1. r \in {0, 2}
    BY <1>1, <1>3
  <2>2. (p + k) % 4 = r + k
    BY <1>1, <1>3, <2>1
  <2>3. FlipHalves(p) = IF r = 0 THEN p + 2 ELSE p - 2
    BY <1>1, <2>1 DEF FlipHalves
  <2>4. Place(p, n) = FlipHalves(p)
    BY <1>3 DEF Place
  <2>5. Flip(p + k) = p + k + 3 - 2 * (r + k)
    BY <2>2 DEF Flip
  <2> QED  BY <1>1, <1>3, <2>1, <2>3, <2>4, <2>5
<1>4. CASE n = 4
  <2>1. r = 0 /\ (p + k) % 4 = k
    BY <1>1, <1>4
  <2>2. Place(p, n) = p
    BY <1>4 DEF Place
  <2>3. Flip(p + k) = p + k + 3 - 2 * k
    BY <2>1 DEF Flip
  <2> QED  BY <1>1, <1>4, <2>1, <2>2, <2>3
<1> QED  BY <1>2, <1>3, <1>4

LEMMA ReverseProperties ==
    ASSUME NEW S, NEW s \in Seq(S)
    PROVE  /\ Reverse(s) \in Seq(S) /\ Len(Reverse(s)) = Len(s)
           /\ \A i \in 1 .. Len(s) : Reverse(s)[i] = s[Len(s) - i + 1]
           /\ Reverse(Reverse(s)) = s
  BY DEF Reverse
-----------------------------------------------------------------------------
(* What the copy loops load from the memory.                               *)
LEMMA Copies ==
    ASSUME TypeOK, NEW p \in Int, NEW n \in Nat, Inside(p, n)
    PROVE  /\ Game!Slice(p, n) \in Seq(Bytes) /\ Len(Game!Slice(p, n)) = n
           /\ \A k \in 0 .. (n - 1) : p + k \in Addresses /\ Game!Slice(p, n)[k + 1] = MemB(p, k)
           /\ CopyFrom(p, n) = Game!Slice(p, n)
           /\ CopyRevFrom(p, n) = Reverse(Game!Slice(p, n))
<1> DEFINE slice == Game!Slice(p, n)
<1>1. \A k \in 0 .. (n - 1) : p + k \in Addresses
  BY RecompMemAssumption DEF Inside, Addresses
<1>2. slice = [k \in 1 .. n |-> bar[p + k - 1]]
  BY DEF Game!Slice, bar
<1>3. \A k \in 1 .. n : p + k - 1 \in Addresses /\ bar[p + k - 1] = MemB(p, k - 1) /\ bar[p + k - 1] \in Bytes
  <2> SUFFICES ASSUME NEW k \in 1 .. n
               PROVE  p + k - 1 \in Addresses /\ bar[p + k - 1] = MemB(p, k - 1) /\ bar[p + k - 1] \in Bytes
    OBVIOUS
  <2>1. p + k - 1 = p + (k - 1) /\ k - 1 \in 0 .. (n - 1)
    OBVIOUS
  <2>2. p + k - 1 \in Addresses
    BY <1>1, <2>1
  <2> QED  BY <2>1, <2>2, FlipOfAddress DEF bar, MemB, TypeOK
<1>4. slice = [k \in 1 .. n |-> MemB(p, k - 1)]
  BY <1>2, <1>3
<1>5. slice \in Seq(Bytes) /\ Len(slice) = n
  <2>1. slice \in [1 .. n -> Bytes]
    BY <1>2, <1>3
  <2>2. slice \in Seq(Bytes)
    BY <2>1, SeqDef
  <2> QED  BY <2>1, <2>2, LenProperties
<1>6. \A k \in 0 .. (n - 1) : slice[k + 1] = MemB(p, k)
  BY <1>4
<1>7. CopyRevFrom(p, n) = Reverse(slice)
  <2>1. Reverse(slice) = [i \in 1 .. n |-> slice[(n - i) + 1]]
    BY <1>5 DEF Reverse
  <2>2. \A i \in 1 .. n : slice[(n - i) + 1] = MemB(p, n - i)
    BY <1>6
  <2> QED  BY <2>1, <2>2 DEF CopyRevFrom
<1> QED  BY <1>1, <1>4, <1>5, <1>6, <1>7 DEF CopyFrom

(* A string is loaded up to its null byte.                                 *)
LEMMA StringCopies ==
    ASSUME TypeOK, NEW p \in Int, NEW n \in Nat, Inside(p, n)
    PROVE  StringFrom(p, n) = Game!UpToNull(Game!Slice(p, n))
<1> DEFINE slice == Game!Slice(p, n)
           before == {k \in 1 .. n : \A i \in 0 .. (k - 1) : MemB(p, i) # Null}
           prior == {k \in 1 .. Len(slice) : \A j \in 1 .. k : slice[j] # Null}
           len == Cardinality(before)
<1>1. slice \in Seq(Bytes) /\ Len(slice) = n /\ \A k \in 0 .. (n - 1) : slice[k + 1] = MemB(p, k)
  BY Copies
<1>2. \A j \in 1 .. n : slice[j] = MemB(p, j - 1)
  BY <1>1
<1>3. before = prior
  <2>1. ASSUME NEW k \in 1 .. n
        PROVE  (\A i \in 0 .. (k - 1) : MemB(p, i) # Null) <=> (\A j \in 1 .. k : slice[j] # Null)
    <3>1. ASSUME \A i \in 0 .. (k - 1) : MemB(p, i) # Null, NEW j \in 1 .. k PROVE slice[j] # Null
      BY <1>2, <3>1
    <3>2. ASSUME \A j \in 1 .. k : slice[j] # Null, NEW i \in 0 .. (k - 1) PROVE MemB(p, i) # Null
      BY <1>1, <3>2
    <3> QED  BY <3>1, <3>2
  <2> QED  BY <1>1, <2>1
<1>4. len \in 0 .. n
  <2>1. IsFiniteSet(1 .. n) /\ Cardinality(1 .. n) = n
    BY FS_Interval
  <2>2. before \subseteq 1 .. n
    OBVIOUS
  <2>3. Cardinality(before) \in Nat /\ Cardinality(before) <= n
    BY <2>1, <2>2, FS_Subset, FS_CardinalityType
  <2> QED  BY <2>3
<1>5. SubSeq(slice, 1, len) = [k \in 1 .. len |-> MemB(p, k - 1)]
  <2> HIDE DEF slice, before, prior
  <2>1. SubSeq(slice, 1, len) = [k \in 1 .. len |-> slice[k]]
    BY <1>1, <1>4
  <2>2. \A k \in 1 .. len : slice[k] = MemB(p, k - 1)
    BY <1>2, <1>4
  <2> QED  BY <2>1, <2>2
<1>6. Game!UpToNull(slice) = SubSeq(slice, 1, len)
  <2>1. Game!UpToNull(slice) = SubSeq(slice, 1, Game!Cardinality(prior))
    BY DEF Game!UpToNull
  <2>2. Game!Cardinality(prior) = Cardinality(prior)
    BY DEF Game!Cardinality, Cardinality
  <2> QED  BY <1>3, <2>1, <2>2
<1>7. StringFrom(p, n) = CopyFrom(p, len)
  BY DEF StringFrom
<1> QED  BY <1>5, <1>6, <1>7 DEF CopyFrom

(* What the copy loops store in it.                                        *)
LEMMA CopyToStores ==
    ASSUME TypeOK, NEW p \in Int, NEW s \in Seq(Bytes)
    PROVE  /\ CopyTo(p, s) \in [Addresses -> Bytes]
           /\ \A a \in Addresses :
                CopyTo(p, s)[Flip(a)] = IF a - p + 1 \in 1 .. Len(s) THEN s[a - p + 1] ELSE host[Flip(a)]
<1>1. \A x \in Addresses : Flip(x) \in Int
  BY FlipOfAddress DEF Addresses
<1>2. CopyTo(p, s) \in [Addresses -> Bytes]
  BY <1>1 DEF TypeOK, CopyTo
<1>3. ASSUME NEW a \in Addresses
      PROVE  CopyTo(p, s)[Flip(a)] = IF a - p + 1 \in 1 .. Len(s) THEN s[a - p + 1] ELSE host[Flip(a)]
  <2>1. Flip(a) \in Addresses /\ Flip(Flip(a)) = a /\ a \in Int
    BY FlipOfAddress DEF Addresses
  <2>2. CopyTo(p, s)[Flip(a)] = IF a - p \in 0 .. (Len(s) - 1) THEN s[a - p + 1] ELSE host[Flip(a)]
    BY <2>1 DEF CopyTo
  <2>3. a - p \in 0 .. (Len(s) - 1) <=> a - p + 1 \in 1 .. Len(s)
    BY <2>1
  <2> QED  BY <2>2, <2>3
<1> QED  BY <1>2, <1>3

(* What GameMemory stores of a buffer.                                     *)
LEMMA StoredBlock ==
    ASSUME NEW b \in Buffers, NEW n \in Nat
    PROVE  LET size == Shorter(b.items, n)
               cut == SubSeq(b.bytes, 1, size)
           IN  /\ size \in Nat /\ cut \in Seq(Bytes) /\ Len(cut) = size
               /\ Game!Stored("block", b, n) = cut
               /\ Game!Stored("mirrored", b, n) = Reverse(cut)
<1> DEFINE size == Shorter(b.items, n)
           cut == SubSeq(b.bytes, 1, size)
<1>1. b.bytes \in Seq(Bytes) /\ b.items \in Nat /\ b.items <= Len(b.bytes)
  BY RecompMemAssumption
<1>2. size \in 0 .. Len(b.bytes)
  BY <1>1 DEF Shorter
<1>3. cut \in Seq(Bytes) /\ Len(cut) = size
  <2> HIDE DEF size
  <2> QED  BY <1>1, <1>2
<1>4. Game!Part(b, n) = cut
  BY DEF Game!Part, Game!Shorter, Shorter
<1>5. Game!Stored("block", b, n) = cut
  BY <1>4 DEF Game!Stored
<1>6. Game!Stored("mirrored", b, n) = Reverse(cut)
  BY <1>4 DEF Game!Stored, Game!Reverse, Reverse
<1> QED  BY <1>2, <1>3, <1>5, <1>6

(* What Python makes of what is loaded.                                    *)
LEMMA DecodedProperties ==
    ASSUME NEW s
    PROVE  /\ Decoded("number", s) = Game!Loaded("number", s)
           /\ Decoded("block", s) = Game!Loaded("block", s)
           /\ Decoded("mirrored", Reverse(s)) = Game!Loaded("mirrored", s)
           /\ Decoded("char", s) = Game!Loaded("char", s)
           /\ \A form \in {"string", "text"} :
                Decoded(form, Game!UpToNull(s)) = Game!Loaded(form, s)
<1>1. /\ Decoded("number", s) = Game!Loaded("number", s)
      /\ Decoded("block", s) = Game!Loaded("block", s)
  BY DEF Decoded, Game!Loaded
<1>2. Decoded("mirrored", Reverse(s)) = Game!Loaded("mirrored", s)
  BY DEF Decoded, Game!Loaded, Game!Reverse, Reverse
<1>3. Decoded("char", s) = Game!Loaded("char", s)
  BY DEF Decoded, Game!Loaded, Game!Readable
<1>4. Decoded("string", Game!UpToNull(s)) = Game!Loaded("string", s)
  BY DEF Decoded, Game!Loaded
<1>5. Decoded("text", Game!UpToNull(s)) = Game!Loaded("text", s)
  BY DEF Decoded, Game!Loaded, Game!Readable
<1> QED  BY <1>1, <1>2, <1>3, <1>4, <1>5

LEMMA StoredString ==
    ASSUME NEW s \in Seq(Bytes), NEW n \in Nat
    PROVE  LET len == Shorter(Len(s) + 1, n)
               cut == [k \in 1 .. len |-> IF k = len THEN Null ELSE s[k]]
           IN  Game!Stored("string", s, n) = cut /\ cut \in Seq(Bytes) /\ Len(cut) = len
<1> DEFINE len == Shorter(Len(s) + 1, n)
           cut == [k \in 1 .. len |-> IF k = len THEN Null ELSE s[k]]
<1>1. len \in 0 .. (Len(s) + 1) /\ len = IF Len(s) + 1 < n THEN Len(s) + 1 ELSE n
  BY DEF Shorter
<1>2. cut \in Seq(Bytes) /\ Len(cut) = len
  BY <1>1, RecompMemAssumption
<1>3. CASE n = 0
  <2>1. Game!Stored("string", s, n) = <<>>
    BY <1>3 DEF Game!Stored
  <2>2. len = 0
    BY <1>1, <1>3
  <2> QED  BY <1>2, <2>1, <2>2
<1>4. CASE n # 0
  <2> DEFINE body == SubSeq(s, 1, len - 1)
  <2>1. len - 1 = Game!Shorter(Len(s), n - 1) /\ len - 1 \in 0 .. Len(s)
    BY <1>1, <1>4 DEF Game!Shorter
  <2>2. Game!Stored("string", s, n) = Append(body, Null)
    BY <1>4, <2>1 DEF Game!Stored, Game!Prefix
  <2>3. body \in Seq(Bytes) /\ Len(body) = len - 1 /\ \A k \in 1 .. (len - 1) : body[k] = s[k]
    BY <2>1
  <2>4. Append(body, Null) = cut
    <3>1. /\ Append(body, Null) \in Seq(Bytes) /\ Len(Append(body, Null)) = len
          /\ \A k \in 1 .. (len - 1) : Append(body, Null)[k] = body[k]
          /\ Append(body, Null)[len] = Null
      <4>1. body \in Seq(Bytes) /\ Null \in Bytes /\ Len(body) + 1 = len
        BY <1>1, <2>1, <2>3, RecompMemAssumption
      <4> HIDE DEF body, len
      <4> QED  BY <4>1, AppendProperties
    <3>2. \A k \in 1 .. len : Append(body, Null)[k] = cut[k]
      BY <1>1, <2>1, <2>3, <3>1
    <3> HIDE DEF cut, body
    <3> QED  BY <1>2, <3>1, <3>2, SeqEqual
  <2> QED  BY <1>2, <2>2, <2>4
<1> QED  BY <1>2, <1>3, <1>4
-----------------------------------------------------------------------------
(* Accesses that load and store what GameMemory says, are steps of it.     *)

(* Whoever is let in names bytes of the memory.                            *)
LEMMA PassedAreInside ==
    ASSUME NEW by \in Everyone, NEW p \in Int, NEW n \in Nat, Whole(by, p, n)
    PROVE  /\ Passes(by, p) => Inside(p, n)
           /\ Passes(by, p) <=> by \in {"game", "mod"} \/ (by = "python" /\ p \in Game!Addresses)
<1>1. by = "python" => (p >= 0 /\ p <= Size - 1 <=> p \in Addresses)
  BY RecompMemAssumption DEF Addresses
<1>2. Game!Addresses = Addresses
  BY DEF Game!Addresses, Addresses
<1> QED  BY <1>1, <1>2 DEF Passes, Whole

LEMMA LoadImplements ==
    ASSUME TypeOK, call = Idle,
           NEW by \in Everyone, NEW form, NEW p \in Int, NEW n \in Nat, NEW loaded,
           Load(by, form, p, n, loaded),
           Inside(p, n) => Decoded(form, loaded) = Game!Loaded(form, Game!Slice(p, n))
    PROVE  TypeOK' /\ Game!Next
<1>1. Passes(by, p) => Inside(p, n)
  BY PassedAreInside DEF Load
<1>2. Passes(by, p) <=> by \in {"game", "mod"} \/ (by = "python" /\ p \in Game!Addresses)
  BY PassedAreInside DEF Load
<1>3. TypeOK' /\ UNCHANGED host
  BY <1>1 DEF Load, TypeOK
<1>4. UNCHANGED bar
  BY <1>3 DEF bar, Flip
<1>5. <<>> # Unfit
  BY RecompMemAssumption, EmptySeq
<1>6. call = Game!Idle
  BY DEF Idle, Game!Idle
<1>7. CASE Passes(by, p)
  <2>1. call' = [by |-> by, op |-> "load", form |-> form, at |-> p, data |-> <<>>, n |-> n,
                answer |-> Decoded(form, loaded)]
    BY <1>7 DEF Load, Answered
  <2>2. Game!Accepted(call')
    BY <1>2, <1>5, <1>7, <2>1 DEF Game!Accepted
  <2>3. Game!Load(call')
    BY <1>1, <1>4, <1>7, <2>1, <2>2 DEF Game!Load, Inside, bar
  <2> QED  BY <1>3, <1>6, <2>3 DEF Game!Next
<1>8. CASE ~Passes(by, p)
  <2>1. call' = [by |-> by, op |-> "load", form |-> form, at |-> p, data |-> <<>>, n |-> n, answer |-> Refused]
    BY <1>8 DEF Load, Answered
  <2>2. ~Game!Accepted(call')
    BY <1>2, <1>8, <2>1 DEF Game!Accepted
  <2>3. Game!Refuse(call')
    BY <1>4, <2>1, <2>2 DEF Game!Refuse, bar
  <2> QED  BY <1>3, <1>6, <2>3 DEF Game!Next
<1> QED  BY <1>7, <1>8

LEMMA StoreImplements ==
    ASSUME TypeOK, call = Idle,
           NEW by \in Everyone, NEW form, NEW p \in Int, NEW data, NEW n, NEW m \in Nat, NEW stored,
           Store(by, form, p, data, n, m, stored),
           data # Unfit /\ Inside(p, m) =>
             /\ Len(Game!Stored(form, data, n)) = m
             /\ stored \in [Addresses -> Bytes]
             /\ \A a \in Addresses :
                  stored[Flip(a)] = IF a - p + 1 \in 1 .. m
                                    THEN Game!Stored(form, data, n)[a - p + 1] ELSE host[Flip(a)]
    PROVE  TypeOK' /\ Game!Next
<1>1. Passes(by, p) => Inside(p, m)
  BY PassedAreInside DEF Store
<1>2. Passes(by, p) <=> by \in {"game", "mod"} \/ (by = "python" /\ p \in Game!Addresses)
  BY PassedAreInside DEF Store
<1>3. call = Game!Idle
  BY DEF Idle, Game!Idle
<1>4. CASE Passes(by, p) /\ data # Unfit
  <2>1. /\ call' = [by |-> by, op |-> "store", form |-> form, at |-> p, data |-> data, n |-> n, answer |-> Done]
        /\ host' = stored
    BY <1>1, <1>4 DEF Store, Answered
  <2>2. Game!Accepted(call')
    BY <1>2, <1>4, <2>1 DEF Game!Accepted
  <2>3. TypeOK'
    BY <1>1, <1>4, <2>1, Zenon DEF TypeOK
  <2>4. bar' = [a \in Addresses |-> IF a - p + 1 \in 1 .. m
                                    THEN Game!Stored(form, data, n)[a - p + 1] ELSE bar[a]]
    BY <1>1, <1>4, <2>1 DEF bar, Flip
  <2>5. Game!Store(call')
    BY <1>1, <1>4, <2>1, <2>2, <2>4 DEF Game!Store, Game!Addresses, Addresses, Inside, bar
  <2> QED  BY <1>3, <2>3, <2>5 DEF Game!Next
<1>5. CASE ~(Passes(by, p) /\ data # Unfit)
  <2>1. /\ call' = [by |-> by, op |-> "store", form |-> form, at |-> p, data |-> data, n |-> n, answer |-> Refused]
        /\ UNCHANGED host
    BY <1>5 DEF Store, Answered
  <2>2. ~Game!Accepted(call')
    BY <1>2, <1>5, <2>1 DEF Game!Accepted
  <2>3. TypeOK' /\ UNCHANGED bar
    BY <2>1 DEF TypeOK, bar, Flip
  <2>4. Game!Refuse(call')
    BY <2>1, <2>2, <2>3 DEF Game!Refuse, bar
  <2> QED  BY <1>3, <2>3, <2>4 DEF Game!Next
<1> QED  BY <1>4, <1>5
-----------------------------------------------------------------------------
(* The operations.                                                         *)

LEMMA GameLoadImplements ==
    ASSUME TypeOK, call = Idle, NEW p \in Int, NEW n \in Widths, GameLoad(p, n)
    PROVE  TypeOK' /\ Game!Next
<1> DEFINE loaded == Digits([k \in 1 .. n |-> host[Place(p, n) + k - 1]])
<1>1. n \in {1, 2, 4} /\ p % n = 0 /\ Load("game", "number", p, n, loaded)
  BY DEF GameLoad
<1>2. ASSUME Inside(p, n) PROVE loaded = Game!Slice(p, n)
  <2> DEFINE native == [k \in 1 .. n |-> host[Place(p, n) + k - 1]]
  <2>1. \A k \in 0 .. (n - 1) : /\ p + k \in Addresses
                                /\ Flip(p + k) = Place(p, n) + (n - 1 - k)
                                /\ Game!Slice(p, n)[k + 1] = host[Flip(p + k)]
    <3>1. TypeOK /\ n \in Nat /\ \A k \in 0 .. (n - 1) : MemB(p, k) = host[Flip(p + k)]
      BY <1>1 DEF MemB
    <3>2. \A k \in 0 .. (n - 1) : p + k \in Addresses /\ Game!Slice(p, n)[k + 1] = MemB(p, k)
      BY <1>2, <3>1, Copies
    <3>3. \A k \in 0 .. (n - 1) : Flip(p + k) = Place(p, n) + (n - 1 - k)
      BY <1>1, PlaceOfWord
    <3> QED  BY <3>1, <3>2, <3>3
  <2>2. Game!Slice(p, n) \in Seq(Bytes) /\ Len(Game!Slice(p, n)) = n
    BY <1>1, <1>2, Copies
  <2>3. \A i \in 1 .. n : native[n - i + 1] = Game!Slice(p, n)[i]
    <3> SUFFICES ASSUME NEW i \in 1 .. n PROVE native[n - i + 1] = Game!Slice(p, n)[i]
      OBVIOUS
    <3>1. i - 1 \in 0 .. (n - 1) /\ (i - 1) + 1 = i /\ n - i + 1 \in 1 .. n
      BY <1>1
    <3>2. Game!Slice(p, n)[i] = host[Place(p, n) + (n - 1 - (i - 1))]
      BY <2>1, <3>1
    <3>3. Place(p, n) \in Int
      BY <1>1 DEF Place, Flip, FlipHalves
    <3>4. Place(p, n) + (n - 1 - (i - 1)) = Place(p, n) + (n - i + 1) - 1
      BY <1>1, <3>3
    <3> QED  BY <3>1, <3>2, <3>4
  <2>4. Len(native) = n /\ n \in Nat
    BY <1>1
  <2>5. loaded = [i \in 1 .. n |-> native[(n - i) + 1]]
    BY <2>4 DEF Digits, Reverse
  <2>6. Game!Slice(p, n) = [i \in 1 .. n |-> Game!Slice(p, n)[i]]
    BY DEF Game!Slice
  <2> HIDE DEF native, loaded
  <2> QED  BY <2>3, <2>5, <2>6
<1>3. Inside(p, n) => Decoded("number", loaded) = Game!Loaded("number", Game!Slice(p, n))
  BY <1>2, DecodedProperties
<1> HIDE DEF loaded
<1> QED  BY <1>1, <1>3, LoadImplements DEF Everyone

LEMMA GameStoreImplements ==
    ASSUME TypeOK, call = Idle, NEW p \in Int, NEW n \in Widths, NEW d \in [1 .. n -> Bytes], GameStore(p, d)
    PROVE  TypeOK' /\ Game!Next
<1> DEFINE at == Place(p, n)
           native == Native(d)
           stored == [x \in Addresses |-> IF x - at \in 0 .. (n - 1) THEN native[x - at + 1] ELSE host[x]]
<1>1. d \in Seq(Bytes) /\ Len(d) = n /\ n \in Nat
  <2>1. n \in Nat
    BY RecompMemAssumption
  <2> QED  BY <2>1, SeqDef, LenProperties
<1>2. n \in {1, 2, 4} /\ p % n = 0 /\ Store("game", "number", p, d, n, n, stored)
  BY <1>1 DEF GameStore
<1>3. Game!Stored("number", d, n) = d
  BY DEF Game!Stored
<1>4. at \in Int /\ native \in Seq(Bytes) /\ Len(native) = n /\ \A i \in 1 .. n : native[i] = d[n - i + 1]
  <2>1. at \in Int
    BY <1>2 DEF Place, Flip, FlipHalves
  <2> QED  BY <1>1, <2>1, ReverseProperties DEF Native
<1>5. stored \in [Addresses -> Bytes]
  BY <1>1, <1>4 DEF TypeOK, Addresses
<1>6. ASSUME Inside(p, n), NEW a \in Addresses
      PROVE  stored[Flip(a)] = IF a - p + 1 \in 1 .. n THEN d[a - p + 1] ELSE host[Flip(a)]
  <2>1. Flip(a) \in Addresses /\ Flip(Flip(a)) = a /\ a \in Int /\ Flip(a) \in Int
    BY FlipOfAddress DEF Addresses
  <2>2. \A k \in 0 .. (n - 1) : p + k \in Addresses /\ Flip(p + k) = at + (n - 1 - k)
    <3>1. \A k \in 0 .. (n - 1) : Flip(p + k) = at + (n - 1 - k)
      BY <1>2, PlaceOfWord
    <3>2. \A k \in 0 .. (n - 1) : p + k \in Addresses
      BY <1>1, <1>6, RecompMemAssumption DEF Inside, Addresses
    <3> QED  BY <3>1, <3>2
  <2> HIDE DEF at, native
  <2>3. CASE a - p \in 0 .. (n - 1)
    <3>1. a = p + (a - p)
      BY <2>1
    <3>2. Flip(a) = at + (n - 1 - (a - p))
      BY <2>2, <2>3, <3>1
    <3>3. /\ Flip(a) - at \in 0 .. (n - 1) /\ Flip(a) - at + 1 \in 1 .. n
          /\ n - (Flip(a) - at + 1) + 1 = a - p + 1 /\ a - p + 1 \in 1 .. n
      BY <1>1, <1>4, <2>1, <2>3, <3>2
    <3>4. native[Flip(a) - at + 1] = d[a - p + 1]
      BY <1>4, <3>3
    <3> QED  BY <2>1, <3>3, <3>4
  <2>4. CASE a - p \notin 0 .. (n - 1)
    <3>1. ASSUME Flip(a) - at \in 0 .. (n - 1) PROVE FALSE
      <4> DEFINE k == n - 1 - (Flip(a) - at)
      <4>1. k \in 0 .. (n - 1) /\ Flip(a) = at + (n - 1 - k)
        BY <1>1, <1>4, <2>1, <3>1
      <4>2. p + k \in Addresses /\ Flip(p + k) = Flip(a)
        BY <2>2, <4>1
      <4>3. p + k = a
        BY <2>1, <4>2, FlipOfAddress
      <4> QED  BY <2>1, <2>4, <4>1, <4>3
    <3>2. a - p + 1 \notin 1 .. n
      BY <1>1, <2>1, <2>4
    <3> QED  BY <2>1, <3>1, <3>2
  <2> QED  BY <2>3, <2>4
<1> HIDE DEF stored
<1> QED  BY <1>1, <1>2, <1>3, <1>5, <1>6, StoreImplements DEF Everyone

(* Numbers and characters are copied in reverse.                           *)
LEMMA NumberCopies ==
    ASSUME TypeOK, NEW p \in Int, NEW n \in Nat, Inside(p, n)
    PROVE  Digits(CopyRevFrom(p, n)) = Game!Slice(p, n)
<1>1. Game!Slice(p, n) \in Seq(Bytes) /\ CopyRevFrom(p, n) = Reverse(Game!Slice(p, n))
  BY Copies
<1> QED  BY <1>1, ReverseProperties DEF Digits

LEMMA ReadNumberImplements ==
    ASSUME TypeOK, call = Idle, NEW by \in Everyone, NEW p \in Int, NEW n \in Widths, ReadNumber(by, p, n)
    PROVE  TypeOK' /\ Game!Next
<1> DEFINE loaded == Digits(CopyRevFrom(p, n))
<1>1. n \in Nat /\ Load(by, "number", p, n, loaded)
  BY RecompMemAssumption DEF ReadNumber
<1>2. Inside(p, n) => Decoded("number", loaded) = Game!Loaded("number", Game!Slice(p, n))
  BY <1>1, NumberCopies, DecodedProperties
<1> HIDE DEF loaded
<1> QED  BY <1>1, <1>2, LoadImplements

LEMMA ReadCharImplements ==
    ASSUME TypeOK, call = Idle, NEW by \in Everyone, NEW p \in Int, ReadChar(by, p)
    PROVE  TypeOK' /\ Game!Next
<1> DEFINE loaded == Digits(CopyRevFrom(p, 1))
<1>1. Load(by, "char", p, 1, loaded)
  BY DEF ReadChar
<1>2. Inside(p, 1) => Decoded("char", loaded) = Game!Loaded("char", Game!Slice(p, 1))
  BY NumberCopies, DecodedProperties
<1> HIDE DEF loaded
<1> QED  BY <1>1, <1>2, LoadImplements

(* What CopyTo stores, as StoreImplements wants it.                        *)
LEMMA CopyToStoresWhole ==
    ASSUME TypeOK, NEW p \in Int, NEW s \in Seq(Bytes), NEW m \in Nat, Len(s) = m
    PROVE  /\ CopyTo(p, s) \in [Addresses -> Bytes]
           /\ \A a \in Addresses :
                CopyTo(p, s)[Flip(a)] = IF a - p + 1 \in 1 .. m THEN s[a - p + 1] ELSE host[Flip(a)]
  BY CopyToStores

LEMMA WriteNumberImplements ==
    ASSUME TypeOK, call = Idle, NEW by \in Everyone, NEW p \in Int, NEW n \in Widths,
           NEW d \in [1 .. n -> Bytes] \cup {Unfit}, WriteNumber(by, p, n, d)
    PROVE  TypeOK' /\ Game!Next
<1>1. n \in Nat /\ Store(by, "number", p, d, n, n, CopyRevTo(p, Native(d)))
  BY RecompMemAssumption DEF WriteNumber
<1>2. ASSUME d # Unfit
      PROVE  /\ Game!Stored("number", d, n) = d /\ Len(d) = n
             /\ CopyRevTo(p, Native(d)) = CopyTo(p, d) /\ d \in Seq(Bytes)
  <2>1. d \in Seq(Bytes) /\ Len(d) = n
    BY <1>1, <1>2, SeqDef, LenProperties
  <2>2. Reverse(Reverse(d)) = d
    BY <2>1, ReverseProperties
  <2> QED  BY <1>1, <2>1, <2>2 DEF CopyRevTo, Native, Game!Stored
<1>3. ASSUME d # Unfit
      PROVE  /\ CopyTo(p, d) \in [Addresses -> Bytes]
             /\ \A a \in Addresses :
                  CopyTo(p, d)[Flip(a)] = IF a - p + 1 \in 1 .. n THEN d[a - p + 1] ELSE host[Flip(a)]
  BY <1>1, <1>2, <1>3, CopyToStoresWhole
<1> DEFINE stored == CopyRevTo(p, Native(d))
<1>4. d # Unfit =>
        /\ Len(Game!Stored("number", d, n)) = n
        /\ stored \in [Addresses -> Bytes]
        /\ \A a \in Addresses :
             stored[Flip(a)] = IF a - p + 1 \in 1 .. n
                               THEN Game!Stored("number", d, n)[a - p + 1] ELSE host[Flip(a)]
  BY <1>2, <1>3
<1> HIDE DEF stored
<1>5. Store(by, "number", p, d, n, n, stored)
  BY <1>1 DEF stored
<1> QED  BY <1>1, <1>4, <1>5, StoreImplements

LEMMA ReadBlockImplements ==
    ASSUME TypeOK, call = Idle, NEW by \in Everyone, NEW p \in Int, NEW n \in Lengths,
           NEW reverse \in BOOLEAN, ReadBlock(by, p, n, reverse)
    PROVE  TypeOK' /\ Game!Next
<1> DEFINE form == IF reverse THEN "mirrored" ELSE "block"
           loaded == IF reverse THEN CopyRevFrom(p, n) ELSE CopyFrom(p, n)
<1>1. n \in Nat /\ TypeOK /\ Load(by, form, p, n, loaded)
  BY RecompMemAssumption DEF ReadBlock
<1>2. ASSUME Inside(p, n)
      PROVE  Decoded(form, loaded) = Game!Loaded(form, Game!Slice(p, n))
  <2>1. CopyFrom(p, n) = Game!Slice(p, n) /\ CopyRevFrom(p, n) = Reverse(Game!Slice(p, n))
    BY <1>1, <1>2, Copies
  <2> QED  BY <2>1, DecodedProperties
<1> HIDE DEF form, loaded
<1> QED  BY <1>1, <1>2, LoadImplements

LEMMA WriteBlockImplements ==
    ASSUME TypeOK, call = Idle, NEW by \in Everyone, NEW p \in Int, NEW n \in Lengths,
           NEW reverse \in BOOLEAN, NEW b \in Buffers, WriteBlock(by, p, b, n, reverse)
    PROVE  TypeOK' /\ Game!Next
<1> DEFINE size == Shorter(b.items, n)
           cut == SubSeq(b.bytes, 1, size)
           form == IF reverse THEN "mirrored" ELSE "block"
           stored == IF reverse THEN CopyRevTo(p, cut) ELSE CopyTo(p, cut)
           bytes == Game!Stored(form, b, n)
<1>1. n \in Nat /\ Store(by, form, p, b, n, size, stored)
  BY RecompMemAssumption DEF WriteBlock
<1>2. size \in Nat /\ cut \in Seq(Bytes) /\ Len(cut) = size
  BY <1>1, StoredBlock
<1>3. bytes = IF reverse THEN Reverse(cut) ELSE cut
  BY <1>1, StoredBlock
<1>4. bytes \in Seq(Bytes) /\ Len(bytes) = size
  <2> HIDE DEF cut, size, bytes
  <2> QED  BY <1>2, <1>3, ReverseProperties
<1>5. stored = CopyTo(p, bytes)
  <2> HIDE DEF cut, size, bytes
  <2> QED  BY <1>3 DEF CopyRevTo
<1>6. /\ stored \in [Addresses -> Bytes]
      /\ \A a \in Addresses :
           stored[Flip(a)] = IF a - p + 1 \in 1 .. size THEN bytes[a - p + 1] ELSE host[Flip(a)]
  <2> HIDE DEF stored, bytes, size
  <2> QED  BY <1>2, <1>4, <1>5, CopyToStoresWhole
<1>7. Len(Game!Stored(form, b, n)) = size /\ bytes = Game!Stored(form, b, n)
  BY <1>4
<1> HIDE DEF stored, bytes, size, form
<1> QED  BY <1>1, <1>2, <1>6, <1>7, StoreImplements

LEMMA ReadStrNImplements ==
    ASSUME TypeOK, call = Idle, NEW by \in Everyone, NEW form \in {"string", "text"},
           NEW p \in Int, NEW n \in Lengths, ReadStrN(by, form, p, n)
    PROVE  TypeOK' /\ Game!Next
<1> DEFINE loaded == StringFrom(p, n)
<1>1. n \in Nat /\ Load(by, form, p, n, loaded)
  BY RecompMemAssumption DEF ReadStrN
<1>2. Inside(p, n) => Decoded(form, loaded) = Game!Loaded(form, Game!Slice(p, n))
  BY <1>1, StringCopies, DecodedProperties
<1> HIDE DEF loaded
<1> QED  BY <1>1, <1>2, LoadImplements

LEMMA WriteStrNImplements ==
    ASSUME TypeOK, call = Idle, NEW by \in Everyone, NEW p \in Int, NEW n \in Nat,
           NEW s \in Texts, WriteStrN(by, p, s, n)
    PROVE  TypeOK' /\ Game!Next
<1> DEFINE len == Shorter(Len(s) + 1, n)
           cut == [k \in 1 .. len |-> IF k = len THEN Null ELSE s[k]]
           stored == CopyTo(p, cut)
<1>1. s \in Seq(Bytes) /\ Store(by, "string", p, s, n, len, stored)
  BY RecompMemAssumption DEF WriteStrN
<1>2. len \in Nat
  BY <1>1 DEF Shorter
<1>3. Game!Stored("string", s, n) = cut /\ cut \in Seq(Bytes) /\ Len(cut) = len
  BY <1>1, StoredString
<1>4. /\ stored \in [Addresses -> Bytes]
      /\ \A a \in Addresses :
           stored[Flip(a)] = IF a - p + 1 \in 1 .. len THEN cut[a - p + 1] ELSE host[Flip(a)]
  <2> HIDE DEF cut, len
  <2> QED  BY <1>2, <1>3, CopyToStoresWhole
<1> HIDE DEF stored, cut, len
<1> QED  BY <1>1, <1>2, <1>3, <1>4, StoreImplements

LEMMA CallImplements ==
    ASSUME TypeOK, call = Idle, NEW p \in Pointers, Call(p)
    PROVE  TypeOK' /\ Game!Next
<1>1. p \in Int /\ Callers \subseteq Everyone /\ Lengths \subseteq Nat
  BY RecompMemAssumption DEF Everyone
<1>2. ASSUME NEW n \in Widths, GameLoad(p, n) PROVE TypeOK' /\ Game!Next
  BY <1>1, <1>2, GameLoadImplements
<1>3. ASSUME NEW n \in Widths, NEW d \in [1 .. n -> Bytes], GameStore(p, d) PROVE TypeOK' /\ Game!Next
  BY <1>1, <1>3, GameStoreImplements
<1>4. ASSUME NEW s \in Texts, CastStr(p, s) PROVE TypeOK' /\ Game!Next
  <2>1. Len(s) + 1 \in Nat /\ WriteStrN("mod", p, s, Len(s) + 1)
    BY <1>4, RecompMemAssumption DEF CastStr
  <2> QED  BY <1>1, <2>1, WriteStrNImplements DEF Everyone, Callers
<1>5. ASSUME NEW by \in Callers, NEW n \in Widths, ReadNumber(by, p, n) PROVE TypeOK' /\ Game!Next
  BY <1>1, <1>5, ReadNumberImplements
<1>6. ASSUME NEW by \in Callers, NEW n \in Widths, NEW d \in [1 .. n -> Bytes] \cup {Unfit},
             WriteNumber(by, p, n, d)
      PROVE  TypeOK' /\ Game!Next
  BY <1>1, <1>6, WriteNumberImplements
<1>7. ASSUME NEW by \in Callers, NEW n \in Lengths, NEW r \in BOOLEAN, ReadBlock(by, p, n, r)
      PROVE  TypeOK' /\ Game!Next
  BY <1>1, <1>7, ReadBlockImplements
<1>8. ASSUME NEW by \in Callers, NEW n \in Lengths, NEW r \in BOOLEAN, NEW b \in Buffers, WriteBlock(by, p, b, n, r)
      PROVE  TypeOK' /\ Game!Next
  BY <1>1, <1>8, WriteBlockImplements
<1>9. ASSUME NEW by \in Callers, NEW form \in {"string", "text"}, NEW n \in Lengths,
             ReadStrN(by, form, p, n)
      PROVE  TypeOK' /\ Game!Next
  BY <1>1, <1>9, ReadStrNImplements
<1>10. ASSUME NEW by \in Callers, NEW form \in {"string", "text"}, NEW n \in Lengths,
              ReadStr(by, form, p, n)
       PROVE  TypeOK' /\ Game!Next
  BY <1>9, <1>10 DEF ReadStr
<1>12. ASSUME NEW by \in Callers, ReadChar(by, p) PROVE TypeOK' /\ Game!Next
  BY <1>1, <1>12, ReadCharImplements
<1>11. ASSUME NEW by \in Callers, NEW n \in Lengths, NEW s \in Texts, WriteStrN(by, p, s, n)
       PROVE  TypeOK' /\ Game!Next
  BY <1>1, <1>11, WriteStrNImplements
<1> HIDE DEF TypeOK, Everyone
<1> QED  BY <1>2, <1>3, <1>4, <1>5, <1>6, <1>7, <1>8, <1>9, <1>10, <1>11, <1>12 DEF Call
-----------------------------------------------------------------------------
(* The theorems.                                                           *)

LEMMA InitProperties ==
    ASSUME Init
    PROVE  TypeOK /\ Game!Init
<1>1. TypeOK
  BY DEF Init, TypeOK
<1>2. Game!Addresses = Addresses /\ Game!Idle = Idle
  BY DEF Game!Addresses, Addresses, Game!Idle, Idle
<1>3. bar \in [Addresses -> Bytes]
  BY <1>1, FlipOfAddress DEF bar, TypeOK
<1>4. call = Game!Idle
  BY <1>2 DEF Init
<1> QED  BY <1>1, <1>2, <1>3, <1>4 DEF Game!Init, bar

LEMMA StepImplements ==
    ASSUME TypeOK, [Next]_vars
    PROVE  TypeOK' /\ [Game!Next]_<<bar, call>>
<1>1. CASE call = Idle /\ \E p \in Pointers : Call(p)
  BY <1>1, CallImplements
<1>2. CASE call # Idle /\ Return
  <2>1. TypeOK'
    BY <1>2 DEF Return, TypeOK
  <2>2. UNCHANGED bar
    BY <1>2 DEF Return, bar, Flip
  <2>3. Game!Return
    BY <1>2, <2>2 DEF Return, Game!Return, Idle, Game!Idle, bar
  <2> QED  BY <1>2, <2>1, <2>3 DEF Game!Next, Idle, Game!Idle
<1>3. CASE UNCHANGED vars
  BY <1>3 DEF vars, TypeOK, bar, Flip
<1> QED  BY <1>1, <1>2, <1>3 DEF Next

(* The memory stays one of bytes.                                          *)
THEOREM Invariance == Spec => []TypeOK
<1>1. Init => TypeOK
  BY InitProperties
<1>2. TypeOK /\ [Next]_vars => TypeOK'
  BY StepImplements
<1> QED  BY <1>1, <1>2, PTL DEF Spec

(* The flipped words of the host, and the copy loops and native words that *)
(* work around them, are one big-endian memory; what is cut from strings   *)
(* and buffers, and refused of text, is what GameMemory says.              *)
THEOREM OneMemory == Spec => ImplementsGameMemory
<1>1. Init => Game!Init
  BY InitProperties
<1>2. TypeOK /\ [Next]_vars => [Game!Next]_<<bar, call>>
  BY StepImplements
<1>3. TypeOK /\ [Next]_vars => [Game!Next]_<<[a \in Addresses |-> host[Flip(a)]], call>>
  BY <1>2 DEF bar
<1> QED  BY <1>1, <1>3, Invariance, PTL DEF Spec, ImplementsGameMemory, Game!Spec
=============================================================================
