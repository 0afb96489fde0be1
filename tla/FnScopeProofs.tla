---------------------------- MODULE FnScopeProofs ----------------------------
(***************************************************************************)
(* Proofs about FnScope, for any number of threads, sites, conditions,     *)
(* items, scopes and cells.                                                *)
(*                                                                         *)
(* The inductive invariant IInv says, besides the types, who holds what.   *)
(* Shape: every cell that is in use has one holder, a scope or an iterator *)
(* helper, and all that is held is there; so a release can neither come    *)
(* twice nor be forgotten.  CachesHold and ChainsCount: the static caches  *)
(* and the links of a chain lead to the code of their own site and         *)
(* condition, whichever thread filled them.  ScopesAreSound: each helper   *)
(* of an if-block is at the link of the last condition and each loop has   *)
(* the item its index says; only the innermost scope of a thread may be in *)
(* the middle of a macro.                                                  *)
(*                                                                         *)
(* A step changes Shape in one of four ways: the heap grows (ShapeGrows),  *)
(* shrinks (ShapeShrinks), a loop gets another item (ShapeWithItem) or a   *)
(* scope opens (ShapeOpens).  The lemma of an action shows which of them   *)
(* it is, and that the other scopes are undisturbed.                       *)
(*                                                                         *)
(* The last part is about mods that call from one thread (Sole): there     *)
(* OnceInv is inductive too, and code is compiled once.  The run           *)
(* fn_cache_race shows that this is false for two threads.                 *)
(***************************************************************************)
EXTENDS FnScope, FiniteSetTheorems, SequenceTheorems, TLAPS
-----------------------------------------------------------------------------
(* What a cell may hold, and what a scope may be.                          *)
CellsOrNull == Cells \cup {Null}

Iterators ==
    [kind : {"iterator"}, iter : Cells, scope : CellsOrNull, name : CellsOrNull,
     auto : BOOLEAN, curr : CellsOrNull, index : Nat, first : BOOLEAN, given : Nat]

Links == [kind : {"link"}, code : Cells, next : CellsOrNull]

IfHelpers == [kind : {"if"}, site : Sites, curr : CellsOrNull, index : Nat]

Codes == [kind : {"code"}, site : Sites, n : Nat]

Objects ==
    [kind : {"free", "python", "memory", "dict"}] \cup [kind : {"item"}, n : Nat]
        \cup Codes \cup Links \cup IfHelpers \cup Iterators

Scopes ==
    [locals : Cells, cleanup : Seq(Cells), loops : Seq(Cells), helper : CellsOrNull,
     condition : Nat, site : Sites \cup {Null},
     step : {"body", "compile", "chain", "update"}]

Heaps == [CellsOrNull -> Objects]

Stacks == [Threads -> Seq(Scopes)]

TypeOK ==
    /\ heap \in Heaps
    /\ cache \in [Sites -> CellsOrNull]
    /\ root \in [Sites -> CellsOrNull]
    /\ frames \in Stacks
-----------------------------------------------------------------------------
(* The shape of the heap h, under the scopes fr.                           *)

(* What a scope holds is there, and is what the macros registered.         *)
ScopeIsLive(h, f) ==
    /\ h[f.locals].kind = "dict"
    /\ \A j \in DOMAIN f.cleanup :
        /\ h[f.cleanup[j]].kind \in {"python", "memory", "if", "iterator"}
        /\ h[f.cleanup[j]].kind = "iterator" => ~h[f.cleanup[j]].auto
    /\ \A j \in DOMAIN f.loops :
        /\ h[f.loops[j]].kind = "iterator"
        /\ ~h[f.loops[j]].auto => \E k \in DOMAIN f.cleanup : f.cleanup[k] = f.loops[j]

RootsAreLive(h, fr) ==
    \A t \in Threads : \A i \in DOMAIN fr[t] : ScopeIsLive(h, fr[t][i])

(* No two scopes hold the same, and none holds anything twice.             *)
RootsDiffer(fr) ==
    \A t, u \in Threads : \A i \in DOMAIN fr[t], j \in DOMAIN fr[u] :
        /\ fr[t][i].locals = fr[u][j].locals => t = u /\ i = j
        /\ \A k \in DOMAIN fr[t][i].cleanup, l \in DOMAIN fr[u][j].cleanup :
            fr[t][i].cleanup[k] = fr[u][j].cleanup[l] => t = u /\ i = j /\ k = l
        /\ \A k \in DOMAIN fr[t][i].loops, l \in DOMAIN fr[u][j].loops :
            fr[t][i].loops[k] = fr[u][j].loops[l] => t = u /\ i = j /\ k = l

(* The fields of an iterator helper.                                       *)
IteratorFields(h) ==
    \A d \in Cells : h[d].kind = "iterator" =>
        /\ h[h[d].iter].kind = "python"
        /\ h[d].scope # Null => h[h[d].scope].kind = "dict"
        /\ h[d].name # Null => h[h[d].name].kind = "python"
        /\ h[d].scope = Null <=> h[d].name = Null
        /\ h[d].curr # Null => h[h[d].curr].kind = "item"

OwnersDiffer(h) == \A d, e \in Cells : d # e => Owns(h[d]) \cap Owns(h[e]) = {}

OwnedAreNotRoots(h, fr) ==
    \A d \in Cells : \A t \in Threads : \A i \in DOMAIN fr[t] :
        /\ fr[t][i].locals \notin Owns(h[d])
        /\ \A j \in DOMAIN fr[t][i].cleanup : fr[t][i].cleanup[j] \notin Owns(h[d])

(* The scope f is the one that destroys c.                                 *)
Roots(h, f, c) ==
    \/ f.locals = c
    \/ \E j \in DOMAIN f.cleanup : f.cleanup[j] = c
    \/ h[c].kind = "iterator" /\ h[c].auto /\ \E j \in DOMAIN f.loops : f.loops[j] = c

NothingLost(h, fr) ==
    \A c \in Cells : h[c].kind \notin {"free", "code", "link"} =>
        \/ \E t \in Threads : \E i \in DOMAIN fr[t] : Roots(h, fr[t][i], c)
        \/ \E d \in Cells : c \in Owns(h[d])

Shape(h, fr) ==
    /\ RootsAreLive(h, fr)
    /\ RootsDiffer(fr)
    /\ IteratorFields(h)
    /\ OwnersDiffer(h)
    /\ OwnedAreNotRoots(h, fr)
    /\ NothingLost(h, fr)
-----------------------------------------------------------------------------
(* The static caches lead to compiled code, that nothing releases.         *)
CachesHold(h, ca, ro) ==
    \A s \in Sites :
        /\ ca[s] # Null => h[ca[s]] = Code(s, 0)
        /\ ro[s] # Null => h[ro[s]].kind = "link" /\ h[h[ro[s]].code] = Code(s, 1)

(* The links of a chain have the code of one condition after the other.    *)
ChainsCount(h) ==
    \A c \in Cells : h[c].kind = "link" =>
        /\ h[h[c].code].kind = "code"
        /\ h[c].next # Null =>
            /\ h[h[c].next].kind = "link"
            /\ h[h[h[c].next].code] = Code(h[h[c].code].site, h[h[c].code].n + 1)

(* The helper of an if-block is at the link of the last condition.         *)
HelperFollows(h, f) ==
    f.helper # Null =>
        /\ \E j \in DOMAIN f.cleanup : f.cleanup[j] = f.helper
        /\ h[f.helper].kind = "if"
        /\ h[f.helper].curr = Null => f.condition = 0 /\ h[f.helper].index = 0
        /\ h[f.helper].curr # Null =>
            /\ h[h[f.helper].curr].kind = "link"
            /\ h[h[h[f.helper].curr].code] = Code(h[f.helper].site, f.condition)
            /\ f.condition > 0 /\ h[f.helper].index = f.condition - 1

(* Every loop has the item its index says, but for one that is about to    *)
(* ask for its first item.                                                 *)
AsksForFirst(f, j) == f.step = "update" /\ j = Len(f.loops)

LoopHolds(h, f, j) ==
    IF AsksForFirst(f, j)
    THEN /\ h[f.loops[j]].first /\ h[f.loops[j]].curr = Null
         /\ h[f.loops[j]].index = 0 /\ h[f.loops[j]].given = 0
    ELSE /\ ~h[f.loops[j]].first /\ h[f.loops[j]].curr # Null
         /\ h[f.loops[j]].given = h[f.loops[j]].index + 1
         /\ h[h[f.loops[j]].curr] = Item(h[f.loops[j]].given)

(* Where a scope may be: only the innermost is anywhere but in its body.   *)
StepMakesSense(f, innermost) ==
    /\ ~innermost => f.step = "body" /\ f.helper = Null
    /\ f.step = "update" => f.loops # <<>> /\ f.helper = Null
    /\ f.step = "compile" => f.site \in Sites
    /\ f.step = "chain" => f.helper # Null

ScopeIsSound(h, f, innermost) ==
    /\ HelperFollows(h, f)
    /\ \A j \in DOMAIN f.loops : LoopHolds(h, f, j)
    /\ StepMakesSense(f, innermost)

ScopesAreSound(h, fr) ==
    \A t \in Threads : \A i \in DOMAIN fr[t] : ScopeIsSound(h, fr[t][i], i = Len(fr[t]))

IInv ==
    /\ TypeOK
    /\ NothingReleasedTwice
    /\ Shape(heap, frames)
    /\ CachesHold(heap, cache, root)
    /\ ChainsCount(heap)
    /\ ScopesAreSound(heap, frames)
-----------------------------------------------------------------------------
(* With one thread, compiled code is where the caches say.                 *)

CodeIsCached ==
    \A c \in Cells : heap[c].kind = "code" =>
        IF heap[c].n = 0 THEN cache[heap[c].site] = c
        ELSE IF heap[c].n = 1
        THEN root[heap[c].site] # Null /\ heap[root[heap[c].site]].code = c
        ELSE \E d \in Cells :
                /\ heap[d].kind = "link" /\ heap[d].next # Null
                /\ heap[heap[d].next].code = c
                /\ heap[heap[d].code] = Code(heap[c].site, heap[c].n - 1)

LinksHaveTheirOwn ==
    \A c, d \in Cells :
        heap[c].kind = "link" /\ heap[d].kind = "link" /\ heap[c].code = heap[d].code => c = d

StillMissing ==
    \A t \in Threads : \A i \in DOMAIN frames[t] :
        LET f == frames[t][i]
        IN  /\ f.step = "compile" => cache[f.site] = Null
            /\ f.step = "chain" => NextLink(heap[f.helper]) = Null

OnceInv == CompiledOnce /\ CodeIsCached /\ LinksHaveTheirOwn /\ StillMissing
-----------------------------------------------------------------------------
(* The allocator.                                                          *)

(* A finite set of numbers has a least one: its elements, ordered by the   *)
(* sets of those below them, are well-founded.                             *)
LEMMA LeastElement ==
    ASSUME NEW F \in SUBSET Nat, IsFiniteSet(F), F # {}
    PROVE  \E m \in F : \A n \in F : m <= n
<1> DEFINE Below(c) == {d \in F : d < c}
           T == {Below(c) : c \in F}
<1>1. IsWellFoundedOn(StrictSubsetOrdering(F), FiniteSubsetsOf(F))
  BY FS_StrictSubsetOrderingWellFounded
<1>2. T \subseteq FiniteSubsetsOf(F)
  BY FS_Subset DEF FiniteSubsetsOf
<1>3. T # {}
  OBVIOUS
<1>4. PICK x \in T : \A y \in T : ~ (<<y, x>> \in StrictSubsetOrdering(F))
  <2> HIDE DEF T
  <2> QED BY <1>1, <1>2, <1>3, WFMin
<1>5. PICK m \in F : x = Below(m)
  BY <1>4
<1>6. ASSUME NEW n \in F, n < m
      PROVE  FALSE
  <2>1. Below(n) \subseteq Below(m) /\ n \in Below(m) /\ n \notin Below(n)
    <3>1. \A d \in F : d < n => d < m
      BY <1>6
    <3>2. ~(n < n)
      OBVIOUS
    <3> QED BY <1>6, <3>1, <3>2
  <2>2. <<Below(n), Below(m)>> \in StrictSubsetOrdering(F)
    BY <2>1 DEF StrictSubsetOrdering
  <2> QED BY <2>2, <1>4, <1>5
<1> QED BY <1>6

(* The k-th lowest of a finite set of numbers that has as many: the lowest *)
(* of what is left when the set B of the lower ones is taken away.         *)
LEMMA NextLowest ==
    ASSUME NEW F \in SUBSET Nat, IsFiniteSet(F),
           NEW B \in SUBSET F, Cardinality(B) < Cardinality(F),
           \A b \in B : \A d \in F \ B : b < d
    PROVE  \E c \in F \ B : /\ {d \in F : d < c} = B
                            /\ \A b \in B \cup {c} : \A d \in F \ (B \cup {c}) : b < d
<1>1. F \ B # {}
  <2> SUFFICES ASSUME F \ B = {} PROVE FALSE  OBVIOUS
  <2>1. B = F  OBVIOUS
  <2> QED BY <2>1, FS_CardinalityType
<1>2. IsFiniteSet(F \ B)
  BY FS_Subset
<1>3. PICK c \in F \ B : \A n \in F \ B : c <= n
  BY <1>1, <1>2, LeastElement
<1>4. {d \in F : d < c} = B
  <2>1. \A d \in B : d < c
    BY <1>3
  <2>2. \A d \in F \ B : ~(d < c)
    BY <1>3
  <2> QED BY <2>1, <2>2
<1>5. \A b \in B \cup {c} : \A d \in F \ (B \cup {c}) : b < d
  BY <1>3
<1> QED BY <1>3, <1>4, <1>5

(* Fresh(1) to Fresh(4) are different free cells, as far as there is room. *)
LEMMA FreshCells ==
    /\ \A k \in 1 .. 4 : Room(k) =>
        \A j \in 1 .. k : Fresh(j) \in Cells /\ heap[Fresh(j)] = Free
    /\ \A k \in 1 .. 4 : Room(k) =>
        \A i, j \in 1 .. k : i # j => Fresh(i) # Fresh(j)
<1> DEFINE F == FreeCells
           Below(c) == {d \in F : d < c}
           Lowest(n) == \E B \in SUBSET F : /\ Cardinality(B) = n
                                            /\ \A b \in B : \A d \in F \ B : b < d
<1>1. F \in SUBSET Nat /\ IsFiniteSet(F) /\ F \subseteq Cells
  <2>1. IsFiniteSet(Cells) /\ Cells \subseteq Nat
    BY FnScopeAssumption, FS_Interval DEF Cells
  <2>2. F \subseteq Cells
    BY DEF FreeCells
  <2> QED BY <2>1, <2>2, FS_Subset
<1>2. Cardinality(F) \in Nat
  BY <1>1, FS_CardinalityType
<1> HIDE DEF F
<1>3. Lowest(0)
  <2> WITNESS {} \in SUBSET F
  <2> QED BY FS_EmptySet
<1>4. ASSUME NEW n \in Nat, NEW m, m = n + 1, Lowest(n), m <= Cardinality(F)
      PROVE  Lowest(m) /\ \E c \in F : Cardinality(Below(c)) = n
  <2>1. PICK B \in SUBSET F : /\ Cardinality(B) = n
                              /\ \A b \in B : \A d \in F \ B : b < d
    BY <1>4
  <2>2. PICK c \in F \ B : /\ Below(c) = B
                           /\ \A b \in B \cup {c} : \A d \in F \ (B \cup {c}) : b < d
    <3>1. Cardinality(B) < Cardinality(F)
      BY <1>4, <1>2, <2>1
    <3> QED BY <3>1, <2>1, <1>1, NextLowest
  <2>3. Cardinality(B \cup {c}) = m
    BY <1>4, <2>1, <1>1, FS_Subset, FS_AddElement
  <2>4. Lowest(m)
    <3> WITNESS B \cup {c} \in SUBSET F
    <3> QED BY <2>2, <2>3
  <2> QED BY <2>1, <2>2, <2>4
<1> HIDE DEF Lowest
<1>5. ASSUME NEW j \in 1 .. 4, j <= Cardinality(F)
      PROVE  \E c \in F : Cardinality(Below(c)) = j - 1
  <2>1. Lowest(1) /\ \E c \in F : Cardinality(Below(c)) = 0
    <3>1. 1 = 0 + 1 /\ 1 <= Cardinality(F)
      BY <1>5, <1>2
    <3> QED BY <3>1, <1>3, <1>4
  <2>2. 2 <= Cardinality(F) => Lowest(2) /\ \E c \in F : Cardinality(Below(c)) = 1
    <3>1. 2 = 1 + 1
      OBVIOUS
    <3> QED BY <3>1, <2>1, <1>4
  <2>3. 3 <= Cardinality(F) => Lowest(3) /\ \E c \in F : Cardinality(Below(c)) = 2
    <3>1. 3 = 2 + 1 /\ (3 <= Cardinality(F) => 2 <= Cardinality(F))
      BY <1>2
    <3> QED BY <3>1, <2>2, <1>4
  <2>4. 4 <= Cardinality(F) => \E c \in F : Cardinality(Below(c)) = 3
    <3>1. 4 = 3 + 1 /\ (4 <= Cardinality(F) => 3 <= Cardinality(F))
      BY <1>2
    <3> QED BY <3>1, <2>3, <1>4
  <2>5. CASE j = 1  BY <2>1, <2>5
  <2>6. CASE j = 2  BY <2>2, <2>6, <1>5
  <2>7. CASE j = 3  BY <2>3, <2>7, <1>5
  <2>8. CASE j = 4  BY <2>4, <2>8, <1>5
  <2>9. j = 1 \/ j = 2 \/ j = 3 \/ j = 4
    BY <1>5
  <2> QED BY <2>5, <2>6, <2>7, <2>8, <2>9
<1>6. ASSUME NEW k \in 1 .. 4, Room(k), NEW j \in 1 .. k
      PROVE  Fresh(j) \in F /\ Cardinality(Below(Fresh(j))) = j - 1
  <2>1. j \in 1 .. 4 /\ j <= Cardinality(F)
    BY <1>6, <1>2 DEF Room, F
  <2>2. \E c \in F : Cardinality(Below(c)) = j - 1
    BY <2>1, <1>5
  <2> QED BY <2>2 DEF Fresh, F
<1>7. ASSUME NEW k \in 1 .. 4, Room(k), NEW i \in 1 .. k, NEW j \in 1 .. k, Fresh(i) = Fresh(j)
      PROVE  i = j
  <2>1. Cardinality(Below(Fresh(i))) = i - 1 /\ Cardinality(Below(Fresh(j))) = j - 1
    BY <1>7, <1>6
  <2>2. i - 1 = j - 1
    BY <2>1, <1>7
  <2> QED BY <2>2
<1> QED BY <1>1, <1>6, <1>7 DEF FreeCells, F
-----------------------------------------------------------------------------
(* Types, taken apart.                                                     *)
LEMMA ScopeTypes ==
    ASSUME NEW fr \in Stacks, NEW t \in Threads, NEW i \in DOMAIN fr[t]
    PROVE  /\ fr[t][i] \in Scopes
           /\ fr[t][i].locals \in Cells
           /\ fr[t][i].helper \in CellsOrNull
           /\ \A j \in DOMAIN fr[t][i].cleanup : fr[t][i].cleanup[j] \in Cells
           /\ \A j \in DOMAIN fr[t][i].loops : fr[t][i].loops[j] \in Cells
<1>1. fr[t] \in Seq(Scopes)
  BY DEF Stacks
<1>2. fr[t][i] \in Scopes
  BY <1>1
<1>3. /\ fr[t][i].locals \in Cells
      /\ fr[t][i].helper \in CellsOrNull
      /\ fr[t][i].cleanup \in Seq(Cells)
      /\ fr[t][i].loops \in Seq(Cells)
  BY <1>2 DEF Scopes
<1> QED BY <1>2, <1>3

LEMMA ObjectTypes ==
    ASSUME NEW h \in Heaps, NEW c \in CellsOrNull
    PROVE  /\ h[c] \in Objects
           /\ h[c].kind = "iterator" => h[c] \in Iterators
           /\ h[c].kind = "if" => h[c] \in IfHelpers
           /\ h[c].kind = "link" => h[c] \in Links
           /\ h[c].kind = "code" => h[c] \in Codes
           /\ h[c].kind = "free" <=> h[c] = Free
<1>1. h[c] \in Objects
  BY DEF Heaps
<1>2. h[c].kind = "iterator" => h[c] \in Iterators
  BY <1>1 DEF Objects, Codes, Links, IfHelpers
<1>3. h[c].kind = "if" => h[c] \in IfHelpers
  BY <1>1 DEF Objects, Codes, Links, Iterators
<1>4. h[c].kind = "link" => h[c] \in Links
  BY <1>1 DEF Objects, Codes, Iterators, IfHelpers
<1>5. h[c].kind = "code" => h[c] \in Codes
  BY <1>1 DEF Objects, Links, Iterators, IfHelpers
<1>6. h[c].kind = "free" <=> h[c] = Free
  BY <1>1 DEF Objects, Codes, Links, Iterators, IfHelpers, Free
<1> QED BY <1>1, <1>2, <1>3, <1>4, <1>5, <1>6

LEMMA IteratorTypes ==
    ASSUME NEW h \in Heaps, NEW d \in Cells, h[d].kind = "iterator"
    PROVE  /\ h[d].iter \in Cells /\ h[d].scope \in CellsOrNull /\ h[d].name \in CellsOrNull
           /\ h[d].curr \in CellsOrNull /\ h[d].auto \in BOOLEAN /\ h[d].first \in BOOLEAN
           /\ h[d].index \in Nat /\ h[d].given \in Nat
           /\ Owns(h[d]) = {h[d].iter, h[d].curr, h[d].scope, h[d].name} \ {Null}
<1>1. h[d] \in Iterators
  BY ObjectTypes DEF CellsOrNull
<1> QED BY <1>1 DEF Iterators, Owns

(* An iterator owns live cells.                                            *)
LEMMA OwnedTypes ==
    ASSUME NEW h \in Heaps, IteratorFields(h), NEW d \in Cells
    PROVE  /\ h[d].kind # "iterator" => Owns(h[d]) = {}
           /\ \A c \in Owns(h[d]) : c \in Cells /\ h[c].kind \in {"python", "dict", "item"}
<1>1. CASE h[d].kind = "iterator"
  BY <1>1, IteratorTypes DEF IteratorFields, CellsOrNull
<1>2. CASE h[d].kind # "iterator"
  BY <1>2 DEF Owns
<1> QED BY <1>1, <1>2
-----------------------------------------------------------------------------
(* What the shape survives.                                                *)

(* A scope f becomes g, which holds less.                                  *)
Less(f, g) ==
    /\ g.locals = f.locals
    /\ \A k \in DOMAIN g.cleanup : k \in DOMAIN f.cleanup /\ g.cleanup[k] = f.cleanup[k]
    /\ \A k \in DOMAIN g.loops :
        k \in DOMAIN f.loops /\ g.cleanup = f.cleanup /\ g.loops[k] = f.loops[k]

HeldBy(f, c) ==
    \/ c = f.locals
    \/ \E k \in DOMAIN f.cleanup : c = f.cleanup[k]
    \/ \E k \in DOMAIN f.loops : c = f.loops[k]

LooksSame(x, y) == y.kind = x.kind /\ (x.kind = "iterator" => y.auto = x.auto)

(* A scope stays live that holds no more, if what it holds looks the same. *)
LEMMA LiveScopeKept ==
    ASSUME NEW h, NEW h2, NEW f \in Scopes, NEW g, ScopeIsLive(h, f), Less(f, g),
           \A c \in Cells : HeldBy(g, c) /\ h[c].kind \in {"dict", "python", "memory", "if", "iterator"} =>
                LooksSame(h[c], h2[c])
    PROVE  ScopeIsLive(h2, g)
<1>1. /\ f.locals \in Cells
      /\ \A k \in DOMAIN f.cleanup : f.cleanup[k] \in Cells
      /\ \A k \in DOMAIN f.loops : f.loops[k] \in Cells
  BY DEF Scopes
<1>2. h2[g.locals].kind = "dict"
  <2>1. g.locals \in Cells /\ h[g.locals].kind = "dict" /\ HeldBy(g, g.locals)
    BY <1>1 DEF ScopeIsLive, Less, HeldBy
  <2> QED BY <2>1 DEF LooksSame
<1>3. ASSUME NEW k \in DOMAIN g.cleanup
      PROVE  /\ h2[g.cleanup[k]].kind \in {"python", "memory", "if", "iterator"}
             /\ h2[g.cleanup[k]].kind = "iterator" => ~h2[g.cleanup[k]].auto
  <2> DEFINE c == g.cleanup[k]
  <2>1. /\ c \in Cells /\ HeldBy(g, c)
        /\ h[c].kind \in {"python", "memory", "if", "iterator"}
        /\ h[c].kind = "iterator" => ~h[c].auto
    BY <1>1 DEF ScopeIsLive, Less, HeldBy
  <2> HIDE DEF c
  <2>2. LooksSame(h[c], h2[c])
    BY <2>1
  <2> QED BY <2>1, <2>2 DEF LooksSame, c
<1>4. ASSUME NEW k \in DOMAIN g.loops
      PROVE  /\ h2[g.loops[k]].kind = "iterator"
             /\ ~h2[g.loops[k]].auto => \E l \in DOMAIN g.cleanup : g.cleanup[l] = g.loops[k]
  <2> DEFINE c == g.loops[k]
  <2>1. /\ c \in Cells /\ HeldBy(g, c) /\ h[c].kind = "iterator"
        /\ ~h[c].auto => \E l \in DOMAIN g.cleanup : g.cleanup[l] = c
    BY <1>1 DEF ScopeIsLive, Less, HeldBy
  <2> HIDE DEF c
  <2>2. LooksSame(h[c], h2[c])
    BY <2>1
  <2> QED BY <2>1, <2>2 DEF LooksSame, c
<1> QED BY <1>2, <1>3, <1>4 DEF ScopeIsLive

(* Two stacks of scopes that hold the same.                                *)
SameRoots(fr, fr2) ==
    \A t \in Threads :
        /\ DOMAIN fr2[t] = DOMAIN fr[t]
        /\ \A i \in DOMAIN fr[t] : /\ fr2[t][i].locals = fr[t][i].locals
                                   /\ fr2[t][i].cleanup = fr[t][i].cleanup
                                   /\ fr2[t][i].loops = fr[t][i].loops

(* The object x may become y: neither is held by a scope or an iterator,   *)
(* or it keeps its kind and what it owns.                                  *)
Inert(x, y) ==
    \/ x = y
    \/ x.kind \in {"free", "code", "link"} /\ y.kind \in {"code", "link"}
    \/ x.kind = "if" /\ y.kind = "if"
    \/ /\ x.kind = "iterator" /\ y.kind = "iterator"
       /\ x.iter = y.iter /\ x.scope = y.scope /\ x.name = y.name
       /\ x.auto = y.auto /\ x.curr = y.curr

LEMMA ShapeKept ==
    ASSUME NEW h \in Heaps, NEW fr \in Stacks, NEW h2, NEW fr2,
           Shape(h, fr), SameRoots(fr, fr2), \A c \in Cells : Inert(h[c], h2[c])
    PROVE  Shape(h2, fr2)
<1>1. \A c \in Cells : h2[c].kind \notin {"free", "code", "link"} \/ h[c].kind \notin {"free", "code", "link"}
        => h2[c].kind = h[c].kind
  BY DEF Inert
<1>2. \A d \in Cells : h[d].kind = "iterator" \/ h2[d].kind = "iterator" =>
        /\ h[d].kind = "iterator" /\ h2[d].kind = "iterator"
        /\ h2[d].iter = h[d].iter /\ h2[d].scope = h[d].scope /\ h2[d].name = h[d].name
        /\ h2[d].auto = h[d].auto /\ h2[d].curr = h[d].curr
  BY DEF Inert
<1>3. \A d \in Cells : Owns(h2[d]) = Owns(h[d])
  BY <1>2 DEF Owns
<1>4. \A t \in Threads : \A i \in DOMAIN fr[t] :
        /\ fr[t][i].locals \in Cells
        /\ \A j \in DOMAIN fr[t][i].cleanup : fr[t][i].cleanup[j] \in Cells
        /\ \A j \in DOMAIN fr[t][i].loops : fr[t][i].loops[j] \in Cells
  BY ScopeTypes
<1>5. RootsAreLive(h2, fr2)
  <2> SUFFICES ASSUME NEW t \in Threads, NEW i \in DOMAIN fr[t]
               PROVE  ScopeIsLive(h2, fr2[t][i])
    BY DEF RootsAreLive, SameRoots
  <2>1. fr[t][i] \in Scopes /\ ScopeIsLive(h, fr[t][i])
    BY ScopeTypes DEF Shape, RootsAreLive
  <2>2. Less(fr[t][i], fr2[t][i])
    BY DEF SameRoots, Less
  <2>3. \A c \in Cells : h[c].kind \in {"dict", "python", "memory", "if", "iterator"} => LooksSame(h[c], h2[c])
    BY <1>1, <1>2 DEF LooksSame
  <2> QED BY <2>1, <2>2, <2>3, LiveScopeKept
<1>6. RootsDiffer(fr2)
  BY DEF Shape, RootsDiffer, SameRoots
<1>7. IteratorFields(h2)
  BY <1>1, <1>2, IteratorTypes DEF Shape, IteratorFields, CellsOrNull
<1>8. OwnersDiffer(h2)
  BY <1>3 DEF Shape, OwnersDiffer
<1>9. OwnedAreNotRoots(h2, fr2)
  BY <1>3 DEF Shape, OwnedAreNotRoots, SameRoots
<1>10. NothingLost(h2, fr2)
  BY <1>1, <1>2, <1>3 DEF Shape, NothingLost, SameRoots, Roots
<1> QED BY <1>5, <1>6, <1>7, <1>8, <1>9, <1>10 DEF Shape

(* A sequence with one cell more.                                          *)
LEMMA Appended ==
    ASSUME NEW S, NEW s \in Seq(S), NEW c
    PROVE  /\ Len(s) + 1 \notin DOMAIN s
           /\ DOMAIN Append(s, c) = DOMAIN s \cup {Len(s) + 1}
           /\ Append(s, c)[Len(s) + 1] = c
           /\ \A k \in DOMAIN s : Append(s, c)[k] = s[k]
OBVIOUS

(* Nothing of a scope or an iterator is a free cell.                       *)
LEMMA RootsAreNotFree ==
    ASSUME NEW h \in Heaps, NEW fr \in Stacks, Shape(h, fr), NEW c \in Cells, h[c].kind = "free"
    PROVE  /\ \A t \in Threads : \A i \in DOMAIN fr[t] :
                /\ fr[t][i].locals # c
                /\ \A j \in DOMAIN fr[t][i].cleanup : fr[t][i].cleanup[j] # c
                /\ \A j \in DOMAIN fr[t][i].loops : fr[t][i].loops[j] # c
           /\ \A d \in Cells : c \notin Owns(h[d])
<1>1. RootsAreLive(h, fr) /\ IteratorFields(h)
  BY DEF Shape
<1>2. \A d \in Cells : c \notin Owns(h[d])
  BY <1>1, OwnedTypes
<1> QED BY <1>1, <1>2 DEF RootsAreLive, ScopeIsLive

SameElsewhere(fr, fr2, t, n) ==
    \A u \in Threads :
        /\ DOMAIN fr2[u] = DOMAIN fr[u]
        /\ \A j \in DOMAIN fr[u] : (u = t /\ j = n) \/ fr2[u][j] = fr[u][j]

(* The object r is new, with what it owns, and is registered: an iterator  *)
(* as a loop, and anything but an iterator that destroys itself for        *)
(* cleanup.                                                                *)
LEMMA ShapeGrows ==
    ASSUME NEW h \in Heaps, NEW fr \in Stacks, NEW h2 \in Heaps, NEW fr2 \in Stacks,
           Shape(h, fr),
           NEW r \in Cells, h[r].kind = "free", h2[r].kind \in {"python", "memory", "if", "iterator"},
           \A c \in Owns(h2[r]) : c # r /\ h[c].kind = "free" /\ h2[c].kind \in {"python", "dict"},
           \A c \in Cells : c = r \/ c \in Owns(h2[r]) \/ h2[c] = h[c],
           h2[r].kind = "iterator" =>
                /\ h2[h2[r].iter].kind = "python"
                /\ h2[r].scope # Null => h2[h2[r].scope].kind = "dict"
                /\ h2[r].name # Null => h2[h2[r].name].kind = "python"
                /\ h2[r].scope = Null <=> h2[r].name = Null
                /\ h2[r].curr = Null,
           NEW t \in Threads, NEW n \in DOMAIN fr[t], SameElsewhere(fr, fr2, t, n),
           fr2[t][n].locals = fr[t][n].locals,
           fr2[t][n].cleanup = IF h2[r].kind = "iterator" /\ h2[r].auto
                               THEN fr[t][n].cleanup ELSE Append(fr[t][n].cleanup, r),
           fr2[t][n].loops = IF h2[r].kind = "iterator"
                             THEN Append(fr[t][n].loops, r) ELSE fr[t][n].loops
    PROVE  Shape(h2, fr2)
<1> DEFINE f == fr[t][n]
           g == fr2[t][n]
           cl == Len(f.cleanup) + 1
           lo == Len(f.loops) + 1
           O == Owns(h2[r])
<1>1. O \subseteq Cells
  <2>1. CASE h2[r].kind = "iterator"
    <3>1. /\ O = {h2[r].iter, h2[r].curr, h2[r].scope, h2[r].name} \ {Null}
          /\ h2[r].iter \in CellsOrNull /\ h2[r].scope \in CellsOrNull
          /\ h2[r].name \in CellsOrNull /\ h2[r].curr \in CellsOrNull
      BY <2>1, IteratorTypes DEF CellsOrNull
    <3> QED BY <3>1 DEF CellsOrNull
  <2>2. CASE h2[r].kind # "iterator"
    BY <2>2 DEF Owns
  <2> QED BY <2>1, <2>2
<1>2. f.cleanup \in Seq(Cells) /\ f.loops \in Seq(Cells)
  BY ScopeTypes DEF Scopes
<1>3. \A u \in Threads : DOMAIN fr2[u] = DOMAIN fr[u]
  BY DEF SameElsewhere
<1>4. /\ \A k \in DOMAIN f.cleanup : k \in DOMAIN g.cleanup /\ g.cleanup[k] = f.cleanup[k]
      /\ \A k \in DOMAIN f.loops : k \in DOMAIN g.loops /\ g.loops[k] = f.loops[k]
      /\ \A k \in DOMAIN g.cleanup :
            \/ k \in DOMAIN f.cleanup
            \/ k = cl /\ g.cleanup[k] = r /\ ~(h2[r].kind = "iterator" /\ h2[r].auto)
      /\ \A k \in DOMAIN g.loops :
            \/ k \in DOMAIN f.loops
            \/ k = lo /\ g.loops[k] = r /\ h2[r].kind = "iterator"
      /\ ~(h2[r].kind = "iterator" /\ h2[r].auto) => cl \in DOMAIN g.cleanup /\ g.cleanup[cl] = r
      /\ h2[r].kind = "iterator" => lo \in DOMAIN g.loops /\ g.loops[lo] = r
      /\ cl \notin DOMAIN f.cleanup /\ lo \notin DOMAIN f.loops
  <2>1. /\ IF h2[r].kind = "iterator" /\ h2[r].auto
           THEN g.cleanup = f.cleanup ELSE g.cleanup = Append(f.cleanup, r)
        /\ IF h2[r].kind = "iterator"
           THEN g.loops = Append(f.loops, r) ELSE g.loops = f.loops
    OBVIOUS
  <2>2. /\ cl \notin DOMAIN f.cleanup /\ DOMAIN Append(f.cleanup, r) = DOMAIN f.cleanup \cup {cl}
        /\ Append(f.cleanup, r)[cl] = r
        /\ \A k \in DOMAIN f.cleanup : Append(f.cleanup, r)[k] = f.cleanup[k]
    BY <1>2, Appended
  <2>3. /\ lo \notin DOMAIN f.loops /\ DOMAIN Append(f.loops, r) = DOMAIN f.loops \cup {lo}
        /\ Append(f.loops, r)[lo] = r
        /\ \A k \in DOMAIN f.loops : Append(f.loops, r)[k] = f.loops[k]
    BY <1>2, Appended
  <2> HIDE DEF cl, lo, f, g
  <2>4. /\ \A k \in DOMAIN f.cleanup : k \in DOMAIN g.cleanup /\ g.cleanup[k] = f.cleanup[k]
        /\ \A k \in DOMAIN g.cleanup :
              \/ k \in DOMAIN f.cleanup
              \/ k = cl /\ g.cleanup[k] = r /\ ~(h2[r].kind = "iterator" /\ h2[r].auto)
        /\ ~(h2[r].kind = "iterator" /\ h2[r].auto) => cl \in DOMAIN g.cleanup /\ g.cleanup[cl] = r
    BY <2>1, <2>2
  <2>5. /\ \A k \in DOMAIN f.loops : k \in DOMAIN g.loops /\ g.loops[k] = f.loops[k]
        /\ \A k \in DOMAIN g.loops :
              \/ k \in DOMAIN f.loops
              \/ k = lo /\ g.loops[k] = r /\ h2[r].kind = "iterator"
        /\ h2[r].kind = "iterator" => lo \in DOMAIN g.loops /\ g.loops[lo] = r
    BY <2>1, <2>3
  <2> QED BY <2>2, <2>3, <2>4, <2>5
<1>5. \A u \in Threads : \A i \in DOMAIN fr[u] :
        /\ fr2[u][i].locals = fr[u][i].locals
        /\ \A k \in DOMAIN fr[u][i].cleanup :
            k \in DOMAIN fr2[u][i].cleanup /\ fr2[u][i].cleanup[k] = fr[u][i].cleanup[k]
        /\ \A k \in DOMAIN fr[u][i].loops :
            k \in DOMAIN fr2[u][i].loops /\ fr2[u][i].loops[k] = fr[u][i].loops[k]
  <2> TAKE u \in Threads
  <2> TAKE i \in DOMAIN fr[u]
  <2>1. CASE u = t /\ i = n
    BY <1>4, <2>1
  <2>2. CASE ~(u = t /\ i = n)
    BY <2>2 DEF SameElsewhere
  <2> QED BY <2>1, <2>2
<1>6. \A u \in Threads : \A i \in DOMAIN fr[u] :
        /\ \A k \in DOMAIN fr2[u][i].cleanup :
            \/ k \in DOMAIN fr[u][i].cleanup
            \/ u = t /\ i = n /\ k = cl /\ fr2[u][i].cleanup[k] = r /\ ~(h2[r].kind = "iterator" /\ h2[r].auto)
        /\ \A k \in DOMAIN fr2[u][i].loops :
            \/ k \in DOMAIN fr[u][i].loops
            \/ u = t /\ i = n /\ k = lo /\ fr2[u][i].loops[k] = r /\ h2[r].kind = "iterator"
  <2> TAKE u \in Threads
  <2> TAKE i \in DOMAIN fr[u]
  <2>1. CASE u = t /\ i = n
    BY <1>4, <2>1
  <2>2. CASE ~(u = t /\ i = n)
    BY <2>2 DEF SameElsewhere
  <2> QED BY <2>1, <2>2
<1>7. \A u \in Threads : \A i \in DOMAIN fr[u] :
        /\ fr[u][i].locals \in Cells /\ fr[u][i].locals # r /\ fr[u][i].locals \notin O
        /\ \A k \in DOMAIN fr[u][i].cleanup :
            /\ fr[u][i].cleanup[k] \in Cells
            /\ fr[u][i].cleanup[k] # r /\ fr[u][i].cleanup[k] \notin O
        /\ \A k \in DOMAIN fr[u][i].loops :
            /\ fr[u][i].loops[k] \in Cells
            /\ fr[u][i].loops[k] # r /\ fr[u][i].loops[k] \notin O
  BY <1>1, RootsAreNotFree, ScopeTypes
<1>8. \A d \in Cells \ {r} : Owns(h2[d]) = Owns(h[d]) /\ r \notin Owns(h[d]) /\ O \cap Owns(h[d]) = {}
  <2> SUFFICES ASSUME NEW d \in Cells \ {r}
               PROVE  Owns(h2[d]) = Owns(h[d]) /\ r \notin Owns(h[d]) /\ O \cap Owns(h[d]) = {}
    OBVIOUS
  <2>1. r \notin Owns(h[d]) /\ O \cap Owns(h[d]) = {}
    BY <1>1, RootsAreNotFree
  <2>2. CASE d \in O
    BY <2>1, <2>2 DEF Owns
  <2>3. CASE d \notin O
    BY <2>1, <2>3
  <2> QED BY <2>1, <2>2, <2>3
<1>9. \A c \in Cells : c # r /\ c \notin O => h2[c] = h[c]
  OBVIOUS
<1> HIDE DEF cl, lo, O, f, g
<1>10. RootsAreLive(h2, fr2)
  <2> SUFFICES ASSUME NEW u \in Threads, NEW i \in DOMAIN fr[u]
               PROVE  ScopeIsLive(h2, fr2[u][i])
    BY <1>3 DEF RootsAreLive
  <2> DEFINE e == fr[u][i]
             e2 == fr2[u][i]
  <2>1. /\ e2.locals = e.locals /\ e.locals \in Cells /\ h2[e.locals] = h[e.locals]
        /\ \A k \in DOMAIN e.cleanup :
            /\ k \in DOMAIN e2.cleanup /\ e2.cleanup[k] = e.cleanup[k]
            /\ h2[e.cleanup[k]] = h[e.cleanup[k]]
        /\ \A k \in DOMAIN e.loops : e2.loops[k] = e.loops[k] /\ h2[e.loops[k]] = h[e.loops[k]]
    BY <1>5, <1>7, <1>9
  <2>2. ScopeIsLive(h, e)
    BY DEF Shape, RootsAreLive
  <2>3. \A k \in DOMAIN e2.cleanup : k \in DOMAIN e.cleanup \/ (e2.cleanup[k] = r /\ ~(h2[r].kind = "iterator" /\ h2[r].auto))
    BY <1>6
  <2>4. ASSUME NEW k \in DOMAIN e2.loops, k \notin DOMAIN e.loops
        PROVE  /\ e2.loops[k] = r /\ h2[r].kind = "iterator"
               /\ ~h2[r].auto => \E l \in DOMAIN e2.cleanup : e2.cleanup[l] = r
    <3>1. u = t /\ i = n /\ e2.loops[k] = r /\ h2[r].kind = "iterator"
      BY <2>4, <1>6
    <3>2. h2[r].auto \/ (cl \in DOMAIN fr2[t][n].cleanup /\ fr2[t][n].cleanup[cl] = r)
      BY <1>4, <3>1 DEF g
    <3> QED BY <3>1, <3>2
  <2> HIDE DEF e, e2
  <2>5. /\ h2[e2.locals].kind = "dict"
        /\ \A k \in DOMAIN e2.cleanup :
            /\ h2[e2.cleanup[k]].kind \in {"python", "memory", "if", "iterator"}
            /\ h2[e2.cleanup[k]].kind = "iterator" => ~h2[e2.cleanup[k]].auto
    BY <2>1, <2>2, <2>3 DEF ScopeIsLive
  <2>6. ASSUME NEW k \in DOMAIN e2.loops
        PROVE  /\ h2[e2.loops[k]].kind = "iterator"
               /\ ~h2[e2.loops[k]].auto => \E l \in DOMAIN e2.cleanup : e2.cleanup[l] = e2.loops[k]
    <3>1. CASE k \in DOMAIN e.loops
      BY <3>1, <2>1, <2>2 DEF ScopeIsLive
    <3>2. CASE k \notin DOMAIN e.loops
      BY <3>2, <2>4
    <3> QED BY <3>1, <3>2
  <2>7. ScopeIsLive(h2, e2)
    BY <2>5, <2>6 DEF ScopeIsLive
  <2> QED BY <2>7 DEF e2
<1>11. RootsDiffer(fr2)
  <2> SUFFICES ASSUME NEW u \in Threads, NEW v \in Threads,
                      NEW i \in DOMAIN fr[u], NEW j \in DOMAIN fr[v]
               PROVE  /\ fr2[u][i].locals = fr2[v][j].locals => u = v /\ i = j
                      /\ \A k \in DOMAIN fr2[u][i].cleanup, l \in DOMAIN fr2[v][j].cleanup :
                            fr2[u][i].cleanup[k] = fr2[v][j].cleanup[l] => u = v /\ i = j /\ k = l
                      /\ \A k \in DOMAIN fr2[u][i].loops, l \in DOMAIN fr2[v][j].loops :
                            fr2[u][i].loops[k] = fr2[v][j].loops[l] => u = v /\ i = j /\ k = l
    BY <1>3 DEF RootsDiffer
  <2> DEFINE e == fr[u][i]
             e2 == fr2[u][i]
             b == fr[v][j]
             b2 == fr2[v][j]
  <2>0. /\ \A k \in DOMAIN e.cleanup : e2.cleanup[k] = e.cleanup[k] /\ e.cleanup[k] # r
        /\ \A k \in DOMAIN e.loops : e2.loops[k] = e.loops[k] /\ e.loops[k] # r
        /\ \A k \in DOMAIN b.cleanup : b2.cleanup[k] = b.cleanup[k] /\ b.cleanup[k] # r
        /\ \A k \in DOMAIN b.loops : b2.loops[k] = b.loops[k] /\ b.loops[k] # r
    BY <1>5, <1>7
  <2>1. fr2[u][i].locals = fr2[v][j].locals => u = v /\ i = j
    BY <1>5 DEF Shape, RootsDiffer
  <2>2. ASSUME NEW k \in DOMAIN fr2[u][i].cleanup, NEW l \in DOMAIN fr2[v][j].cleanup,
               fr2[u][i].cleanup[k] = fr2[v][j].cleanup[l]
        PROVE  u = v /\ i = j /\ k = l
    <3>1. CASE k \in DOMAIN fr[u][i].cleanup /\ l \in DOMAIN fr[v][j].cleanup
      BY <2>2, <3>1, <1>5 DEF Shape, RootsDiffer
    <3>2. CASE ~(k \in DOMAIN fr[u][i].cleanup /\ l \in DOMAIN fr[v][j].cleanup)
      <4>1. /\ k \in DOMAIN e.cleanup \/ (u = t /\ i = n /\ k = cl /\ e2.cleanup[k] = r)
            /\ l \in DOMAIN b.cleanup \/ (v = t /\ j = n /\ l = cl /\ b2.cleanup[l] = r)
        BY <1>6
      <4>2. e2.cleanup[k] = b2.cleanup[l] /\ ~(k \in DOMAIN e.cleanup /\ l \in DOMAIN b.cleanup)
        BY <2>2, <3>2
      <4> HIDE DEF e, e2, b, b2
      <4> QED BY <4>1, <4>2, <2>0
    <3> QED BY <3>1, <3>2
  <2>3. ASSUME NEW k \in DOMAIN fr2[u][i].loops, NEW l \in DOMAIN fr2[v][j].loops,
               fr2[u][i].loops[k] = fr2[v][j].loops[l]
        PROVE  u = v /\ i = j /\ k = l
    <3>1. CASE k \in DOMAIN fr[u][i].loops /\ l \in DOMAIN fr[v][j].loops
      BY <2>3, <3>1, <1>5 DEF Shape, RootsDiffer
    <3>2. CASE ~(k \in DOMAIN fr[u][i].loops /\ l \in DOMAIN fr[v][j].loops)
      <4>1. /\ k \in DOMAIN e.loops \/ (u = t /\ i = n /\ k = lo /\ e2.loops[k] = r)
            /\ l \in DOMAIN b.loops \/ (v = t /\ j = n /\ l = lo /\ b2.loops[l] = r)
        BY <1>6
      <4>2. e2.loops[k] = b2.loops[l] /\ ~(k \in DOMAIN e.loops /\ l \in DOMAIN b.loops)
        BY <2>3, <3>2
      <4> HIDE DEF e, e2, b, b2
      <4> QED BY <4>1, <4>2, <2>0
    <3> QED BY <3>1, <3>2
  <2> QED BY <2>1, <2>2, <2>3
<1>12. IteratorFields(h2)
  <2> SUFFICES ASSUME NEW d \in Cells, h2[d].kind = "iterator"
               PROVE  /\ h2[h2[d].iter].kind = "python"
                      /\ h2[d].scope # Null => h2[h2[d].scope].kind = "dict"
                      /\ h2[d].name # Null => h2[h2[d].name].kind = "python"
                      /\ h2[d].scope = Null <=> h2[d].name = Null
                      /\ h2[d].curr # Null => h2[h2[d].curr].kind = "item"
    BY DEF IteratorFields
  <2>1. CASE d = r
    BY <2>1
  <2>2. CASE d # r
    <3>1. h2[d] = h[d]
      BY <2>2, <1>9 DEF O
    <3>2. /\ Owns(h[d]) = {h[d].iter, h[d].curr, h[d].scope, h[d].name} \ {Null}
          /\ h[d].iter \in Cells /\ h[d].scope \in CellsOrNull
          /\ h[d].name \in CellsOrNull /\ h[d].curr \in CellsOrNull
      <4>1. h[d].kind = "iterator"
        BY <3>1
      <4> QED BY <4>1, IteratorTypes
    <3>3. \A c \in Cells : c \in Owns(h[d]) => h2[c] = h[c]
      BY <1>8, <1>9, <2>2
    <3>4. Null \notin Cells
      BY DEF Null, Cells
    <3>5. /\ h2[h[d].iter] = h[h[d].iter]
          /\ h[d].scope # Null => h2[h[d].scope] = h[h[d].scope]
          /\ h[d].name # Null => h2[h[d].name] = h[h[d].name]
          /\ h[d].curr # Null => h2[h[d].curr] = h[h[d].curr]
      BY <3>2, <3>3, <3>4 DEF CellsOrNull
    <3> QED BY <3>1, <3>5 DEF Shape, IteratorFields
  <2> QED BY <2>1, <2>2
<1>13. OwnersDiffer(h2)
  BY <1>8 DEF Shape, OwnersDiffer, O
<1>14. OwnedAreNotRoots(h2, fr2)
  BY <1>3, <1>5, <1>6, <1>7, <1>8 DEF Shape, OwnedAreNotRoots, O
<1>15. NothingLost(h2, fr2)
  <2> SUFFICES ASSUME NEW c \in Cells, h2[c].kind \notin {"free", "code", "link"}
               PROVE  \/ \E u \in Threads : \E i \in DOMAIN fr2[u] : Roots(h2, fr2[u][i], c)
                      \/ \E d \in Cells : c \in Owns(h2[d])
    BY DEF NothingLost
  <2>1. CASE c = r
    <3>1. Roots(h2, fr2[t][n], r)
      BY <1>4 DEF Roots, g
    <3> QED BY <3>1, <2>1, <1>3
  <2>2. CASE c \in O
    BY <2>2 DEF O
  <2>3. CASE c # r /\ c \notin O
    <3>1. h2[c] = h[c]
      BY <2>3, <1>9
    <3>2. CASE \E u \in Threads : \E i \in DOMAIN fr[u] : Roots(h, fr[u][i], c)
      <4>1. PICK u \in Threads : \E i \in DOMAIN fr[u] : Roots(h, fr[u][i], c)
        BY <3>2
      <4>2. PICK i \in DOMAIN fr[u] : Roots(h, fr[u][i], c)
        BY <4>1
      <4>3. Roots(h2, fr2[u][i], c)
        BY <4>2, <3>1, <1>5 DEF Roots
      <4> QED BY <4>3, <1>3
    <3>3. CASE \E d \in Cells : c \in Owns(h[d])
      <4>1. PICK d \in Cells : c \in Owns(h[d])
        BY <3>3
      <4>2. d # r
        BY <4>1 DEF Owns
      <4> QED BY <4>1, <4>2, <1>8
    <3> QED BY <3>1, <3>2, <3>3 DEF Shape, NothingLost
  <2> QED BY <2>1, <2>2, <2>3
<1> QED BY <1>10, <1>11, <1>12, <1>13, <1>14, <1>15 DEF Shape

(* The set D has what its members own, and only that.                      *)
Closed(h, D) ==
    /\ D \in SUBSET Cells
    /\ \A d \in D : Owns(h[d]) \subseteq D
    /\ \A d \in Cells \ D : Owns(h[d]) \cap D = {}

Freed(h, h2, D) == \A c \in Cells : h2[c] = IF c \in D THEN Free ELSE h[c]

(* Nothing that the scope f holds is in D.                                 *)
KeepsClear(f, D) ==
    /\ f.locals \notin D
    /\ \A k \in DOMAIN f.cleanup : f.cleanup[k] \notin D
    /\ \A k \in DOMAIN f.loops : f.loops[k] \notin D

(* The scopes fr become fr2, which forget D and nothing else.              *)
Forget(h, fr, fr2, D) ==
    \A u \in Threads :
        /\ DOMAIN fr2[u] \subseteq DOMAIN fr[u]
        /\ \A i \in DOMAIN fr2[u] : Less(fr[u][i], fr2[u][i]) /\ KeepsClear(fr2[u][i], D)
        /\ \A i \in DOMAIN fr[u] : \A c \in Cells \ D :
            Roots(h, fr[u][i], c) => i \in DOMAIN fr2[u] /\ Roots(h, fr2[u][i], c)

(* The cells D are released, and what held them is forgotten: scopes,      *)
(* their ends, or the last of their loops.                                 *)
LEMMA ShapeShrinks ==
    ASSUME NEW h \in Heaps, NEW fr \in Stacks, NEW h2, NEW fr2, Shape(h, fr),
           NEW D, Closed(h, D), Freed(h, h2, D), Forget(h, fr, fr2, D)
    PROVE  Shape(h2, fr2)
<1> USE DEF Closed, Freed, KeepsClear, Less, Forget
<1>1. \A u \in Threads : \A i \in DOMAIN fr[u] :
        /\ fr[u][i].locals \in Cells
        /\ \A j \in DOMAIN fr[u][i].cleanup : fr[u][i].cleanup[j] \in Cells
        /\ \A j \in DOMAIN fr[u][i].loops : fr[u][i].loops[j] \in Cells
  BY ScopeTypes
<1>2. \A d \in Cells : \/ d \in D /\ Owns(h2[d]) = {} /\ h2[d].kind = "free"
                       \/ d \notin D /\ h2[d] = h[d] /\ Owns(h[d]) \cap D = {}
  BY DEF Owns, Free
<1>3. RootsAreLive(h2, fr2)
  <2> SUFFICES ASSUME NEW u \in Threads, NEW i \in DOMAIN fr2[u]
               PROVE  ScopeIsLive(h2, fr2[u][i])
    BY DEF RootsAreLive
  <2>1. /\ fr[u][i] \in Scopes /\ ScopeIsLive(h, fr[u][i])
        /\ Less(fr[u][i], fr2[u][i]) /\ KeepsClear(fr2[u][i], D)
    BY ScopeTypes DEF Shape, RootsAreLive
  <2> DEFINE g == fr2[u][i]
  <2>2. \A c \in Cells : HeldBy(g, c) => LooksSame(h[c], h2[c])
    <3>1. KeepsClear(g, D)
      BY <2>1
    <3> HIDE DEF g
    <3>2. \A c \in Cells : HeldBy(g, c) => c \notin D
      BY <3>1 DEF HeldBy
    <3> QED BY <3>2, <1>2 DEF LooksSame
  <2> HIDE DEF Closed, Freed, KeepsClear, Less, Forget, g
  <2> QED BY <2>1, <2>2, LiveScopeKept DEF g
<1>4. RootsDiffer(fr2)
  BY DEF Shape, RootsDiffer
<1>5. IteratorFields(h2)
  <2> SUFFICES ASSUME NEW d \in Cells, h2[d].kind = "iterator"
               PROVE  /\ h2[h2[d].iter].kind = "python"
                      /\ h2[d].scope # Null => h2[h2[d].scope].kind = "dict"
                      /\ h2[d].name # Null => h2[h2[d].name].kind = "python"
                      /\ h2[d].scope = Null <=> h2[d].name = Null
                      /\ h2[d].curr # Null => h2[h2[d].curr].kind = "item"
    BY DEF IteratorFields
  <2>1. h2[d] = h[d] /\ Owns(h[d]) \cap D = {}
    BY <1>2
  <2>2. /\ Owns(h[d]) = {h[d].iter, h[d].curr, h[d].scope, h[d].name} \ {Null}
        /\ h[d].iter \in Cells /\ h[d].scope \in CellsOrNull
        /\ h[d].name \in CellsOrNull /\ h[d].curr \in CellsOrNull
    BY <2>1, IteratorTypes
  <2>3. \A c \in Cells : c \in Owns(h[d]) => h2[c] = h[c]
    BY <1>2, <2>1
  <2>4. Null \notin Cells
    BY DEF Null, Cells
  <2>5. /\ h2[h[d].iter] = h[h[d].iter]
        /\ h[d].scope # Null => h2[h[d].scope] = h[h[d].scope]
        /\ h[d].name # Null => h2[h[d].name] = h[h[d].name]
        /\ h[d].curr # Null => h2[h[d].curr] = h[h[d].curr]
    BY <2>2, <2>3, <2>4 DEF CellsOrNull
  <2> QED BY <2>1, <2>5 DEF Shape, IteratorFields
<1>6. OwnersDiffer(h2)
  BY <1>2 DEF Shape, OwnersDiffer
<1>7. OwnedAreNotRoots(h2, fr2)
  BY <1>2 DEF Shape, OwnedAreNotRoots
<1>8. NothingLost(h2, fr2)
  <2> SUFFICES ASSUME NEW c \in Cells, h2[c].kind \notin {"free", "code", "link"}
               PROVE  \/ \E u \in Threads : \E i \in DOMAIN fr2[u] : Roots(h2, fr2[u][i], c)
                      \/ \E d \in Cells : c \in Owns(h2[d])
    BY DEF NothingLost
  <2>1. c \notin D /\ h2[c] = h[c]
    BY <1>2
  <2>2. CASE \E u \in Threads : \E i \in DOMAIN fr[u] : Roots(h, fr[u][i], c)
    <3>1. PICK u \in Threads : \E i \in DOMAIN fr[u] : Roots(h, fr[u][i], c)
      BY <2>2
    <3>2. PICK i \in DOMAIN fr[u] : Roots(h, fr[u][i], c)
      BY <3>1
    <3>3. i \in DOMAIN fr2[u] /\ Roots(h, fr2[u][i], c)
      BY <3>2, <2>1
    <3>4. Roots(h2, fr2[u][i], c)
      BY <3>3, <2>1 DEF Roots
    <3> QED BY <3>3, <3>4
  <2>3. CASE \E d \in Cells : c \in Owns(h[d])
    BY <2>3, <2>1, <1>2
  <2> QED BY <2>1, <2>2, <2>3 DEF Shape, NothingLost
<1> QED BY <1>3, <1>4, <1>5, <1>6, <1>7, <1>8 DEF Shape

(* The iterator helper c gets another item or none, and the one it had is  *)
(* released.                                                               *)
LEMMA ShapeWithItem ==
    ASSUME NEW h \in Heaps, NEW fr \in Stacks, NEW h2 \in Heaps, NEW fr2,
           Shape(h, fr), SameRoots(fr, fr2),
           NEW c \in Cells, h[c].kind = "iterator", h2[c].kind = "iterator",
           h2[c].iter = h[c].iter, h2[c].scope = h[c].scope, h2[c].name = h[c].name,
           h2[c].auto = h[c].auto,
           h2[c].curr # Null => h[h2[c].curr].kind = "free" /\ h2[h2[c].curr].kind = "item",
           \A d \in Cells : d # c /\ d # h2[c].curr =>
                h2[d] = IF d = h[c].curr THEN Free ELSE h[d]
    PROVE  Shape(h2, fr2)
<1>1. \A u \in Threads : \A i \in DOMAIN fr[u] :
        /\ fr[u][i].locals \in Cells
        /\ \A j \in DOMAIN fr[u][i].cleanup : fr[u][i].cleanup[j] \in Cells
        /\ \A j \in DOMAIN fr[u][i].loops : fr[u][i].loops[j] \in Cells
  BY ScopeTypes
<1> DEFINE old == h[c].curr
           new == h2[c].curr
<1>2. /\ old \in CellsOrNull /\ new \in CellsOrNull
      /\ Owns(h[c]) = {h[c].iter, old, h[c].scope, h[c].name} \ {Null}
      /\ Owns(h2[c]) = {h[c].iter, new, h[c].scope, h[c].name} \ {Null}
  BY IteratorTypes
<1>3. Null \notin Cells
  BY DEF Null, Cells
<1>4. old # Null => h[old].kind = "item"
  BY DEF Shape, IteratorFields
<1>5. \A d \in Cells : Owns(h[d]) \subseteq Cells
  BY OwnedTypes DEF Shape
<1>6. new # Null => new \in Cells /\ h[new].kind = "free" /\ h2[new].kind = "item"
  BY <1>2 DEF CellsOrNull
<1>7. /\ \A d \in Cells : d # c /\ d # new /\ d # old => h2[d] = h[d]
      /\ \A d \in Cells : d = old /\ d # c /\ d # new => h2[d].kind = "free"
      /\ old # c /\ new # c /\ (old \in Cells => old # new)
  BY <1>2, <1>3, <1>4, <1>6 DEF Free
<1>8. \A d \in Cells : d # c => Owns(h2[d]) = Owns(h[d]) /\ old \notin Owns(h[d]) /\ new \notin Owns(h[d])
  <2> SUFFICES ASSUME NEW d \in Cells, d # c
               PROVE  Owns(h2[d]) = Owns(h[d]) /\ old \notin Owns(h[d]) /\ new \notin Owns(h[d])
    OBVIOUS
  <2>1. Null \notin Owns(h[d])
    BY <1>3, <1>5
  <2>2. old \notin Owns(h[d])
    <3>1. old # Null => old \in Owns(h[c])
      BY <1>2
    <3> QED BY <3>1, <2>1 DEF Shape, OwnersDiffer
  <2>3. new \notin Owns(h[d])
    BY <2>1, <1>6, RootsAreNotFree
  <2>4. Owns(h2[d]) = Owns(h[d])
    <3>1. CASE d = new
      BY <3>1, <1>3, <1>6 DEF Owns
    <3>2. CASE d = old /\ d # new
      BY <3>2, <1>3, <1>4, <1>7 DEF Owns
    <3>3. CASE d # old /\ d # new
      BY <3>3, <1>7
    <3> QED BY <3>1, <3>2, <3>3
  <2> QED BY <2>2, <2>3, <2>4
<1>9. \A d \in Cells : h[d].kind \notin {"free", "item"} /\ d # c => h2[d] = h[d]
  BY <1>3, <1>4, <1>6, <1>7
<1> HIDE DEF old, new
<1>10. RootsAreLive(h2, fr2)
  <2> SUFFICES ASSUME NEW u \in Threads, NEW i \in DOMAIN fr[u]
               PROVE  ScopeIsLive(h2, fr2[u][i])
    BY DEF RootsAreLive, SameRoots
  <2>1. fr[u][i] \in Scopes /\ ScopeIsLive(h, fr[u][i])
    BY ScopeTypes DEF Shape, RootsAreLive
  <2>2. Less(fr[u][i], fr2[u][i])
    BY DEF SameRoots, Less
  <2>3. \A d \in Cells : h[d].kind \in {"dict", "python", "memory", "if", "iterator"} => LooksSame(h[d], h2[d])
    BY <1>9 DEF LooksSame
  <2> QED BY <2>1, <2>2, <2>3, LiveScopeKept
<1>11. RootsDiffer(fr2)
  BY DEF Shape, RootsDiffer, SameRoots
<1>12. IteratorFields(h2)
  <2> SUFFICES ASSUME NEW d \in Cells, h2[d].kind = "iterator"
               PROVE  /\ h2[h2[d].iter].kind = "python"
                      /\ h2[d].scope # Null => h2[h2[d].scope].kind = "dict"
                      /\ h2[d].name # Null => h2[h2[d].name].kind = "python"
                      /\ h2[d].scope = Null <=> h2[d].name = Null
                      /\ h2[d].curr # Null => h2[h2[d].curr].kind = "item"
    BY DEF IteratorFields
  <2>1. h[d].kind = "iterator" /\ (d # c => h2[d] = h[d])
    <3>1. d # c => d # new /\ d # old
      BY <1>3, <1>4, <1>6, <1>7 DEF old
    <3> QED BY <3>1, <1>7
  <2>2. /\ h[h[d].iter].kind = "python" /\ h[d].iter \in Cells
        /\ h[d].scope # Null => h[h[d].scope].kind = "dict" /\ h[d].scope \in Cells
        /\ h[d].name # Null => h[h[d].name].kind = "python" /\ h[d].name \in Cells
        /\ h[d].scope = Null <=> h[d].name = Null
    BY <2>1, IteratorTypes DEF Shape, IteratorFields, CellsOrNull
  <2>3. /\ h2[h[d].iter].kind = "python"
        /\ h[d].scope # Null => h2[h[d].scope].kind = "dict"
        /\ h[d].name # Null => h2[h[d].name].kind = "python"
    BY <2>2, <1>9
  <2>4. CASE d = c
    BY <2>2, <2>3, <2>4, <1>6 DEF new
  <2>5. CASE d # c
    <3>1. h[d].curr # Null => h[h[d].curr].kind = "item" /\ h[d].curr \in Cells /\ h[d].curr \in Owns(h[d])
      BY <2>1, IteratorTypes DEF Shape, IteratorFields, CellsOrNull
    <3>2. h[d].curr # Null => h2[h[d].curr] = h[h[d].curr]
      BY <3>1, <2>5, <1>7, <1>8
    <3> QED BY <2>1, <2>2, <2>3, <2>5, <3>1, <3>2
  <2> QED BY <2>4, <2>5
<1>13. \A d \in Cells : Owns(h2[d]) \subseteq Owns(h[d]) \cup (IF d = c THEN {new} ELSE {})
  BY <1>2, <1>8
<1>14. OwnersDiffer(h2)
  BY <1>8, <1>13 DEF Shape, OwnersDiffer
<1>15. OwnedAreNotRoots(h2, fr2)
  <2>1. new # Null => \A u \in Threads : \A i \in DOMAIN fr[u] :
            fr[u][i].locals # new /\ \A j \in DOMAIN fr[u][i].cleanup : fr[u][i].cleanup[j] # new
    BY <1>6, RootsAreNotFree
  <2>2. \A d \in Cells : Null \notin Owns(h2[d])
    BY <1>2, <1>3, <1>5, <1>8
  <2>3. \A d \in Cells : \A e \in Owns(h2[d]) : e \in Owns(h[d]) \/ (e = new /\ new # Null)
    BY <1>13, <2>2
  <2>4. \A d \in Cells : \A u \in Threads : \A i \in DOMAIN fr[u] :
            fr[u][i].locals \notin Owns(h[d])
                /\ \A j \in DOMAIN fr[u][i].cleanup : fr[u][i].cleanup[j] \notin Owns(h[d])
    BY DEF Shape, OwnedAreNotRoots
  <2>5. \A d \in Cells : \A u \in Threads : \A i \in DOMAIN fr[u] :
            fr[u][i].locals \notin Owns(h2[d])
                /\ \A j \in DOMAIN fr[u][i].cleanup : fr[u][i].cleanup[j] \notin Owns(h2[d])
    <3> TAKE d \in Cells
    <3> TAKE u \in Threads
    <3> TAKE i \in DOMAIN fr[u]
    <3> DEFINE e == fr[u][i]
    <3>1. /\ new # Null => e.locals # new /\ \A j \in DOMAIN e.cleanup : e.cleanup[j] # new
          /\ e.locals \notin Owns(h[d]) /\ \A j \in DOMAIN e.cleanup : e.cleanup[j] \notin Owns(h[d])
      BY <2>1, <2>4
    <3>2. \A a \in Owns(h2[d]) : a \in Owns(h[d]) \/ (a = new /\ new # Null)
      BY <2>3
    <3> HIDE DEF e
    <3>3. e.locals \notin Owns(h2[d]) /\ \A j \in DOMAIN e.cleanup : e.cleanup[j] \notin Owns(h2[d])
      BY <3>1, <3>2
    <3> QED BY <3>3 DEF e
  <2> QED BY <2>5 DEF OwnedAreNotRoots, SameRoots
<1>16. NothingLost(h2, fr2)
  <2> SUFFICES ASSUME NEW d \in Cells, h2[d].kind \notin {"free", "code", "link"}
               PROVE  \/ \E u \in Threads : \E i \in DOMAIN fr2[u] : Roots(h2, fr2[u][i], d)
                      \/ \E e \in Cells : d \in Owns(h2[e])
    BY DEF NothingLost
  <2>1. CASE d = new
    BY <2>1, <1>2, <1>3
  <2>2. CASE d # new
    <3>1. d # c => d # old /\ h2[d] = h[d]
      BY <2>2, <1>7
    <3>2. h[d].kind = h2[d].kind /\ (h[d].kind = "iterator" => h2[d].auto = h[d].auto)
      BY <3>1
    <3>3. CASE \E u \in Threads : \E i \in DOMAIN fr[u] : Roots(h, fr[u][i], d)
      BY <3>2, <3>3 DEF Roots, SameRoots
    <3>4. CASE \E e \in Cells : d \in Owns(h[e])
      <4>1. d # old
        BY <3>1, <1>4, <1>7 DEF old
      <4> QED BY <3>4, <4>1, <1>2, <1>8
    <3> QED BY <3>2, <3>3, <3>4 DEF Shape, NothingLost
  <2> QED BY <2>1, <2>2
<1> QED BY <1>10, <1>11, <1>12, <1>14, <1>15, <1>16 DEF Shape

(* A new scope is opened, with a dictionary for its locals.                *)
LEMMA ShapeOpens ==
    ASSUME NEW h \in Heaps, NEW fr \in Stacks, NEW h2, NEW fr2, Shape(h, fr),
           NEW c \in Cells, h[c].kind = "free", h2[c].kind = "dict",
           \A d \in Cells : d # c => h2[d] = h[d],
           NEW t \in Threads, fr2[t] = Append(fr[t], Scope(c)),
           \A u \in Threads : u # t => fr2[u] = fr[u]
    PROVE  Shape(h2, fr2)
<1> DEFINE m == Len(fr[t]) + 1
<1>1. \A u \in Threads : \A i \in DOMAIN fr[u] :
        /\ fr[u][i].locals \in Cells
        /\ \A j \in DOMAIN fr[u][i].cleanup : fr[u][i].cleanup[j] \in Cells
        /\ \A j \in DOMAIN fr[u][i].loops : fr[u][i].loops[j] \in Cells
  BY ScopeTypes
<1>2. /\ m \notin DOMAIN fr[t] /\ DOMAIN fr2[t] = DOMAIN fr[t] \cup {m}
      /\ fr2[t][m] = Scope(c)
      /\ \A i \in DOMAIN fr[t] : fr2[t][i] = fr[t][i]
  <2>1. fr[t] \in Seq(Scopes)
    BY DEF Stacks
  <2> QED BY <2>1, Appended
<1>3. /\ Scope(c).locals = c
      /\ \A k \in DOMAIN Scope(c).cleanup : FALSE
      /\ \A k \in DOMAIN Scope(c).loops : FALSE
  BY DEF Scope
<1> HIDE DEF m
<1>4. \A u \in Threads : \A i \in DOMAIN fr[u] : i \in DOMAIN fr2[u] /\ fr2[u][i] = fr[u][i]
  BY <1>2
<1>5. \A u \in Threads : \A i \in DOMAIN fr2[u] :
        \/ i \in DOMAIN fr[u]
        \/ u = t /\ i = m /\ fr2[u][i] = Scope(c)
  BY <1>2
<1>6. \A u \in Threads : \A i \in DOMAIN fr[u] :
        /\ fr[u][i].locals # c
        /\ \A j \in DOMAIN fr[u][i].cleanup : fr[u][i].cleanup[j] # c
        /\ \A j \in DOMAIN fr[u][i].loops : fr[u][i].loops[j] # c
  BY RootsAreNotFree
<1>7. \A d \in Cells : Owns(h2[d]) = Owns(h[d]) /\ c \notin Owns(h[d])
  <2>1. Owns(h[c]) = {} /\ Owns(h2[c]) = {}
    BY DEF Owns
  <2> QED BY <2>1, RootsAreNotFree
<1>8. RootsAreLive(h2, fr2)
  <2> SUFFICES ASSUME NEW u \in Threads, NEW i \in DOMAIN fr2[u]
               PROVE  ScopeIsLive(h2, fr2[u][i])
    BY DEF RootsAreLive
  <2>1. CASE i \in DOMAIN fr[u]
    <3>1. fr[u][i] \in Scopes /\ ScopeIsLive(h, fr[u][i])
      BY <2>1, ScopeTypes DEF Shape, RootsAreLive
    <3>2. fr2[u][i] = fr[u][i]
      BY <2>1, <1>4
    <3>3. \A d \in Cells : h[d].kind # "free" => LooksSame(h[d], h2[d])
      BY DEF LooksSame
    <3> QED BY <3>1, <3>2, <3>3, LiveScopeKept DEF Less
  <2>2. CASE i \notin DOMAIN fr[u]
    BY <2>2, <1>3, <1>5 DEF ScopeIsLive
  <2> QED BY <2>1, <2>2
<1>9. RootsDiffer(fr2)
  <2> SUFFICES ASSUME NEW u \in Threads, NEW v \in Threads,
                      NEW i \in DOMAIN fr2[u], NEW j \in DOMAIN fr2[v]
               PROVE  /\ fr2[u][i].locals = fr2[v][j].locals => u = v /\ i = j
                      /\ \A k \in DOMAIN fr2[u][i].cleanup, l \in DOMAIN fr2[v][j].cleanup :
                            fr2[u][i].cleanup[k] = fr2[v][j].cleanup[l] => u = v /\ i = j /\ k = l
                      /\ \A k \in DOMAIN fr2[u][i].loops, l \in DOMAIN fr2[v][j].loops :
                            fr2[u][i].loops[k] = fr2[v][j].loops[l] => u = v /\ i = j /\ k = l
    BY DEF RootsDiffer
  <2>1. CASE i \in DOMAIN fr[u] /\ j \in DOMAIN fr[v]
    BY <2>1, <1>4 DEF Shape, RootsDiffer
  <2>2. CASE ~(i \in DOMAIN fr[u] /\ j \in DOMAIN fr[v])
    BY <2>2, <1>3, <1>4, <1>5, <1>6
  <2> QED BY <2>1, <2>2
<1>10. IteratorFields(h2)
  <2>1. \A d \in Cells : h2[d].kind = "iterator" => h[d].kind = "iterator" /\ h2[d] = h[d]
    OBVIOUS
  <2>2. \A d \in Cells : h[d].kind # "free" => h2[d] = h[d]
    OBVIOUS
  <2> QED BY <2>1, <2>2, IteratorTypes DEF Shape, IteratorFields, CellsOrNull
<1>11. OwnersDiffer(h2)
  BY <1>7 DEF Shape, OwnersDiffer
<1>12. OwnedAreNotRoots(h2, fr2)
  BY <1>3, <1>4, <1>5, <1>7 DEF Shape, OwnedAreNotRoots
<1>13. NothingLost(h2, fr2)
  <2> SUFFICES ASSUME NEW d \in Cells, h2[d].kind \notin {"free", "code", "link"}
               PROVE  \/ \E u \in Threads : \E i \in DOMAIN fr2[u] : Roots(h2, fr2[u][i], d)
                      \/ \E e \in Cells : d \in Owns(h2[e])
    BY DEF NothingLost
  <2>1. CASE d = c
    BY <2>1, <1>2, <1>3 DEF Roots
  <2>2. CASE d # c
    <3>1. h2[d] = h[d]
      BY <2>2
    <3>2. CASE \E u \in Threads : \E i \in DOMAIN fr[u] : Roots(h, fr[u][i], d)
      BY <3>1, <3>2, <1>4 DEF Roots
    <3>3. CASE \E e \in Cells : d \in Owns(h[e])
      BY <3>3, <1>7
    <3> QED BY <3>1, <3>2, <3>3 DEF Shape, NothingLost
  <2> QED BY <2>1, <2>2
<1> QED BY <1>8, <1>9, <1>10, <1>11, <1>12, <1>13 DEF Shape
-----------------------------------------------------------------------------
(* What the other parts of the invariant survive.                          *)

(* Compiled code and its chains stay.                                      *)
CodeStays(h, h2) ==
    \A c \in Cells : /\ h[c].kind \in {"code", "link"} => h2[c] = h[c]
                     /\ h2[c].kind = "link" => h[c].kind = "link"

(* Nothing is compiled and no chain gets a link.                           *)
SameCode(h, h2) ==
    \A c \in Cells : h[c].kind \in {"code", "link"} \/ h2[c].kind \in {"code", "link"} => h2[c] = h[c]

LEMMA CodeKept ==
    ASSUME NEW h \in Heaps, NEW h2, NEW ca \in [Sites -> CellsOrNull], NEW ro \in [Sites -> CellsOrNull],
           CachesHold(h, ca, ro), ChainsCount(h), CodeStays(h, h2)
    PROVE  CachesHold(h2, ca, ro) /\ ChainsCount(h2)
<1>1. \A c \in Cells : h[c].kind = "link" => h[c].code \in Cells /\ h[c].next \in CellsOrNull
  BY ObjectTypes DEF Links, CellsOrNull
<1>2. \A s \in Sites : ca[s] \in CellsOrNull /\ ro[s] \in CellsOrNull
  OBVIOUS
<1>3. \A s \in Sites : Code(s, 0).kind = "code" /\ Code(s, 1).kind = "code"
  BY DEF Code
<1>4. CachesHold(h2, ca, ro)
  BY <1>1, <1>2, <1>3 DEF CachesHold, CodeStays, CellsOrNull
<1>5. ChainsCount(h2)
  <2> SUFFICES ASSUME NEW c \in Cells, h2[c].kind = "link"
               PROVE  /\ h2[h2[c].code].kind = "code"
                      /\ h2[c].next # Null =>
                            /\ h2[h2[c].next].kind = "link"
                            /\ h2[h2[h2[c].next].code] = Code(h2[h2[c].code].site, h2[h2[c].code].n + 1)
    BY DEF ChainsCount
  <2>1. h[c].kind = "link" /\ h2[c] = h[c]
    BY DEF CodeStays
  <2>2. h[h[c].code].kind = "code" /\ h2[h[c].code] = h[h[c].code]
    BY <2>1, <1>1 DEF ChainsCount, CodeStays
  <2>3. CASE h[c].next # Null
    <3>1. /\ h[h[c].next].kind = "link" /\ h[c].next \in Cells
          /\ h[h[h[c].next].code] = Code(h[h[c].code].site, h[h[c].code].n + 1)
      BY <2>1, <2>3, <1>1 DEF ChainsCount, CellsOrNull
    <3>2. h2[h[c].next] = h[h[c].next] /\ h[h[c].next].code \in Cells
      BY <3>1, <1>1 DEF CodeStays
    <3>3. h[h[h[c].next].code].kind = "code"
      BY <3>1, <1>1 DEF ChainsCount
    <3>4. h2[h[h[c].next].code] = h[h[h[c].next].code]
      BY <3>2, <3>3 DEF CodeStays
    <3> QED BY <2>1, <2>2, <3>1, <3>2, <3>4
  <2> QED BY <2>1, <2>2, <2>3
<1> QED BY <1>4, <1>5

(* The link after the one with the code of condition n.                    *)
LEMMA NextInChain ==
    ASSUME NEW h, ChainsCount(h), NEW c \in Cells, h[c].kind = "link", h[c].next # Null,
           NEW s \in Sites, NEW n \in Nat, h[h[c].code] = Code(s, n)
    PROVE  h[h[c].next].kind = "link" /\ h[h[h[c].next].code] = Code(s, n + 1)
<1>1. Code(s, n).site = s /\ Code(s, n).n = n
  BY DEF Code
<1> QED BY <1>1 DEF ChainsCount

(* A link may get a next one.                                              *)
LinksStay(h, h2) ==
    \A c \in Cells :
        /\ h[c].kind = "code" => h2[c] = h[c]
        /\ h[c].kind = "link" => h2[c].kind = "link" /\ h2[c].code = h[c].code

(* What a scope looks at is as it was.                                     *)
Undisturbed(h, h2, f) ==
    /\ f.helper # Null => h2[f.helper] = h[f.helper]
    /\ \A j \in DOMAIN f.loops : /\ h2[f.loops[j]] = h[f.loops[j]]
                                 /\ h2[h[f.loops[j]].curr] = h[h[f.loops[j]].curr]

LEMMA HelperKept ==
    ASSUME NEW h \in Heaps, NEW h2, LinksStay(h, h2), ChainsCount(h), NEW f \in Scopes, NEW f2,
           HelperFollows(h, f), f2.helper = f.helper, f2.condition = f.condition,
           f.helper # Null => h2[f.helper] = h[f.helper],
           \A j \in DOMAIN f.cleanup : j \in DOMAIN f2.cleanup /\ f2.cleanup[j] = f.cleanup[j]
    PROVE  HelperFollows(h2, f2)
<1> SUFFICES ASSUME f.helper # Null
             PROVE  HelperFollows(h2, f2)
  BY DEF HelperFollows
<1>1. f.helper \in Cells
  BY DEF Scopes, CellsOrNull
<1>2. h[f.helper].kind = "if" /\ h[f.helper].curr \in CellsOrNull
  BY <1>1, ObjectTypes DEF HelperFollows, IfHelpers, CellsOrNull
<1>3. CASE h[f.helper].curr # Null
  <2>1. h[f.helper].curr \in Cells /\ h[h[f.helper].curr].kind = "link"
    BY <1>2, <1>3 DEF HelperFollows, CellsOrNull
  <2>2. /\ h[h[f.helper].curr].code \in Cells
        /\ h[h[h[f.helper].curr].code].kind = "code"
    BY <2>1, ObjectTypes DEF ChainsCount, Links, CellsOrNull
  <2>3. /\ h2[h[f.helper].curr].kind = "link" /\ h2[h[f.helper].curr].code = h[h[f.helper].curr].code
        /\ h2[h[h[f.helper].curr].code] = h[h[h[f.helper].curr].code]
    BY <2>1, <2>2 DEF LinksStay
  <2> QED BY <2>3 DEF HelperFollows
<1>4. CASE h[f.helper].curr = Null
  BY <1>4 DEF HelperFollows
<1> QED BY <1>3, <1>4

LEMMA ScopeKept ==
    ASSUME NEW h \in Heaps, NEW h2, LinksStay(h, h2), ChainsCount(h), NEW f \in Scopes,
           NEW b, ScopeIsSound(h, f, b), Undisturbed(h, h2, f)
    PROVE  ScopeIsSound(h2, f, b)
<1>1. HelperFollows(h2, f)
  BY HelperKept DEF ScopeIsSound, Undisturbed
<1>2. \A j \in DOMAIN f.loops : LoopHolds(h2, f, j)
  BY DEF ScopeIsSound, Undisturbed, LoopHolds
<1> QED BY <1>1, <1>2 DEF ScopeIsSound
-----------------------------------------------------------------------------
(* The scopes of a thread.                                                 *)
LEMMA FrontFacts ==
    ASSUME NEW S, NEW s \in Seq(S), s # <<>>
    PROVE  /\ Len(s) \in Nat \ {0} /\ Len(s) \in DOMAIN s
           /\ Last(s) = s[Len(s)] /\ Last(s) \in S
           /\ Front(s) \in Seq(S) /\ Len(Front(s)) = Len(s) - 1
           /\ DOMAIN Front(s) = DOMAIN s \ {Len(s)}
           /\ \A k \in DOMAIN s \ {Len(s)} : Front(s)[k] = s[k]
<1>1. Len(s) \in Nat \ {0} /\ DOMAIN s = 1 .. Len(s)
  BY EmptySeq, LenProperties
<1>2. Len(s) \in DOMAIN s /\ s[Len(s)] \in S
  BY <1>1, ElementOfSeq
<1>3. Front(s) = SubSeq(s, 1, Len(s) - 1) /\ Last(s) = s[Len(s)]
  BY DEF Front, Last
<1>4. /\ Front(s) \in Seq(S) /\ Len(Front(s)) = Len(s) - 1
      /\ \A k \in 1 .. Len(s) - 1 : Front(s)[k] = s[k]
  BY <1>1, <1>3
<1>5. DOMAIN Front(s) = DOMAIN s \ {Len(s)}
  <2>1. DOMAIN Front(s) = 1 .. Len(s) - 1
    BY <1>4, LenProperties
  <2> QED BY <1>1, <2>1
<1> QED BY <1>1, <1>2, <1>3, <1>4, <1>5

LEMMA InnerFacts ==
    ASSUME TypeOK, NEW t \in Threads, frames[t] # <<>>
    PROVE  /\ Len(frames[t]) \in Nat \ {0} /\ Len(frames[t]) \in DOMAIN frames[t]
           /\ Inner(t) = frames[t][Len(frames[t])] /\ Inner(t) \in Scopes
BY FrontFacts DEF TypeOK, Stacks, Inner

LEMMA BecomesFacts ==
    ASSUME TypeOK, NEW t \in Threads, frames[t] # <<>>, NEW f \in Scopes, Becomes(t, f)
    PROVE  /\ frames' \in Stacks
           /\ SameElsewhere(frames, frames', t, Len(frames[t]))
           /\ frames'[t][Len(frames[t])] = f
           /\ \A u \in Threads : Len(frames'[u]) = Len(frames[u])
<1> DEFINE s == frames[t]
<1>1. frames \in Stacks /\ s \in Seq(Scopes)
  BY DEF TypeOK, Stacks
<1>2. /\ Len(s) \in Nat \ {0} /\ Len(s) \in DOMAIN s
      /\ Front(s) \in Seq(Scopes) /\ Len(Front(s)) = Len(s) - 1
      /\ DOMAIN Front(s) = DOMAIN s \ {Len(s)}
      /\ \A k \in DOMAIN s \ {Len(s)} : Front(s)[k] = s[k]
  BY <1>1, FrontFacts
<1>3. /\ Append(Front(s), f) \in Seq(Scopes)
      /\ Len(Append(Front(s), f)) = Len(s)
      /\ DOMAIN Append(Front(s), f) = DOMAIN s
      /\ Append(Front(s), f)[Len(s)] = f
      /\ \A k \in DOMAIN s \ {Len(s)} : Append(Front(s), f)[k] = s[k]
  BY <1>2, Appended, AppendProperties
<1>4. frames' \in Stacks /\ frames'[t] = Append(Front(s), f) /\ \A u \in Threads : u # t => frames'[u] = frames[u]
  BY <1>1, <1>3 DEF Becomes, Stacks
<1> QED BY <1>3, <1>4 DEF SameElsewhere

(* The loops of a scope.                                                   *)
LoopIsLive(h, c) ==
    /\ c \in Cells /\ h[c].kind = "iterator"
    /\ h[c].curr \in CellsOrNull
    /\ h[c].curr # Null => h[h[c].curr].kind = "item" /\ h[c].curr \in Owns(h[c])

LEMMA LoopFacts ==
    ASSUME NEW h \in Heaps, NEW fr \in Stacks, Shape(h, fr),
           NEW t \in Threads, NEW i \in DOMAIN fr[t], NEW j \in DOMAIN fr[t][i].loops
    PROVE  LoopIsLive(h, fr[t][i].loops[j])
<1> DEFINE c == fr[t][i].loops[j]
<1>1. c \in Cells /\ h[c].kind = "iterator" /\ IteratorFields(h)
  BY ScopeTypes DEF Shape, RootsAreLive, ScopeIsLive
<1> HIDE DEF c
<1>2. LoopIsLive(h, c)
  BY <1>1, IteratorTypes DEF IteratorFields, LoopIsLive
<1> QED BY <1>2 DEF c

(* What a scope looks at is not free, nor compiled code, so that neither   *)
(* what is new disturbs it nor a new link.                                 *)
LEMMA NewDisturbsNothing ==
    ASSUME NEW h \in Heaps, NEW h2, Shape(h, frames), frames \in Stacks,
           h2[Null] = h[Null], \A c \in Cells : h[c].kind \notin {"free", "code", "link"} => h2[c] = h[c],
           NEW t \in Threads, NEW i \in DOMAIN frames[t], NEW b, ScopeIsSound(h, frames[t][i], b)
    PROVE  Undisturbed(h, h2, frames[t][i])
<1> DEFINE f == frames[t][i]
<1>1. f.helper # Null => f.helper \in Cells /\ h[f.helper].kind = "if"
  BY ScopeTypes DEF ScopeIsSound, HelperFollows, CellsOrNull
<1>2. ASSUME NEW j \in DOMAIN f.loops
      PROVE  h2[f.loops[j]] = h[f.loops[j]] /\ h2[h[f.loops[j]].curr] = h[h[f.loops[j]].curr]
  <2>1. LoopIsLive(h, f.loops[j])
    BY LoopFacts
  <2> HIDE DEF f
  <2> QED BY <2>1 DEF LoopIsLive, CellsOrNull
<1> QED BY <1>1, <1>2 DEF Undisturbed

LEMMA NewKeepsTheRest ==
    ASSUME IInv, heap' \in Heaps, heap'[Null] = heap[Null],
           \A c \in Cells : heap[c].kind # "free" => heap'[c] = heap[c],
           \A c \in Cells : heap[c].kind = "free" => heap'[c].kind # "link"
    PROVE  /\ CodeStays(heap, heap')
           /\ NothingReleasedTwice'
           /\ CachesHold(heap', cache, root) /\ ChainsCount(heap')
           /\ \A t \in Threads : \A i \in DOMAIN frames[t] :
                ScopeIsSound(heap', frames[t][i], i = Len(frames[t]))
<1>1. CodeStays(heap, heap') /\ LinksStay(heap, heap')
  BY DEF CodeStays, LinksStay
<1>2. NothingReleasedTwice'
  BY DEF IInv, NothingReleasedTwice
<1>3. CachesHold(heap', cache, root) /\ ChainsCount(heap')
  BY <1>1, CodeKept DEF IInv, TypeOK
<1>4. ASSUME NEW t \in Threads, NEW i \in DOMAIN frames[t]
      PROVE  ScopeIsSound(heap', frames[t][i], i = Len(frames[t]))
  <2>1. ScopeIsSound(heap, frames[t][i], i = Len(frames[t]))
    BY DEF IInv, ScopesAreSound
  <2>2. heap \in Heaps /\ frames \in Stacks /\ Shape(heap, frames) /\ ChainsCount(heap)
    BY DEF IInv, TypeOK
  <2>3. Undisturbed(heap, heap', frames[t][i])
    BY <2>1, <2>2, NewDisturbsNothing
  <2>4. frames[t][i] \in Scopes
    BY <2>2, ScopeTypes
  <2> QED BY <1>1, <2>1, <2>2, <2>3, <2>4, ScopeKept
<1> QED BY <1>1, <1>2, <1>3, <1>4

LEMMA InnerIsSound ==
    ASSUME IInv, NEW t \in Threads, frames[t] # <<>>
    PROVE  ScopeIsSound(heap, Inner(t), TRUE)
<1>1. Len(frames[t]) \in DOMAIN frames[t] /\ Inner(t) = frames[t][Len(frames[t])]
  BY InnerFacts DEF IInv
<1>2. ScopeIsSound(heap, frames[t][Len(frames[t])], Len(frames[t]) = Len(frames[t]))
  BY <1>1 DEF IInv, ScopesAreSound
<1>3. (Len(frames[t]) = Len(frames[t])) = TRUE
  OBVIOUS
<1> QED BY <1>1, <1>2, <1>3

LEMMA InnerStaysSound ==
    ASSUME IInv, heap' \in Heaps, heap'[Null] = heap[Null],
           \A c \in Cells : heap[c].kind # "free" => heap'[c] = heap[c],
           \A c \in Cells : heap[c].kind = "free" => heap'[c].kind # "link",
           NEW t \in Threads, frames[t] # <<>>
    PROVE  ScopeIsSound(heap', Inner(t), TRUE)
<1>1. Len(frames[t]) \in DOMAIN frames[t] /\ Inner(t) = frames[t][Len(frames[t])]
  BY InnerFacts DEF IInv
<1>2. ScopeIsSound(heap', frames[t][Len(frames[t])], Len(frames[t]) = Len(frames[t]))
  BY <1>1, NewKeepsTheRest
<1>3. (Len(frames[t]) = Len(frames[t])) = TRUE
  OBVIOUS
<1> QED BY <1>1, <1>2, <1>3

(* Where only the innermost scope of t changes.                            *)
LEMMA OthersAreSound ==
    ASSUME TypeOK, NEW t \in Threads, frames[t] # <<>>,
           SameElsewhere(frames, frames', t, Len(frames[t])),
           \A u \in Threads : Len(frames'[u]) = Len(frames[u]),
           \A u \in Threads : \A i \in DOMAIN frames[u] :
                (u = t /\ i = Len(frames[t])) \/ ScopeIsSound(heap', frames[u][i], i = Len(frames[u])),
           ScopeIsSound(heap', frames'[t][Len(frames[t])], TRUE)
    PROVE  ScopesAreSound(heap', frames')
<1> SUFFICES ASSUME NEW u \in Threads, NEW i \in DOMAIN frames[u]
             PROVE  ScopeIsSound(heap', frames'[u][i], i = Len(frames'[u]))
  BY DEF ScopesAreSound, SameElsewhere
<1>1. CASE u = t /\ i = Len(frames[t])
  <2>1. (i = Len(frames'[u])) = TRUE
    BY <1>1
  <2> QED BY <1>1, <2>1
<1>2. CASE ~(u = t /\ i = Len(frames[t]))
  <2>1. frames'[u][i] = frames[u][i] /\ Len(frames'[u]) = Len(frames[u])
    BY <1>2 DEF SameElsewhere
  <2> QED BY <1>2, <2>1
<1> QED BY <1>1, <1>2
-----------------------------------------------------------------------------
(* The steps.                                                              *)
LEMMA OneFresh ==
    ASSUME IInv, Room(1)
    PROVE  /\ Fresh(1) \in Cells /\ heap[Fresh(1)] = Free /\ heap[Fresh(1)].kind = "free"
           /\ Fresh(1) # Null
BY FreshCells DEF Free, Cells, Null

LEMMA SetupStep ==
    ASSUME IInv, NEW t \in Threads, Setup(t)
    PROVE  IInv' /\ SameCode(heap, heap')
<1> DEFINE c == Fresh(1)
<1>1. c \in Cells /\ heap[c].kind = "free" /\ c # Null
  BY OneFresh DEF Setup
<1> HIDE DEF c
<1>2. /\ heap \in Heaps /\ frames \in Stacks /\ Shape(heap, frames)
      /\ heap' = [heap EXCEPT ![c] = Plain("dict")]
      /\ frames' = [frames EXCEPT ![t] = Append(@, Scope(c))]
      /\ cache' = cache /\ root' = root
  BY DEF IInv, TypeOK, Setup, c
<1>3. /\ heap' \in Heaps /\ heap'[c] = Plain("dict")
      /\ \A d \in CellsOrNull : d # c => heap'[d] = heap[d]
  <2>1. Plain("dict") \in Objects
    BY DEF Plain, Objects
  <2>2. c \in CellsOrNull
    BY <1>1 DEF CellsOrNull
  <2> QED BY <1>2, <2>1, <2>2 DEF Heaps
<1>4. Plain("dict").kind = "dict"
  BY DEF Plain
<1>5. /\ frames[t] \in Seq(Scopes) /\ Scope(c) \in Scopes
      /\ frames'[t] = Append(frames[t], Scope(c))
      /\ \A u \in Threads : u # t => frames'[u] = frames[u]
  <2>1. <<>> \in Seq(Cells)
    BY EmptySeq
  <2>2. Scope(c) \in Scopes
    BY <1>1, <2>1 DEF Scope, Scopes, CellsOrNull
  <2> QED BY <1>2, <2>2 DEF Stacks
<1>6. frames' \in Stacks
  <2>1. Append(frames[t], Scope(c)) \in Seq(Scopes)
    BY <1>5, AppendProperties
  <2> QED BY <1>2, <2>1 DEF Stacks
<1>7. TypeOK'
  BY <1>2, <1>3, <1>6 DEF IInv, TypeOK
<1>8. Shape(heap', frames')
  <2>1. heap'[c].kind = "dict" /\ \A d \in Cells : d # c => heap'[d] = heap[d]
    BY <1>3, <1>4 DEF CellsOrNull
  <2>2. heap \in Heaps /\ frames \in Stacks /\ Shape(heap, frames)
    BY <1>2
  <2>3. /\ frames'[t] = Append(frames[t], Scope(c))
        /\ \A u \in Threads : u # t => frames'[u] = frames[u]
    BY <1>5
  <2> QED BY <1>1, <2>1, <2>2, <2>3, ShapeOpens
<1>9. /\ NothingReleasedTwice'
      /\ CachesHold(heap', cache, root) /\ ChainsCount(heap')
      /\ \A u \in Threads : \A i \in DOMAIN frames[u] :
            ScopeIsSound(heap', frames[u][i], i = Len(frames[u]))
  BY <1>1, <1>3, <1>4, NewKeepsTheRest DEF CellsOrNull
<1>10. ScopesAreSound(heap', frames')
  <2> DEFINE m == Len(frames[t]) + 1
  <2>1. /\ m \notin DOMAIN frames[t] /\ DOMAIN frames'[t] = DOMAIN frames[t] \cup {m}
        /\ Len(frames'[t]) = m /\ frames'[t][m] = Scope(c)
        /\ \A i \in DOMAIN frames[t] : frames'[t][i] = frames[t][i]
    BY <1>5, Appended, AppendProperties
  <2>2. ScopeIsSound(heap', Scope(c), TRUE)
    BY DEF ScopeIsSound, HelperFollows, LoopHolds, StepMakesSense, Scope
  <2>3. \A u \in Threads : \A i \in DOMAIN frames[u] : u = t => StepMakesSense(frames[u][i], FALSE)
    <3>1. frames[t] # <<>> => Inner(t).step = "body" /\ Inner(t).helper = Null
      BY DEF Setup, InBody
    <3>2. \A i \in DOMAIN frames[t] : i = Len(frames[t]) =>
            frames[t][i].step = "body" /\ frames[t][i].helper = Null
      BY <1>5, <3>1 DEF Inner, Last
    <3>3. \A i \in DOMAIN frames[t] : i # Len(frames[t]) => StepMakesSense(frames[t][i], FALSE)
      BY <1>9 DEF ScopeIsSound, StepMakesSense
    <3> QED BY <3>2, <3>3 DEF StepMakesSense
  <2> HIDE DEF m
  <2> SUFFICES ASSUME NEW u \in Threads, NEW i \in DOMAIN frames'[u]
               PROVE  ScopeIsSound(heap', frames'[u][i], i = Len(frames'[u]))
    BY DEF ScopesAreSound
  <2>4. CASE u # t
    BY <2>4, <1>5, <1>9
  <2>5. CASE u = t /\ i = m
    <3>1. (i = Len(frames'[u])) = TRUE
      BY <2>5, <2>1
    <3> QED BY <2>1, <2>2, <2>5, <3>1
  <2>6. CASE u = t /\ i # m
    <3>1. (i = Len(frames'[u])) = FALSE /\ i \in DOMAIN frames[t] /\ frames'[u][i] = frames[t][i]
      BY <2>6, <2>1
    <3>2. ScopeIsSound(heap', frames[t][i], FALSE)
      BY <1>9, <2>3, <3>1 DEF ScopeIsSound
    <3> QED BY <3>1, <3>2
  <2> QED BY <2>4, <2>5, <2>6
<1>11. SameCode(heap, heap')
  BY <1>1, <1>3, <1>4 DEF SameCode, CellsOrNull
<1> QED BY <1>2, <1>7, <1>8, <1>9, <1>10, <1>11 DEF IInv

(* The innermost scope of t becomes g, where the new object r is           *)
(* registered.                                                             *)
LEMMA Registered ==
    ASSUME IInv, NEW t \in Threads, frames[t] # <<>>,
           NEW r \in Cells, heap[r].kind = "free",
           heap'[r].kind \in {"python", "memory", "if", "iterator"},
           heap' \in Heaps, heap'[Null] = heap[Null],
           \A c \in Owns(heap'[r]) : c # r /\ heap[c].kind = "free" /\ heap'[c].kind \in {"python", "dict"},
           \A c \in Cells : c = r \/ c \in Owns(heap'[r]) \/ heap'[c] = heap[c],
           heap'[r].kind = "iterator" =>
                /\ heap'[heap'[r].iter].kind = "python"
                /\ heap'[r].scope # Null => heap'[heap'[r].scope].kind = "dict"
                /\ heap'[r].name # Null => heap'[heap'[r].name].kind = "python"
                /\ heap'[r].scope = Null <=> heap'[r].name = Null
                /\ heap'[r].curr = Null,
           NEW g \in Scopes, Becomes(t, g), UNCHANGED <<cache, root>>,
           g.locals = Inner(t).locals,
           g.cleanup = IF heap'[r].kind = "iterator" /\ heap'[r].auto
                       THEN Inner(t).cleanup ELSE Append(Inner(t).cleanup, r),
           g.loops = IF heap'[r].kind = "iterator"
                     THEN Append(Inner(t).loops, r) ELSE Inner(t).loops,
           ScopeIsSound(heap', g, TRUE)
    PROVE  IInv' /\ SameCode(heap, heap')
<1> DEFINE n == Len(frames[t])
<1>1. heap \in Heaps /\ frames \in Stacks /\ Shape(heap, frames) /\ TypeOK
  BY DEF IInv, TypeOK
<1>2. n \in DOMAIN frames[t] /\ Inner(t) = frames[t][n]
  BY <1>1, InnerFacts
<1>3. /\ frames' \in Stacks /\ SameElsewhere(frames, frames', t, n) /\ frames'[t][n] = g
      /\ \A u \in Threads : Len(frames'[u]) = Len(frames[u])
  BY <1>1, BecomesFacts
<1> HIDE DEF n
<1>4. Shape(heap', frames')
  BY <1>1, <1>2, <1>3, ShapeGrows
<1>5. \A c \in Cells : heap[c].kind # "free" => heap'[c] = heap[c]
  OBVIOUS
<1>6. \A c \in Cells : heap[c].kind = "free" => heap'[c].kind # "link"
  OBVIOUS
<1>7. /\ NothingReleasedTwice'
      /\ CachesHold(heap', cache, root) /\ ChainsCount(heap')
      /\ \A u \in Threads : \A i \in DOMAIN frames[u] :
            ScopeIsSound(heap', frames[u][i], i = Len(frames[u]))
  BY <1>5, <1>6, NewKeepsTheRest
<1>8. ScopesAreSound(heap', frames')
  BY <1>1, <1>3, <1>7, OthersAreSound DEF n
<1>9. TypeOK'
  BY <1>3 DEF IInv, TypeOK
<1>10. cache' = cache /\ root' = root
  OBVIOUS
<1>11. SameCode(heap, heap')
  BY DEF SameCode
<1> QED BY <1>4, <1>7, <1>8, <1>9, <1>10, <1>11 DEF IInv

LEMMA DeferStep ==
    ASSUME IInv, NEW t \in Threads, NEW k \in {"python", "memory"}, Defer(t, k)
    PROVE  IInv' /\ SameCode(heap, heap')
<1> DEFINE c == Fresh(1)
           f == Inner(t)
           g == [f EXCEPT !.cleanup = Append(@, c)]
<1>1. c \in Cells /\ heap[c].kind = "free" /\ c # Null
  BY OneFresh DEF Defer
<1>2. TypeOK /\ frames[t] # <<>> /\ f.step = "body" /\ f.helper = Null
  BY DEF IInv, Defer, InBody
<1>3. f \in Scopes
  BY <1>2, InnerFacts
<1>4. heap' = [heap EXCEPT ![c] = Plain(k)] /\ Becomes(t, g) /\ UNCHANGED <<cache, root>>
  BY DEF Defer
<1> HIDE DEF c, f
<1>5. /\ heap' \in Heaps /\ heap'[c] = Plain(k)
      /\ \A d \in CellsOrNull : d # c => heap'[d] = heap[d]
  <2>1. Plain(k) \in Objects
    BY DEF Plain, Objects
  <2>2. c \in CellsOrNull /\ heap \in [CellsOrNull -> Objects]
    BY <1>1, <1>2 DEF CellsOrNull, TypeOK, Heaps
  <2> QED BY <1>4, <2>1, <2>2 DEF Heaps
<1>6. heap'[c].kind = k /\ Owns(heap'[c]) = {}
  BY <1>5 DEF Plain, Owns
<1>7. Append(f.cleanup, c) \in Seq(Cells)
  BY <1>1, <1>3, AppendProperties DEF Scopes
<1>8. /\ g \in Scopes /\ g.locals = f.locals /\ g.loops = f.loops /\ g.step = "body" /\ g.helper = Null
      /\ g.cleanup = Append(f.cleanup, c)
  BY <1>2, <1>3, <1>7 DEF Scopes
<1>9. ScopeIsSound(heap', f, TRUE)
  <2>1. heap'[Null] = heap[Null] /\ \A d \in Cells : heap[d].kind # "free" => heap'[d] = heap[d]
    BY <1>1, <1>5 DEF CellsOrNull
  <2>2. \A d \in Cells : heap[d].kind = "free" => heap'[d].kind # "link"
    BY <1>1, <1>5, <1>6 DEF CellsOrNull
  <2> QED BY <1>2, <1>5, <2>1, <2>2, InnerStaysSound DEF f
<1>10. ScopeIsSound(heap', g, TRUE)
  BY <1>2, <1>8, <1>9 DEF ScopeIsSound, HelperFollows, StepMakesSense, LoopHolds, AsksForFirst
<1>11. heap'[Null] = heap[Null] /\ \A d \in Cells : d # c => heap'[d] = heap[d]
  BY <1>1, <1>5 DEF CellsOrNull
<1> HIDE DEF g
<1> QED BY <1>1, <1>2, <1>4, <1>5, <1>6, <1>8, <1>10, <1>11, Registered DEF f

LEMMA BeginIfStep ==
    ASSUME IInv, NEW t \in Threads, NEW s \in Sites, BeginIf(t, s)
    PROVE  IInv' /\ SameCode(heap, heap')
<1> DEFINE c == Fresh(1)
           f == Inner(t)
           g == [f EXCEPT !.helper = c, !.condition = 0, !.cleanup = Append(@, c)]
<1>1. c \in Cells /\ heap[c].kind = "free" /\ c # Null
  BY OneFresh DEF BeginIf
<1>2. TypeOK /\ frames[t] # <<>> /\ f.step = "body" /\ f.helper = Null
  BY DEF IInv, BeginIf, InBody
<1>3. f \in Scopes
  BY <1>2, InnerFacts
<1>4. heap' = [heap EXCEPT ![c] = IfHelper(s)] /\ Becomes(t, g) /\ UNCHANGED <<cache, root>>
  BY DEF BeginIf
<1> HIDE DEF c, f
<1>5. /\ heap' \in Heaps /\ heap'[c] = IfHelper(s)
      /\ \A d \in CellsOrNull : d # c => heap'[d] = heap[d]
  <2>1. IfHelper(s) \in Objects
    BY DEF IfHelper, IfHelpers, Objects, CellsOrNull
  <2>2. c \in CellsOrNull /\ heap \in [CellsOrNull -> Objects]
    BY <1>1, <1>2 DEF CellsOrNull, TypeOK, Heaps
  <2> QED BY <1>4, <2>1, <2>2 DEF Heaps
<1>6. heap'[c].kind = "if" /\ heap'[c].curr = Null /\ heap'[c].index = 0 /\ Owns(heap'[c]) = {}
  BY <1>5 DEF IfHelper, Owns
<1>7. Append(f.cleanup, c) \in Seq(Cells) /\ \E j \in DOMAIN Append(f.cleanup, c) : Append(f.cleanup, c)[j] = c
  <2>1. f.cleanup \in Seq(Cells)
    BY <1>3 DEF Scopes
  <2> QED BY <1>1, <2>1, Appended, AppendProperties
<1>8. /\ g \in Scopes /\ g.locals = f.locals /\ g.loops = f.loops /\ g.step = "body" /\ g.helper = c
      /\ g.condition = 0 /\ g.cleanup = Append(f.cleanup, c)
  BY <1>1, <1>2, <1>3, <1>7 DEF Scopes, CellsOrNull
<1>9. heap'[Null] = heap[Null] /\ \A d \in Cells : d # c => heap'[d] = heap[d]
  BY <1>1, <1>5 DEF CellsOrNull
<1>10. ScopeIsSound(heap', f, TRUE)
  <2>1. heap'[Null] = heap[Null] /\ \A d \in Cells : heap[d].kind # "free" => heap'[d] = heap[d]
    BY <1>1, <1>9
  <2>2. \A d \in Cells : heap[d].kind = "free" => heap'[d].kind # "link"
    BY <1>6, <1>9
  <2> QED BY <1>2, <1>5, <2>1, <2>2, InnerStaysSound DEF f
<1>11. ScopeIsSound(heap', g, TRUE)
  <2>1. HelperFollows(heap', g)
    BY <1>6, <1>7, <1>8 DEF HelperFollows
  <2> QED BY <1>1, <1>2, <1>8, <1>10, <2>1 DEF ScopeIsSound, StepMakesSense, LoopHolds, AsksForFirst
<1> HIDE DEF g
<1> QED BY <1>1, <1>2, <1>4, <1>5, <1>6, <1>8, <1>9, <1>11, Registered DEF f

(* A loop begins with the new helper r, that owns new cells.               *)
LEMMA LoopBegins ==
    ASSUME IInv, NEW t \in Threads, InBody(t), Inner(t).helper = Null,
           NEW r \in Cells, heap[r] = Free,
           heap' \in Heaps, heap'[Null] = heap[Null],
           \A c \in Cells : c = r \/ c \in Owns(heap'[r]) \/ heap'[c] = heap[c],
           \A c \in Owns(heap'[r]) : c # r /\ heap[c] = Free /\ heap'[c].kind \in {"python", "dict"},
           heap'[r].kind = "iterator",
           /\ heap'[heap'[r].iter].kind = "python"
           /\ heap'[r].scope # Null => heap'[heap'[r].scope].kind = "dict"
           /\ heap'[r].name # Null => heap'[heap'[r].name].kind = "python"
           /\ heap'[r].scope = Null <=> heap'[r].name = Null
           /\ heap'[r].curr = Null,
           heap'[r].first /\ heap'[r].index = 0 /\ heap'[r].given = 0,
           NEW g \in Scopes, Becomes(t, g),
           g.locals = Inner(t).locals /\ g.step = "update" /\ g.helper = Null,
           g.loops = Append(Inner(t).loops, r),
           g.cleanup = IF heap'[r].auto THEN Inner(t).cleanup ELSE Append(Inner(t).cleanup, r),
           UNCHANGED <<cache, root>>
    PROVE  IInv' /\ SameCode(heap, heap')
<1> DEFINE f == Inner(t)
           y == heap'[r]
<1>1. TypeOK /\ frames[t] # <<>> /\ f.step = "body" /\ f.helper = Null
  BY DEF IInv, InBody
<1>2. f \in Scopes /\ f.cleanup \in Seq(Cells) /\ f.loops \in Seq(Cells)
  BY <1>1, InnerFacts DEF Scopes
<1>5. Free.kind = "free"
  BY DEF Free
<1>8. heap[r].kind = "free" /\ \A c \in Owns(y) : heap[c].kind = "free"
  BY <1>5
<1> HIDE DEF f, y
<1>10. /\ \A c \in Cells : heap[c].kind # "free" => heap'[c] = heap[c]
       /\ \A c \in Cells : heap[c].kind = "free" => heap'[c].kind # "link"
  <2>1. \A c \in Owns(y) : heap'[c].kind # "link"
    BY DEF y
  <2> QED BY <1>8, <2>1 DEF y
<1>11. ScopeIsSound(heap', f, TRUE)
  BY <1>1, <1>10, InnerStaysSound DEF f
<1>12. /\ Len(Append(f.loops, r)) = Len(f.loops) + 1
       /\ Append(f.loops, r) # <<>>
  BY <1>2, AppendProperties, EmptySeq
<1>13. /\ g.locals = f.locals /\ g.loops = Append(f.loops, r) /\ g.step = "update" /\ g.helper = Null
       /\ g.cleanup = IF y.auto THEN f.cleanup ELSE Append(f.cleanup, r)
  BY DEF f, y
<1>14. ScopeIsSound(heap', g, TRUE)
  <2>1. HelperFollows(heap', g) /\ StepMakesSense(g, TRUE)
    BY <1>12, <1>13 DEF HelperFollows, StepMakesSense
  <2>2. ASSUME NEW j \in DOMAIN g.loops
        PROVE  LoopHolds(heap', g, j)
    <3>1. CASE j = Len(f.loops) + 1
      <4>1. g.loops[j] = r /\ AsksForFirst(g, j)
        BY <1>2, <1>12, <1>13, <3>1, Appended DEF AsksForFirst
      <4> QED BY <4>1 DEF LoopHolds
    <3>2. CASE j # Len(f.loops) + 1
      <4>1. j \in DOMAIN f.loops /\ g.loops[j] = f.loops[j]
        BY <1>2, <1>13, <3>2, Appended
      <4>2. ~AsksForFirst(f, j) /\ ~AsksForFirst(g, j)
        BY <1>1, <1>12, <1>13, <3>2 DEF AsksForFirst
      <4> QED BY <4>1, <4>2, <1>11 DEF LoopHolds, ScopeIsSound
    <3> QED BY <3>1, <3>2
  <2> QED BY <2>1, <2>2 DEF ScopeIsSound
<1>15. /\ g.cleanup = IF y.kind = "iterator" /\ y.auto THEN f.cleanup ELSE Append(f.cleanup, r)
       /\ g.loops = IF y.kind = "iterator" THEN Append(f.loops, r) ELSE f.loops
  BY <1>13 DEF y
<1>16. \A c \in Owns(heap'[r]) : c # r /\ heap[c].kind = "free" /\ heap'[c].kind \in {"python", "dict"}
  BY <1>8 DEF y
<1> QED BY <1>1, <1>8, <1>13, <1>14, <1>15, <1>16, Registered DEF f, y

LEMMA TwoFresh ==
    ASSUME IInv, Room(2)
    PROVE  /\ Fresh(1) \in Cells /\ Fresh(2) \in Cells /\ Fresh(1) # Fresh(2)
           /\ heap[Fresh(1)] = Free /\ heap[Fresh(2)] = Free
<1>1. 2 \in 1 .. 4 /\ 1 \in 1 .. 2 /\ 2 \in 1 .. 2
  OBVIOUS
<1> QED BY <1>1, FreshCells

LEMMA FourFresh ==
    ASSUME IInv, Room(4)
    PROVE  /\ \A k \in {1, 2, 3, 4} : Fresh(k) \in Cells /\ heap[Fresh(k)] = Free
           /\ \A i, j \in {1, 2, 3, 4} : i # j => Fresh(i) # Fresh(j)
<1>1. 4 \in 1 .. 4 /\ {1, 2, 3, 4} = 1 .. 4
  OBVIOUS
<1> QED BY <1>1, FreshCells

LEMMA NewObjects ==
    ASSUME NEW x \in Cells, NEW sc \in CellsOrNull, NEW na \in CellsOrNull, NEW au \in BOOLEAN
    PROVE  /\ Iterator(x, sc, na, au) \in Objects
           /\ Plain("python") \in Objects /\ Plain("dict") \in Objects
<1>1. Iterator(x, sc, na, au) \in Iterators
  BY DEF Iterator, Iterators, CellsOrNull
<1> QED BY <1>1 DEF Objects, Plain

LEMMA BeginForeachFnacStep ==
    ASSUME IInv, NEW t \in Threads, BeginForeachFnac(t)
    PROVE  IInv' /\ SameCode(heap, heap')
<1> DEFINE a == Fresh(1)
           r == Fresh(2)
           g == [Inner(t) EXCEPT !.step = "update", !.loops = Append(@, r), !.cleanup = Append(@, r)]
<1>1. /\ a \in Cells /\ r \in Cells /\ a # r /\ heap[a] = Free /\ heap[r] = Free
      /\ InBody(t) /\ Inner(t).helper = Null
  BY TwoFresh DEF BeginForeachFnac
<1>2. /\ heap' = [heap EXCEPT ![a] = Plain("python"), ![r] = Iterator(a, Null, Null, FALSE)]
      /\ Becomes(t, [Inner(t) EXCEPT !.step = "update", !.loops = Append(@, r), !.cleanup = Append(@, r)])
      /\ UNCHANGED <<cache, root>>
  BY DEF BeginForeachFnac
<1> HIDE DEF a, r
<1>3. /\ heap' \in Heaps
      /\ heap'[a] = Plain("python") /\ heap'[r] = Iterator(a, Null, Null, FALSE)
      /\ \A c \in CellsOrNull : c \in {a, r} \/ heap'[c] = heap[c]
  <2>1. Plain("python") \in Objects /\ Iterator(a, Null, Null, FALSE) \in Objects
    BY <1>1, NewObjects DEF CellsOrNull
  <2>2. a \in CellsOrNull /\ r \in CellsOrNull /\ heap \in [CellsOrNull -> Objects]
    BY <1>1 DEF CellsOrNull, IInv, TypeOK, Heaps
  <2> QED BY <1>1, <1>2, <2>1, <2>2 DEF Heaps
<1>4. Null \in CellsOrNull /\ Null \notin Cells /\ heap[Null] = Free
  BY DEF CellsOrNull, Null, Cells, IInv, NothingReleasedTwice
<1>5. /\ g \in Scopes /\ Becomes(t, g)
      /\ g.locals = Inner(t).locals /\ g.step = "update" /\ g.helper = Null
      /\ g.loops = Append(Inner(t).loops, r) /\ g.cleanup = Append(Inner(t).cleanup, r)
  <2>1. Inner(t) \in Scopes
    BY <1>1, InnerFacts DEF IInv, InBody
  <2>2. Append(Inner(t).loops, r) \in Seq(Cells) /\ Append(Inner(t).cleanup, r) \in Seq(Cells)
    BY <1>1, <2>1, AppendProperties DEF Scopes
  <2> QED BY <1>1, <1>2, <2>1, <2>2 DEF Scopes
<1> HIDE DEF g
<1>6. Owns(heap'[r]) = {a}
  <2>1. heap'[r].kind = "iterator" /\ {heap'[r].iter, heap'[r].curr, heap'[r].scope, heap'[r].name} = {a, Null}
    BY <1>3 DEF Iterator
  <2>2. Null \notin {a}
    BY <1>1 DEF Null, Cells
  <2> QED BY <2>1, <2>2 DEF Owns
<1>7. /\ heap'[r].kind = "iterator"
      /\ heap'[r].iter = a /\ heap'[r].scope = Null /\ heap'[r].name = Null /\ heap'[r].curr = Null
      /\ heap'[r].first /\ heap'[r].index = 0 /\ heap'[r].given = 0
      /\ ~heap'[r].auto
      /\ heap'[a].kind = "python"
  BY <1>3 DEF Iterator, Plain
<1>8. heap'[Null] = heap[Null] /\ \A c \in Cells : c = r \/ c \in Owns(heap'[r]) \/ heap'[c] = heap[c]
  <2>1. Null \in CellsOrNull /\ Null \notin Cells
    BY DEF CellsOrNull, Null, Cells
  <2> QED BY <1>1, <1>3, <1>6, <2>1 DEF CellsOrNull
<1>9. \A c \in Owns(heap'[r]) : c # r /\ heap[c] = Free /\ heap'[c].kind \in {"python", "dict"}
  BY <1>1, <1>6, <1>7
<1>10. /\ heap'[heap'[r].iter].kind = "python"
       /\ heap'[r].scope # Null => heap'[heap'[r].scope].kind = "dict"
       /\ heap'[r].name # Null => heap'[heap'[r].name].kind = "python"
       /\ heap'[r].scope = Null <=> heap'[r].name = Null
       /\ heap'[r].curr = Null
  BY <1>4, <1>7
<1>11. g.cleanup = IF heap'[r].auto THEN Inner(t).cleanup ELSE Append(Inner(t).cleanup, r)
  BY <1>5, <1>7
<1> QED BY <1>1, <1>2, <1>3, <1>5, <1>7, <1>8, <1>9, <1>10, <1>11, LoopBegins

LEMMA BeginForeachStep ==
    ASSUME IInv, NEW t \in Threads, BeginForeach(t)
    PROVE  IInv' /\ SameCode(heap, heap')
<1> DEFINE a == Fresh(1)
           r == Fresh(2)
           g == [Inner(t) EXCEPT !.step = "update", !.loops = Append(@, r)]
<1>1. /\ a \in Cells /\ r \in Cells /\ a # r /\ heap[a] = Free /\ heap[r] = Free
      /\ InBody(t) /\ Inner(t).helper = Null
  BY TwoFresh DEF BeginForeach
<1>2. /\ heap' = [heap EXCEPT ![a] = Plain("python"), ![r] = Iterator(a, Null, Null, TRUE)]
      /\ Becomes(t, [Inner(t) EXCEPT !.step = "update", !.loops = Append(@, r)])
      /\ UNCHANGED <<cache, root>>
  BY DEF BeginForeach
<1> HIDE DEF a, r
<1>3. /\ heap' \in Heaps
      /\ heap'[a] = Plain("python") /\ heap'[r] = Iterator(a, Null, Null, TRUE)
      /\ \A c \in CellsOrNull : c \in {a, r} \/ heap'[c] = heap[c]
  <2>1. Plain("python") \in Objects /\ Iterator(a, Null, Null, TRUE) \in Objects
    BY <1>1, NewObjects DEF CellsOrNull
  <2>2. a \in CellsOrNull /\ r \in CellsOrNull /\ heap \in [CellsOrNull -> Objects]
    BY <1>1 DEF CellsOrNull, IInv, TypeOK, Heaps
  <2> QED BY <1>1, <1>2, <2>1, <2>2 DEF Heaps
<1>4. Null \in CellsOrNull /\ Null \notin Cells /\ heap[Null] = Free
  BY DEF CellsOrNull, Null, Cells, IInv, NothingReleasedTwice
<1>5. /\ g \in Scopes /\ Becomes(t, g)
      /\ g.locals = Inner(t).locals /\ g.step = "update" /\ g.helper = Null
      /\ g.loops = Append(Inner(t).loops, r) /\ g.cleanup = Inner(t).cleanup
  <2>1. Inner(t) \in Scopes
    BY <1>1, InnerFacts DEF IInv, InBody
  <2>2. Append(Inner(t).loops, r) \in Seq(Cells) /\ Append(Inner(t).cleanup, r) \in Seq(Cells)
    BY <1>1, <2>1, AppendProperties DEF Scopes
  <2> QED BY <1>1, <1>2, <2>1, <2>2 DEF Scopes
<1> HIDE DEF g
<1>6. Owns(heap'[r]) = {a}
  <2>1. heap'[r].kind = "iterator" /\ {heap'[r].iter, heap'[r].curr, heap'[r].scope, heap'[r].name} = {a, Null}
    BY <1>3 DEF Iterator
  <2>2. Null \notin {a}
    BY <1>1 DEF Null, Cells
  <2> QED BY <2>1, <2>2 DEF Owns
<1>7. /\ heap'[r].kind = "iterator"
      /\ heap'[r].iter = a /\ heap'[r].scope = Null /\ heap'[r].name = Null /\ heap'[r].curr = Null
      /\ heap'[r].first /\ heap'[r].index = 0 /\ heap'[r].given = 0
      /\ heap'[r].auto
      /\ heap'[a].kind = "python"
  BY <1>3 DEF Iterator, Plain
<1>8. heap'[Null] = heap[Null] /\ \A c \in Cells : c = r \/ c \in Owns(heap'[r]) \/ heap'[c] = heap[c]
  <2>1. Null \in CellsOrNull /\ Null \notin Cells
    BY DEF CellsOrNull, Null, Cells
  <2> QED BY <1>1, <1>3, <1>6, <2>1 DEF CellsOrNull
<1>9. \A c \in Owns(heap'[r]) : c # r /\ heap[c] = Free /\ heap'[c].kind \in {"python", "dict"}
  BY <1>1, <1>6, <1>7
<1>10. /\ heap'[heap'[r].iter].kind = "python"
       /\ heap'[r].scope # Null => heap'[heap'[r].scope].kind = "dict"
       /\ heap'[r].name # Null => heap'[heap'[r].name].kind = "python"
       /\ heap'[r].scope = Null <=> heap'[r].name = Null
       /\ heap'[r].curr = Null
  BY <1>4, <1>7
<1>11. g.cleanup = IF heap'[r].auto THEN Inner(t).cleanup ELSE Append(Inner(t).cleanup, r)
  BY <1>5, <1>7
<1> QED BY <1>1, <1>2, <1>3, <1>5, <1>7, <1>8, <1>9, <1>10, <1>11, LoopBegins

LEMMA BeginForeachCacheStep ==
    ASSUME IInv, NEW t \in Threads, NEW s \in Sites, BeginForeachCache(t, s)
    PROVE  IInv' /\ SameCode(heap, heap')
<1> DEFINE a == Fresh(1)
           sc == Fresh(2)
           na == Fresh(3)
           r == Fresh(4)
           g == [Inner(t) EXCEPT !.step = "update", !.loops = Append(@, r), !.cleanup = Append(@, r)]
<1>1. /\ a \in Cells /\ sc \in Cells /\ na \in Cells /\ r \in Cells
      /\ heap[a] = Free /\ heap[sc] = Free /\ heap[na] = Free /\ heap[r] = Free
      /\ a # sc /\ a # na /\ sc # na /\ r \notin {a, sc, na}
      /\ InBody(t) /\ Inner(t).helper = Null
  BY FourFresh DEF BeginForeachCache
<1>2. /\ heap' = [heap EXCEPT ![a] = Plain("python"), ![sc] = Plain("dict"), ![na] = Plain("python"),
                              ![r] = Iterator(a, sc, na, FALSE)]
      /\ Becomes(t, [Inner(t) EXCEPT !.step = "update", !.loops = Append(@, r),
                                     !.cleanup = Append(@, r)])
      /\ UNCHANGED <<cache, root>>
  BY DEF BeginForeachCache
<1> HIDE DEF a, sc, na, r
<1>3. /\ heap' \in Heaps
      /\ heap'[a] = Plain("python") /\ heap'[sc] = Plain("dict") /\ heap'[na] = Plain("python")
      /\ heap'[r] = Iterator(a, sc, na, FALSE)
      /\ \A c \in CellsOrNull : c \in {a, sc, na, r} \/ heap'[c] = heap[c]
  <2>1. Plain("python") \in Objects /\ Plain("dict") \in Objects /\ Iterator(a, sc, na, FALSE) \in Objects
    BY <1>1, NewObjects DEF CellsOrNull
  <2>2. /\ a \in CellsOrNull /\ sc \in CellsOrNull /\ na \in CellsOrNull /\ r \in CellsOrNull
        /\ heap \in [CellsOrNull -> Objects]
    BY <1>1 DEF CellsOrNull, IInv, TypeOK, Heaps
  <2> QED BY <1>1, <1>2, <2>1, <2>2 DEF Heaps
<1>4. sc \in CellsOrNull /\ na \in CellsOrNull /\ sc # Null /\ na # Null
  BY <1>1 DEF CellsOrNull, Null, Cells
<1>5. /\ g \in Scopes /\ Becomes(t, g)
      /\ g.locals = Inner(t).locals /\ g.step = "update" /\ g.helper = Null
      /\ g.loops = Append(Inner(t).loops, r) /\ g.cleanup = Append(Inner(t).cleanup, r)
  <2>1. Inner(t) \in Scopes
    BY <1>1, InnerFacts DEF IInv, InBody
  <2>2. Append(Inner(t).loops, r) \in Seq(Cells) /\ Append(Inner(t).cleanup, r) \in Seq(Cells)
    BY <1>1, <2>1, AppendProperties DEF Scopes
  <2> QED BY <1>1, <1>2, <2>1, <2>2 DEF Scopes
<1> HIDE DEF g
<1>6. Owns(heap'[r]) = {a, sc, na}
  <2>1. heap'[r].kind = "iterator" /\ {heap'[r].iter, heap'[r].curr, heap'[r].scope, heap'[r].name} = {a, sc, na, Null}
    BY <1>3 DEF Iterator
  <2>2. Null \notin {a, sc, na}
    BY <1>1 DEF Null, Cells
  <2> QED BY <2>1, <2>2 DEF Owns
<1>7. /\ heap'[r].kind = "iterator"
      /\ heap'[r].iter = a /\ heap'[r].scope = sc /\ heap'[r].name = na /\ heap'[r].curr = Null
      /\ heap'[r].first /\ heap'[r].index = 0 /\ heap'[r].given = 0
      /\ ~heap'[r].auto
      /\ heap'[a].kind = "python" /\ heap'[sc].kind = "dict" /\ heap'[na].kind = "python"
  BY <1>3 DEF Iterator, Plain
<1>8. heap'[Null] = heap[Null] /\ \A c \in Cells : c = r \/ c \in Owns(heap'[r]) \/ heap'[c] = heap[c]
  <2>1. Null \in CellsOrNull /\ Null \notin Cells
    BY DEF CellsOrNull, Null, Cells
  <2> QED BY <1>1, <1>3, <1>6, <2>1 DEF CellsOrNull
<1>9. \A c \in Owns(heap'[r]) : c # r /\ heap[c] = Free /\ heap'[c].kind \in {"python", "dict"}
  BY <1>1, <1>6, <1>7
<1>10. /\ heap'[heap'[r].iter].kind = "python"
       /\ heap'[r].scope # Null => heap'[heap'[r].scope].kind = "dict"
       /\ heap'[r].name # Null => heap'[heap'[r].name].kind = "python"
       /\ heap'[r].scope = Null <=> heap'[r].name = Null
       /\ heap'[r].curr = Null
  BY <1>4, <1>7
<1>11. g.cleanup = IF heap'[r].auto THEN Inner(t).cleanup ELSE Append(Inner(t).cleanup, r)
  BY <1>5, <1>7
<1> QED BY <1>1, <1>2, <1>3, <1>5, <1>7, <1>8, <1>9, <1>10, <1>11, LoopBegins

(* The innermost scope of t becomes g, which holds what it held.           *)
LEMMA Rearranged ==
    ASSUME IInv, NEW t \in Threads, frames[t] # <<>>,
           heap' \in Heaps, heap'[Null] = heap[Null], \A c \in Cells : Inert(heap[c], heap'[c]),
           NEW g \in Scopes, Becomes(t, g),
           g.locals = Inner(t).locals, g.cleanup = Inner(t).cleanup, g.loops = Inner(t).loops,
           ScopeIsSound(heap', g, TRUE),
           \A u \in Threads : \A i \in DOMAIN frames[u] :
                (u = t /\ i = Len(frames[t])) \/ ScopeIsSound(heap', frames[u][i], i = Len(frames[u])),
           cache' \in [Sites -> CellsOrNull], root' \in [Sites -> CellsOrNull],
           CachesHold(heap', cache', root'), ChainsCount(heap')
    PROVE  IInv'
<1> DEFINE n == Len(frames[t])
<1>1. heap \in Heaps /\ frames \in Stacks /\ Shape(heap, frames) /\ TypeOK
  BY DEF IInv, TypeOK
<1>2. n \in DOMAIN frames[t] /\ Inner(t) = frames[t][n]
  BY <1>1, InnerFacts
<1>3. /\ frames' \in Stacks /\ SameElsewhere(frames, frames', t, n) /\ frames'[t][n] = g
      /\ \A u \in Threads : Len(frames'[u]) = Len(frames[u])
  BY <1>1, BecomesFacts
<1>4. SameRoots(frames, frames')
  <2>1. \A u \in Threads : DOMAIN frames'[u] = DOMAIN frames[u]
    BY <1>3 DEF SameElsewhere
  <2>2. ASSUME NEW u \in Threads, NEW i \in DOMAIN frames[u]
        PROVE  /\ frames'[u][i].locals = frames[u][i].locals
               /\ frames'[u][i].cleanup = frames[u][i].cleanup
               /\ frames'[u][i].loops = frames[u][i].loops
    <3>1. CASE u = t /\ i = n
      BY <1>2, <1>3, <3>1
    <3>2. CASE ~(u = t /\ i = n)
      BY <1>3, <3>2 DEF SameElsewhere
    <3> QED BY <3>1, <3>2
  <2> QED BY <2>1, <2>2 DEF SameRoots
<1>5. Shape(heap', frames')
  BY <1>1, <1>4, ShapeKept
<1>6. ScopesAreSound(heap', frames')
  BY <1>1, <1>3, OthersAreSound
<1>7. TypeOK'
  BY <1>3 DEF TypeOK
<1>8. NothingReleasedTwice'
  BY DEF IInv, NothingReleasedTwice
<1> QED BY <1>5, <1>6, <1>7, <1>8 DEF IInv

LEMMA FindNotCompiledStep ==
    ASSUME IInv, NEW t \in Threads, NEW s \in Sites, FindNotCompiled(t, s)
    PROVE  IInv' /\ SameCode(heap, heap')
<1> DEFINE f == Inner(t)
           g == [f EXCEPT !.step = "compile", !.site = s]
<1>1. TypeOK /\ frames[t] # <<>> /\ f.step = "body" /\ f.helper = Null
  BY DEF IInv, FindNotCompiled, InBody
<1>2. f \in Scopes
  BY <1>1, InnerFacts
<1>3. heap' = heap /\ cache' = cache /\ root' = root /\ Becomes(t, g)
  BY DEF FindNotCompiled
<1>4. \A u \in Threads : \A i \in DOMAIN frames[u] : ScopeIsSound(heap, frames[u][i], i = Len(frames[u]))
  BY DEF IInv, ScopesAreSound
<1>5. ScopeIsSound(heap, f, TRUE)
  BY <1>1, InnerIsSound
<1> HIDE DEF f
<1>6. /\ g \in Scopes /\ g.locals = f.locals /\ g.cleanup = f.cleanup /\ g.loops = f.loops
      /\ g.helper = Null /\ g.step = "compile" /\ g.site = s
  BY <1>1, <1>2 DEF Scopes
<1> HIDE DEF g
<1>7. ScopeIsSound(heap, g, TRUE)
  BY <1>1, <1>5, <1>6 DEF ScopeIsSound, HelperFollows, StepMakesSense, LoopHolds, AsksForFirst
<1>8. \A c \in Cells : Inert(heap[c], heap'[c])
  BY <1>3 DEF Inert
<1>9. /\ heap \in Heaps /\ cache \in [Sites -> CellsOrNull] /\ root \in [Sites -> CellsOrNull]
      /\ CachesHold(heap, cache, root) /\ ChainsCount(heap)
  BY DEF IInv, TypeOK
<1> QED BY <1>1, <1>3, <1>4, <1>6, <1>7, <1>8, <1>9, Rearranged DEF f, SameCode

LEMMA LeaveIfStep ==
    ASSUME IInv, NEW t \in Threads, LeaveIf(t)
    PROVE  IInv' /\ SameCode(heap, heap')
<1> DEFINE f == Inner(t)
           g == [f EXCEPT !.helper = Null, !.condition = 0]
<1>1. TypeOK /\ frames[t] # <<>> /\ f.step = "body"
  BY DEF IInv, LeaveIf, InBody
<1>2. f \in Scopes
  BY <1>1, InnerFacts
<1>3. heap' = heap /\ cache' = cache /\ root' = root /\ Becomes(t, g)
  BY DEF LeaveIf
<1>4. \A u \in Threads : \A i \in DOMAIN frames[u] : ScopeIsSound(heap, frames[u][i], i = Len(frames[u]))
  BY DEF IInv, ScopesAreSound
<1>5. ScopeIsSound(heap, f, TRUE)
  BY <1>1, InnerIsSound
<1> HIDE DEF f
<1>6. /\ g \in Scopes /\ g.locals = f.locals /\ g.cleanup = f.cleanup /\ g.loops = f.loops
      /\ g.helper = Null /\ g.step = "body"
  BY <1>1, <1>2 DEF Scopes, CellsOrNull
<1> HIDE DEF g
<1>7. ScopeIsSound(heap, g, TRUE)
  BY <1>1, <1>5, <1>6 DEF ScopeIsSound, HelperFollows, StepMakesSense, LoopHolds, AsksForFirst
<1>8. \A c \in Cells : Inert(heap[c], heap'[c])
  BY <1>3 DEF Inert
<1>9. /\ heap \in Heaps /\ cache \in [Sites -> CellsOrNull] /\ root \in [Sites -> CellsOrNull]
      /\ CachesHold(heap, cache, root) /\ ChainsCount(heap)
  BY DEF IInv, TypeOK
<1> QED BY <1>1, <1>3, <1>4, <1>6, <1>7, <1>8, <1>9, Rearranged DEF f, SameCode

LEMMA CompileAndStoreStep ==
    ASSUME IInv, NEW t \in Threads, CompileAndStore(t)
    PROVE  IInv'
<1> DEFINE c == Fresh(1)
           f == Inner(t)
           g == [f EXCEPT !.step = "body", !.site = Null]
<1>1. c \in Cells /\ heap[c].kind = "free" /\ c # Null
  BY OneFresh DEF CompileAndStore
<1>2. TypeOK /\ frames[t] # <<>> /\ f.step = "compile"
  BY DEF IInv, CompileAndStore
<1>3. f \in Scopes
  BY <1>2, InnerFacts
<1>4. /\ heap' = [heap EXCEPT ![c] = Code(f.site, 0)]
      /\ cache' = [cache EXCEPT ![f.site] = c] /\ root' = root /\ Becomes(t, g)
  BY DEF CompileAndStore
<1>5. ScopeIsSound(heap, f, TRUE)
  BY <1>2, InnerIsSound
<1> HIDE DEF c, f
<1>6. f.site \in Sites
  BY <1>2, <1>5 DEF ScopeIsSound, StepMakesSense
<1>7. /\ heap' \in Heaps /\ heap'[c] = Code(f.site, 0) /\ heap'[c].kind = "code"
      /\ \A d \in CellsOrNull : d # c => heap'[d] = heap[d]
  <2>1. Code(f.site, 0) \in Objects /\ Code(f.site, 0).kind = "code"
    BY <1>6 DEF Code, Codes, Objects
  <2>2. c \in CellsOrNull /\ heap \in [CellsOrNull -> Objects]
    BY <1>1, <1>2 DEF CellsOrNull, TypeOK, Heaps
  <2> QED BY <1>4, <2>1, <2>2 DEF Heaps
<1>8. heap'[Null] = heap[Null] /\ \A d \in Cells : d # c => heap'[d] = heap[d]
  BY <1>1, <1>7 DEF CellsOrNull
<1>9. /\ \A d \in Cells : heap[d].kind # "free" => heap'[d] = heap[d]
      /\ \A d \in Cells : heap[d].kind = "free" => heap'[d].kind # "link"
  BY <1>1, <1>7, <1>8
<1>10. /\ CachesHold(heap', cache, root) /\ ChainsCount(heap')
       /\ \A u \in Threads : \A i \in DOMAIN frames[u] :
            ScopeIsSound(heap', frames[u][i], i = Len(frames[u]))
  BY <1>7, <1>8, <1>9, NewKeepsTheRest
<1>11. ScopeIsSound(heap', f, TRUE)
  BY <1>2, <1>7, <1>8, <1>9, InnerStaysSound DEF f
<1>12. /\ g \in Scopes /\ g.locals = f.locals /\ g.cleanup = f.cleanup /\ g.loops = f.loops
       /\ g.helper = f.helper /\ g.step = "body" /\ g.condition = f.condition
  BY <1>3 DEF Scopes
<1> HIDE DEF g
<1>13. ScopeIsSound(heap', g, TRUE)
  BY <1>2, <1>11, <1>12 DEF ScopeIsSound, HelperFollows, StepMakesSense, LoopHolds, AsksForFirst
<1>14. \A d \in Cells : Inert(heap[d], heap'[d])
  BY <1>1, <1>7, <1>8 DEF Inert
<1>15. /\ cache' \in [Sites -> CellsOrNull] /\ root' \in [Sites -> CellsOrNull]
       /\ cache'[f.site] = c /\ \A s \in Sites : s # f.site => cache'[s] = cache[s]
  BY <1>1, <1>2, <1>4, <1>6 DEF TypeOK, CellsOrNull
<1>16. CachesHold(heap', cache', root')
  BY <1>4, <1>7, <1>10, <1>15 DEF CachesHold
<1> QED BY <1>2, <1>4, <1>7, <1>8, <1>10, <1>12, <1>13, <1>14, <1>15, <1>16, Rearranged DEF f

(* A thread moves the helper of its if-block, which nobody else looks at.  *)
LEMMA OnlyOneHelperMoves ==
    ASSUME IInv, NEW t \in Threads, frames[t] # <<>>, Inner(t).helper # Null,
           heap'[Null] = heap[Null],
           \A c \in Cells : c # Inner(t).helper => heap'[c] = heap[c]
    PROVE  \A u \in Threads : \A i \in DOMAIN frames[u] :
                (u = t /\ i = Len(frames[t])) \/ Undisturbed(heap, heap', frames[u][i])
<1> DEFINE n == Len(frames[t])
           p == Inner(t).helper
<1>1. heap \in Heaps /\ frames \in Stacks /\ Shape(heap, frames) /\ TypeOK
  BY DEF IInv, TypeOK
<1>2. n \in DOMAIN frames[t] /\ Inner(t) = frames[t][n] /\ ScopeIsSound(heap, Inner(t), TRUE)
  BY <1>1, InnerFacts, InnerIsSound
<1>3. PICK k \in DOMAIN frames[t][n].cleanup : frames[t][n].cleanup[k] = p
  BY <1>2 DEF ScopeIsSound, HelperFollows
<1>4. heap[p].kind = "if"
  BY <1>2 DEF ScopeIsSound, HelperFollows
<1> HIDE DEF n
<1> SUFFICES ASSUME NEW u \in Threads, NEW i \in DOMAIN frames[u], ~(u = t /\ i = n)
             PROVE  Undisturbed(heap, heap', frames[u][i])
  BY DEF n
<1> DEFINE f == frames[u][i]
<1>5. ScopeIsSound(heap, f, i = Len(frames[u]))
  BY DEF IInv, ScopesAreSound
<1>6. f.helper # Null => heap'[f.helper] = heap[f.helper]
  <2> SUFFICES ASSUME f.helper # Null PROVE heap'[f.helper] = heap[f.helper]
    OBVIOUS
  <2>1. PICK j \in DOMAIN f.cleanup : f.cleanup[j] = f.helper
    BY <1>5 DEF ScopeIsSound, HelperFollows
  <2>2. f.helper # p
    BY <1>1, <1>2, <1>3, <2>1 DEF Shape, RootsDiffer
  <2>3. f.helper \in Cells
    BY <1>1, ScopeTypes DEF CellsOrNull
  <2> QED BY <2>2, <2>3
<1>7. ASSUME NEW j \in DOMAIN f.loops
      PROVE  heap'[f.loops[j]] = heap[f.loops[j]] /\ heap'[heap[f.loops[j]].curr] = heap[heap[f.loops[j]].curr]
  <2>1. LoopIsLive(heap, f.loops[j])
    BY <1>1, LoopFacts
  <2> HIDE DEF f
  <2> QED BY <2>1, <1>1, <1>4 DEF LoopIsLive, CellsOrNull
<1> QED BY <1>6, <1>7 DEF Undisturbed

LEMMA StepIfStep ==
    ASSUME IInv, NEW t \in Threads, StepIf(t)
    PROVE  IInv' /\ SameCode(heap, heap')
<1> DEFINE f == Inner(t)
           p == f.helper
           x == heap[p]
<1>1. /\ TypeOK /\ frames[t] # <<>> /\ f.step = "body" /\ p # Null /\ p \in Cells
      /\ f \in Scopes /\ ScopeIsSound(heap, f, TRUE) /\ cache' = cache /\ root' = root
  <2>1. TypeOK /\ frames[t] # <<>> /\ f.step = "body" /\ p # Null /\ cache' = cache /\ root' = root
    BY DEF IInv, StepIf, InBody
  <2>2. f \in Scopes /\ ScopeIsSound(heap, f, TRUE)
    BY <2>1, InnerFacts, InnerIsSound
  <2> QED BY <2>1, <2>2 DEF Scopes, CellsOrNull
<1>2. /\ heap \in Heaps /\ cache \in [Sites -> CellsOrNull] /\ root \in [Sites -> CellsOrNull]
      /\ CachesHold(heap, cache, root) /\ ChainsCount(heap)
      /\ \A u \in Threads : \A i \in DOMAIN frames[u] : ScopeIsSound(heap, frames[u][i], i = Len(frames[u]))
  BY DEF IInv, TypeOK, ScopesAreSound
<1>3. CASE NextLink(x) = Null
  <2> DEFINE g == [f EXCEPT !.step = "chain"]
  <2>1. heap' = heap /\ Becomes(t, g)
    BY <1>3 DEF StepIf
  <2> HIDE DEF f
  <2>2. /\ g \in Scopes /\ g.locals = f.locals /\ g.cleanup = f.cleanup /\ g.loops = f.loops
        /\ g.helper = f.helper /\ g.step = "chain" /\ g.condition = f.condition
    BY <1>1 DEF Scopes
  <2> HIDE DEF g
  <2>3. ScopeIsSound(heap, g, TRUE)
    BY <1>1, <2>2 DEF ScopeIsSound, HelperFollows, StepMakesSense, LoopHolds, AsksForFirst
  <2>4. \A c \in Cells : Inert(heap[c], heap'[c])
    BY <2>1 DEF Inert
  <2> QED BY <1>1, <1>2, <2>1, <2>2, <2>3, <2>4, Rearranged DEF f, SameCode
<1>4. CASE NextLink(x) # Null
  <2> DEFINE q == NextLink(x)
             g == [f EXCEPT !.condition = @ + 1]
             k == IF x.curr = Null THEN x.index ELSE x.index + 1
             y == [x EXCEPT !.curr = q, !.index = k]
  <2>1. /\ heap' = [heap EXCEPT ![p].curr = q, ![p].index = IF x.curr = Null THEN @ ELSE @ + 1]
        /\ Becomes(t, g)
    BY <1>4 DEF StepIf
  <2>2. x \in IfHelpers /\ x.kind = "if"
    BY <1>1, <1>2, ObjectTypes DEF ScopeIsSound, HelperFollows, CellsOrNull
  <2>3. /\ q \in Cells /\ heap[q].kind = "link" /\ heap[heap[q].code] = Code(x.site, f.condition + 1)
        /\ k = f.condition
    <3>1. x.site \in Sites /\ x.curr \in CellsOrNull
      BY <2>2 DEF IfHelpers
    <3>3. f.condition \in Nat
      BY <1>1 DEF Scopes
    <3>4. CASE x.curr = Null
      <4>1. q = root[x.site] /\ q \in CellsOrNull
        BY <1>2, <3>1, <3>4 DEF NextLink
      <4>2. f.condition = 0 /\ x.index = 0
        BY <1>1, <3>4 DEF ScopeIsSound, HelperFollows
      <4> QED BY <1>2, <1>4, <3>1, <3>4, <4>1, <4>2 DEF CachesHold, CellsOrNull
    <3>5. CASE x.curr # Null
      <4>1. /\ q = heap[x.curr].next /\ x.curr \in Cells
            /\ heap[x.curr].kind = "link" /\ heap[heap[x.curr].code] = Code(x.site, f.condition)
            /\ x.index = f.condition - 1 /\ f.condition > 0
        BY <1>1, <3>1, <3>5 DEF ScopeIsSound, HelperFollows, NextLink, CellsOrNull
      <4>2. q \in Cells
        BY <1>2, <1>4, <4>1, ObjectTypes DEF CellsOrNull, Links
      <4>3. heap[q].kind = "link" /\ heap[heap[q].code] = Code(x.site, f.condition + 1)
        <5>1. heap[x.curr].next # Null /\ ChainsCount(heap)
          BY <1>2, <1>4, <4>1
        <5> HIDE DEF f, x, p, q
        <5> QED BY <5>1, <3>1, <3>3, <4>1, NextInChain
      <4>4. k = f.condition
        BY <3>3, <3>5, <4>1
      <4> QED BY <4>2, <4>3, <4>4
    <3> QED BY <3>4, <3>5
  <2>4. k \in Nat /\ f.condition \in Nat
    BY <1>1, <2>3 DEF Scopes
  <2> HIDE DEF f, p, x, q, k
  <2>5. y \in IfHelpers /\ y.kind = "if" /\ y.site = x.site /\ y.curr = q /\ y.index = k
    BY <2>2, <2>3, <2>4 DEF IfHelpers, CellsOrNull
  <2> HIDE DEF y
  <2>6. heap' \in Heaps /\ heap'[p] = y /\ \A c \in CellsOrNull : c # p => heap'[c] = heap[c]
    <3>1. p \in CellsOrNull /\ y \in Objects /\ heap \in [CellsOrNull -> Objects] /\ x = heap[p]
      BY <1>1, <1>2, <2>5 DEF CellsOrNull, Objects, Heaps, x
    <3>2. heap' = [heap EXCEPT ![p] = y]
      BY <2>1, <3>1 DEF y, k, IfHelpers, x
    <3> QED BY <3>1, <3>2 DEF Heaps
  <2>7. heap'[Null] = heap[Null] /\ \A c \in Cells : c # p => heap'[c] = heap[c]
    BY <1>1, <2>6 DEF CellsOrNull
  <2>8. CodeStays(heap, heap') /\ LinksStay(heap, heap')
    BY <2>2, <2>5, <2>6, <2>7 DEF CodeStays, LinksStay, x
  <2>9. CachesHold(heap', cache, root) /\ ChainsCount(heap')
    BY <1>2, <2>8, CodeKept
  <2>10. ASSUME NEW u \in Threads, NEW i \in DOMAIN frames[u], ~(u = t /\ i = Len(frames[t]))
         PROVE  ScopeIsSound(heap', frames[u][i], i = Len(frames[u]))
    <3>1. Undisturbed(heap, heap', frames[u][i])
      BY <1>1, <2>7, <2>10, OnlyOneHelperMoves DEF f, p
    <3>2. frames[u][i] \in Scopes
      BY ScopeTypes DEF IInv, TypeOK
    <3> QED BY <1>2, <2>8, <3>1, <3>2, ScopeKept
  <2>11. /\ g \in Scopes /\ g.locals = f.locals /\ g.cleanup = f.cleanup /\ g.loops = f.loops
         /\ g.helper = p /\ g.step = "body" /\ g.condition = f.condition + 1
    BY <1>1, <2>4 DEF Scopes, p
  <2> HIDE DEF g
  <2>12. HelperFollows(heap', g)
    <3>1. heap'[q] = heap[q] /\ heap'[heap[q].code] = heap[heap[q].code]
      <4>1. heap[q].code \in Cells /\ heap[heap[q].code].kind = "code"
        BY <1>2, <2>3, ObjectTypes DEF CellsOrNull, Links, ChainsCount
      <4> QED BY <2>2, <2>3, <2>7, <4>1 DEF x
    <3>2. q # Null
      BY <2>3 DEF Cells, Null
    <3>3. \E j \in DOMAIN f.cleanup : f.cleanup[j] = p
      BY <1>1 DEF ScopeIsSound, HelperFollows, p
    <3> QED BY <1>1, <2>3, <2>4, <2>5, <2>6, <2>11, <3>1, <3>2, <3>3 DEF HelperFollows, CellsOrNull
  <2>13. \A j \in DOMAIN g.loops : LoopHolds(heap', g, j)
    <3> SUFFICES ASSUME NEW j \in DOMAIN f.loops
                 PROVE  LoopHolds(heap', g, j)
      BY <2>11
    <3>1. frames[t][Len(frames[t])] = f /\ Len(frames[t]) \in DOMAIN frames[t]
      BY <1>1, InnerFacts DEF f
    <3>2. LoopIsLive(heap, f.loops[j])
      BY <3>1, LoopFacts DEF IInv, TypeOK
    <3>3. /\ heap'[f.loops[j]] = heap[f.loops[j]]
          /\ heap'[heap[f.loops[j]].curr] = heap[heap[f.loops[j]].curr]
      BY <2>2, <2>7, <3>2 DEF LoopIsLive, CellsOrNull, x
    <3> QED BY <1>1, <2>11, <3>3 DEF ScopeIsSound, LoopHolds, AsksForFirst
  <2>14. ScopeIsSound(heap', g, TRUE)
    BY <2>11, <2>12, <2>13 DEF ScopeIsSound, StepMakesSense
  <2>15. \A c \in Cells : Inert(heap[c], heap'[c])
    BY <2>2, <2>5, <2>6, <2>7 DEF Inert, x
  <2>16. cache' \in [Sites -> CellsOrNull] /\ root' \in [Sites -> CellsOrNull] /\ CachesHold(heap', cache', root')
    BY <1>1, <1>2, <2>9
  <2>17. Becomes(t, g)
    BY <2>1
  <2>18. SameCode(heap, heap')
    BY <2>2, <2>5, <2>6, <2>7 DEF SameCode, x
  <2> QED BY <1>1, <2>6, <2>7, <2>9, <2>10, <2>11, <2>14, <2>15, <2>16, <2>17, <2>18, Rearranged DEF f
<1> QED BY <1>3, <1>4

(* What the missing link is and where it goes: f is the scope, x the       *)
(* helper of its if-block, c the code, l the link and n the condition.     *)
LinkMade(f, x, c, l, n) ==
    /\ f.step = "chain" /\ f \in Scopes /\ ScopeIsSound(heap, f, TRUE)
    /\ f.helper # Null /\ f.helper \in Cells
    /\ c \in Cells /\ l \in Cells /\ c # l /\ heap[c] = Free /\ heap[l] = Free
    /\ heap[c].kind = "free" /\ heap[l].kind = "free"
    /\ x.kind = "if" /\ x \in IfHelpers /\ x.site \in Sites /\ x.curr \in CellsOrNull
    /\ f.condition \in Nat /\ n \in Nat
    /\ x.curr = Null => n = 1
    /\ x.curr # Null => /\ x.curr \in Cells /\ heap[x.curr].kind = "link"
                        /\ heap[heap[x.curr].code] = Code(x.site, f.condition)
                        /\ f.condition > 0
    /\ heap' \in Heaps
    /\ heap'[c] = Code(x.site, n) /\ heap'[l] = Link(c)
    /\ \A d \in CellsOrNull : d \notin {c, l, x.curr} => heap'[d] = heap[d]
    /\ x.curr # Null => /\ heap'[x.curr].kind = "link"
                        /\ heap'[x.curr].code = heap[x.curr].code /\ heap'[x.curr].next = l
    /\ heap'[Null] = heap[Null]
    /\ root' = IF x.curr = Null THEN [root EXCEPT ![x.site] = l] ELSE root
    /\ Code(x.site, n).kind = "code"
    /\ Link(c).kind = "link" /\ Link(c).code = c /\ Link(c).next = Null

LEMMA MakeLinkFacts ==
    ASSUME IInv, NEW t \in Threads, MakeLink(t)
    PROVE  LinkMade(Inner(t), heap[Inner(t).helper], Fresh(1), Fresh(2), Inner(t).condition + 1)
<1> DEFINE f == Inner(t)
           x == heap[f.helper]
           c == Fresh(1)
           l == Fresh(2)
           n == f.condition + 1
<1>1. /\ TypeOK /\ frames[t] # <<>> /\ f.step = "chain"
      /\ f \in Scopes /\ ScopeIsSound(heap, f, TRUE) /\ f.helper # Null /\ f.helper \in Cells
  <2>1. TypeOK /\ frames[t] # <<>> /\ f.step = "chain"
    BY DEF IInv, MakeLink
  <2>2. f \in Scopes /\ ScopeIsSound(heap, f, TRUE)
    BY <2>1, InnerFacts, InnerIsSound
  <2> QED BY <2>1, <2>2 DEF Scopes, CellsOrNull, ScopeIsSound, StepMakesSense
<1>2. /\ heap \in Heaps /\ cache \in [Sites -> CellsOrNull] /\ root \in [Sites -> CellsOrNull]
      /\ CachesHold(heap, cache, root) /\ ChainsCount(heap) /\ Shape(heap, frames) /\ frames \in Stacks
      /\ \A u \in Threads : \A i \in DOMAIN frames[u] : ScopeIsSound(heap, frames[u][i], i = Len(frames[u]))
  BY DEF IInv, TypeOK, ScopesAreSound
<1>3. /\ c \in Cells /\ l \in Cells /\ c # l /\ heap[c] = Free /\ heap[l] = Free
      /\ heap[c].kind = "free" /\ heap[l].kind = "free"
  BY TwoFresh DEF MakeLink, Free
<1>4. /\ x.kind = "if" /\ x \in IfHelpers /\ x.site \in Sites /\ x.curr \in CellsOrNull
      /\ f.condition \in Nat /\ n \in Nat
      /\ x.curr = Null => n = 1
      /\ x.curr # Null => /\ x.curr \in Cells /\ heap[x.curr].kind = "link"
                          /\ heap[heap[x.curr].code] = Code(x.site, f.condition)
                          /\ f.condition > 0
  <2>1. x.kind = "if" /\ x \in IfHelpers
    BY <1>1, <1>2, ObjectTypes DEF ScopeIsSound, HelperFollows, CellsOrNull
  <2>2. x.site \in Sites /\ x.curr \in CellsOrNull /\ f.condition \in Nat
    BY <1>1, <2>1 DEF IfHelpers, Scopes
  <2> QED BY <1>1, <2>1, <2>2 DEF ScopeIsSound, HelperFollows, CellsOrNull
<1>5. IF x.curr = Null
      THEN /\ heap' = [heap EXCEPT ![c] = Code(x.site, n), ![l] = Link(c)]
           /\ root' = [root EXCEPT ![x.site] = l]
      ELSE /\ heap' = [heap EXCEPT ![c] = Code(x.site, n), ![l] = Link(c), ![x.curr].next = l]
           /\ root' = root
  BY DEF MakeLink
<1>6. /\ Code(x.site, n) \in Objects /\ Code(x.site, n).kind = "code"
      /\ Link(c) \in Objects /\ Link(c).kind = "link" /\ Link(c).code = c /\ Link(c).next = Null
  BY <1>3, <1>4 DEF Code, Codes, Link, Links, Objects, CellsOrNull
<1> HIDE DEF f, x, c, l, n
<1>8. x.curr # c /\ x.curr # l
  BY <1>3, <1>4 DEF Null, Cells
<1>9. /\ heap' \in Heaps
      /\ heap'[c] = Code(x.site, n) /\ heap'[l] = Link(c)
      /\ \A d \in CellsOrNull : d \notin {c, l, x.curr} => heap'[d] = heap[d]
      /\ x.curr # Null => /\ heap'[x.curr].kind = "link"
                          /\ heap'[x.curr].code = heap[x.curr].code /\ heap'[x.curr].next = l
      /\ heap'[Null] = heap[Null]
  <2>1. /\ c \in CellsOrNull /\ l \in CellsOrNull /\ heap \in [CellsOrNull -> Objects]
        /\ Null \in CellsOrNull /\ c # Null /\ l # Null
    BY <1>2, <1>3 DEF CellsOrNull, Heaps, Cells, Null
  <2>2. CASE x.curr = Null
    BY <1>3, <1>5, <1>6, <2>1, <2>2 DEF Heaps
  <2>3. CASE x.curr # Null
    <3>1. heap[x.curr] \in Links /\ [heap[x.curr] EXCEPT !.next = l] \in Links
      BY <1>2, <1>3, <1>4, <2>3, ObjectTypes DEF Links, CellsOrNull
    <3>2. heap' = [heap EXCEPT ![c] = Code(x.site, n), ![l] = Link(c),
                               ![x.curr] = [heap[x.curr] EXCEPT !.next = l]]
      BY <1>5, <1>8, <2>1, <2>3
    <3>3. [heap[x.curr] EXCEPT !.next = l] \in Objects
      BY <3>1 DEF Objects
    <3>4. /\ [heap[x.curr] EXCEPT !.next = l].kind = "link"
          /\ [heap[x.curr] EXCEPT !.next = l].code = heap[x.curr].code
          /\ [heap[x.curr] EXCEPT !.next = l].next = l
      BY <3>1 DEF Links
    <3> QED BY <1>3, <1>4, <1>6, <1>8, <2>1, <2>3, <3>2, <3>3, <3>4 DEF Heaps
  <2> QED BY <2>2, <2>3
<1>10. root' = IF x.curr = Null THEN [root EXCEPT ![x.site] = l] ELSE root
  BY <1>5
<1>11. LinkMade(f, x, c, l, n)
  BY <1>1, <1>3, <1>4, <1>6, <1>9, <1>10 DEF LinkMade
<1> QED BY <1>11 DEF f, x, c, l, n

LEMMA MakeLinkStep ==
    ASSUME IInv, NEW t \in Threads, MakeLink(t)
    PROVE  IInv'
<1> DEFINE f == Inner(t)
           x == heap[f.helper]
           c == Fresh(1)
           l == Fresh(2)
           g == [f EXCEPT !.step = "body"]
           n == f.condition + 1
<1>0. LinkMade(f, x, c, l, n)
  BY MakeLinkFacts
<1>1. /\ TypeOK /\ frames[t] # <<>> /\ f.step = "chain" /\ Becomes(t, g) /\ cache' = cache
      /\ f \in Scopes /\ ScopeIsSound(heap, f, TRUE) /\ f.helper # Null /\ f.helper \in Cells
  BY <1>0 DEF IInv, MakeLink, LinkMade
<1>2. /\ heap \in Heaps /\ cache \in [Sites -> CellsOrNull] /\ root \in [Sites -> CellsOrNull]
      /\ CachesHold(heap, cache, root) /\ ChainsCount(heap) /\ Shape(heap, frames) /\ frames \in Stacks
      /\ \A u \in Threads : \A i \in DOMAIN frames[u] : ScopeIsSound(heap, frames[u][i], i = Len(frames[u]))
  BY DEF IInv, TypeOK, ScopesAreSound
<1>3. /\ c \in Cells /\ l \in Cells /\ c # l /\ heap[c] = Free /\ heap[l] = Free
      /\ heap[c].kind = "free" /\ heap[l].kind = "free"
  BY <1>0 DEF LinkMade
<1>4. /\ x.kind = "if" /\ x \in IfHelpers /\ x.site \in Sites /\ x.curr \in CellsOrNull
      /\ f.condition \in Nat /\ n \in Nat
      /\ x.curr = Null => n = 1
      /\ x.curr # Null => /\ x.curr \in Cells /\ heap[x.curr].kind = "link"
                          /\ heap[heap[x.curr].code] = Code(x.site, f.condition)
  BY <1>0 DEF LinkMade
<1>5. root' = IF x.curr = Null THEN [root EXCEPT ![x.site] = l] ELSE root
  BY <1>0 DEF LinkMade
<1>6. /\ Code(x.site, n).kind = "code"
      /\ Link(c).kind = "link" /\ Link(c).code = c /\ Link(c).next = Null
  BY <1>0 DEF LinkMade
<1>7. g \in Scopes /\ g.locals = f.locals /\ g.cleanup = f.cleanup /\ g.loops = f.loops
      /\ g.helper = f.helper /\ g.step = "body" /\ g.condition = f.condition
  BY <1>1 DEF Scopes
<1>9. /\ heap' \in Heaps
      /\ heap'[c] = Code(x.site, n) /\ heap'[l] = Link(c)
      /\ \A d \in CellsOrNull : d \notin {c, l, x.curr} => heap'[d] = heap[d]
      /\ x.curr # Null => /\ heap'[x.curr].kind = "link"
                          /\ heap'[x.curr].code = heap[x.curr].code /\ heap'[x.curr].next = l
      /\ heap'[Null] = heap[Null]
  BY <1>0 DEF LinkMade
<1> HIDE DEF f, x, c, l, g, n
<1>10. LinksStay(heap, heap')
  <2> SUFFICES ASSUME NEW d \in Cells
               PROVE  /\ heap[d].kind = "code" => heap'[d] = heap[d]
                      /\ heap[d].kind = "link" => heap'[d].kind = "link" /\ heap'[d].code = heap[d].code
    BY DEF LinksStay
  <2> QED BY <1>3, <1>4, <1>9 DEF CellsOrNull
<1>11. ChainsCount(heap')
  <2> SUFFICES ASSUME NEW d \in Cells, heap'[d].kind = "link"
               PROVE  /\ heap'[heap'[d].code].kind = "code"
                      /\ heap'[d].next # Null =>
                          /\ heap'[heap'[d].next].kind = "link"
                          /\ heap'[heap'[heap'[d].next].code]
                                = Code(heap'[heap'[d].code].site, heap'[heap'[d].code].n + 1)
    BY DEF ChainsCount
  <2>1. CASE d = l
    BY <1>6, <1>9, <2>1
  <2>2. CASE d = x.curr
    <3>1. heap[d].kind = "link" /\ heap[heap[d].code] = Code(x.site, f.condition)
      BY <1>4, <2>2 DEF Cells, Null
    <3>2. heap[d].code \in Cells /\ heap[heap[d].code].kind = "code"
      BY <1>2, <3>1, ObjectTypes DEF CellsOrNull, Links, ChainsCount
    <3>3. heap'[d].code = heap[d].code /\ heap'[heap[d].code] = heap[heap[d].code]
      BY <1>10, <3>1, <3>2 DEF LinksStay
    <3>4. heap'[d].next = l /\ heap'[l].kind = "link" /\ heap'[heap'[l].code] = Code(x.site, n)
      BY <1>6, <1>9, <2>2 DEF Cells, Null
    <3>5. Code(x.site, f.condition).site = x.site /\ Code(x.site, f.condition).n + 1 = n
      BY DEF Code, n
    <3> QED BY <3>1, <3>2, <3>3, <3>4, <3>5
  <2>3. CASE d # l /\ d # x.curr
    <3>1. heap'[d] = heap[d] /\ heap[d].kind = "link"
      BY <1>6, <1>9, <2>3 DEF CellsOrNull
    <3>2. /\ heap[d].code \in Cells /\ heap[heap[d].code].kind = "code"
          /\ heap[d].next \in CellsOrNull
      BY <1>2, <3>1, ObjectTypes DEF CellsOrNull, Links, ChainsCount
    <3>3. heap'[heap[d].code] = heap[heap[d].code]
      BY <1>10, <3>2 DEF LinksStay
    <3> SUFFICES ASSUME heap[d].next # Null
                 PROVE  /\ heap'[heap[d].next].kind = "link"
                        /\ heap'[heap'[heap[d].next].code]
                              = Code(heap[heap[d].code].site, heap[heap[d].code].n + 1)
      BY <3>1, <3>2, <3>3
    <3>4. /\ heap[d].next \in Cells /\ heap[heap[d].next].kind = "link"
          /\ heap[heap[heap[d].next].code] = Code(heap[heap[d].code].site, heap[heap[d].code].n + 1)
      BY <1>2, <3>1, <3>2 DEF ChainsCount, CellsOrNull
    <3>5. heap[heap[d].next].code \in Cells /\ heap[heap[heap[d].next].code].kind = "code"
      BY <1>2, <3>4, ObjectTypes DEF CellsOrNull, Links, ChainsCount
    <3> QED BY <1>10, <3>4, <3>5 DEF LinksStay
  <2> QED BY <2>1, <2>2, <2>3
<1>12. root' \in [Sites -> CellsOrNull] /\ CachesHold(heap', cache', root')
  <2>1. ASSUME NEW s \in Sites, root[s] # Null
        PROVE  heap'[root[s]].kind = "link" /\ heap'[heap'[root[s]].code] = Code(s, 1)
    <3>1. root[s] \in Cells /\ heap[root[s]].kind = "link" /\ heap[heap[root[s]].code] = Code(s, 1)
      BY <1>2, <2>1 DEF CachesHold, CellsOrNull
    <3>2. heap[root[s]].code \in Cells /\ heap[heap[root[s]].code].kind = "code"
      BY <1>2, <3>1, ObjectTypes DEF CellsOrNull, Links, ChainsCount
    <3> QED BY <1>10, <3>1, <3>2 DEF LinksStay
  <2>2. ASSUME NEW s \in Sites, cache[s] # Null
        PROVE  heap'[cache[s]] = Code(s, 0)
    <3>1. cache[s] \in Cells /\ heap[cache[s]] = Code(s, 0)
      BY <1>2, <2>2 DEF CachesHold, CellsOrNull
    <3>2. heap[cache[s]].kind = "code"
      BY <3>1 DEF Code
    <3> QED BY <1>10, <3>1, <3>2 DEF LinksStay
  <2>3. CASE x.curr # Null
    BY <1>1, <1>2, <1>5, <2>1, <2>2, <2>3 DEF CachesHold
  <2>4. CASE x.curr = Null
    <3>1. /\ root' \in [Sites -> CellsOrNull] /\ root'[x.site] = l
          /\ \A s \in Sites : s # x.site => root'[s] = root[s]
      BY <1>2, <1>3, <1>4, <1>5, <2>4 DEF CellsOrNull
    <3>2. heap'[l].kind = "link" /\ heap'[heap'[l].code] = Code(x.site, 1)
      BY <1>4, <1>6, <1>9, <2>4
    <3> QED BY <1>1, <2>1, <2>2, <3>1, <3>2 DEF CachesHold
  <2> QED BY <2>3, <2>4
<1>13. \A d \in Cells : heap[d].kind \notin {"free", "code", "link"} => heap'[d] = heap[d]
  BY <1>3, <1>4, <1>9 DEF CellsOrNull
<1>14. ASSUME NEW u \in Threads, NEW i \in DOMAIN frames[u]
       PROVE  ScopeIsSound(heap', frames[u][i], i = Len(frames[u]))
  <2>1. ScopeIsSound(heap, frames[u][i], i = Len(frames[u])) /\ frames[u][i] \in Scopes
    BY <1>2, ScopeTypes
  <2>2. Undisturbed(heap, heap', frames[u][i])
    BY <1>2, <1>9, <1>13, <2>1, NewDisturbsNothing
  <2> QED BY <1>2, <1>10, <2>1, <2>2, ScopeKept
<1>15. ScopeIsSound(heap', f, TRUE)
  <2>1. f = frames[t][Len(frames[t])] /\ Len(frames[t]) \in DOMAIN frames[t]
    BY <1>1, InnerFacts DEF f
  <2>2. Undisturbed(heap, heap', f)
    BY <1>1, <1>2, <1>9, <1>13, <2>1, NewDisturbsNothing
  <2> QED BY <1>1, <1>2, <1>10, <2>2, ScopeKept
<1>16. ScopeIsSound(heap', g, TRUE)
  BY <1>1, <1>7, <1>15 DEF ScopeIsSound, HelperFollows, StepMakesSense, LoopHolds, AsksForFirst
<1>17. \A d \in Cells : Inert(heap[d], heap'[d])
  <2> SUFFICES ASSUME NEW d \in Cells PROVE Inert(heap[d], heap'[d])
    OBVIOUS
  <2>1. CASE d \in {c, l}
    BY <1>3, <1>6, <1>9, <2>1 DEF Inert
  <2>2. CASE d = x.curr
    BY <1>4, <1>9, <2>2 DEF Inert, Cells, Null
  <2>3. CASE d \notin {c, l, x.curr}
    BY <1>9, <2>3 DEF Inert, CellsOrNull
  <2> QED BY <2>1, <2>2, <2>3
<1>18. cache' \in [Sites -> CellsOrNull]
  BY <1>1, <1>2
<1> QED BY <1>1, <1>7, <1>9, <1>11, <1>12, <1>14, <1>16, <1>17, <1>18, Rearranged DEF f
-----------------------------------------------------------------------------
(* What a scope lets go of.                                                *)

(* The scope f, its cleanup or one of its loops releases c.                *)
BelongsTo(h, f, c) ==
    \/ c = f.locals
    \/ \E k \in DOMAIN f.cleanup : c \in Takes(h, f.cleanup[k])
    \/ \E k \in DOMAIN f.loops : c \in Takes(h, f.loops[k])

(* A loop that is registered by one scope is not registered by another.    *)
LEMMA LoopsAreTheirOwn ==
    ASSUME NEW h \in Heaps, NEW fr \in Stacks, Shape(h, fr),
           NEW t \in Threads, NEW i \in DOMAIN fr[t], NEW u \in Threads, NEW j \in DOMAIN fr[u],
           ~(t = u /\ i = j),
           NEW k \in DOMAIN fr[t][i].cleanup, NEW m \in DOMAIN fr[u][j].loops
    PROVE  fr[t][i].cleanup[k] # fr[u][j].loops[m]
<1> SUFFICES ASSUME fr[t][i].cleanup[k] = fr[u][j].loops[m] PROVE FALSE
  OBVIOUS
<1>1. ScopeIsLive(h, fr[t][i]) /\ ScopeIsLive(h, fr[u][j])
  BY DEF Shape, RootsAreLive
<1>2. h[fr[u][j].loops[m]].kind = "iterator" /\ ~h[fr[u][j].loops[m]].auto
  BY <1>1 DEF ScopeIsLive
<1>3. PICK l \in DOMAIN fr[u][j].cleanup : fr[u][j].cleanup[l] = fr[u][j].loops[m]
  BY <1>1, <1>2 DEF ScopeIsLive
<1> QED BY <1>3 DEF Shape, RootsDiffer

(* What belongs to one scope is not what another looks at.                 *)
LEMMA ScopesAreApart ==
    ASSUME NEW h \in Heaps, NEW fr \in Stacks, Shape(h, fr),
           NEW t \in Threads, NEW i \in DOMAIN fr[t], NEW u \in Threads, NEW j \in DOMAIN fr[u],
           ~(t = u /\ i = j), NEW c \in Cells, BelongsTo(h, fr[t][i], c)
    PROVE  /\ c # fr[u][j].locals
           /\ \A k \in DOMAIN fr[u][j].cleanup : c # fr[u][j].cleanup[k]
           /\ \A k \in DOMAIN fr[u][j].loops : c # fr[u][j].loops[k] /\ c # h[fr[u][j].loops[k]].curr
<1> DEFINE f == fr[t][i]
           g == fr[u][j]
<1>1. /\ ScopeIsLive(h, f) /\ ScopeIsLive(h, g)
      /\ \A k \in DOMAIN f.cleanup : f.cleanup[k] \in Cells
      /\ \A k \in DOMAIN f.loops : f.loops[k] \in Cells
  BY ScopeTypes DEF Shape, RootsAreLive
<1>2. ASSUME NEW d \in Cells, c \in Owns(h[d])
      PROVE  /\ c # g.locals
             /\ \A k \in DOMAIN g.cleanup : c # g.cleanup[k]
             /\ \A k \in DOMAIN g.loops : c # g.loops[k]
  <2>1. h[c].kind \in {"python", "dict", "item"}
    BY <1>2, OwnedTypes DEF Shape
  <2>2. \A k \in DOMAIN g.loops : c # g.loops[k]
    BY <1>1, <2>1 DEF ScopeIsLive
  <2> QED BY <1>2, <2>2 DEF Shape, OwnedAreNotRoots
<1>3. ASSUME NEW d \in Cells, c \in Owns(h[d]), NEW k \in DOMAIN g.loops, d # g.loops[k]
      PROVE  c # h[g.loops[k]].curr
  <2>0. LoopIsLive(h, g.loops[k])
    BY LoopFacts
  <2>1. /\ g.loops[k] \in Cells
        /\ h[g.loops[k]].curr # Null => h[g.loops[k]].curr \in Owns(h[g.loops[k]])
    <3> HIDE DEF g
    <3> QED BY <2>0 DEF LoopIsLive
  <2>2. c # Null
    BY DEF Cells, Null
  <2>3. Owns(h[d]) \cap Owns(h[g.loops[k]]) = {}
    BY <1>3, <2>1 DEF Shape, OwnersDiffer
  <2> QED BY <1>3, <2>1, <2>2, <2>3
<1>4. ASSUME h[c].kind # "item", NEW k \in DOMAIN g.loops
      PROVE  c # h[g.loops[k]].curr
  <2>0. LoopIsLive(h, g.loops[k])
    BY LoopFacts
  <2>1. h[g.loops[k]].curr # Null => h[h[g.loops[k]].curr].kind = "item"
    <3> HIDE DEF g
    <3> QED BY <2>0 DEF LoopIsLive
  <2> QED BY <1>4, <2>1 DEF Cells, Null
<1>5. CASE c = f.locals
  <2>1. c # g.locals
    BY <1>5 DEF Shape, RootsDiffer
  <2>2. h[c].kind = "dict"
    BY <1>1, <1>5 DEF ScopeIsLive
  <2>3. \A k \in DOMAIN g.cleanup : c # g.cleanup[k]
    BY <1>1, <2>2 DEF ScopeIsLive
  <2>4. \A k \in DOMAIN g.loops : c # g.loops[k]
    BY <1>1, <2>2 DEF ScopeIsLive
  <2> QED BY <1>4, <2>1, <2>2, <2>3, <2>4
<1>6. ASSUME NEW k \in DOMAIN f.cleanup, c \in Takes(h, f.cleanup[k])
      PROVE  /\ c # g.locals
             /\ \A m \in DOMAIN g.cleanup : c # g.cleanup[m]
             /\ \A m \in DOMAIN g.loops : c # g.loops[m] /\ c # h[g.loops[m]].curr
  <2>1. f.cleanup[k] \in Cells /\ \A m \in DOMAIN g.loops : f.cleanup[k] # g.loops[m]
    BY <1>1, LoopsAreTheirOwn
  <2>2. CASE c = f.cleanup[k]
    <3>1. h[c].kind \in {"python", "memory", "if", "iterator"}
      BY <1>1, <2>2 DEF ScopeIsLive
    <3>2. c # g.locals
      BY <1>1, <3>1 DEF ScopeIsLive
    <3>3. \A m \in DOMAIN g.cleanup : c # g.cleanup[m]
      BY <2>2 DEF Shape, RootsDiffer
    <3> QED BY <1>4, <2>1, <2>2, <3>1, <3>2, <3>3
  <2>3. CASE c \in Owns(h[f.cleanup[k]])
    BY <1>2, <1>3, <2>1, <2>3
  <2> QED BY <1>6, <2>2, <2>3 DEF Takes
<1>7. ASSUME NEW k \in DOMAIN f.loops, c \in Takes(h, f.loops[k])
      PROVE  /\ c # g.locals
             /\ \A m \in DOMAIN g.cleanup : c # g.cleanup[m]
             /\ \A m \in DOMAIN g.loops : c # g.loops[m] /\ c # h[g.loops[m]].curr
  <2>1. f.loops[k] \in Cells /\ \A m \in DOMAIN g.loops : f.loops[k] # g.loops[m]
    BY <1>1 DEF Shape, RootsDiffer
  <2>2. CASE c = f.loops[k]
    <3>1. h[c].kind = "iterator"
      BY <1>1, <2>2 DEF ScopeIsLive
    <3>2. c # g.locals
      BY <1>1, <3>1 DEF ScopeIsLive
    <3>3. \A m \in DOMAIN g.cleanup : c # g.cleanup[m]
      BY <2>2, LoopsAreTheirOwn
    <3> QED BY <1>4, <2>1, <2>2, <3>1, <3>2, <3>3
  <2>3. CASE c \in Owns(h[f.loops[k]])
    BY <1>2, <1>3, <2>1, <2>3
  <2> QED BY <1>7, <2>2, <2>3 DEF Takes
<1> QED BY <1>5, <1>6, <1>7 DEF BelongsTo


(* When only what belongs to a scope changes, or was free, the others find *)
(* what they look at as it was.                                            *)
LEMMA OthersAreUndisturbed ==
    ASSUME NEW h \in Heaps, NEW h2, NEW fr \in Stacks, Shape(h, fr), h2[Null] = h[Null],
           NEW t \in Threads, NEW i \in DOMAIN fr[t],
           \A c \in Cells : h[c].kind = "free" \/ h2[c] = h[c] \/ BelongsTo(h, fr[t][i], c),
           NEW u \in Threads, NEW j \in DOMAIN fr[u], ~(t = u /\ i = j),
           HelperFollows(h, fr[u][j])
    PROVE  Undisturbed(h, h2, fr[u][j])
<1> DEFINE g == fr[u][j]
<1>1. g.helper # Null => h2[g.helper] = h[g.helper]
  <2> SUFFICES ASSUME g.helper # Null PROVE h2[g.helper] = h[g.helper]
    OBVIOUS
  <2>1. PICK k \in DOMAIN g.cleanup : g.cleanup[k] = g.helper
    BY DEF HelperFollows
  <2>2. g.helper \in Cells /\ h[g.helper].kind = "if"
    BY <2>1, ScopeTypes DEF HelperFollows
  <2>3. ~BelongsTo(h, fr[t][i], g.helper)
    BY <2>1, <2>2, ScopesAreApart
  <2> QED BY <2>2, <2>3
<1>2. ASSUME NEW k \in DOMAIN g.loops
      PROVE  h2[g.loops[k]] = h[g.loops[k]] /\ h2[h[g.loops[k]].curr] = h[h[g.loops[k]].curr]
  <2>1. /\ g.loops[k] \in Cells /\ h[g.loops[k]].kind = "iterator"
        /\ h[g.loops[k]].curr \in CellsOrNull
        /\ h[g.loops[k]].curr # Null => h[h[g.loops[k]].curr].kind = "item"
    <3>1. LoopIsLive(h, g.loops[k])
      BY LoopFacts
    <3> HIDE DEF g
    <3> QED BY <3>1 DEF LoopIsLive
  <2>2. ~BelongsTo(h, fr[t][i], g.loops[k])
    BY <2>1, ScopesAreApart
  <2>3. h[g.loops[k]].curr # Null => h[g.loops[k]].curr \in Cells
    BY <2>1 DEF CellsOrNull
  <2>4. h[g.loops[k]].curr # Null => ~BelongsTo(h, fr[t][i], h[g.loops[k]].curr)
    BY <2>3, ScopesAreApart
  <2> QED BY <2>1, <2>2, <2>3, <2>4
<1> QED BY <1>1, <1>2 DEF Undisturbed

(* What a helper takes with it: nothing of it is free, compiled code or    *)
(* the rest of a chain.                                                    *)
LEMMA TakesFacts ==
    ASSUME NEW h \in Heaps, IteratorFields(h), NEW d \in Cells,
           h[d].kind \in {"python", "memory", "if", "iterator"}
    PROVE  /\ d \in Takes(h, d) /\ Owns(h[d]) \subseteq Takes(h, d)
           /\ \A c \in Takes(h, d) : /\ c \in Cells
                                     /\ h[c].kind \notin {"free", "code", "link"}
                                     /\ Owns(h[c]) \subseteq Takes(h, d)
<1>1. \A c \in Owns(h[d]) : c \in Cells /\ h[c].kind \in {"python", "dict", "item"}
  BY OwnedTypes
<1>2. \A c \in Owns(h[d]) : Owns(h[c]) = {}
  BY <1>1, OwnedTypes
<1> QED BY <1>1, <1>2 DEF Takes

LEMMA DiscardFacts ==
    ASSUME NEW h \in Heaps, NEW D \in SUBSET Cells, \A c \in D : h[c].kind # "free"
    PROVE  /\ Discard(h, D) \in Heaps
           /\ \A c \in D : Discard(h, D)[c] = Free
           /\ \A c \in CellsOrNull \ D : Discard(h, D)[c] = h[c]
           /\ Discard(h, D)[Null] = h[Null]
<1>1. DOMAIN h = CellsOrNull /\ Null \in CellsOrNull /\ Null \notin D /\ Cells \subseteq CellsOrNull
  BY DEF Heaps, CellsOrNull, Cells, Null
<1>2. \A c \in D : h[c] # Free
  BY DEF Free
<1>3. Discard(h, D) = [c \in CellsOrNull |-> IF c \in D THEN Free ELSE h[c]]
  BY <1>1, <1>2 DEF Discard
<1>4. Free \in Objects
  BY DEF Free, Objects
<1> QED BY <1>1, <1>3, <1>4 DEF Heaps

(* No two of what a scope destroys take the same with them.                *)
LEMMA CleanupsDiffer ==
    ASSUME NEW h \in Heaps, NEW fr \in Stacks, Shape(h, fr), NEW t \in Threads, NEW i \in DOMAIN fr[t],
           NEW j \in DOMAIN fr[t][i].cleanup, NEW k \in DOMAIN fr[t][i].cleanup, j # k
    PROVE  Takes(h, fr[t][i].cleanup[j]) \cap Takes(h, fr[t][i].cleanup[k]) = {}
<1> DEFINE a == fr[t][i].cleanup[j]
           b == fr[t][i].cleanup[k]
<1>1. a \in Cells /\ b \in Cells
  BY ScopeTypes
<1>2. a # b
  BY DEF Shape, RootsDiffer
<1>3. Owns(h[a]) \cap Owns(h[b]) = {}
  BY <1>1, <1>2 DEF Shape, OwnersDiffer
<1>4. a \notin Owns(h[b]) /\ b \notin Owns(h[a])
  BY <1>1 DEF Shape, OwnedAreNotRoots
<1> QED BY <1>2, <1>3, <1>4 DEF Takes

(* Everything that is registered for cleanup is destroyed, once.           *)
Registers(h, f) == UNION {Takes(h, f.cleanup[k]) : k \in DOMAIN f.cleanup}

(* The set D is of one scope, and has no compiled code.                    *)
IsPartOf(h, f, D) ==
    /\ D \in SUBSET Cells
    /\ \A c \in D : h[c].kind \notin {"free", "code", "link"} /\ BelongsTo(h, f, c)

LEMMA CleanAllFacts ==
    ASSUME NEW h \in Heaps, NEW fr \in Stacks, Shape(h, fr), NEW t \in Threads, NEW i \in DOMAIN fr[t]
    PROVE  /\ CleanAll(h, fr[t][i].cleanup) = Discard(h, Registers(h, fr[t][i]))
           /\ IsPartOf(h, fr[t][i], Registers(h, fr[t][i]))
           /\ Closed(h, Registers(h, fr[t][i]))
           /\ \A k \in DOMAIN fr[t][i].cleanup : fr[t][i].cleanup[k] \in Registers(h, fr[t][i])
           /\ fr[t][i].locals \notin Registers(h, fr[t][i])
<1> DEFINE D == Registers(h, fr[t][i])
<1> DEFINE s == fr[t][i].cleanup
<1>1. ScopeIsLive(h, fr[t][i]) /\ \A k \in DOMAIN s : s[k] \in Cells
  BY ScopeTypes DEF Shape, RootsAreLive
<1>2. \A c : c \in D <=> \E k \in DOMAIN s : c \in Takes(h, s[k])
  BY DEF Registers
<1>3. \A j, k \in DOMAIN s : j # k => Takes(h, s[j]) \cap Takes(h, s[k]) = {}
  BY CleanupsDiffer
<1>4. CleanAll(h, s) = Discard(h, D)
  BY <1>3 DEF CleanAll, Registers
<1> HIDE DEF D
<1>5. ASSUME NEW k \in DOMAIN s
      PROVE  /\ s[k] \in Takes(h, s[k]) /\ Owns(h[s[k]]) \subseteq Takes(h, s[k])
             /\ \A c \in Takes(h, s[k]) : /\ c \in Cells
                                          /\ h[c].kind \notin {"free", "code", "link"}
                                          /\ Owns(h[c]) \subseteq Takes(h, s[k])
  <2>1. s[k] \in Cells /\ h[s[k]].kind \in {"python", "memory", "if", "iterator"}
    BY <1>1 DEF ScopeIsLive
  <2> QED BY <2>1, TakesFacts DEF Shape
<1>6. \A c \in D : h[c].kind \notin {"free", "code", "link"} /\ BelongsTo(h, fr[t][i], c) /\ c \in Cells
  BY <1>2, <1>5 DEF BelongsTo
<1>7. \A d \in D : Owns(h[d]) \subseteq D
  BY <1>2, <1>5
<1>8. ASSUME NEW d \in Cells \ D, NEW c \in Owns(h[d]), c \in D
      PROVE  FALSE
  <2>1. PICK k \in DOMAIN s : c \in Takes(h, s[k])
    BY <1>2, <1>8
  <2>2. s[k] \in D /\ s[k] \in Cells /\ d # s[k]
    BY <1>2, <1>5, <1>6, <1>8
  <2>3. CASE c = s[k]
    BY <1>8, <2>3 DEF Shape, OwnedAreNotRoots
  <2>4. CASE c \in Owns(h[s[k]])
    BY <1>8, <2>2, <2>4 DEF Shape, OwnersDiffer
  <2> QED BY <2>1, <2>3, <2>4 DEF Takes
<1>9. fr[t][i].locals \notin D
  <2> SUFFICES ASSUME NEW k \in DOMAIN s, fr[t][i].locals \in Takes(h, s[k])
               PROVE  FALSE
    BY <1>2
  <2>1. fr[t][i].locals # s[k]
    BY <1>1 DEF ScopeIsLive
  <2>2. fr[t][i].locals \notin Owns(h[s[k]])
    BY <1>1 DEF Shape, OwnedAreNotRoots
  <2> QED BY <2>1, <2>2 DEF Takes
<1>10. \A k \in DOMAIN s : s[k] \in D
  BY <1>2, <1>5
<1>11. D \in SUBSET Cells
  BY <1>6
<1>12. Closed(h, D) /\ IsPartOf(h, fr[t][i], D)
  BY <1>6, <1>7, <1>8, <1>11 DEF Closed, IsPartOf
<1> QED BY <1>4, <1>9, <1>10, <1>12 DEF D

LEMMA OthersKeepTheirs ==
    ASSUME NEW h \in Heaps, NEW fr \in Stacks, Shape(h, fr),
           NEW t \in Threads, NEW i \in DOMAIN fr[t], NEW D, IsPartOf(h, fr[t][i], D),
           NEW u \in Threads, NEW j \in DOMAIN fr[u], ~(t = u /\ i = j)
    PROVE  KeepsClear(fr[u][j], D)
<1>1. \A c \in D : c \in Cells /\ BelongsTo(h, fr[t][i], c)
  BY DEF IsPartOf
<1> QED BY <1>1, ScopesAreApart DEF KeepsClear

(* The innermost scope of t lets go of D, all that is its own and no       *)
(* compiled code: what is not of its shape.                                *)
LEMMA LetGo ==
    ASSUME IInv, NEW t \in Threads, frames[t] # <<>>,
           NEW D, IsPartOf(heap, Inner(t), D), heap' = Discard(heap, D)
    PROVE  /\ heap' \in Heaps /\ NothingReleasedTwice' /\ Freed(heap, heap', D)
           /\ SameCode(heap, heap')
           /\ CachesHold(heap', cache, root) /\ ChainsCount(heap')
           /\ \A u \in Threads : \A i \in DOMAIN frames[u] :
                \/ u = t /\ i = Len(frames[t])
                \/ ScopeIsSound(heap', frames[u][i], i = Len(frames[u]))
<1>1. /\ heap \in Heaps /\ frames \in Stacks /\ Shape(heap, frames) /\ TypeOK
      /\ cache \in [Sites -> CellsOrNull] /\ root \in [Sites -> CellsOrNull]
      /\ CachesHold(heap, cache, root) /\ ChainsCount(heap)
  BY DEF IInv, TypeOK
<1>2. Len(frames[t]) \in DOMAIN frames[t] /\ Inner(t) = frames[t][Len(frames[t])]
  BY <1>1, InnerFacts
<1>3. /\ heap' \in Heaps /\ heap'[Null] = heap[Null]
      /\ \A c \in D : heap'[c] = Free
      /\ \A c \in CellsOrNull \ D : heap'[c] = heap[c]
  <2>1. D \in SUBSET Cells /\ \A c \in D : heap[c].kind # "free"
    BY DEF IsPartOf
  <2> QED BY <1>1, <2>1, DiscardFacts
<1>4. \A c \in Cells : heap'[c] = IF c \in D THEN Free ELSE heap[c]
  BY <1>3 DEF CellsOrNull
<1>5. CodeStays(heap, heap') /\ LinksStay(heap, heap') /\ SameCode(heap, heap')
  BY <1>4 DEF CodeStays, LinksStay, SameCode, Free, IsPartOf
<1>6. CachesHold(heap', cache, root) /\ ChainsCount(heap')
  BY <1>1, <1>5, CodeKept
<1>7. ASSUME NEW u \in Threads, NEW i \in DOMAIN frames[u], ~(t = u /\ i = Len(frames[t]))
      PROVE  ScopeIsSound(heap', frames[u][i], i = Len(frames[u]))
  <2>1. ScopeIsSound(heap, frames[u][i], i = Len(frames[u])) /\ frames[u][i] \in Scopes
    BY <1>1, ScopeTypes DEF IInv, ScopesAreSound
  <2>2. HelperFollows(heap, frames[u][i])
    BY <2>1 DEF ScopeIsSound
  <2>3. Undisturbed(heap, heap', frames[u][i])
    <3>1. \A c \in Cells : heap[c].kind = "free" \/ heap'[c] = heap[c]
            \/ BelongsTo(heap, frames[t][Len(frames[t])], c)
      BY <1>2, <1>4 DEF IsPartOf
    <3> QED BY <1>1, <1>2, <1>3, <1>7, <2>2, <3>1, OthersAreUndisturbed
  <2> QED BY <1>1, <1>5, <2>1, <2>3, ScopeKept
<1>8. NothingReleasedTwice'
  BY <1>3 DEF IInv, NothingReleasedTwice
<1> QED BY <1>3, <1>4, <1>5, <1>6, <1>7, <1>8 DEF Freed

LEMMA CleanNowStep ==
    ASSUME IInv, NEW t \in Threads, CleanNow(t)
    PROVE  IInv' /\ SameCode(heap, heap')
<1> DEFINE f == Inner(t)
           n == Len(frames[t])
           g == [f EXCEPT !.cleanup = <<>>]
           D == Registers(heap, f)
<1>1. /\ TypeOK /\ heap \in Heaps /\ frames \in Stacks /\ Shape(heap, frames)
      /\ frames[t] # <<>> /\ f.step = "body" /\ f.helper = Null /\ f.loops = <<>>
      /\ heap' = CleanAll(heap, f.cleanup) /\ Becomes(t, g) /\ cache' = cache /\ root' = root
  BY DEF IInv, TypeOK, CleanNow, InBody
<1>2. n \in DOMAIN frames[t] /\ f = frames[t][n] /\ f \in Scopes
  BY <1>1, InnerFacts
<1>3. /\ heap' = Discard(heap, D)
      /\ IsPartOf(heap, f, D) /\ Closed(heap, D)
      /\ \A k \in DOMAIN f.cleanup : f.cleanup[k] \in D
      /\ f.locals \notin D
  BY <1>1, <1>2, CleanAllFacts
<1>4. /\ g \in Scopes /\ g.locals = f.locals /\ g.cleanup = <<>> /\ g.loops = <<>>
      /\ g.helper = Null /\ g.step = "body"
  BY <1>1, <1>2 DEF Scopes
<1> HIDE DEF D, f, g, n
<1>5. /\ frames' \in Stacks /\ SameElsewhere(frames, frames', t, n) /\ frames'[t][n] = g
      /\ \A u \in Threads : Len(frames'[u]) = Len(frames[u])
  BY <1>1, <1>4, BecomesFacts DEF n
<1>6. /\ heap' \in Heaps /\ NothingReleasedTwice' /\ Freed(heap, heap', D) /\ SameCode(heap, heap')
      /\ CachesHold(heap', cache, root) /\ ChainsCount(heap')
      /\ \A u \in Threads : \A i \in DOMAIN frames[u] :
            \/ u = t /\ i = Len(frames[t])
            \/ ScopeIsSound(heap', frames[u][i], i = Len(frames[u]))
  BY <1>1, <1>3, LetGo DEF f
<1>7. \A u \in Threads : DOMAIN frames'[u] = DOMAIN frames[u]
  BY <1>5 DEF SameElsewhere
<1>8. ASSUME NEW u \in Threads, NEW i \in DOMAIN frames[u]
      PROVE  /\ Less(frames[u][i], frames'[u][i]) /\ KeepsClear(frames'[u][i], D)
             /\ \A c \in Cells \ D : Roots(heap, frames[u][i], c) => Roots(heap, frames'[u][i], c)
  <2>1. CASE u = t /\ i = n
    <3>1. frames'[u][i] = g /\ frames[u][i] = f
      BY <1>2, <1>5, <2>1
    <3>2. \A c \in Cells \ D : Roots(heap, f, c) => Roots(heap, g, c)
      BY <1>1, <1>3, <1>4 DEF Roots
    <3>3. Less(f, g) /\ KeepsClear(g, D)
      BY <1>3, <1>4 DEF Less, KeepsClear
    <3> QED BY <3>1, <3>2, <3>3
  <2>2. CASE ~(t = u /\ n = i)
    <3>1. frames'[u][i] = frames[u][i]
      BY <1>5, <2>2 DEF SameElsewhere
    <3>2. KeepsClear(frames[u][i], D)
      BY <1>1, <1>2, <1>3, <2>2, OthersKeepTheirs
    <3> QED BY <3>1, <3>2 DEF Less
  <2> QED BY <2>1, <2>2
<1>9. Shape(heap', frames')
  <2>1. Forget(heap, frames, frames', D)
    BY <1>7, <1>8 DEF Forget
  <2> QED BY <1>1, <1>3, <1>6, <2>1, ShapeShrinks
<1>10. ScopeIsSound(heap', g, TRUE)
  BY <1>4 DEF ScopeIsSound, HelperFollows, StepMakesSense
<1>11. ScopesAreSound(heap', frames')
  BY <1>1, <1>5, <1>6, <1>10, OthersAreSound DEF n
<1>12. TypeOK'
  BY <1>1, <1>5, <1>6 DEF TypeOK
<1> QED BY <1>1, <1>6, <1>9, <1>11, <1>12 DEF IInv


LEMMA CleanupStep ==
    ASSUME IInv, NEW t \in Threads, Cleanup(t)
    PROVE  IInv' /\ SameCode(heap, heap')
<1> DEFINE f == Inner(t)
           n == Len(frames[t])
           A == Registers(heap, f)
           D == A \cup {f.locals}
<1>1. /\ TypeOK /\ heap \in Heaps /\ frames \in Stacks /\ Shape(heap, frames)
      /\ frames[t] # <<>> /\ f.step = "body" /\ f.helper = Null
      /\ \A j \in DOMAIN f.loops : ~heap[f.loops[j]].auto
      /\ heap' = Discard(CleanAll(heap, f.cleanup), {f.locals})
      /\ frames' = [frames EXCEPT ![t] = Front(@)] /\ cache' = cache /\ root' = root
  BY DEF IInv, TypeOK, Cleanup, InBody
<1>2. n \in DOMAIN frames[t] /\ f = frames[t][n] /\ f \in Scopes /\ n \in Nat \ {0}
  BY <1>1, InnerFacts
<1>3. /\ CleanAll(heap, f.cleanup) = Discard(heap, A)
      /\ IsPartOf(heap, f, A) /\ Closed(heap, A)
      /\ \A k \in DOMAIN f.cleanup : f.cleanup[k] \in A
      /\ f.locals \notin A
  BY <1>1, <1>2, CleanAllFacts
<1>4. f.locals \in Cells /\ heap[f.locals].kind = "dict" /\ heap[f.locals] # Free
  <2>1. ScopeIsLive(heap, f)
    BY <1>1, <1>2 DEF Shape, RootsAreLive
  <2>2. f.locals \in Cells
    BY <1>2 DEF Scopes
  <2> HIDE DEF f
  <2> QED BY <2>1, <2>2 DEF ScopeIsLive, Free
<1> HIDE DEF A, f, n
<1>5. heap' = Discard(heap, D)
  <2>1. A \in SUBSET Cells /\ \A c \in A : heap[c].kind # "free" /\ heap[c] # Free
    BY <1>3 DEF IsPartOf, Free
  <2>2. /\ Discard(heap, A) = [c \in DOMAIN heap |-> IF c \in A THEN Free ELSE heap[c]]
        /\ Discard(heap, D) = [c \in DOMAIN heap |-> IF c \in D THEN Free ELSE heap[c]]
    BY <1>4, <2>1 DEF Discard
  <2>3. Discard(heap, A)[f.locals] # Free /\ DOMAIN Discard(heap, A) = DOMAIN heap
    BY <1>1, <1>3, <1>4, <2>2 DEF Heaps, CellsOrNull
  <2>4. Discard(Discard(heap, A), {f.locals})
          = [c \in DOMAIN heap |-> IF c \in {f.locals} THEN Free ELSE Discard(heap, A)[c]]
    BY <2>3 DEF Discard
  <2> QED BY <1>1, <1>3, <2>2, <2>4
<1>6. IsPartOf(heap, f, D)
  BY <1>3, <1>4 DEF IsPartOf, BelongsTo
<1>7. Closed(heap, D)
  <2>1. Owns(heap[f.locals]) = {}
    BY <1>4 DEF Owns
  <2>2. \A d \in Cells : f.locals \notin Owns(heap[d])
    BY <1>1, <1>2 DEF Shape, OwnedAreNotRoots
  <2> QED BY <1>3, <1>4, <2>1, <2>2 DEF Closed
<1> HIDE DEF D
<1>8. /\ heap' \in Heaps /\ NothingReleasedTwice' /\ Freed(heap, heap', D) /\ SameCode(heap, heap')
      /\ CachesHold(heap', cache, root) /\ ChainsCount(heap')
      /\ \A u \in Threads : \A i \in DOMAIN frames[u] :
            \/ u = t /\ i = Len(frames[t])
            \/ ScopeIsSound(heap', frames[u][i], i = Len(frames[u]))
  BY <1>1, <1>5, <1>6, LetGo DEF f
<1>9. /\ frames' \in Stacks
      /\ \A u \in Threads : u # t => frames'[u] = frames[u]
      /\ frames'[t] = Front(frames[t])
      /\ DOMAIN frames'[t] = DOMAIN frames[t] \ {n} /\ Len(frames'[t]) = n - 1
      /\ \A i \in DOMAIN frames'[t] : frames'[t][i] = frames[t][i]
  <2>1. frames[t] \in Seq(Scopes) /\ frames \in [Threads -> Seq(Scopes)]
    BY <1>1 DEF Stacks
  <2>2. /\ Front(frames[t]) \in Seq(Scopes) /\ Len(Front(frames[t])) = n - 1
        /\ DOMAIN Front(frames[t]) = DOMAIN frames[t] \ {n}
        /\ \A i \in DOMAIN frames[t] \ {n} : Front(frames[t])[i] = frames[t][i]
    BY <1>1, <2>1, FrontFacts DEF n
  <2>3. /\ frames'[t] = Front(frames[t]) /\ frames' \in [Threads -> Seq(Scopes)]
        /\ \A u \in Threads : u # t => frames'[u] = frames[u]
    BY <1>1, <2>1, <2>2
  <2> QED BY <2>2, <2>3 DEF Stacks
<1>10. \A u \in Threads : /\ DOMAIN frames'[u] \subseteq DOMAIN frames[u]
                          /\ \A i \in DOMAIN frames'[u] : /\ frames'[u][i] = frames[u][i]
                                                          /\ ~(t = u /\ n = i)
                          /\ \A i \in DOMAIN frames[u] :
                                (i \in DOMAIN frames'[u] /\ frames'[u][i] = frames[u][i]) \/ (t = u /\ n = i)
  BY <1>9
<1>11. Shape(heap', frames')
  <2>1. \A c \in Cells \ D : ~Roots(heap, f, c)
    BY <1>1, <1>3 DEF Roots, D
  <2>2. ASSUME NEW u \in Threads, NEW i \in DOMAIN frames'[u]
        PROVE  Less(frames[u][i], frames'[u][i]) /\ KeepsClear(frames'[u][i], D)
    <3>1. i \in DOMAIN frames[u] /\ frames'[u][i] = frames[u][i] /\ ~(t = u /\ n = i)
      BY <1>10
    <3>2. KeepsClear(frames[u][i], D)
      BY <1>1, <1>2, <1>6, <3>1, OthersKeepTheirs
    <3> QED BY <3>1, <3>2 DEF Less
  <2>3. ASSUME NEW u \in Threads, NEW i \in DOMAIN frames[u], NEW c \in Cells \ D, Roots(heap, frames[u][i], c)
        PROVE  i \in DOMAIN frames'[u] /\ Roots(heap, frames'[u][i], c)
    BY <1>2, <1>10, <2>1, <2>3
  <2>4. Forget(heap, frames, frames', D)
    BY <1>10, <2>2, <2>3 DEF Forget
  <2> QED BY <1>1, <1>7, <1>8, <2>4, ShapeShrinks
<1>12. ScopesAreSound(heap', frames')
  <2> SUFFICES ASSUME NEW u \in Threads, NEW i \in DOMAIN frames'[u]
               PROVE  ScopeIsSound(heap', frames'[u][i], i = Len(frames'[u]))
    BY DEF ScopesAreSound
  <2>1. /\ i \in DOMAIN frames[u] /\ frames'[u][i] = frames[u][i] /\ ~(u = t /\ i = n)
        /\ ScopeIsSound(heap', frames[u][i], i = Len(frames[u]))
    BY <1>8, <1>10 DEF n
  <2>2. CASE u # t
    BY <1>9, <2>1, <2>2
  <2>3. CASE u = t
    <3>1. ScopeIsSound(heap', frames'[u][i], FALSE)
      <4>1. i # Len(frames[u])
        BY <2>1, <2>3 DEF n
      <4> QED BY <2>1, <4>1
    <3> QED BY <3>1 DEF ScopeIsSound, StepMakesSense
  <2> QED BY <2>2, <2>3
<1>13. TypeOK'
  BY <1>1, <1>8, <1>9 DEF TypeOK
<1> QED BY <1>1, <1>8, <1>11, <1>12, <1>13 DEF IInv

-----------------------------------------------------------------------------
(* The loops.                                                              *)

LoopStays(h, h2, c) == h2[c] = h[c] /\ h2[h[c].curr] = h[h[c].curr]

LEMMA OtherLoopsAreUndisturbed ==
    ASSUME NEW h \in Heaps, NEW h2, NEW fr \in Stacks, Shape(h, fr), h2[Null] = h[Null],
           NEW t \in Threads, NEW i \in DOMAIN fr[t], NEW j \in DOMAIN fr[t][i].loops,
           \A c \in Cells : h[c].kind = "free" \/ h2[c] = h[c] \/ c \in Takes(h, fr[t][i].loops[j]),
           NEW k \in DOMAIN fr[t][i].loops, k # j
    PROVE  LoopStays(h, h2, fr[t][i].loops[k])
<1> DEFINE a == fr[t][i].loops[j]
           b == fr[t][i].loops[k]
<1>0. LoopIsLive(h, a) /\ LoopIsLive(h, b)
  BY LoopFacts
<1>1. a \in Cells /\ b \in Cells /\ h[a].kind = "iterator" /\ h[b].kind = "iterator"
  <2> HIDE DEF a, b
  <2> QED BY <1>0 DEF LoopIsLive
<1>2. a # b
  BY DEF Shape, RootsDiffer
<1>3. /\ h[b].curr \in CellsOrNull
      /\ h[b].curr # Null => h[h[b].curr].kind = "item" /\ h[b].curr \in Owns(h[b])
  <2> HIDE DEF a, b
  <2> QED BY <1>0 DEF LoopIsLive
<1>4. b \notin Takes(h, a)
  <2>1. \A c \in Owns(h[a]) : h[c].kind \in {"python", "dict", "item"}
    BY <1>1, OwnedTypes DEF Shape
  <2> QED BY <1>1, <1>2, <2>1 DEF Takes
<1>5. h[b].curr # Null => h[b].curr \notin Takes(h, a)
  <2>1. Owns(h[a]) \cap Owns(h[b]) = {}
    BY <1>1, <1>2 DEF Shape, OwnersDiffer
  <2>2. h[b].curr # Null => h[b].curr # a
    BY <1>1, <1>3
  <2> QED BY <1>3, <2>1, <2>2 DEF Takes
<1> HIDE DEF a
<1>6. \A c \in Cells : h[c].kind = "free" \/ h2[c] = h[c] \/ c \in Takes(h, a)
  BY DEF a
<1> HIDE DEF b
<1>7. h2[b] = h[b]
  BY <1>1, <1>4, <1>6
<1>8. h2[h[b].curr] = h[h[b].curr]
  BY <1>3, <1>5, <1>6 DEF CellsOrNull
<1> QED BY <1>7, <1>8 DEF LoopStays, b

(* The loop a thread is in.                                                *)
LEMMA InnerLoop ==
    ASSUME IInv, NEW t \in Threads, frames[t] # <<>>, Inner(t).loops # <<>>
    PROVE  /\ Inner(t) = frames[t][Len(frames[t])] /\ Len(frames[t]) \in DOMAIN frames[t]
           /\ Inner(t) \in Scopes /\ ScopeIsSound(heap, Inner(t), TRUE)
           /\ Len(Inner(t).loops) \in Nat \ {0} /\ Len(Inner(t).loops) \in DOMAIN Inner(t).loops
           /\ Loop(t) = Inner(t).loops[Len(Inner(t).loops)]
           /\ Loop(t) \in Cells /\ heap[Loop(t)].kind = "iterator"
           /\ LoopHolds(heap, Inner(t), Len(Inner(t).loops))
<1>1. /\ Inner(t) = frames[t][Len(frames[t])] /\ Len(frames[t]) \in DOMAIN frames[t]
      /\ Inner(t) \in Scopes /\ ScopeIsSound(heap, Inner(t), TRUE)
  BY InnerFacts, InnerIsSound DEF IInv
<1>2. Inner(t).loops \in Seq(Cells)
  BY <1>1 DEF Scopes
<1>3. /\ Len(Inner(t).loops) \in Nat \ {0} /\ Len(Inner(t).loops) \in DOMAIN Inner(t).loops
      /\ Loop(t) = Inner(t).loops[Len(Inner(t).loops)] /\ Loop(t) \in Cells
  BY <1>2, FrontFacts DEF Loop
<1>4. heap \in Heaps /\ frames \in Stacks /\ Shape(heap, frames)
  BY DEF IInv, TypeOK
<1>5. heap[Loop(t)].kind = "iterator"
  <2>1. LoopIsLive(heap, Loop(t))
    BY <1>1, <1>3, <1>4, LoopFacts
  <2> QED BY <2>1 DEF LoopIsLive
<1>6. LoopHolds(heap, Inner(t), Len(Inner(t).loops))
  BY <1>1, <1>3 DEF ScopeIsSound
<1> QED BY <1>1, <1>3, <1>5, <1>6

(* The innermost loop of t moves on, or ends.                              *)
LEMMA LoopMoves ==
    ASSUME IInv, NEW t \in Threads, frames[t] # <<>>, Inner(t).loops # <<>>,
           heap' \in Heaps, heap'[Null] = heap[Null],
           \A c \in Cells : heap[c].kind = "free" \/ heap'[c] = heap[c] \/ c \in Takes(heap, Loop(t)),
           \A c \in Cells : heap'[c].kind \in {"code", "link"} => heap'[c] = heap[c],
           NEW g \in Scopes, Becomes(t, g), g.helper = Null, g.step = "body",
           \A k \in DOMAIN g.loops :
                \/ LoopHolds(heap', g, k)
                \/ k \in DOMAIN Inner(t).loops /\ k # Len(Inner(t).loops) /\ g.loops[k] = Inner(t).loops[k],
           UNCHANGED <<cache, root>>, Shape(heap', frames')
    PROVE  IInv' /\ SameCode(heap, heap')
<1> DEFINE f == Inner(t)
           n == Len(frames[t])
           L == Loop(t)
           j == Len(f.loops)
<1>1. /\ f = frames[t][n] /\ n \in DOMAIN frames[t]
      /\ f \in Scopes /\ ScopeIsSound(heap, f, TRUE)
      /\ j \in DOMAIN f.loops /\ L = f.loops[j] /\ L \in Cells /\ heap[L].kind = "iterator"
  BY InnerLoop
<1>2. /\ TypeOK /\ heap \in Heaps /\ frames \in Stacks /\ Shape(heap, frames)
      /\ cache \in [Sites -> CellsOrNull] /\ root \in [Sites -> CellsOrNull]
      /\ CachesHold(heap, cache, root) /\ ChainsCount(heap)
  BY DEF IInv, TypeOK
<1> HIDE DEF f, n, L, j
<1>3. \A c \in Cells : heap[c].kind = "free" \/ heap'[c] = heap[c] \/ c \in Takes(heap, L)
  BY DEF L
<1>4. \A c \in Takes(heap, L) : c \in Cells /\ heap[c].kind \notin {"free", "code", "link"}
  BY <1>1, <1>2, TakesFacts DEF Shape
<1>5. CodeStays(heap, heap') /\ LinksStay(heap, heap') /\ SameCode(heap, heap')
  BY <1>3, <1>4 DEF CodeStays, LinksStay, SameCode
<1>6. CachesHold(heap', cache, root) /\ ChainsCount(heap')
  BY <1>2, <1>5, CodeKept
<1>7. \A c \in Cells : heap[c].kind = "free" \/ heap'[c] = heap[c] \/ BelongsTo(heap, frames[t][n], c)
  <2>1. \A c \in Takes(heap, L) : BelongsTo(heap, f, c)
    BY <1>1 DEF BelongsTo
  <2> QED BY <1>1, <1>3, <2>1
<1>8. ASSUME NEW u \in Threads, NEW i \in DOMAIN frames[u], ~(t = u /\ n = i)
      PROVE  ScopeIsSound(heap', frames[u][i], i = Len(frames[u]))
  <2>1. ScopeIsSound(heap, frames[u][i], i = Len(frames[u])) /\ frames[u][i] \in Scopes
    BY <1>2, ScopeTypes DEF IInv, ScopesAreSound
  <2>2. HelperFollows(heap, frames[u][i])
    BY <2>1 DEF ScopeIsSound
  <2>3. Undisturbed(heap, heap', frames[u][i])
    BY <1>1, <1>2, <1>7, <1>8, <2>2, OthersAreUndisturbed
  <2> QED BY <1>2, <1>5, <2>1, <2>3, ScopeKept
<1>9. ASSUME NEW k \in DOMAIN g.loops
      PROVE  LoopHolds(heap', g, k)
  <2> SUFFICES ASSUME k \in DOMAIN f.loops, k # j, g.loops[k] = f.loops[k]
               PROVE  LoopHolds(heap', g, k)
    BY DEF f, j
  <2>1. /\ heap'[f.loops[k]] = heap[f.loops[k]]
        /\ heap'[heap[f.loops[k]].curr] = heap[heap[f.loops[k]].curr]
    <3>1. \A c \in Cells : heap[c].kind = "free" \/ heap'[c] = heap[c]
                \/ c \in Takes(heap, frames[t][n].loops[j])
      BY <1>1, <1>3
    <3>2. LoopStays(heap, heap', frames[t][n].loops[k])
      BY <1>1, <1>2, <3>1, OtherLoopsAreUndisturbed
    <3> QED BY <1>1, <3>2 DEF LoopStays
  <2>2. LoopHolds(heap, f, k) /\ ~AsksForFirst(f, k) /\ ~AsksForFirst(g, k)
    BY <1>1 DEF ScopeIsSound, AsksForFirst, j
  <2> QED BY <2>1, <2>2 DEF LoopHolds
<1>10. ScopeIsSound(heap', g, TRUE)
  BY <1>9 DEF ScopeIsSound, HelperFollows, StepMakesSense
<1>11. /\ frames' \in Stacks /\ SameElsewhere(frames, frames', t, n) /\ frames'[t][n] = g
       /\ \A u \in Threads : Len(frames'[u]) = Len(frames[u])
  BY <1>2, BecomesFacts DEF n
<1>12. ScopesAreSound(heap', frames')
  BY <1>2, <1>8, <1>10, <1>11, OthersAreSound DEF n
<1>13. TypeOK' /\ NothingReleasedTwice'
  BY <1>2, <1>11 DEF TypeOK, NothingReleasedTwice, IInv
<1> QED BY <1>5, <1>6, <1>12, <1>13 DEF IInv

(* A loop is left: a helper that destroys itself is destroyed.             *)
LEMMA LoopLeft ==
    ASSUME TypeOK, NEW h \in Heaps, Shape(h, frames),
           NEW t \in Threads, frames[t] # <<>>, Inner(t).loops # <<>>,
           heap' = IF h[Loop(t)].auto THEN Destroy(h, Loop(t)) ELSE h,
           NEW g \in Scopes, Becomes(t, g), g.locals = Inner(t).locals,
           g.cleanup = Inner(t).cleanup, g.loops = Front(Inner(t).loops)
    PROVE  /\ Shape(heap', frames') /\ heap' \in Heaps /\ heap'[Null] = h[Null]
           /\ \A c \in Cells : \/ heap'[c] = h[c]
                               \/ heap'[c] = Free /\ c \in Takes(h, Loop(t))
<1> DEFINE f == Inner(t)
           n == Len(frames[t])
           L == Loop(t)
           j == Len(f.loops)
           D == IF h[L].auto THEN Takes(h, L) ELSE {}
<1>1. n \in DOMAIN frames[t] /\ f = frames[t][n] /\ f \in Scopes /\ frames \in Stacks
  BY InnerFacts DEF TypeOK
<1>2. /\ j \in DOMAIN f.loops /\ L = f.loops[j]
      /\ DOMAIN g.loops = DOMAIN f.loops \ {j}
      /\ \A k \in DOMAIN g.loops : g.loops[k] = f.loops[k]
  <2>1. f.loops \in Seq(Cells)
    BY <1>1 DEF Scopes
  <2>2. /\ Len(f.loops) \in DOMAIN f.loops /\ Last(f.loops) = f.loops[Len(f.loops)]
        /\ DOMAIN Front(f.loops) = DOMAIN f.loops \ {Len(f.loops)}
        /\ \A k \in DOMAIN f.loops \ {Len(f.loops)} : Front(f.loops)[k] = f.loops[k]
    <3> HIDE DEF f
    <3>1. f.loops # <<>>
      BY DEF f
    <3> QED BY <2>1, <3>1, FrontFacts
  <2>3. g.loops = Front(f.loops) /\ L = Last(f.loops)
    BY DEF Loop
  <2> HIDE DEF f, L
  <2> QED BY <2>2, <2>3
<1>3. /\ frames' \in Stacks /\ SameElsewhere(frames, frames', t, n) /\ frames'[t][n] = g
  BY BecomesFacts
<1> HIDE DEF f, n, L, j
<1>4. heap' = IF h[L].auto THEN Destroy(h, L) ELSE h
  BY DEF L
<1>5. g.locals = f.locals /\ g.cleanup = f.cleanup
  BY DEF f
<1>6. L \in Cells /\ h[L].kind = "iterator" /\ ScopeIsLive(h, f)
  <2>1. LoopIsLive(h, L)
    BY <1>1, <1>2, LoopFacts
  <2> QED BY <2>1, <1>1, <1>2 DEF LoopIsLive, Shape, RootsAreLive
<1>7. /\ L \in Takes(h, L) /\ Owns(h[L]) \subseteq Takes(h, L)
      /\ \A c \in Takes(h, L) : /\ c \in Cells
                                /\ h[c].kind \notin {"free", "code", "link"}
                                /\ Owns(h[c]) \subseteq Takes(h, L)
  BY <1>6, TakesFacts DEF Shape
<1>8. D \in SUBSET Cells /\ \A c \in D : c \in Takes(h, L) /\ h[c].kind \notin {"free", "code", "link"}
  BY <1>7
<1>9. /\ heap' \in Heaps /\ heap'[Null] = h[Null] /\ Freed(h, heap', D)
  <2>1. CASE h[L].auto
    <3>1. heap' = Discard(h, D)
      BY <1>4, <2>1 DEF Destroy
    <3> HIDE DEF D
    <3>2. /\ Discard(h, D) \in Heaps
          /\ \A c \in D : Discard(h, D)[c] = Free
          /\ \A c \in CellsOrNull \ D : Discard(h, D)[c] = h[c]
          /\ Discard(h, D)[Null] = h[Null]
      BY <1>8, DiscardFacts
    <3> QED BY <3>1, <3>2 DEF Freed, CellsOrNull
  <2>2. CASE ~h[L].auto
    BY <1>4, <2>2 DEF Freed
  <2> QED BY <2>1, <2>2
<1>10. Closed(h, D)
  <2>1. ASSUME NEW d \in Cells, d \notin Takes(h, L)
        PROVE  Owns(h[d]) \cap Takes(h, L) = {}
    <3>1. d # L
      BY <1>7, <2>1
    <3>2. Owns(h[d]) \cap Owns(h[L]) = {}
      BY <1>6, <3>1 DEF Shape, OwnersDiffer
    <3>3. L \notin Owns(h[d])
      BY <1>6, OwnedTypes DEF Shape
    <3> QED BY <3>2, <3>3 DEF Takes
  <2> QED BY <1>7, <1>8, <2>1 DEF Closed
<1>11. IsPartOf(h, f, D)
  BY <1>2, <1>8 DEF IsPartOf, BelongsTo
<1>12. KeepsClear(g, D)
  <2> SUFFICES ASSUME h[L].auto PROVE KeepsClear(g, Takes(h, L))
    BY DEF KeepsClear
  <2>1. f.locals # L /\ f.locals \notin Owns(h[L])
    BY <1>1, <1>6 DEF ScopeIsLive, Shape, OwnedAreNotRoots
  <2>2. \A k \in DOMAIN f.cleanup : f.cleanup[k] # L /\ f.cleanup[k] \notin Owns(h[L])
    BY <1>1, <1>6 DEF ScopeIsLive, Shape, OwnedAreNotRoots
  <2>3. \A k \in DOMAIN g.loops : f.loops[k] # L
    BY <1>1, <1>2 DEF Shape, RootsDiffer
  <2>4. \A c \in Owns(h[L]) : h[c].kind \in {"python", "dict", "item"}
    BY <1>6, OwnedTypes DEF Shape
  <2>5. \A k \in DOMAIN f.loops : f.loops[k] \notin Owns(h[L])
    BY <1>6, <2>4 DEF ScopeIsLive
  <2> QED BY <1>2, <1>5, <2>1, <2>2, <2>3, <2>5 DEF KeepsClear, Takes
<1>13. Less(f, g)
  BY <1>2, <1>5 DEF Less
<1>14. ASSUME NEW c \in Cells \ D, Roots(h, f, c)
       PROVE  Roots(h, g, c)
  <2>1. h[c].auto => c # L
    BY <1>7
  <2> QED BY <1>2, <1>5, <1>14, <2>1 DEF Roots
<1> HIDE DEF D
<1>15. ASSUME NEW u \in Threads, NEW i \in DOMAIN frames[u]
       PROVE  /\ Less(frames[u][i], frames'[u][i]) /\ KeepsClear(frames'[u][i], D)
              /\ \A c \in Cells \ D : Roots(h, frames[u][i], c) => Roots(h, frames'[u][i], c)
  <2>1. CASE u = t /\ i = n
    BY <1>1, <1>3, <1>12, <1>13, <1>14, <2>1
  <2>2. CASE ~(t = u /\ n = i)
    <3>1. frames'[u][i] = frames[u][i]
      BY <1>3, <2>2 DEF SameElsewhere
    <3>2. KeepsClear(frames[u][i], D)
      BY <1>1, <1>11, <2>2, OthersKeepTheirs
    <3> QED BY <3>1, <3>2 DEF Less
  <2> QED BY <2>1, <2>2
<1>16. Forget(h, frames, frames', D)
  <2>1. \A u \in Threads : DOMAIN frames'[u] = DOMAIN frames[u]
    BY <1>3 DEF SameElsewhere
  <2> QED BY <1>15, <2>1 DEF Forget
<1>17. Shape(heap', frames')
  BY <1>1, <1>9, <1>10, <1>16, ShapeShrinks
<1>18. \A c \in Cells : \/ heap'[c] = h[c]
                        \/ heap'[c] = Free /\ c \in Takes(h, L)
  BY <1>8, <1>9 DEF Freed
<1> QED BY <1>9, <1>17, <1>18 DEF L


LEMMA BreakStep ==
    ASSUME IInv, NEW t \in Threads, Break(t)
    PROVE  IInv' /\ SameCode(heap, heap')
<1> DEFINE f == Inner(t)
           g == [f EXCEPT !.loops = Front(@)]
<1>1. /\ TypeOK /\ heap \in Heaps /\ Shape(heap, frames)
      /\ frames[t] # <<>> /\ f.loops # <<>> /\ f.helper = Null /\ f.step = "body"
      /\ heap' = IF heap[Loop(t)].auto THEN Destroy(heap, Loop(t)) ELSE heap
      /\ Becomes(t, g) /\ UNCHANGED <<cache, root>>
  BY DEF IInv, TypeOK, Break, Looping, InBody
<1>2. f \in Scopes /\ Loop(t) \in Cells /\ heap[Loop(t)].kind = "iterator" /\ ScopeIsSound(heap, f, TRUE)
  BY <1>1, InnerLoop
<1>3. /\ Front(f.loops) \in Seq(Cells)
      /\ DOMAIN Front(f.loops) = DOMAIN f.loops \ {Len(f.loops)}
      /\ \A k \in DOMAIN f.loops \ {Len(f.loops)} : Front(f.loops)[k] = f.loops[k]
  BY <1>1, <1>2, FrontFacts DEF Scopes
<1>4. /\ g \in Scopes /\ g.locals = f.locals /\ g.cleanup = f.cleanup /\ g.loops = Front(f.loops)
      /\ g.helper = Null /\ g.step = "body"
  BY <1>1, <1>2, <1>3 DEF Scopes
<1> HIDE DEF g
<1>5. /\ Shape(heap', frames') /\ heap' \in Heaps /\ heap'[Null] = heap[Null]
      /\ \A c \in Cells : \/ heap'[c] = heap[c]
                          \/ heap'[c] = Free /\ c \in Takes(heap, Loop(t))
  BY <1>1, <1>4, LoopLeft
<1>6. \A c \in Cells : heap'[c].kind \in {"code", "link"} => heap'[c] = heap[c]
  BY <1>5 DEF Free
<1>7. \A k \in DOMAIN g.loops :
        k \in DOMAIN f.loops /\ k # Len(f.loops) /\ g.loops[k] = f.loops[k]
  BY <1>3, <1>4
<1> QED BY <1>1, <1>4, <1>5, <1>6, <1>7, LoopMoves

(* The helper of a loop after an update has counted and dropped its item.  *)
LEMMA DropItemFacts ==
    ASSUME IInv, NEW t \in Threads, Looping(t)
    PROVE  /\ DropItem(heap, Loop(t)) \in Heaps
           /\ DropItem(heap, Loop(t))[Null] = heap[Null]
           /\ DropItem(heap, Loop(t))[Loop(t)] = Count(heap[Loop(t)])
           /\ \A c \in Cells : c # Loop(t) =>
                DropItem(heap, Loop(t))[c] = IF c = heap[Loop(t)].curr THEN Free ELSE heap[c]
           /\ heap[Loop(t)] \in Iterators
           /\ Count(heap[Loop(t)]) \in Iterators
           /\ Count(heap[Loop(t)]).iter = heap[Loop(t)].iter
           /\ Count(heap[Loop(t)]).scope = heap[Loop(t)].scope
           /\ Count(heap[Loop(t)]).name = heap[Loop(t)].name
           /\ Count(heap[Loop(t)]).auto = heap[Loop(t)].auto
           /\ Count(heap[Loop(t)]).given = heap[Loop(t)].given
           /\ Count(heap[Loop(t)]).index = heap[Loop(t)].given
           /\ Count(heap[Loop(t)]).first = FALSE
<1> DEFINE L == Loop(t)
           x == heap[L]
           y == Count(x)
           f == Inner(t)
<1>1. /\ L \in Cells /\ x.kind = "iterator" /\ LoopHolds(heap, f, Len(f.loops))
      /\ L = f.loops[Len(f.loops)]
  BY InnerLoop DEF Looping
<1>2. heap \in Heaps /\ IteratorFields(heap)
  BY DEF IInv, TypeOK, Shape
<1>3. x \in Iterators
  BY <1>1, <1>2, ObjectTypes DEF CellsOrNull
<1>4. \/ x.first /\ x.curr = Null /\ x.index = 0 /\ x.given = 0
      \/ ~x.first /\ x.curr # Null /\ x.given = x.index + 1 /\ heap[x.curr] = Item(x.given)
  BY <1>1 DEF LoopHolds
<1>5. /\ y \in Iterators
      /\ y.iter = x.iter /\ y.scope = x.scope /\ y.name = x.name /\ y.auto = x.auto
      /\ y.given = x.given /\ y.first = FALSE /\ y.kind = "iterator"
      /\ y.index = IF x.first THEN x.index ELSE x.index + 1
  <2> DEFINE k == IF x.first THEN x.index ELSE x.index + 1
  <2>1. k \in Nat
    BY <1>3 DEF Iterators
  <2>2. y = [x EXCEPT !.first = FALSE, !.index = k]
    BY DEF Count
  <2>3. y.index = k
    BY <1>3, <2>2 DEF Iterators
  <2> HIDE DEF k, x, y
  <2>4. /\ y \in Iterators
        /\ y.iter = x.iter /\ y.scope = x.scope /\ y.name = x.name /\ y.auto = x.auto
        /\ y.given = x.given /\ y.first = FALSE /\ y.kind = "iterator"
    BY <1>3, <2>1, <2>2 DEF Iterators
  <2> QED BY <2>3, <2>4 DEF k
<1>6. y.index = x.given
  BY <1>4, <1>5
<1> HIDE DEF L, x, y, f
<1>7. y \in Objects /\ L \in CellsOrNull /\ L # Null /\ Null \in CellsOrNull /\ Cells \subseteq CellsOrNull
  BY <1>1, <1>5 DEF Objects, CellsOrNull, Cells, Null
<1>8. CASE x.curr = Null
  <2>1. DropItem(heap, L) = [heap EXCEPT ![L] = y]
    BY <1>8 DEF DropItem, x, y
  <2>2. heap \in [CellsOrNull -> Objects]
    BY <1>2 DEF Heaps
  <2>3. /\ DropItem(heap, L) \in Heaps /\ DropItem(heap, L)[L] = y
        /\ \A c \in CellsOrNull : c # L => DropItem(heap, L)[c] = heap[c]
    BY <1>7, <2>1, <2>2 DEF Heaps
  <2>4. /\ DropItem(heap, L)[Null] = heap[Null]
        /\ \A c \in Cells : c # L => DropItem(heap, L)[c] = IF c = x.curr THEN Free ELSE heap[c]
    BY <1>7, <1>8, <2>3 DEF Cells, Null
  <2> QED BY <1>1, <1>3, <1>5, <1>6, <2>3, <2>4 DEF L, x, y
<1>9. CASE x.curr # Null
  <2>1. /\ ~x.first /\ x.curr \in Cells /\ heap[x.curr].kind = "item"
    BY <1>3, <1>4, <1>9 DEF Iterators, CellsOrNull, Item
  <2>2. x.curr # L
    BY <1>1, <2>1 DEF x
  <2>3. /\ Discard(heap, {x.curr}) \in Heaps
        /\ Discard(heap, {x.curr})[x.curr] = Free
        /\ \A c \in CellsOrNull \ {x.curr} : Discard(heap, {x.curr})[c] = heap[c]
        /\ Discard(heap, {x.curr})[Null] = heap[Null]
    <3>1. {x.curr} \in SUBSET Cells /\ \A c \in {x.curr} : heap[c].kind # "free"
      BY <2>1
    <3> QED BY <1>2, <3>1, DiscardFacts
  <2>4. DropItem(heap, L) = [Discard(heap, {x.curr}) EXCEPT ![L] = y]
    BY <1>9, <2>1 DEF DropItem, x, y
  <2>5. Discard(heap, {x.curr}) \in [CellsOrNull -> Objects]
    BY <2>3 DEF Heaps
  <2>6. /\ DropItem(heap, L) \in Heaps /\ DropItem(heap, L)[L] = y
        /\ \A c \in CellsOrNull : c # L => DropItem(heap, L)[c] = Discard(heap, {x.curr})[c]
    BY <1>7, <2>4, <2>5 DEF Heaps
  <2>7. /\ DropItem(heap, L)[Null] = heap[Null]
        /\ \A c \in Cells : c # L => DropItem(heap, L)[c] = IF c = x.curr THEN Free ELSE heap[c]
    BY <1>7, <2>3, <2>6
  <2> QED BY <1>1, <1>3, <1>5, <1>6, <2>6, <2>7 DEF L, x, y
<1> QED BY <1>8, <1>9

LEMMA EndOfLoopStep ==
    ASSUME IInv, NEW t \in Threads, EndOfLoop(t)
    PROVE  IInv' /\ SameCode(heap, heap')
<1> DEFINE f == Inner(t)
           L == Loop(t)
           x == heap[L]
           d == DropItem(heap, L)
           y == [Count(x) EXCEPT !.curr = Null]
           h == [d EXCEPT ![L] = y]
           g == [f EXCEPT !.step = "body", !.loops = Front(@)]
<1>1. /\ TypeOK /\ heap \in Heaps /\ frames \in Stacks /\ Shape(heap, frames) /\ Looping(t)
      /\ frames[t] # <<>> /\ f.loops # <<>> /\ f.helper = Null
      /\ Becomes(t, g) /\ UNCHANGED <<cache, root>>
  BY DEF IInv, TypeOK, EndOfLoop, Looping
<1>2. f \in Scopes /\ L \in Cells /\ x.kind = "iterator" /\ ScopeIsSound(heap, f, TRUE)
  BY <1>1, InnerLoop
<1>3. /\ d \in Heaps /\ d[Null] = heap[Null] /\ d[L] = Count(x)
      /\ \A c \in Cells : c # L => d[c] = IF c = x.curr THEN Free ELSE heap[c]
      /\ x \in Iterators /\ Count(x) \in Iterators
      /\ Count(x).iter = x.iter /\ Count(x).scope = x.scope /\ Count(x).name = x.name
      /\ Count(x).auto = x.auto
  BY <1>1, DropItemFacts
<1>4. heap' = IF [d EXCEPT ![L].curr = Null][L].auto
              THEN Destroy([d EXCEPT ![L].curr = Null], L) ELSE [d EXCEPT ![L].curr = Null]
  BY DEF EndOfLoop
<1>5. [d EXCEPT ![L].curr = Null] = h
  <2> HIDE DEF L, x, d
  <2> QED BY <1>3
<1>6. /\ y \in Iterators /\ y.kind = "iterator" /\ y.curr = Null
      /\ y.iter = x.iter /\ y.scope = x.scope /\ y.name = x.name /\ y.auto = x.auto
  <2> HIDE DEF x
  <2> QED BY <1>3 DEF Iterators, CellsOrNull
<1> HIDE DEF L, x, d, y
<1>7. /\ h \in Heaps /\ h[L] = y /\ h[Null] = heap[Null]
      /\ \A c \in Cells : c # L => h[c] = IF c = x.curr THEN Free ELSE heap[c]
  <2>1. d \in [CellsOrNull -> Objects] /\ L \in CellsOrNull /\ y \in Objects /\ L # Null /\ Null \in CellsOrNull
    BY <1>2, <1>3, <1>6 DEF Heaps, CellsOrNull, Objects, Cells, Null
  <2>2. /\ h \in [CellsOrNull -> Objects] /\ h[L] = y
        /\ \A c \in CellsOrNull : c # L => h[c] = d[c]
    BY <2>1
  <2> HIDE DEF h
  <2> QED BY <1>3, <2>1, <2>2 DEF Heaps, CellsOrNull
<1>8. heap' = IF h[L].auto THEN Destroy(h, L) ELSE h
  BY <1>4, <1>5
<1> HIDE DEF h
<1>9. Shape(h, frames)
  <2>1. SameRoots(frames, frames)
    BY DEF SameRoots
  <2> QED BY <1>1, <1>2, <1>6, <1>7, <2>1, ShapeWithItem DEF x
<1>10. /\ Front(f.loops) \in Seq(Cells)
       /\ DOMAIN Front(f.loops) = DOMAIN f.loops \ {Len(f.loops)}
       /\ \A k \in DOMAIN f.loops \ {Len(f.loops)} : Front(f.loops)[k] = f.loops[k]
  BY <1>1, <1>2, FrontFacts DEF Scopes
<1>11. /\ g \in Scopes /\ g.locals = f.locals /\ g.cleanup = f.cleanup /\ g.loops = Front(f.loops)
       /\ g.helper = Null /\ g.step = "body"
  BY <1>1, <1>2, <1>10 DEF Scopes
<1> HIDE DEF g
<1>12. /\ Shape(heap', frames') /\ heap' \in Heaps /\ heap'[Null] = h[Null]
       /\ \A c \in Cells : \/ heap'[c] = h[c]
                           \/ heap'[c] = Free /\ c \in Takes(h, L)
  BY <1>1, <1>7, <1>8, <1>9, <1>11, LoopLeft DEF L
<1>13. Takes(h, L) \subseteq Takes(heap, L) /\ L \in Takes(heap, L)
       /\ (x.curr # Null => x.curr \in Takes(heap, L))
  <2>1. /\ Owns(x) = {x.iter, x.curr, x.scope, x.name} \ {Null}
        /\ Owns(y) = {x.iter, Null, x.scope, x.name} \ {Null}
    BY <1>2, <1>6 DEF Owns
  <2> QED BY <1>7, <2>1 DEF Takes, x
<1>14. ASSUME NEW c \in Cells
       PROVE  /\ heap'[c] = heap[c] \/ c \in Takes(heap, L)
              /\ heap'[c].kind \in {"code", "link"} => heap'[c] = heap[c]
  <2>1. h[c] = heap[c] \/ (h[c] = Free /\ c = x.curr) \/ (h[c] = y /\ c = L)
    BY <1>7
  <2>2. Free.kind = "free" /\ c # Null
    BY DEF Free, Cells, Null
  <2> QED BY <1>6, <1>12, <1>13, <2>1, <2>2
<1>15. \A k \in DOMAIN g.loops :
        k \in DOMAIN f.loops /\ k # Len(f.loops) /\ g.loops[k] = f.loops[k]
  BY <1>10, <1>11
<1> QED BY <1>1, <1>7, <1>11, <1>12, <1>14, <1>15, LoopMoves DEF L


LEMMA NextItemStep ==
    ASSUME IInv, NEW t \in Threads, NextItem(t)
    PROVE  IInv' /\ SameCode(heap, heap')
<1> DEFINE f == Inner(t)
           j == Len(f.loops)
           L == Loop(t)
           x == heap[L]
           d == DropItem(heap, L)
           a == Fresh(1)
           y == [Count(x) EXCEPT !.curr = a, !.given = @ + 1]
           g == [f EXCEPT !.step = "body"]
<1>1. /\ TypeOK /\ heap \in Heaps /\ frames \in Stacks /\ Shape(heap, frames) /\ Looping(t)
      /\ frames[t] # <<>> /\ f.loops # <<>> /\ f.helper = Null /\ NothingReleasedTwice
      /\ Becomes(t, g) /\ UNCHANGED <<cache, root>>
  BY DEF IInv, TypeOK, NextItem, Looping
<1>2. /\ f \in Scopes /\ L \in Cells /\ x.kind = "iterator" /\ ScopeIsSound(heap, f, TRUE)
      /\ j \in DOMAIN f.loops /\ L = f.loops[j]
  BY <1>1, InnerLoop
<1>3. /\ d \in Heaps /\ d[Null] = heap[Null] /\ d[L] = Count(x)
      /\ \A c \in Cells : c # L => d[c] = IF c = x.curr THEN Free ELSE heap[c]
      /\ x \in Iterators /\ Count(x) \in Iterators
      /\ Count(x).iter = x.iter /\ Count(x).scope = x.scope /\ Count(x).name = x.name
      /\ Count(x).auto = x.auto /\ Count(x).given = x.given /\ Count(x).index = x.given
      /\ Count(x).first = FALSE
  BY <1>1, DropItemFacts
<1>4. a \in Cells /\ heap[a] = Free /\ heap[a].kind = "free"
  BY OneFresh DEF NextItem
<1>5. heap' = [d EXCEPT ![a] = Item(d[L].given + 1),
                        ![L] = [d[L] EXCEPT !.curr = a, !.given = @ + 1],
                        ![Null] = IF d[L].scope # Null /\ Free \in {d[d[L].scope], d[d[L].name]}
                                  THEN Broken ELSE @]
  BY DEF NextItem
<1>6. /\ g \in Scopes /\ g.locals = f.locals /\ g.cleanup = f.cleanup /\ g.loops = f.loops
      /\ g.helper = Null /\ g.step = "body"
  BY <1>1, <1>2 DEF Scopes
<1>7. /\ x.curr \in CellsOrNull /\ x.curr # L /\ x.curr # a /\ x.given \in Nat
      /\ x.curr # Null => heap[x.curr].kind = "item"
      /\ x.scope # Null => /\ x.scope \in Cells /\ x.name \in Cells
                           /\ heap[x.scope].kind = "dict" /\ heap[x.name].kind = "python"
  <2>1. /\ x.curr # Null => heap[x.curr].kind = "item"
        /\ x.scope # Null => heap[x.scope].kind = "dict" /\ x.name # Null /\ heap[x.name].kind = "python"
    BY <1>1, <1>2 DEF Shape, IteratorFields
  <2>2. x.curr \in CellsOrNull /\ x.scope \in CellsOrNull /\ x.name \in CellsOrNull /\ x.given \in Nat
    BY <1>3 DEF Iterators
  <2>3. x.curr # L
    BY <1>2, <2>1 DEF Cells, Null
  <2>4. x.curr # a
    BY <1>4, <2>1 DEF Cells, Null
  <2> QED BY <2>1, <2>2, <2>3, <2>4 DEF CellsOrNull
<1> HIDE DEF L, x, d, a, f, g, j
<1>8. ~(d[L].scope # Null /\ Free \in {d[d[L].scope], d[d[L].name]})
  <2> SUFFICES ASSUME x.scope # Null
               PROVE  d[x.scope] # Free /\ d[x.name] # Free
    BY <1>3
  <2>1. x.scope # L /\ x.name # L
    BY <1>2, <1>7 DEF x
  <2>2. x.scope # x.curr /\ x.name # x.curr
    BY <1>7 DEF Cells, Null
  <2>3. d[x.scope] = heap[x.scope] /\ d[x.name] = heap[x.name]
    BY <1>3, <1>7, <2>1, <2>2
  <2> QED BY <1>7, <2>3 DEF Free
<1>9. /\ y \in Iterators /\ y.kind = "iterator" /\ y.curr = a /\ y.given = x.given + 1
      /\ y.iter = x.iter /\ y.scope = x.scope /\ y.name = x.name /\ y.auto = x.auto
      /\ y.index = x.given /\ y.first = FALSE
  <2>1. x.given + 1 \in Nat /\ a \in CellsOrNull
    BY <1>4, <1>7 DEF CellsOrNull
  <2>2. y = [Count(x) EXCEPT !.curr = a, !.given = x.given + 1]
    BY <1>3
  <2> HIDE DEF y
  <2> QED BY <1>3, <2>1, <2>2 DEF Iterators
<1>10. heap' = [d EXCEPT ![a] = Item(x.given + 1), ![L] = y]
  <2>1. d[L].given = x.given /\ [d[L] EXCEPT !.curr = a, !.given = @ + 1] = y
    BY <1>3
  <2>2. d[Null] = d[Null] /\ Null # a /\ Null # L /\ a # L
    BY <1>2, <1>4 DEF Cells, Null, x
  <2> HIDE DEF y
  <2>3. d \in [CellsOrNull -> Objects]
    BY <1>3 DEF Heaps
  <2>4. heap' = [d EXCEPT ![a] = Item(x.given + 1), ![L] = y, ![Null] = d[Null]]
    BY <1>5, <1>8, <2>1, <2>2, <2>3
  <2> QED BY <2>2, <2>3, <2>4
<1> HIDE DEF y
<1>11. /\ heap' \in Heaps /\ heap'[L] = y /\ heap'[a] = Item(x.given + 1) /\ heap'[Null] = heap[Null]
       /\ \A c \in Cells : c # L /\ c # a => heap'[c] = IF c = x.curr THEN Free ELSE heap[c]
  <2>1. /\ d \in [CellsOrNull -> Objects] /\ L \in CellsOrNull /\ y \in Objects
        /\ a \in CellsOrNull /\ Null \in CellsOrNull /\ Item(x.given + 1) \in Objects
        /\ L # Null /\ a # Null /\ a # L
    <3>1. d \in [CellsOrNull -> Objects] /\ Null \in CellsOrNull /\ Null \notin Cells
      BY <1>3 DEF Heaps, CellsOrNull, Cells, Null
    <3>2. L \in CellsOrNull /\ a \in CellsOrNull /\ L # Null /\ a # Null /\ a # L
      BY <1>2, <1>4, <3>1 DEF CellsOrNull, x
    <3>3. y \in Objects
      BY <1>9 DEF Objects
    <3>4. x.given + 1 \in Nat
      BY <1>7
    <3>5. Item(x.given + 1) \in Objects
      BY <3>4 DEF Objects, Item
    <3> QED BY <3>1, <3>2, <3>3, <3>5
  <2>2. /\ heap' \in [CellsOrNull -> Objects] /\ heap'[L] = y /\ heap'[a] = Item(x.given + 1)
        /\ \A c \in CellsOrNull : c # L /\ c # a => heap'[c] = d[c]
    BY <1>10, <2>1
  <2> QED BY <1>3, <2>1, <2>2 DEF Heaps, CellsOrNull
<1>12. heap'[a].kind = "item"
  BY <1>11 DEF Item
<1>13. /\ frames' \in Stacks /\ SameElsewhere(frames, frames', t, Len(frames[t]))
       /\ frames'[t][Len(frames[t])] = g
  BY <1>1, <1>6, BecomesFacts
<1>14. SameRoots(frames, frames')
  <2>1. f = frames[t][Len(frames[t])]
    BY <1>1, InnerFacts DEF f
  <2>2. ASSUME NEW u \in Threads, NEW i \in DOMAIN frames[u]
        PROVE  /\ frames'[u][i].locals = frames[u][i].locals
               /\ frames'[u][i].cleanup = frames[u][i].cleanup
               /\ frames'[u][i].loops = frames[u][i].loops
    <3>1. CASE u = t /\ i = Len(frames[t])
      BY <1>6, <1>13, <2>1, <3>1
    <3>2. CASE ~(u = t /\ i = Len(frames[t]))
      BY <1>13, <3>2 DEF SameElsewhere
    <3> QED BY <3>1, <3>2
  <2> QED BY <1>13, <2>2 DEF SameRoots, SameElsewhere
<1>15. Shape(heap', frames')
  <2>1. heap[L].kind = "iterator" /\ heap'[L].kind = "iterator"
    BY <1>2, <1>9, <1>11 DEF x
  <2>2. /\ heap'[L].iter = heap[L].iter /\ heap'[L].scope = heap[L].scope
        /\ heap'[L].name = heap[L].name /\ heap'[L].auto = heap[L].auto
        /\ heap'[L].curr = a
    BY <1>9, <1>11 DEF x
  <2>3. heap[heap'[L].curr].kind = "free" /\ heap'[heap'[L].curr].kind = "item"
    BY <1>4, <1>12, <2>2
  <2>4. \A c \in Cells : c # L /\ c # heap'[L].curr => heap'[c] = IF c = heap[L].curr THEN Free ELSE heap[c]
    BY <1>11, <2>2 DEF x
  <2> QED BY <1>1, <1>2, <1>11, <1>14, <2>1, <2>2, <2>3, <2>4, ShapeWithItem
<1>16. ASSUME NEW c \in Cells
       PROVE  /\ heap[c].kind = "free" \/ heap'[c] = heap[c] \/ c \in Takes(heap, L)
              /\ heap'[c].kind \in {"code", "link"} => heap'[c] = heap[c]
  <2>1. L \in Takes(heap, L) /\ (x.curr # Null => x.curr \in Takes(heap, L))
    BY <1>2 DEF Takes, Owns, x
  <2>2. (c = a) \/ (heap'[c] = heap[c]) \/ (heap'[c] = Free /\ c = x.curr) \/ (heap'[c] = y /\ c = L)
    BY <1>11
  <2>3. Free.kind = "free" /\ c # Null
    BY DEF Free, Cells, Null
  <2> QED BY <1>4, <1>9, <1>12, <2>1, <2>2, <2>3
<1>17. ASSUME NEW k \in DOMAIN g.loops, k = j
       PROVE  LoopHolds(heap', g, k)
  <2>1. ~AsksForFirst(g, k) /\ g.loops[k] = L
    BY <1>2, <1>6, <1>17 DEF AsksForFirst
  <2>2. a # Null
    BY <1>4 DEF Cells, Null
  <2> QED BY <1>9, <1>11, <2>1, <2>2 DEF LoopHolds
<1>18. \A k \in DOMAIN g.loops :
          \/ LoopHolds(heap', g, k)
          \/ k \in DOMAIN f.loops /\ k # Len(f.loops) /\ g.loops[k] = f.loops[k]
  BY <1>6, <1>17 DEF j
<1> QED BY <1>1, <1>6, <1>11, <1>15, <1>16, <1>18, LoopMoves DEF L, f

-----------------------------------------------------------------------------
(* The invariant.                                                          *)

LEMMA InvInit == Init => IInv
<1> SUFFICES ASSUME Init PROVE IInv
  OBVIOUS
<1>1. /\ heap = [c \in Cells \cup {Null} |-> Free]
      /\ cache = [s \in Sites |-> Null] /\ root = [s \in Sites |-> Null]
      /\ frames = [t \in Threads |-> <<>>]
  BY DEF Init
<1>2. Free \in Objects /\ Free.kind = "free"
  BY DEF Free, Objects
<1>3. \A c \in CellsOrNull : heap[c] = Free
  BY <1>1 DEF CellsOrNull
<1>4. \A c \in Cells : heap[c] = Free /\ heap[c].kind = "free" /\ Owns(heap[c]) = {}
  BY <1>2, <1>3 DEF CellsOrNull, Owns
<1>5. \A t \in Threads : frames[t] = <<>> /\ DOMAIN frames[t] = {}
  BY <1>1
<1>6. TypeOK
  <2>1. heap \in Heaps
    BY <1>1, <1>2 DEF Heaps, CellsOrNull
  <2>2. frames \in Stacks
    BY <1>1 DEF Stacks
  <2>3. cache \in [Sites -> CellsOrNull] /\ root \in [Sites -> CellsOrNull]
    BY <1>1 DEF CellsOrNull
  <2> QED BY <2>1, <2>2, <2>3 DEF TypeOK
<1>7. NothingReleasedTwice
  BY <1>3 DEF NothingReleasedTwice, CellsOrNull
<1>8. Shape(heap, frames)
  BY <1>4, <1>5 DEF Shape, RootsAreLive, RootsDiffer, IteratorFields, OwnersDiffer, OwnedAreNotRoots,
                    NothingLost
<1>9. CachesHold(heap, cache, root) /\ ChainsCount(heap)
  BY <1>1, <1>4 DEF CachesHold, ChainsCount
<1>10. ScopesAreSound(heap, frames)
  BY <1>5 DEF ScopesAreSound
<1> QED BY <1>6, <1>7, <1>8, <1>9, <1>10 DEF IInv

LEMMA InvNext == IInv /\ [Next]_vars => IInv'
<1> SUFFICES ASSUME IInv, [Next]_vars PROVE IInv'
  OBVIOUS
<1>1. CASE UNCHANGED vars
  <2>1. heap' = heap /\ cache' = cache /\ root' = root /\ frames' = frames
    BY <1>1 DEF vars
  <2> QED BY <2>1 DEF IInv, TypeOK, NothingReleasedTwice
<1>2. ASSUME NEW t \in Threads, Setup(t) PROVE IInv'
  BY <1>2, SetupStep
<1>3. ASSUME NEW t \in Threads, Cleanup(t) PROVE IInv'
  BY <1>3, CleanupStep
<1>4. ASSUME NEW t \in Threads, NEW k \in {"python", "memory"}, Defer(t, k) PROVE IInv'
  BY <1>4, DeferStep
<1>5. ASSUME NEW t \in Threads, CleanNow(t) PROVE IInv'
  BY <1>5, CleanNowStep
<1>6. ASSUME NEW t \in Threads, NEW s \in Sites, FindNotCompiled(t, s) PROVE IInv'
  BY <1>6, FindNotCompiledStep
<1>7. ASSUME NEW t \in Threads, CompileAndStore(t) PROVE IInv'
  BY <1>7, CompileAndStoreStep
<1>8. ASSUME NEW t \in Threads, NEW s \in Sites, BeginIf(t, s) PROVE IInv'
  BY <1>8, BeginIfStep
<1>9. ASSUME NEW t \in Threads, StepIf(t) PROVE IInv'
  BY <1>9, StepIfStep
<1>10. ASSUME NEW t \in Threads, MakeLink(t) PROVE IInv'
  BY <1>10, MakeLinkStep
<1>11. ASSUME NEW t \in Threads, LeaveIf(t) PROVE IInv'
  BY <1>11, LeaveIfStep
<1>12. ASSUME NEW t \in Threads, BeginForeachFnac(t) PROVE IInv'
  BY <1>12, BeginForeachFnacStep
<1>13. ASSUME NEW t \in Threads, NEW s \in Sites, BeginForeachCache(t, s) PROVE IInv'
  BY <1>13, BeginForeachCacheStep
<1>14. ASSUME NEW t \in Threads, BeginForeach(t) PROVE IInv'
  BY <1>14, BeginForeachStep
<1>15. ASSUME NEW t \in Threads, NextItem(t) PROVE IInv'
  BY <1>15, NextItemStep
<1>16. ASSUME NEW t \in Threads, EndOfLoop(t) PROVE IInv'
  BY <1>16, EndOfLoopStep
<1>17. ASSUME NEW t \in Threads, Break(t) PROVE IInv'
  BY <1>17, BreakStep
<1> QED BY <1>1, <1>2, <1>3, <1>4, <1>5, <1>6, <1>7, <1>8, <1>9, <1>10, <1>11, <1>12, <1>13, <1>14,
           <1>15, <1>16, <1>17 DEF Next

(* The whole of what the macros keep: an inductive invariant.              *)
THEOREM Invariance == Spec => []IInv
BY InvInit, InvNext, PTL DEF Spec

(* The state has its type, whatever the threads do.                        *)
THEOREM TypeCorrect == Spec => []TypeOK
<1>1. IInv => TypeOK
  BY DEF IInv
<1> QED BY <1>1, Invariance, PTL

(* A handle, a helper or memory is released by its loop, by the deferred   *)
(* cleanup or by the scope, exactly once, and is there until then.         *)
THEOREM ReleasedOnce == Spec => []NothingReleasedTwice
<1>1. IInv => NothingReleasedTwice
  BY DEF IInv
<1> QED BY <1>1, Invariance, PTL

(* Whatever a scope made is held by an open scope: what is owned by no     *)
(* helper is a local, registered or a loop that destroys itself, and a     *)
(* helper that owns something is such a one itself.                        *)
THEOREM NothingLeftBehind == Spec => []ScopesLeaveNothing
<1>1. ASSUME IInv PROVE ScopesLeaveNothing
  <2> SUFFICES ASSUME NEW c \in Cells, heap[c].kind \notin {"free", "code", "link"}
               PROVE  \E t \in Threads : \E i \in DOMAIN frames[t] : c \in Holds(frames[t][i])
    BY DEF ScopesLeaveNothing
  <2>1. heap \in Heaps /\ frames \in Stacks /\ Shape(heap, frames) /\ IteratorFields(heap)
    BY <1>1 DEF IInv, TypeOK, Shape
  <2>2. ASSUME NEW t \in Threads, NEW i \in DOMAIN frames[t], NEW d \in Cells,
               Roots(heap, frames[t][i], d)
        PROVE  d \in Holds(frames[t][i]) /\ Owns(heap[d]) \subseteq Holds(frames[t][i])
    <3>1. CASE d = frames[t][i].locals
      <4>1. heap[d].kind = "dict"
        BY <2>1, <3>1 DEF Shape, RootsAreLive, ScopeIsLive
      <4>2. Owns(heap[d]) = {}
        BY <4>1 DEF Owns
      <4> QED BY <3>1, <4>2 DEF Holds
    <3>2. CASE \/ d \in Range(frames[t][i].cleanup)
               \/ d \in Range(frames[t][i].loops) /\ heap[d].auto
      BY <3>2 DEF Holds
    <3> QED BY <2>2, <3>1, <3>2 DEF Roots, Range
  <2>3. CASE \E t \in Threads : \E i \in DOMAIN frames[t] : Roots(heap, frames[t][i], c)
    BY <2>2, <2>3
  <2>4. CASE \E d \in Cells : c \in Owns(heap[d])
    <3>1. PICK d \in Cells : c \in Owns(heap[d])
      BY <2>4
    <3>2. heap[d].kind = "iterator"
      BY <2>1, <3>1, OwnedTypes
    <3>3. \A e \in Cells : d \notin Owns(heap[e])
      BY <2>1, <3>2, OwnedTypes
    <3>4. PICK t \in Threads : \E i \in DOMAIN frames[t] : Roots(heap, frames[t][i], d)
      BY <2>1, <3>2, <3>3 DEF Shape, NothingLost
    <3> QED BY <2>2, <3>1, <3>4
  <2> QED BY <2>1, <2>3, <2>4 DEF Shape, NothingLost
<1> QED BY <1>1, Invariance, PTL

(* In the body of a loop the borrowed item is live and is the one its      *)
(* index says, also after nested loops and calls of the function itself.   *)
THEOREM LoopsHaveTheirItem == Spec => []CurrentIsItem
<1>1. ASSUME IInv PROVE CurrentIsItem
  <2> SUFFICES ASSUME NEW t \in Threads, NEW i \in DOMAIN frames[t], NEW j \in DOMAIN frames[t][i].loops,
                      ~AsksForFirst(frames[t][i], j)
               PROVE  heap[heap[frames[t][i].loops[j]].curr] = Item(heap[frames[t][i].loops[j]].index + 1)
    BY DEF CurrentIsItem, AsksForFirst
  <2>1. LoopHolds(heap, frames[t][i], j)
    BY <1>1 DEF IInv, ScopesAreSound, ScopeIsSound
  <2> QED BY <2>1 DEF LoopHolds
<1> QED BY <1>1, Invariance, PTL

(* Every condition of an if-block evaluates its own expression, for all    *)
(* threads that build and walk its chain.                                  *)
THEOREM ConditionsAreTheirOwn == Spec => []EvaluatesItsOwn
<1>1. ASSUME IInv PROVE EvaluatesItsOwn
  <2> SUFFICES ASSUME NEW t \in Threads, InBody(t), Inner(t).helper # Null, Inner(t).condition > 0
               PROVE  /\ heap[heap[heap[Inner(t).helper].curr].code]
                           = Code(heap[Inner(t).helper].site, Inner(t).condition)
                      /\ heap[Inner(t).helper].index = Inner(t).condition - 1
    BY DEF EvaluatesItsOwn
  <2>1. HelperFollows(heap, Inner(t))
    BY <1>1, InnerIsSound DEF InBody, ScopeIsSound
  <2> QED BY <2>1 DEF HelperFollows
<1> QED BY <1>1, Invariance, PTL

-----------------------------------------------------------------------------
(* Compiled once, by the one thread that runs the function.                *)

Sole == \A t, u \in Threads : t = u

(* What the scope f is about to make is missing.                           *)
IsMissing(h, ca, ro, f) ==
    /\ f.step = "compile" => ca[f.site] = Null
    /\ f.step = "chain" =>
        IF h[f.helper].curr = Null THEN ro[h[f.helper].site] = Null ELSE h[h[f.helper].curr].next = Null

(* With one thread only the innermost scope is about to make anything.     *)
LEMMA OnlyInnermostMakes ==
    ASSUME Sole, NEW t \in Threads, IInv',
           frames'[t] # <<>> => IsMissing(heap', cache', root', frames'[t][Len(frames'[t])])
    PROVE  StillMissing'
<1> SUFFICES ASSUME NEW u \in Threads, NEW i \in DOMAIN frames'[u]
             PROVE  IsMissing(heap', cache', root', frames'[u][i])
  BY DEF StillMissing, IsMissing, NextLink
<1>1. u = t
  BY DEF Sole
<1>2. CASE i = Len(frames'[u])
  <2>1. frames'[t] \in Seq(Scopes)
    BY DEF IInv, TypeOK, Stacks
  <2>2. frames'[t] # <<>>
    BY <1>1, <2>1
  <2> QED BY <1>1, <1>2, <2>2
<1>3. CASE i # Len(frames'[u])
  <2>1. ScopesAreSound(heap', frames')
    BY DEF IInv
  <2>2. StepMakesSense(frames'[u][i], i = Len(frames'[u]))
    BY <2>1 DEF ScopesAreSound, ScopeIsSound
  <2>3. frames'[u][i].step = "body"
    BY <1>3, <2>2 DEF StepMakesSense
  <2> QED BY <2>3 DEF IsMissing
<1> QED BY <1>2, <1>3

LEMMA BecomesMissing ==
    ASSUME Sole, IInv, IInv', NEW t \in Threads, frames[t] # <<>>, NEW g, Becomes(t, g),
           IsMissing(heap', cache', root', g)
    PROVE  StillMissing'
<1>1. frames[t] \in Seq(Scopes) /\ frames \in [Threads -> Seq(Scopes)]
  BY DEF IInv, TypeOK, Stacks
<1>2. frames'[t] = Append(Front(frames[t]), g) /\ Front(frames[t]) \in Seq(Scopes)
  BY <1>1, FrontFacts DEF Becomes
<1>3. frames'[t] \in Seq(Scopes)
  BY DEF IInv, TypeOK, Stacks
<1>4. frames'[t][Len(frames'[t])] = g
  <2>1. Append(Front(frames[t]), g)[Len(Front(frames[t])) + 1] = g
    BY <1>2, Appended
  <2>2. Len(Append(Front(frames[t]), g)) = Len(Front(frames[t])) + 1
    BY <1>2
  <2> QED BY <1>2, <2>1, <2>2
<1> QED BY <1>4, OnlyInnermostMakes

(* A step that compiles nothing.                                           *)
LEMMA OnceKept ==
    ASSUME IInv, OnceInv, SameCode(heap, heap'), UNCHANGED <<cache, root>>, StillMissing'
    PROVE  OnceInv'
<1>1. /\ heap \in Heaps /\ CachesHold(heap, cache, root) /\ ChainsCount(heap)
      /\ root \in [Sites -> CellsOrNull]
  BY DEF IInv, TypeOK
<1>2. \A c \in Cells : heap[c].kind \in {"code", "link"} \/ heap'[c].kind \in {"code", "link"} => heap'[c] = heap[c]
  BY DEF SameCode
<1>3. CompiledOnce'
  <2> SUFFICES ASSUME NEW c \in Cells, NEW d \in Cells, heap'[c].kind = "code", heap'[c] = heap'[d]
               PROVE  c = d
    BY DEF CompiledOnce
  <2> QED BY <1>2 DEF OnceInv, CompiledOnce
<1>4. LinksHaveTheirOwn'
  <2> SUFFICES ASSUME NEW c \in Cells, NEW d \in Cells, heap'[c].kind = "link", heap'[d].kind = "link",
                      heap'[c].code = heap'[d].code
               PROVE  c = d
    BY DEF LinksHaveTheirOwn
  <2> QED BY <1>2 DEF OnceInv, LinksHaveTheirOwn
<1>5. CodeIsCached'
  <2> SUFFICES ASSUME NEW c \in Cells, heap'[c].kind = "code"
               PROVE  IF heap[c].n = 0 THEN cache[heap[c].site] = c
                      ELSE IF heap[c].n = 1
                      THEN root[heap[c].site] # Null /\ heap'[root[heap[c].site]].code = c
                      ELSE \E d \in Cells :
                              /\ heap'[d].kind = "link" /\ heap'[d].next # Null
                              /\ heap'[heap'[d].next].code = c
                              /\ heap'[heap'[d].code] = Code(heap[c].site, heap[c].n - 1)
    BY <1>2 DEF CodeIsCached
  <2>1. heap[c].kind = "code" /\ heap[c].site \in Sites
    BY <1>1, <1>2, ObjectTypes DEF CellsOrNull, Codes
  <2>2. CASE heap[c].n = 0
    BY <2>1, <2>2 DEF OnceInv, CodeIsCached
  <2>3. CASE heap[c].n = 1
    <3>1. root[heap[c].site] # Null /\ heap[root[heap[c].site]].code = c
      BY <2>1, <2>3 DEF OnceInv, CodeIsCached
    <3>2. root[heap[c].site] \in Cells /\ heap[root[heap[c].site]].kind = "link"
      BY <1>1, <2>1, <3>1 DEF CachesHold, CellsOrNull
    <3> QED BY <1>2, <2>3, <3>1, <3>2
  <2>4. CASE heap[c].n # 0 /\ heap[c].n # 1
    <3>1. PICK d \in Cells :
                /\ heap[d].kind = "link" /\ heap[d].next # Null
                /\ heap[heap[d].next].code = c
                /\ heap[heap[d].code] = Code(heap[c].site, heap[c].n - 1)
      BY <2>1, <2>4 DEF OnceInv, CodeIsCached
    <3>2. heap[d].next \in Cells /\ heap[d].code \in Cells
      BY <1>1, <3>1, ObjectTypes DEF CellsOrNull, Links
    <3>3. heap[heap[d].next].kind = "link" /\ heap[heap[d].code].kind = "code"
      BY <1>1, <3>1 DEF ChainsCount
    <3>4. heap'[d] = heap[d] /\ heap'[heap[d].next] = heap[heap[d].next]
          /\ heap'[heap[d].code] = heap[heap[d].code]
      BY <1>2, <3>1, <3>2, <3>3
    <3> QED BY <2>4, <3>1, <3>4
  <2> QED BY <2>2, <2>3, <2>4
<1> QED BY <1>3, <1>4, <1>5 DEF OnceInv

LEMMA CompileAndStoreOnce ==
    ASSUME Sole, IInv, OnceInv, NEW t \in Threads, CompileAndStore(t)
    PROVE  OnceInv'
<1> DEFINE c == Fresh(1)
           f == Inner(t)
           g == [f EXCEPT !.step = "body", !.site = Null]
<1>1. c \in Cells /\ heap[c].kind = "free" /\ c # Null
  BY OneFresh DEF CompileAndStore
<1>2. TypeOK /\ heap \in Heaps /\ frames[t] # <<>> /\ f.step = "compile" /\ IInv'
  BY CompileAndStoreStep DEF IInv, TypeOK, CompileAndStore
<1>3. /\ f \in Scopes /\ f = frames[t][Len(frames[t])] /\ Len(frames[t]) \in DOMAIN frames[t]
      /\ f.site \in Sites
  BY <1>2, InnerFacts, InnerIsSound DEF ScopeIsSound, StepMakesSense
<1>4. cache[f.site] = Null
  BY <1>2, <1>3 DEF OnceInv, StillMissing
<1>5. /\ heap' = [heap EXCEPT ![c] = Code(f.site, 0)]
      /\ cache' = [cache EXCEPT ![f.site] = c] /\ root' = root /\ Becomes(t, g)
  BY DEF CompileAndStore
<1>6. g.step = "body"
  BY <1>3 DEF Scopes
<1> HIDE DEF c, f
<1>7. /\ heap'[c] = Code(f.site, 0) /\ \A d \in Cells : d # c => heap'[d] = heap[d]
      /\ cache'[f.site] = c /\ \A s \in Sites : s # f.site => cache'[s] = cache[s]
  BY <1>1, <1>2, <1>3, <1>5 DEF TypeOK, Heaps, CellsOrNull
<1>8. /\ Code(f.site, 0).kind = "code" /\ Code(f.site, 0).n = 0 /\ Code(f.site, 0).site = f.site
  BY DEF Code
<1>9. CachesHold(heap, cache, root) /\ ChainsCount(heap) /\ root \in [Sites -> CellsOrNull]
  BY DEF IInv, TypeOK
<1>10. \A e \in Cells : heap[e] # Code(f.site, 0)
  <2> SUFFICES ASSUME NEW e \in Cells, heap[e] = Code(f.site, 0) PROVE FALSE
    OBVIOUS
  <2>1. cache[f.site] = e
    BY <1>8 DEF OnceInv, CodeIsCached
  <2> QED BY <1>4, <2>1 DEF Cells, Null
<1>11. CompiledOnce'
  <2> SUFFICES ASSUME NEW a \in Cells, NEW b \in Cells, heap'[a].kind = "code", heap'[a] = heap'[b]
               PROVE  a = b
    BY DEF CompiledOnce
  <2> QED BY <1>7, <1>10 DEF OnceInv, CompiledOnce
<1>12. LinksHaveTheirOwn'
  <2> SUFFICES ASSUME NEW a \in Cells, NEW b \in Cells, heap'[a].kind = "link", heap'[b].kind = "link",
                      heap'[a].code = heap'[b].code
               PROVE  a = b
    BY DEF LinksHaveTheirOwn
  <2> QED BY <1>7, <1>8 DEF OnceInv, LinksHaveTheirOwn
<1>13. CodeIsCached'
  <2> SUFFICES ASSUME NEW a \in Cells, heap'[a].kind = "code"
               PROVE  IF heap'[a].n = 0 THEN cache'[heap'[a].site] = a
                      ELSE IF heap'[a].n = 1
                      THEN root[heap'[a].site] # Null /\ heap'[root[heap'[a].site]].code = a
                      ELSE \E d \in Cells :
                              /\ heap'[d].kind = "link" /\ heap'[d].next # Null
                              /\ heap'[heap'[d].next].code = a
                              /\ heap'[heap'[d].code] = Code(heap'[a].site, heap'[a].n - 1)
    BY <1>5 DEF CodeIsCached
  <2>1. CASE a = c
    BY <1>7, <1>8, <2>1
  <2>2. CASE a # c
    <3>1. heap'[a] = heap[a] /\ heap[a].kind = "code"
      BY <1>7, <2>2
    <3>2. heap[a].site \in Sites
      BY <1>2, <3>1, ObjectTypes DEF CellsOrNull, Codes
    <3>3. CASE heap[a].n = 0
      <4>1. cache[heap[a].site] = a
        BY <3>1, <3>3 DEF OnceInv, CodeIsCached
      <4>2. heap[a].site # f.site
        BY <1>4, <4>1 DEF Cells, Null
      <4> QED BY <1>7, <3>1, <3>2, <3>3, <4>1, <4>2
    <3>4. CASE heap[a].n = 1
      <4>1. root[heap[a].site] # Null /\ heap[root[heap[a].site]].code = a
        BY <3>1, <3>4 DEF OnceInv, CodeIsCached
      <4>2. root[heap[a].site] \in Cells /\ heap[root[heap[a].site]].kind = "link"
        BY <1>9, <3>2, <4>1 DEF CachesHold, CellsOrNull
      <4>3. heap'[root[heap[a].site]] = heap[root[heap[a].site]]
        BY <1>1, <1>7, <4>2
      <4> QED BY <3>1, <3>4, <4>1, <4>3
    <3>5. CASE heap[a].n # 0 /\ heap[a].n # 1
      <4>1. PICK d \in Cells :
                /\ heap[d].kind = "link" /\ heap[d].next # Null
                /\ heap[heap[d].next].code = a
                /\ heap[heap[d].code] = Code(heap[a].site, heap[a].n - 1)
        BY <3>1, <3>5 DEF OnceInv, CodeIsCached
      <4>2. heap[d].next \in Cells /\ heap[d].code \in Cells
        BY <1>2, <4>1, ObjectTypes DEF CellsOrNull, Links
      <4>3. heap[heap[d].next].kind = "link" /\ heap[heap[d].code].kind = "code"
        BY <1>9, <4>1 DEF ChainsCount
      <4>4. heap'[d] = heap[d] /\ heap'[heap[d].next] = heap[heap[d].next]
            /\ heap'[heap[d].code] = heap[heap[d].code]
        BY <1>1, <1>7, <4>1, <4>2, <4>3
      <4> QED BY <3>1, <3>5, <4>1, <4>4
    <3> QED BY <3>3, <3>4, <3>5
  <2> QED BY <2>1, <2>2
<1>14. StillMissing'
  <2>1. IsMissing(heap', cache', root', g)
    BY <1>6 DEF IsMissing
  <2> HIDE DEF g
  <2> QED BY <1>2, <1>5, <2>1, BecomesMissing
<1> QED BY <1>11, <1>12, <1>13, <1>14 DEF OnceInv


LEMMA MakeLinkOnce ==
    ASSUME Sole, IInv, OnceInv, NEW t \in Threads, MakeLink(t)
    PROVE  OnceInv'
<1> DEFINE f == Inner(t)
           x == heap[f.helper]
           c == Fresh(1)
           l == Fresh(2)
           n == f.condition + 1
           g == [f EXCEPT !.step = "body"]
<1>1. LinkMade(f, x, c, l, n)
  BY MakeLinkFacts
<1>2. TypeOK /\ heap \in Heaps /\ frames[t] # <<>> /\ Becomes(t, g) /\ cache' = cache /\ IInv'
  BY MakeLinkStep DEF IInv, TypeOK, MakeLink
<1>3. f = frames[t][Len(frames[t])] /\ Len(frames[t]) \in DOMAIN frames[t] /\ f \in Scopes
  BY <1>2, InnerFacts
<1>4. IF x.curr = Null THEN root[x.site] = Null ELSE heap[x.curr].next = Null
  <2>1. f.step = "chain"
    BY <1>1 DEF LinkMade
  <2>2. NextLink(heap[frames[t][Len(frames[t])].helper]) = Null
    BY <1>3, <2>1 DEF OnceInv, StillMissing
  <2> QED BY <1>3, <2>2 DEF NextLink
<1>5. g.step = "body"
  BY <1>3 DEF Scopes
<1>6. StillMissing'
  <2>1. IsMissing(heap', cache', root', g)
    BY <1>5 DEF IsMissing
  <2> HIDE DEF g
  <2> QED BY <1>2, <2>1, BecomesMissing
<1> HIDE DEF f, x, c, l, n, g
<1>7. /\ c \in Cells /\ l \in Cells /\ c # l /\ heap[c].kind = "free" /\ heap[l].kind = "free"
      /\ x.site \in Sites /\ f.condition \in Nat /\ n = f.condition + 1
      /\ x.curr = Null => n = 1
      /\ x.curr # Null => /\ x.curr \in Cells /\ heap[x.curr].kind = "link"
                          /\ heap[heap[x.curr].code] = Code(x.site, f.condition)
                          /\ f.condition > 0
  BY <1>1 DEF LinkMade, n
<1>8. /\ heap'[c] = Code(x.site, n) /\ heap'[l].kind = "link" /\ heap'[l].code = c /\ heap'[l].next = Null
      /\ \A d \in Cells : d = c \/ d = l \/ d = x.curr \/ heap'[d] = heap[d]
      /\ x.curr # Null => /\ heap'[x.curr].kind = "link"
                          /\ heap'[x.curr].code = heap[x.curr].code /\ heap'[x.curr].next = l
  BY <1>1 DEF LinkMade, CellsOrNull
<1>9. \A m \in Nat : Code(x.site, m).kind = "code" /\ Code(x.site, m).n = m /\ Code(x.site, m).site = x.site
  BY DEF Code
<1>10. /\ CachesHold(heap, cache, root) /\ ChainsCount(heap) /\ root \in [Sites -> CellsOrNull]
       /\ \A s \in Sites : root'[s] = IF x.curr = Null /\ s = x.site THEN l ELSE root[s]
  <2>1. root' = IF x.curr = Null THEN [root EXCEPT ![x.site] = l] ELSE root
    BY <1>1 DEF LinkMade
  <2>2. CachesHold(heap, cache, root) /\ ChainsCount(heap) /\ root \in [Sites -> CellsOrNull]
    BY DEF IInv, TypeOK
  <2> QED BY <1>7, <2>1, <2>2
<1>11. /\ \A e \in Cells : heap[e].kind = "code" => heap'[e] = heap[e] /\ e # c
       /\ \A e \in Cells : heap[e].kind = "link" =>
            heap'[e].kind = "link" /\ heap'[e].code = heap[e].code /\ e # l /\ e # c
       /\ \A e \in Cells : heap'[e].kind = "code" => e = c \/ (heap[e].kind = "code" /\ heap'[e] = heap[e])
       /\ \A e \in Cells : heap'[e].kind = "link" => e = l \/ heap[e].kind = "link"
  <2>1. \A e \in Cells : e = x.curr => heap[e].kind = "link" /\ heap'[e].kind = "link"
                                       /\ heap'[e].code = heap[e].code
    BY <1>7, <1>8 DEF Cells, Null
  <2>2. heap'[c].kind = "code"
    BY <1>7, <1>8, <1>9
  <2> QED BY <1>7, <1>8, <2>1, <2>2
<1>12. \A e \in Cells : heap[e] # Code(x.site, n)
  <2> SUFFICES ASSUME NEW e \in Cells, heap[e] = Code(x.site, n) PROVE FALSE
    OBVIOUS
  <2>1. heap[e].kind = "code" /\ heap[e].n = n /\ heap[e].site = x.site /\ n \in Nat
    BY <1>7, <1>9
  <2>2. CASE x.curr = Null
    <3>1. root[x.site] # Null
      BY <1>7, <2>1, <2>2 DEF OnceInv, CodeIsCached
    <3> QED BY <1>4, <2>2, <3>1
  <2>3. CASE x.curr # Null
    <3>1. n # 0 /\ n # 1 /\ n - 1 = f.condition
      BY <1>7, <2>3
    <3>2. PICK d \in Cells :
                /\ heap[d].kind = "link" /\ heap[d].next # Null
                /\ heap[heap[d].code] = Code(x.site, f.condition)
      BY <2>1, <3>1 DEF OnceInv, CodeIsCached
    <3>3. heap[d].code \in Cells /\ heap[x.curr].code \in Cells
      BY <1>2, <1>7, <2>3, <3>2, ObjectTypes DEF CellsOrNull, Links
    <3>4. heap[heap[d].code] = heap[heap[x.curr].code] /\ heap[heap[d].code].kind = "code"
      BY <1>7, <1>9, <2>3, <3>2
    <3>5. heap[d].code = heap[x.curr].code
      BY <3>3, <3>4 DEF OnceInv, CompiledOnce
    <3>6. d = x.curr
      BY <1>7, <2>3, <3>2, <3>5 DEF OnceInv, LinksHaveTheirOwn
    <3> QED BY <1>4, <2>3, <3>2, <3>6
  <2> QED BY <2>2, <2>3
<1>13. CompiledOnce'
  <2> SUFFICES ASSUME NEW a \in Cells, NEW b \in Cells, heap'[a].kind = "code", heap'[a] = heap'[b]
               PROVE  a = b
    BY DEF CompiledOnce
  <2> QED BY <1>8, <1>11, <1>12 DEF OnceInv, CompiledOnce
<1>14. LinksHaveTheirOwn'
  <2> SUFFICES ASSUME NEW a \in Cells, NEW b \in Cells, heap'[a].kind = "link", heap'[b].kind = "link",
                      heap'[a].code = heap'[b].code
               PROVE  a = b
    BY DEF LinksHaveTheirOwn
  <2>1. \A e \in Cells : heap[e].kind = "link" => heap'[e].code # c
    <3> SUFFICES ASSUME NEW e \in Cells, heap[e].kind = "link" PROVE heap[e].code # c
      BY <1>11
    <3>1. heap[heap[e].code].kind = "code"
      BY <1>10 DEF ChainsCount
    <3> QED BY <1>7, <3>1
  <2>2. CASE a = l \/ b = l
    BY <1>8, <1>11, <2>1, <2>2
  <2>3. CASE a # l /\ b # l
    BY <1>11, <2>3 DEF OnceInv, LinksHaveTheirOwn
  <2> QED BY <2>2, <2>3
<1>15. CodeIsCached'
  <2> SUFFICES ASSUME NEW a \in Cells, heap'[a].kind = "code"
               PROVE  IF heap'[a].n = 0 THEN cache[heap'[a].site] = a
                      ELSE IF heap'[a].n = 1
                      THEN root'[heap'[a].site] # Null /\ heap'[root'[heap'[a].site]].code = a
                      ELSE \E d \in Cells :
                              /\ heap'[d].kind = "link" /\ heap'[d].next # Null
                              /\ heap'[heap'[d].next].code = a
                              /\ heap'[heap'[d].code] = Code(heap'[a].site, heap'[a].n - 1)
    BY <1>2 DEF CodeIsCached
  <2>1. CASE a = c
    <3>1. heap'[a].n = n /\ heap'[a].site = x.site
      BY <1>7, <1>8, <1>9, <2>1
    <3>2. CASE x.curr = Null
      <4>1. n = 1 /\ root'[x.site] = l /\ l # Null
        BY <1>7, <1>10, <3>2 DEF Cells, Null
      <4> QED BY <1>8, <2>1, <3>1, <4>1
    <3>3. CASE x.curr # Null
      <4>1. n # 0 /\ n # 1 /\ n - 1 = f.condition /\ l # Null
        BY <1>7, <3>3 DEF Cells, Null
      <4>2. heap[x.curr].code \in Cells /\ heap[heap[x.curr].code].kind = "code"
        BY <1>2, <1>7, <1>10, <3>3, ObjectTypes DEF CellsOrNull, Links, ChainsCount
      <4>3. heap'[heap'[x.curr].code] = Code(x.site, f.condition)
        BY <1>7, <1>8, <1>11, <3>3, <4>2
      <4> QED BY <1>7, <1>8, <2>1, <3>1, <3>3, <4>1, <4>3
    <3> QED BY <3>2, <3>3
  <2>2. CASE a # c
    <3>1. heap'[a] = heap[a] /\ heap[a].kind = "code"
      BY <1>11, <2>2
    <3>2. heap[a].site \in Sites
      BY <1>2, <3>1, ObjectTypes DEF CellsOrNull, Codes
    <3>3. CASE heap[a].n = 0
      BY <3>1, <3>3 DEF OnceInv, CodeIsCached
    <3>4. CASE heap[a].n = 1
      <4>1. root[heap[a].site] # Null /\ heap[root[heap[a].site]].code = a
        BY <3>1, <3>4 DEF OnceInv, CodeIsCached
      <4>2. root[heap[a].site] \in Cells /\ heap[root[heap[a].site]].kind = "link"
        BY <1>10, <3>2, <4>1 DEF CachesHold, CellsOrNull
      <4>3. root'[heap[a].site] = root[heap[a].site]
        BY <1>4, <1>10, <3>2, <4>1
      <4> QED BY <1>11, <3>1, <3>4, <4>1, <4>2, <4>3
    <3>5. CASE heap[a].n # 0 /\ heap[a].n # 1
      <4>1. PICK d \in Cells :
                /\ heap[d].kind = "link" /\ heap[d].next # Null
                /\ heap[heap[d].next].code = a
                /\ heap[heap[d].code] = Code(heap[a].site, heap[a].n - 1)
        BY <3>1, <3>5 DEF OnceInv, CodeIsCached
      <4>2. heap[d].next \in Cells /\ heap[d].code \in Cells
        BY <1>2, <4>1, ObjectTypes DEF CellsOrNull, Links
      <4>3. heap[heap[d].next].kind = "link" /\ heap[heap[d].code].kind = "code"
        BY <1>10, <4>1 DEF ChainsCount
      <4>4. d # x.curr /\ d # l /\ d # c
        BY <1>4, <1>7, <4>1 DEF Cells, Null
      <4>5. heap'[d] = heap[d]
        BY <1>8, <4>4
      <4>6. heap'[heap[d].next].code = a /\ heap'[heap[d].code] = heap[heap[d].code]
        BY <1>11, <4>1, <4>2, <4>3
      <4> QED BY <3>1, <3>5, <4>1, <4>5, <4>6
    <3> QED BY <3>3, <3>4, <3>5
  <2> QED BY <2>1, <2>2
<1> QED BY <1>6, <1>13, <1>14, <1>15 DEF OnceInv


(* A step after which the thread is not about to make anything.            *)
LEMMA QuietOnce ==
    ASSUME Sole, IInv, OnceInv, IInv' /\ SameCode(heap, heap'), UNCHANGED <<cache, root>>,
           NEW t \in Threads, frames[t] # <<>>, NEW g, Becomes(t, g), g.step \notin {"compile", "chain"}
    PROVE  OnceInv'
<1>1. IsMissing(heap', cache', root', g)
  BY DEF IsMissing
<1>2. StillMissing'
  BY <1>1, BecomesMissing
<1> QED BY <1>2, OnceKept

LEMMA SetupOnce ==
    ASSUME Sole, IInv, OnceInv, NEW t \in Threads, Setup(t)
    PROVE  OnceInv'
<1>1. IInv' /\ SameCode(heap, heap') /\ UNCHANGED <<cache, root>>
  BY SetupStep DEF Setup
<1>2. frames'[t][Len(frames'[t])].step = "body"
  <2>1. frames[t] \in Seq(Scopes) /\ frames \in [Threads -> Seq(Scopes)]
    BY DEF IInv, TypeOK, Stacks
  <2>2. frames'[t] = Append(frames[t], Scope(Fresh(1)))
    BY <2>1 DEF Setup
  <2>3. /\ Append(frames[t], Scope(Fresh(1)))[Len(frames[t]) + 1] = Scope(Fresh(1))
        /\ Len(Append(frames[t], Scope(Fresh(1)))) = Len(frames[t]) + 1
    <3> DEFINE s == Scope(Fresh(1))
    <3> HIDE DEF s
    <3>1. Append(frames[t], s)[Len(frames[t]) + 1] = s /\ Len(Append(frames[t], s)) = Len(frames[t]) + 1
      BY <2>1, Appended
    <3> QED BY <3>1 DEF s
  <2>4. Scope(Fresh(1)).step = "body"
    BY DEF Scope
  <2> QED BY <2>2, <2>3, <2>4
<1>3. StillMissing'
  <2>1. IsMissing(heap', cache', root', frames'[t][Len(frames'[t])])
    BY <1>2 DEF IsMissing
  <2> QED BY <1>1, <2>1, OnlyInnermostMakes
<1> QED BY <1>1, <1>3, OnceKept

LEMMA CleanupOnce ==
    ASSUME Sole, IInv, OnceInv, NEW t \in Threads, Cleanup(t)
    PROVE  OnceInv'
<1>1. /\ IInv' /\ SameCode(heap, heap') /\ UNCHANGED <<cache, root>>
      /\ frames[t] # <<>> /\ frames' = [frames EXCEPT ![t] = Front(@)]
  BY CleanupStep DEF Cleanup, InBody
<1>2. frames[t] \in Seq(Scopes) /\ frames \in [Threads -> Seq(Scopes)] /\ ScopesAreSound(heap, frames)
  BY DEF IInv, TypeOK, Stacks
<1>3. /\ frames'[t] = Front(frames[t]) /\ Front(frames[t]) \in Seq(Scopes)
      /\ Len(Front(frames[t])) = Len(frames[t]) - 1 /\ Len(frames[t]) \in Nat \ {0}
      /\ DOMAIN Front(frames[t]) = DOMAIN frames[t] \ {Len(frames[t])}
      /\ \A k \in DOMAIN frames[t] \ {Len(frames[t])} : Front(frames[t])[k] = frames[t][k]
  BY <1>1, <1>2, FrontFacts
<1>4. ASSUME frames'[t] # <<>>
      PROVE  frames'[t][Len(frames'[t])].step = "body"
  <2> DEFINE k == Len(Front(frames[t]))
  <2>1. k \in DOMAIN Front(frames[t])
    BY <1>3, <1>4
  <2>2. k \in DOMAIN frames[t] /\ k # Len(frames[t]) /\ Front(frames[t])[k] = frames[t][k]
    BY <1>3, <2>1
  <2>3. StepMakesSense(frames[t][k], k = Len(frames[t]))
    BY <1>2, <2>2 DEF ScopesAreSound, ScopeIsSound
  <2> QED BY <1>3, <2>2, <2>3 DEF StepMakesSense
<1>5. StillMissing'
  <2>1. frames'[t] # <<>> => IsMissing(heap', cache', root', frames'[t][Len(frames'[t])])
    BY <1>4 DEF IsMissing
  <2> QED BY <1>1, <2>1, OnlyInnermostMakes
<1> QED BY <1>1, <1>5, OnceKept

LEMMA FindNotCompiledOnce ==
    ASSUME Sole, IInv, OnceInv, NEW t \in Threads, NEW s \in Sites, FindNotCompiled(t, s)
    PROVE  OnceInv'
<1> DEFINE g == [Inner(t) EXCEPT !.step = "compile", !.site = s]
<1>1. /\ IInv' /\ SameCode(heap, heap') /\ cache' = cache /\ root' = root
      /\ frames[t] # <<>> /\ cache[s] = Null /\ Becomes(t, g)
  BY FindNotCompiledStep DEF FindNotCompiled, InBody
<1>2. g.step = "compile" /\ g.site = s
  BY <1>1, InnerFacts DEF IInv, Scopes
<1>3. IsMissing(heap', cache', root', g)
  BY <1>1, <1>2 DEF IsMissing
<1> HIDE DEF g
<1>4. StillMissing'
  BY <1>1, <1>3, BecomesMissing
<1> QED BY <1>1, <1>4, OnceKept

LEMMA StepIfOnce ==
    ASSUME Sole, IInv, OnceInv, NEW t \in Threads, StepIf(t)
    PROVE  OnceInv'
<1> DEFINE f == Inner(t)
           x == heap[f.helper]
<1>1. /\ IInv' /\ SameCode(heap, heap') /\ cache' = cache /\ root' = root
      /\ frames[t] # <<>> /\ f.step = "body"
  BY StepIfStep DEF StepIf, InBody
<1>2. f \in Scopes
  BY <1>1, InnerFacts DEF IInv
<1>3. CASE NextLink(x) = Null
  <2> DEFINE g == [f EXCEPT !.step = "chain"]
  <2>1. Becomes(t, g) /\ heap' = heap
    BY <1>3 DEF StepIf
  <2>2. g.step = "chain" /\ g.helper = f.helper
    BY <1>2 DEF Scopes
  <2>3. IF x.curr = Null THEN root[x.site] = Null ELSE heap[x.curr].next = Null
    BY <1>3 DEF NextLink
  <2>4. IsMissing(heap', cache', root', g)
    BY <1>1, <2>1, <2>2, <2>3 DEF IsMissing
  <2> HIDE DEF g
  <2>5. StillMissing'
    BY <1>1, <2>1, <2>4, BecomesMissing
  <2> QED BY <1>1, <2>5, OnceKept
<1>4. CASE NextLink(x) # Null
  <2> DEFINE g == [f EXCEPT !.condition = @ + 1]
  <2>1. Becomes(t, g)
    BY <1>4 DEF StepIf
  <2>2. g.step = "body"
    BY <1>1, <1>2 DEF Scopes
  <2> HIDE DEF g
  <2> QED BY <1>1, <2>1, <2>2, QuietOnce
<1> QED BY <1>3, <1>4

(* What the one thread keeps.                                              *)
SoleInv == Sole /\ IInv /\ OnceInv

LEMMA SoleInit == Sole /\ Init => SoleInv
<1> SUFFICES ASSUME Sole, Init PROVE SoleInv
  OBVIOUS
<1>1. IInv
  BY InvInit
<1>2. \A c \in Cells : heap[c].kind = "free"
  BY DEF Init, Free
<1>3. \A t \in Threads : DOMAIN frames[t] = {}
  BY DEF Init
<1>4. OnceInv
  BY <1>2, <1>3 DEF OnceInv, CompiledOnce, CodeIsCached, LinksHaveTheirOwn, StillMissing
<1> QED BY <1>1, <1>4 DEF SoleInv

LEMMA SoleNext == SoleInv /\ [Next]_vars => SoleInv'
<1> SUFFICES ASSUME Sole, IInv, OnceInv, [Next]_vars PROVE OnceInv'
  BY InvNext DEF SoleInv, Sole
<1>1. IInv'
  BY InvNext
<1>2. \A t \in Threads : frames[t] # <<>> => Inner(t) \in Scopes
  BY InnerFacts DEF IInv
<1>3. CASE UNCHANGED vars
  <2>1. heap' = heap /\ cache' = cache /\ root' = root /\ frames' = frames
    BY <1>3 DEF vars
  <2> QED BY <2>1 DEF OnceInv, CompiledOnce, CodeIsCached, LinksHaveTheirOwn, StillMissing, NextLink
<1>4. ASSUME NEW t \in Threads, Setup(t) PROVE OnceInv'
  BY <1>4, SetupOnce
<1>5. ASSUME NEW t \in Threads, Cleanup(t) PROVE OnceInv'
  BY <1>5, CleanupOnce
<1>6. ASSUME NEW t \in Threads, NEW k \in {"python", "memory"}, Defer(t, k) PROVE OnceInv'
  <2> DEFINE g == [Inner(t) EXCEPT !.cleanup = Append(@, Fresh(1))]
  <2>1. /\ IInv' /\ SameCode(heap, heap') /\ UNCHANGED <<cache, root>>
        /\ frames[t] # <<>> /\ Inner(t).step = "body" /\ Becomes(t, g)
    BY <1>6, DeferStep DEF Defer, InBody
  <2>2. g.step = "body"
    BY <1>2, <2>1 DEF Scopes
  <2> HIDE DEF g
  <2> QED BY <2>1, <2>2, QuietOnce
<1>7. ASSUME NEW t \in Threads, CleanNow(t) PROVE OnceInv'
  <2> DEFINE g == [Inner(t) EXCEPT !.cleanup = <<>>]
  <2>1. /\ IInv' /\ SameCode(heap, heap') /\ UNCHANGED <<cache, root>>
        /\ frames[t] # <<>> /\ Inner(t).step = "body" /\ Becomes(t, g)
    BY <1>7, CleanNowStep DEF CleanNow, InBody
  <2>2. g.step = "body"
    BY <1>2, <2>1 DEF Scopes
  <2> HIDE DEF g
  <2> QED BY <2>1, <2>2, QuietOnce
<1>8. ASSUME NEW t \in Threads, NEW s \in Sites, FindNotCompiled(t, s) PROVE OnceInv'
  BY <1>8, FindNotCompiledOnce
<1>9. ASSUME NEW t \in Threads, CompileAndStore(t) PROVE OnceInv'
  BY <1>9, CompileAndStoreOnce
<1>10. ASSUME NEW t \in Threads, NEW s \in Sites, BeginIf(t, s) PROVE OnceInv'
  <2> DEFINE g == [Inner(t) EXCEPT !.helper = Fresh(1), !.condition = 0, !.cleanup = Append(@, Fresh(1))]
  <2>1. /\ IInv' /\ SameCode(heap, heap') /\ UNCHANGED <<cache, root>>
        /\ frames[t] # <<>> /\ Inner(t).step = "body" /\ Becomes(t, g)
    BY <1>10, BeginIfStep DEF BeginIf, InBody
  <2>2. g.step = "body"
    BY <1>2, <2>1 DEF Scopes
  <2> HIDE DEF g
  <2> QED BY <2>1, <2>2, QuietOnce
<1>11. ASSUME NEW t \in Threads, StepIf(t) PROVE OnceInv'
  BY <1>11, StepIfOnce
<1>12. ASSUME NEW t \in Threads, MakeLink(t) PROVE OnceInv'
  BY <1>12, MakeLinkOnce
<1>13. ASSUME NEW t \in Threads, LeaveIf(t) PROVE OnceInv'
  <2> DEFINE g == [Inner(t) EXCEPT !.helper = Null, !.condition = 0]
  <2>1. /\ IInv' /\ SameCode(heap, heap') /\ UNCHANGED <<cache, root>>
        /\ frames[t] # <<>> /\ Inner(t).step = "body" /\ Becomes(t, g)
    BY <1>13, LeaveIfStep DEF LeaveIf, InBody
  <2>2. g.step = "body"
    BY <1>2, <2>1 DEF Scopes
  <2> HIDE DEF g
  <2> QED BY <2>1, <2>2, QuietOnce
<1>14. ASSUME NEW t \in Threads, BeginForeachFnac(t) PROVE OnceInv'
  <2> DEFINE g == [Inner(t) EXCEPT !.step = "update", !.loops = Append(@, Fresh(2)),
                                   !.cleanup = Append(@, Fresh(2))]
  <2>1. /\ IInv' /\ SameCode(heap, heap') /\ UNCHANGED <<cache, root>> /\ frames[t] # <<>> /\ Becomes(t, g)
    BY <1>14, BeginForeachFnacStep DEF BeginForeachFnac, InBody
  <2>2. g.step = "update"
    BY <1>2, <2>1 DEF Scopes
  <2> HIDE DEF g
  <2> QED BY <2>1, <2>2, QuietOnce
<1>15. ASSUME NEW t \in Threads, NEW s \in Sites, BeginForeachCache(t, s) PROVE OnceInv'
  <2> DEFINE g == [Inner(t) EXCEPT !.step = "update", !.loops = Append(@, Fresh(4)),
                                   !.cleanup = Append(@, Fresh(4))]
  <2>1. /\ IInv' /\ SameCode(heap, heap') /\ UNCHANGED <<cache, root>> /\ frames[t] # <<>> /\ Becomes(t, g)
    BY <1>15, BeginForeachCacheStep DEF BeginForeachCache, InBody
  <2>2. g.step = "update"
    BY <1>2, <2>1 DEF Scopes
  <2> HIDE DEF g
  <2> QED BY <2>1, <2>2, QuietOnce
<1>16. ASSUME NEW t \in Threads, BeginForeach(t) PROVE OnceInv'
  <2> DEFINE g == [Inner(t) EXCEPT !.step = "update", !.loops = Append(@, Fresh(2))]
  <2>1. /\ IInv' /\ SameCode(heap, heap') /\ UNCHANGED <<cache, root>> /\ frames[t] # <<>> /\ Becomes(t, g)
    BY <1>16, BeginForeachStep DEF BeginForeach, InBody
  <2>2. g.step = "update"
    BY <1>2, <2>1 DEF Scopes
  <2> HIDE DEF g
  <2> QED BY <2>1, <2>2, QuietOnce
<1>17. ASSUME NEW t \in Threads, NextItem(t) PROVE OnceInv'
  <2> DEFINE g == [Inner(t) EXCEPT !.step = "body"]
  <2>1. /\ IInv' /\ SameCode(heap, heap') /\ UNCHANGED <<cache, root>> /\ frames[t] # <<>> /\ Becomes(t, g)
    BY <1>17, NextItemStep DEF NextItem, Looping
  <2>2. g.step = "body"
    BY <1>2, <2>1 DEF Scopes
  <2> HIDE DEF g
  <2> QED BY <2>1, <2>2, QuietOnce
<1>18. ASSUME NEW t \in Threads, EndOfLoop(t) PROVE OnceInv'
  <2> DEFINE g == [Inner(t) EXCEPT !.step = "body", !.loops = Front(@)]
  <2>1. /\ IInv' /\ SameCode(heap, heap') /\ UNCHANGED <<cache, root>> /\ frames[t] # <<>> /\ Becomes(t, g)
    BY <1>18, EndOfLoopStep DEF EndOfLoop, Looping
  <2>2. g.step = "body"
    BY <1>2, <2>1 DEF Scopes
  <2> HIDE DEF g
  <2> QED BY <2>1, <2>2, QuietOnce
<1>19. ASSUME NEW t \in Threads, Break(t) PROVE OnceInv'
  <2> DEFINE g == [Inner(t) EXCEPT !.loops = Front(@)]
  <2>1. /\ IInv' /\ SameCode(heap, heap') /\ UNCHANGED <<cache, root>>
        /\ frames[t] # <<>> /\ Inner(t).step = "body" /\ Becomes(t, g)
    BY <1>19, BreakStep DEF Break, InBody
  <2>2. g.step = "body"
    BY <1>2, <2>1 DEF Scopes
  <2> HIDE DEF g
  <2> QED BY <2>1, <2>2, QuietOnce
<1> QED BY <1>3, <1>4, <1>5, <1>6, <1>7, <1>8, <1>9, <1>10, <1>11, <1>12, <1>13, <1>14, <1>15, <1>16,
           <1>17, <1>18, <1>19 DEF Next

(* A single thread compiles every code string once, however often and      *)
(* however deep it runs the function: the caches and the chains lead to    *)
(* all that was ever compiled.                                             *)
THEOREM OneThreadCompilesOnce == Sole /\ Spec => []CompiledOnce
<1>1. SoleInv => CompiledOnce
  BY DEF SoleInv, OnceInv
<1> QED BY <1>1, SoleInit, SoleNext, PTL DEF Spec
=============================================================================
