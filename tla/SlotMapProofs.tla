--------------------------- MODULE SlotMapProofs ---------------------------
(***************************************************************************)
(* Proofs about SlotMap, for every page size, page table and set of        *)
(* objects: the safety properties, and that the map implements             *)
(* HandleStore.  The inductive invariant is IInv; what it adds to the      *)
(* properties is that an add() whose next_handle_val is 0 has noticed the  *)
(* overflow, and that a page's own count is right in every phase.          *)
(***************************************************************************)
EXTENDS SlotMap, FiniteSetTheorems, TLAPS

AddNoticesOverflow == phase = "adding" /\ next_handle_val = 0 => wrapped_around

IInv ==
    /\ TypeOK
    /\ ZeroNeverLive
    /\ AddNoticesOverflow
    /\ UnwrappedAhead
    /\ EmptyPageIsCurrent
    /\ PageCountsAgree
    /\ CountsAgree
-----------------------------------------------------------------------------
(* Handle arithmetic.                                                      *)

(* A handle's page is in the page table.                                   *)
LEMMA PageOfHandle == \A h \in Handles : PageIndex(h) \in PageTable
  BY SlotMapAssumption, SMTT(30) DEF Handles, PageTable, PageIndex

(* The handles of page p are the PageSize values from PagePos(p) on.       *)
LEMMA PageInterval ==
    ASSUME NEW p \in PageTable, NEW h \in Handles,
           p * PageSize <= h, h <= p * PageSize + PageSize - 1
    PROVE  PageIndex(h) = p
  BY SlotMapAssumption, SMTT(30) DEF Handles, PageTable, PageIndex

(* The handles a page could hold are finitely many, and so are the pages.  *)
LEMMA FiniteTables ==
    /\ IsFiniteSet(Handles)
    /\ IsFiniteSet(PageTable)
    /\ \A S \in SUBSET Handles : IsFiniteSet(S) /\ Cardinality(S) \in Nat
    /\ \A S \in SUBSET PageTable : IsFiniteSet(S) /\ Cardinality(S) \in Nat
<1>1. PageSize * NumPages - 1 \in Int /\ NumPages - 1 \in Int
  BY SlotMapAssumption
<1>2. IsFiniteSet(Handles)
  BY <1>1, FS_Interval DEF Handles
<1>3. IsFiniteSet(PageTable)
  BY <1>1, FS_Interval DEF PageTable
<1> QED  BY <1>2, <1>3, FS_Subset, FS_CardinalityType

(* Succ stays among the handles.                                           *)
LEMMA SuccType == \A h \in Handles : Succ(h) \in Handles
<1>1. 0 \in Handles
  BY SlotMapAssumption DEF Handles
<1> QED  BY <1>1 DEF Succ

(* Handles 0 and 1 are on the same page.                                   *)
LEMMA ZeroAndOne == 0 \in Handles /\ 1 \in Handles /\ PageIndex(0) = 0 /\ PageIndex(1) = 0
  BY SlotMapAssumption, SMTT(30) DEF Handles, PageIndex

(* A set that loses, or gains, one member: its count goes down, or up.     *)
LEMMA CountMinus ==
    ASSUME NEW S, IsFiniteSet(S), NEW x \in S
    PROVE  Cardinality(S \ {x}) = Cardinality(S) - 1
  BY FS_RemoveElement

LEMMA CountPlus ==
    ASSUME NEW S, IsFiniteSet(S), NEW x, x \notin S
    PROVE  Cardinality(S \cup {x}) = Cardinality(S) + 1
  BY FS_AddElement

(* A page whose count is 0 holds nothing.                                  *)
LEMMA EmptyPage ==
    ASSUME TypeOK, PageCountsAgree, NEW p \in pages, items[p] = 0
    PROVE  LiveOn(p) = {}
<1>1. IsFiniteSet(LiveOn(p)) /\ Cardinality(LiveOn(p)) = 0
  BY FiniteTables DEF LiveOn, PageCountsAgree
<1> QED  BY <1>1, FS_EmptySet

(* A page whose count is 1 holds the one handle known to be live on it.    *)
LEMMA LastOnPage ==
    ASSUME TypeOK, PageCountsAgree, NEW h \in Handles, Has(h), items[PageIndex(h)] = 1
    PROVE  LiveOn(PageIndex(h)) = {h}
<1> DEFINE p == PageIndex(h)
<1>1. p \in pages
  BY DEF Has, Get
<1>2. IsFiniteSet(LiveOn(p)) /\ Cardinality(LiveOn(p)) = 1
  BY <1>1, FiniteTables DEF LiveOn, PageCountsAgree
<1>3. h \in LiveOn(p)
  BY DEF LiveOn
<1>4. Cardinality(LiveOn(p) \ {h}) = 0 /\ IsFiniteSet(LiveOn(p) \ {h})
  BY <1>2, <1>3, CountMinus, FS_RemoveElement
<1>5. LiveOn(p) \ {h} = {}
  BY <1>4, FS_EmptySet
<1> QED  BY <1>3, <1>5
-----------------------------------------------------------------------------
(* What each step does to the mapping from handles to objects, which is    *)
(* also what the abstract store sees of it.                                *)

LEMMA GetInBeginAdd ==
    ASSUME IInv, NEW obj \in Objects, BeginAdd(obj)
    PROVE  \A k \in Handles : Get(k)' = Get(k)
<1> DEFINE p == PageIndex(next_handle_val)
<1> SUFFICES ASSUME NEW k \in Handles PROVE Get(k)' = Get(k)
  OBVIOUS
<1>1. CASE EntryIndex(next_handle_val) = 0 /\ p \in pages /\ items[p] = 0
  <2>1. pages' = pages \ {p} /\ entries' = entries
    BY <1>1 DEF BeginAdd, DeletePage
  <2>2. LiveOn(p) = {}
    BY <1>1, EmptyPage DEF IInv
  <2>3. CASE PageIndex(k) = p
    <3>1. ~Has(k)
      BY <2>2, <2>3 DEF LiveOn
    <3> QED  BY <2>1, <2>3, <3>1 DEF Get, Has
  <2>4. CASE PageIndex(k) # p
    BY <2>1, <2>4 DEF Get
  <2> QED  BY <2>3, <2>4
<1>2. CASE ~(EntryIndex(next_handle_val) = 0 /\ p \in pages /\ items[p] = 0)
  BY <1>2 DEF BeginAdd, Get
<1> QED  BY <1>1, <1>2

LEMMA GetInSkipHandle ==
    ASSUME SkipHandle
    PROVE  \A k \in Handles : Get(k)' = Get(k)
  BY DEF SkipHandle, Get

LEMMA GetInEndAdd ==
    ASSUME IInv, EndAdd
    PROVE  \A k \in Handles : Get(k)' = IF k = next_handle_val THEN incoming ELSE Get(k)
<1> DEFINE p == PageIndex(next_handle_val)
           fresh == p \notin pages
           paged == IF fresh
                    THEN [k \in Handles |-> IF PageIndex(k) = p THEN NoObject ELSE entries[k]]
                    ELSE entries
<1>1. next_handle_val \in Handles /\ entries \in [Handles -> Objects \cup {NoObject}]
  BY DEF IInv, TypeOK
<1>2. pages' = pages \cup {p} /\ entries' = [paged EXCEPT ![next_handle_val] = incoming]
  BY DEF EndAdd
<1> SUFFICES ASSUME NEW k \in Handles
             PROVE  Get(k)' = IF k = next_handle_val THEN incoming ELSE Get(k)
  OBVIOUS
<1>3. CASE k = next_handle_val
  BY <1>1, <1>2, <1>3 DEF Get
<1>4. CASE k # next_handle_val
  <2>1. entries'[k] = paged[k]
    BY <1>1, <1>2, <1>4
  <2>2. CASE PageIndex(k) = p
    BY <1>1, <1>2, <1>4, <2>1, <2>2 DEF Get
  <2>3. CASE PageIndex(k) # p
    BY <1>1, <1>2, <1>4, <2>1, <2>3 DEF Get
  <2> QED  BY <2>2, <2>3
<1> QED  BY <1>3, <1>4

LEMMA GetInDel ==
    ASSUME IInv, NEW h \in Handles, Del(h)
    PROVE  \A k \in Handles : Get(k)' = IF k = h THEN NoObject ELSE Get(k)
<1> DEFINE p == PageIndex(h)
<1>1. entries \in [Handles -> Objects \cup {NoObject}]
  BY DEF IInv, TypeOK
<1>2. Has(h) /\ entries' = [entries EXCEPT ![h] = NoObject]
  BY DEF Del
<1> SUFFICES ASSUME NEW k \in Handles
             PROVE  Get(k)' = IF k = h THEN NoObject ELSE Get(k)
  OBVIOUS
<1>3. CASE items[p] = 1 /\ ~PreservePage(p)
  <2>1. pages' = pages \ {p}
    BY <1>3 DEF Del, DeletePage
  <2>2. LiveOn(p) = {h}
    BY <1>2, <1>3, LastOnPage DEF IInv
  <2>3. CASE PageIndex(k) = p
    <3>1. k # h => ~Has(k)
      BY <2>2, <2>3 DEF LiveOn
    <3> QED  BY <2>1, <2>3, <3>1 DEF Get, Has
  <2>4. CASE PageIndex(k) # p
    BY <1>1, <1>2, <2>1, <2>4 DEF Get
  <2> QED  BY <2>3, <2>4
<1>4. CASE ~(items[p] = 1 /\ ~PreservePage(p))
  <2>1. pages' = pages
    BY <1>4 DEF Del
  <2> QED  BY <1>1, <1>2, <2>1 DEF Get
<1> QED  BY <1>3, <1>4

LEMMA GetInDelAll ==
    ASSUME DelAll
    PROVE  \A k \in Handles : Get(k)' = NoObject
  BY DEF DelAll, Get
-----------------------------------------------------------------------------
(* The invariant holds initially.                                          *)
LEMMA IInvInit == Init => IInv
<1> SUFFICES ASSUME Init PROVE IInv
  OBVIOUS
<1> USE DEF Init
<1>1. \A h \in Handles \cup {0} : ~Has(h)
  BY DEF Has, Get
<1>2. TypeOK
  BY ZeroAndOne DEF TypeOK
<1>3. LiveHandles = {}
  BY <1>1 DEF LiveHandles
<1>4. PageCountsAgree /\ CountsAgree
  BY <1>3, FS_EmptySet DEF PageCountsAgree, CountsAgree
<1>5. ZeroNeverLive /\ UnwrappedAhead
  BY <1>1 DEF ZeroNeverLive, UnwrappedAhead
<1>6. EmptyPageIsCurrent /\ AddNoticesOverflow
  BY DEF EmptyPageIsCurrent, AddNoticesOverflow
<1> QED  BY <1>2, <1>4, <1>5, <1>6 DEF IInv

(* Entering get_next_handle().                                             *)
LEMMA IInvBeginAdd ==
    ASSUME IInv, NEW obj \in Objects, BeginAdd(obj)
    PROVE  IInv'
<1> DEFINE p == PageIndex(next_handle_val)
           drop == EntryIndex(next_handle_val) = 0 /\ p \in pages /\ items[p] = 0
<1>1. \A k \in Handles : Get(k)' = Get(k)
  BY GetInBeginAdd
<1>2. /\ entries' = entries /\ items' = items /\ count' = count
      /\ next_handle_val' = next_handle_val
      /\ wrapped_around' = (wrapped_around \/ next_handle_val = 0)
      /\ phase = "idle" /\ phase' = "adding" /\ incoming' = obj
  BY DEF BeginAdd, NoticeWrap, counters
<1>3. /\ drop => pages' = pages \ {p} /\ page_count' = page_count - 1
      /\ ~drop => pages' = pages /\ page_count' = page_count
  BY DEF BeginAdd, DeletePage
<1>4. pages' \subseteq pages
  BY <1>3
<1>5. \A k \in Handles : Has(k)' <=> Has(k)
  BY <1>1 DEF Has
<1>6. LiveHandles' = LiveHandles /\ \A q \in PageTable : LiveOn(q)' = LiveOn(q)
  BY <1>5 DEF LiveHandles, LiveOn
<1>7. IsFiniteSet(pages) /\ Cardinality(pages) = page_count /\ Cardinality(pages) \in Nat
  BY <1>2, FiniteTables DEF IInv, TypeOK, CountsAgree
<1>8. page_count' = Cardinality(pages') /\ page_count' \in Nat
  <2>1. CASE drop
    <3>1. Cardinality(pages \ {p}) = Cardinality(pages) - 1
      BY <1>7, <2>1, CountMinus
    <3>2. pages' \in SUBSET PageTable
      BY <1>4 DEF IInv, TypeOK
    <3> QED  BY <1>3, <1>7, <2>1, <3>1, <3>2, FiniteTables
  <2>2. CASE ~drop
    BY <1>3, <1>7, <2>2
  <2> QED  BY <2>1, <2>2
<1>9. TypeOK'
  BY <1>2, <1>4, <1>8, SlotMapAssumption DEF IInv, TypeOK
<1>10. ZeroNeverLive' /\ UnwrappedAhead' /\ AddNoticesOverflow'
  BY <1>2, <1>5, ZeroAndOne DEF IInv, ZeroNeverLive, UnwrappedAhead, AddNoticesOverflow
<1>11. EmptyPageIsCurrent'
  BY <1>2, <1>4, <1>6 DEF IInv, TypeOK, EmptyPageIsCurrent
<1>12. PageCountsAgree'
  BY <1>2, <1>4, <1>6 DEF IInv, TypeOK, PageCountsAgree
<1>13. CountsAgree'
  BY <1>2, <1>6, <1>8, <1>12 DEF IInv, CountsAgree
<1> QED  BY <1>9, <1>10, <1>11, <1>12, <1>13 DEF IInv

(* One iteration of the search loop.  A value that is skipped is 0, which  *)
(* has 1 after it on its page, or is live, so that no page is empty.       *)
LEMMA IInvSkipHandle ==
    ASSUME IInv, SkipHandle
    PROVE  IInv'
<1>1. \A k \in Handles : Get(k)' = Get(k)
  BY GetInSkipHandle
<1>2. /\ UNCHANGED <<pages, entries, items, count, page_count, wrapped_around, phase, incoming>>
      /\ next_handle_val' = Succ(next_handle_val)
      /\ wrapped_around
      /\ next_handle_val = 0 \/ Has(next_handle_val)
  BY DEF SkipHandle, MustSkip, counters
<1>3. \A k \in Handles : Has(k)' <=> Has(k)
  BY <1>1 DEF Has
<1>4. LiveHandles' = LiveHandles /\ \A q \in PageTable : LiveOn(q)' = LiveOn(q)
  BY <1>3 DEF LiveHandles, LiveOn
<1>5. TypeOK'
  BY <1>2, SuccType DEF IInv, TypeOK
<1>6. ZeroNeverLive' /\ UnwrappedAhead' /\ AddNoticesOverflow'
  BY <1>2, <1>3, ZeroAndOne DEF IInv, ZeroNeverLive, UnwrappedAhead, AddNoticesOverflow
<1>7. EmptyPageIsCurrent'
  <2>1. CASE next_handle_val = 0
    <3>1. next_handle_val' = 1
      BY <1>2, <2>1, ZeroAndOne DEF Succ
    <3> QED  BY <1>2, <1>4, <2>1, <3>1, ZeroAndOne DEF IInv, TypeOK, EmptyPageIsCurrent
  <2>2. CASE Has(next_handle_val)
    <3>1. next_handle_val \in LiveOn(PageIndex(next_handle_val))
      BY <2>2 DEF IInv, TypeOK, LiveOn
    <3>2. \A q \in pages : LiveOn(q) # {}
      BY <3>1 DEF IInv, EmptyPageIsCurrent
    <3> QED  BY <1>2, <1>4, <3>2 DEF IInv, TypeOK, EmptyPageIsCurrent
  <2> QED  BY <1>2, <2>1, <2>2
<1>8. PageCountsAgree' /\ CountsAgree'
  BY <1>2, <1>4 DEF IInv, TypeOK, PageCountsAgree, CountsAgree
<1> QED  BY <1>5, <1>6, <1>7, <1>8 DEF IInv

(* The value the search stops at is a free handle other than 0.            *)
LEMMA FoundIsFree ==
    ASSUME IInv, phase = "adding", ~MustSkip
    PROVE  /\ next_handle_val \in Handles \ {0}
           /\ ~Has(next_handle_val)
  BY DEF IInv, TypeOK, AddNoticesOverflow, UnwrappedAhead, MustSkip, Handles

(* Storing the object.                                                     *)
LEMMA IInvEndAdd ==
    ASSUME IInv, EndAdd
    PROVE  IInv'
<1> DEFINE h == next_handle_val
           p == PageIndex(h)
           fresh == p \notin pages
<1>1. \A k \in Handles : Get(k)' = IF k = h THEN incoming ELSE Get(k)
  BY GetInEndAdd
<1>2. /\ phase = "adding" /\ ~MustSkip /\ phase' = "idle" /\ incoming' = NoObject
      /\ pages' = pages \cup {p}
      /\ page_count' = IF fresh THEN page_count + 1 ELSE page_count
      /\ items' = [items EXCEPT ![p] = (IF fresh THEN 0 ELSE @) + 1]
      /\ count' = count + 1
      /\ next_handle_val' = Succ(h)
      /\ wrapped_around' = wrapped_around
  BY DEF EndAdd
<1>3. h \in Handles \ {0} /\ ~Has(h)
  BY <1>2, FoundIsFree
<1>4. p \in PageTable
  BY <1>3, PageOfHandle
<1>5. incoming \in Objects /\ incoming # NoObject
  BY <1>2 DEF IInv, TypeOK
<1>6. \A k \in Handles : Has(k)' <=> (k = h \/ Has(k))
  BY <1>1, <1>5 DEF Has
<1>7. LiveHandles' = LiveHandles \cup {h} /\ h \notin LiveHandles
  BY <1>3, <1>6 DEF LiveHandles
<1>8. /\ h \notin LiveOn(p)
      /\ \A q \in PageTable :
            LiveOn(q)' = IF q = p THEN LiveOn(q) \cup {h} ELSE LiveOn(q)
  BY <1>3, <1>6 DEF LiveOn
<1>9. fresh => LiveOn(p) = {}
  BY DEF LiveOn, Has, Get
<1>10. TypeOK'
  <2>1. entries' \in [Handles -> Objects \cup {NoObject}]
    BY <1>5 DEF EndAdd, IInv, TypeOK
  <2>2. items' \in [PageTable -> Nat]
    BY <1>2, <1>4 DEF IInv, TypeOK
  <2>3. Succ(h) \in Handles
    BY <1>3, SuccType
  <2> QED  BY <1>2, <1>4, <2>1, <2>2, <2>3 DEF IInv, TypeOK
<1>11. ZeroNeverLive'
  BY <1>3, <1>6, ZeroAndOne DEF IInv, ZeroNeverLive
<1>12. AddNoticesOverflow'
  BY <1>2 DEF AddNoticesOverflow
<1>13. UnwrappedAhead'
  <2> SUFFICES ASSUME ~wrapped_around, Succ(h) # 0, NEW k \in Handles, k >= Succ(h)
               PROVE  ~Has(k)'
    BY <1>2 DEF UnwrappedAhead
  <2>1. k >= h /\ k # h
    BY <1>3 DEF Succ, Handles
  <2>2. ~Has(k)
    BY <1>3, <2>1 DEF IInv, UnwrappedAhead
  <2> QED  BY <1>6, <2>1, <2>2
<1>14. EmptyPageIsCurrent'
  BY <1>2, <1>4, <1>8 DEF IInv, TypeOK, EmptyPageIsCurrent
<1>15. PageCountsAgree'
  <2> SUFFICES ASSUME NEW q \in pages \cup {p}
               PROVE  items'[q] = Cardinality(LiveOn(q)')
    BY <1>2 DEF PageCountsAgree
  <2>1. CASE q = p
    <3>1. IsFiniteSet(LiveOn(p))
      BY FiniteTables DEF LiveOn
    <3>2. Cardinality(LiveOn(q)') = Cardinality(LiveOn(p)) + 1
      BY <1>4, <1>8, <2>1, <3>1, CountPlus
    <3>3. fresh => Cardinality(LiveOn(p)) = 0
      BY <1>9, FS_EmptySet
    <3>4. ~fresh => items[p] = Cardinality(LiveOn(p))
      BY DEF IInv, PageCountsAgree
    <3>5. items'[p] = (IF fresh THEN 0 ELSE items[p]) + 1
      BY <1>2, <1>4 DEF IInv, TypeOK
    <3> QED  BY <2>1, <3>2, <3>3, <3>4, <3>5
  <2>2. CASE q # p
    BY <1>2, <1>4, <1>8, <2>2 DEF IInv, TypeOK, PageCountsAgree
  <2> QED  BY <2>1, <2>2
<1>16. CountsAgree'
  <2>1. IsFiniteSet(LiveHandles) /\ IsFiniteSet(pages)
    BY FiniteTables DEF LiveHandles, IInv, TypeOK
  <2>2. Cardinality(LiveHandles') = Cardinality(LiveHandles) + 1
    BY <1>7, <2>1, CountPlus
  <2>3. fresh => Cardinality(pages') = Cardinality(pages) + 1
    BY <1>2, <2>1, CountPlus
  <2>4. ~fresh => pages' = pages
    BY <1>2
  <2> QED  BY <1>2, <1>15, <2>2, <2>3, <2>4 DEF IInv, CountsAgree
<1> QED  BY <1>10, <1>11, <1>12, <1>13, <1>14, <1>15, <1>16 DEF IInv
(* Releasing a handle.                                                     *)
LEMMA IInvDel ==
    ASSUME IInv, NEW h \in Handles, Del(h)
    PROVE  IInv'
<1> DEFINE p == PageIndex(h)
           drop == items[p] = 1 /\ ~PreservePage(p)
<1>1. \A k \in Handles : Get(k)' = IF k = h THEN NoObject ELSE Get(k)
  BY GetInDel
<1>2. /\ phase = "idle" /\ Has(h)
      /\ entries' = [entries EXCEPT ![h] = NoObject]
      /\ items' = [items EXCEPT ![p] = @ - 1]
      /\ count' = count - 1
      /\ UNCHANGED <<next_handle_val, wrapped_around, phase, incoming>>
  BY DEF Del
<1>3. /\ drop => pages' = pages \ {p} /\ page_count' = page_count - 1
      /\ ~drop => pages' = pages /\ page_count' = page_count
  BY DEF Del, DeletePage
<1>4. p \in PageTable /\ p \in pages /\ pages' \subseteq pages
  BY <1>2, <1>3, PageOfHandle DEF Has, Get
<1>5. \A k \in Handles : Has(k)' <=> (k # h /\ Has(k))
  BY <1>1 DEF Has
<1>6. LiveHandles' = LiveHandles \ {h} /\ h \in LiveHandles
  BY <1>2, <1>5 DEF LiveHandles
<1>7. /\ h \in LiveOn(p)
      /\ \A q \in PageTable : LiveOn(q)' = IF q = p THEN LiveOn(q) \ {h} ELSE LiveOn(q)
  BY <1>2, <1>5 DEF LiveOn
<1>8. /\ IsFiniteSet(LiveHandles) /\ IsFiniteSet(pages) /\ IsFiniteSet(LiveOn(p))
      /\ Cardinality(LiveHandles') \in Nat /\ Cardinality(pages') \in Nat
      /\ Cardinality(LiveOn(p) \ {h}) \in Nat
  <2>1. LiveHandles' \in SUBSET Handles
    BY <1>6 DEF LiveHandles
  <2>2. pages' \in SUBSET PageTable
    BY <1>4 DEF IInv, TypeOK
  <2>3. LiveHandles \in SUBSET Handles /\ LiveOn(p) \in SUBSET Handles /\ pages \in SUBSET PageTable
    BY DEF LiveHandles, LiveOn, IInv, TypeOK
  <2> QED  BY <2>1, <2>2, <2>3, FiniteTables
<1>9. items[p] = Cardinality(LiveOn(p)) /\ items'[p] = Cardinality(LiveOn(p) \ {h})
  <2>1. Cardinality(LiveOn(p) \ {h}) = Cardinality(LiveOn(p)) - 1
    BY <1>7, <1>8, CountMinus
  <2> QED  BY <1>2, <1>4, <2>1 DEF IInv, TypeOK, PageCountsAgree
<1>10. count' = Cardinality(LiveHandles')
  <2>1. Cardinality(LiveHandles \ {h}) = Cardinality(LiveHandles) - 1
    BY <1>6, <1>8, CountMinus
  <2> QED  BY <1>2, <1>6, <2>1 DEF IInv, CountsAgree
<1>11. page_count' = Cardinality(pages')
  <2>1. Cardinality(pages \ {p}) = Cardinality(pages) - 1
    BY <1>4, <1>8, CountMinus
  <2> QED  BY <1>2, <1>3, <2>1 DEF IInv, CountsAgree
<1>12. TypeOK'
  <2>1. items' \in [PageTable -> Nat]
    BY <1>2, <1>4, <1>8, <1>9 DEF IInv, TypeOK
  <2>2. entries' \in [Handles -> Objects \cup {NoObject}]
    BY <1>2 DEF IInv, TypeOK
  <2> QED  BY <1>2, <1>4, <1>8, <1>10, <1>11, <2>1, <2>2 DEF IInv, TypeOK
<1>13. ZeroNeverLive' /\ UnwrappedAhead' /\ AddNoticesOverflow'
  BY <1>2, <1>5, ZeroAndOne DEF IInv, ZeroNeverLive, UnwrappedAhead, AddNoticesOverflow
<1>14. EmptyPageIsCurrent'
  <2> SUFFICES ASSUME NEW q \in pages', LiveOn(q)' = {}
               PROVE  PageIndex(next_handle_val) = q
    BY <1>2 DEF EmptyPageIsCurrent
  <2>1. q \in pages /\ q \in PageTable
    BY <1>4 DEF IInv, TypeOK
  <2>2. CASE q = p
    <3>1. Cardinality(LiveOn(p) \ {h}) = 0
      BY <1>7, <2>1, <2>2, FS_EmptySet
    <3>2. Cardinality(LiveOn(p) \ {h}) = Cardinality(LiveOn(p)) - 1
      BY <1>7, <1>8, CountMinus
    <3>3. items[p] = 1
      <4>1. Cardinality(LiveOn(p)) \in Nat
        BY <1>8, FS_CardinalityType
      <4> QED  BY <1>9, <3>1, <3>2, <4>1
    <3>4. PreservePage(p)
      BY <1>3, <2>2, <3>3
    <3> QED
      BY <1>4, <2>2, <3>4, PageInterval DEF IInv, TypeOK, PreservePage, PagePos
  <2>3. CASE q # p
    BY <1>7, <2>1, <2>3 DEF IInv, EmptyPageIsCurrent
  <2> QED  BY <2>2, <2>3
<1>15. PageCountsAgree'
  <2> SUFFICES ASSUME NEW q \in pages'
               PROVE  items'[q] = Cardinality(LiveOn(q)')
    BY DEF PageCountsAgree
  <2>1. q \in pages /\ q \in PageTable
    BY <1>4 DEF IInv, TypeOK
  <2>2. CASE q = p
    BY <1>7, <1>9, <2>1, <2>2
  <2>3. CASE q # p
    BY <1>2, <1>7, <2>1, <2>3 DEF IInv, TypeOK, PageCountsAgree
  <2> QED  BY <2>2, <2>3
<1>16. CountsAgree'
  BY <1>10, <1>11, <1>15 DEF CountsAgree
<1> QED  BY <1>12, <1>13, <1>14, <1>15, <1>16 DEF IInv

(* The end of the map.                                                     *)
LEMMA IInvDelAll ==
    ASSUME IInv, DelAll
    PROVE  IInv'
<1>1. \A k \in Handles : ~Has(k)'
  BY GetInDelAll DEF Has
<1>2. /\ phase = "idle" /\ phase' = "closed" /\ pages' = {}
      /\ UNCHANGED <<entries, items, count, page_count,
                     next_handle_val, wrapped_around, incoming>>
  BY DEF DelAll, counters
<1>3. TypeOK'
  BY <1>2 DEF IInv, TypeOK
<1>4. ZeroNeverLive' /\ UnwrappedAhead' /\ AddNoticesOverflow'
  BY <1>1, <1>2, ZeroAndOne DEF ZeroNeverLive, UnwrappedAhead, AddNoticesOverflow
<1>5. EmptyPageIsCurrent' /\ PageCountsAgree' /\ CountsAgree'
  BY <1>2 DEF EmptyPageIsCurrent, PageCountsAgree, CountsAgree
<1> QED  BY <1>3, <1>4, <1>5 DEF IInv

(* A step that changes nothing.                                            *)
LEMMA IInvStutter ==
    ASSUME IInv, UNCHANGED vars
    PROVE  IInv'
<1>1. UNCHANGED <<pages, entries, items, page_count, count,
                  next_handle_val, wrapped_around, phase, incoming>>
  BY DEF vars
<1>2. \A k \in Handles : Has(k)' <=> Has(k)
  BY <1>1 DEF Has, Get
<1>3. LiveHandles' = LiveHandles /\ \A q \in PageTable : LiveOn(q)' = LiveOn(q)
  BY <1>2 DEF LiveHandles, LiveOn
<1>4. TypeOK'
  BY <1>1 DEF IInv, TypeOK
<1>5. ZeroNeverLive' /\ UnwrappedAhead' /\ AddNoticesOverflow'
  BY <1>1, <1>2, ZeroAndOne DEF IInv, ZeroNeverLive, UnwrappedAhead, AddNoticesOverflow
<1>6. EmptyPageIsCurrent' /\ PageCountsAgree' /\ CountsAgree'
  BY <1>1, <1>3 DEF IInv, TypeOK, EmptyPageIsCurrent, PageCountsAgree, CountsAgree
<1> QED  BY <1>4, <1>5, <1>6 DEF IInv
-----------------------------------------------------------------------------
(* The inductive invariant is one: it holds in every state of every map.   *)
THEOREM Invariance == Spec => []IInv
<1>1. Init => IInv
  BY IInvInit
<1>2. IInv /\ [Next]_vars => IInv'
  <2> SUFFICES ASSUME IInv, [Next]_vars PROVE IInv'
    OBVIOUS
  <2>1. ASSUME NEW obj \in Objects, BeginAdd(obj) PROVE IInv'
    BY <2>1, IInvBeginAdd
  <2>2. CASE SkipHandle
    BY <2>2, IInvSkipHandle
  <2>3. CASE EndAdd
    BY <2>3, IInvEndAdd
  <2>4. ASSUME NEW h \in Handles, Del(h) PROVE IInv'
    BY <2>4, IInvDel
  <2>5. CASE DelAll
    BY <2>5, IInvDelAll
  <2>6. CASE UNCHANGED vars
    BY <2>6, IInvStutter
  <2> QED  BY <2>1, <2>2, <2>3, <2>4, <2>5, <2>6 DEF Next
<1> QED  BY <1>1, <1>2, PTL DEF Spec

(* The state of the map keeps its type: the unsigned counters never go     *)
(* below 0, whatever the order of the calls.                               *)
THEOREM TypeCorrect == Spec => []TypeOK
<1>1. IInv => TypeOK
  BY DEF IInv
<1> QED  BY <1>1, Invariance, PTL

(* REPY_NO_OBJECT never names an object.                                   *)
THEOREM ZeroIsNoObject == Spec => []ZeroNeverLive
<1>1. IInv => ZeroNeverLive
  BY DEF IInv
<1> QED  BY <1>1, Invariance, PTL

(* The assert of add() holds: the slot it fills is empty.                  *)
THEOREM AddFindsAFreeSlot == Spec => []SlotIsFree
<1>1. IInv => SlotIsFree
  BY FoundIsFree DEF SlotIsFree
<1> QED  BY <1>1, Invariance, PTL

(* Before the overflow the search may be left out.                         *)
THEOREM NothingAhead == Spec => []UnwrappedAhead
<1>1. IInv => UnwrappedAhead
  BY DEF IInv
<1> QED  BY <1>1, Invariance, PTL

(* The three counters count what they say they count.                      *)
THEOREM CountersAreExact == Spec => []CountsAgree
<1>1. IInv => CountsAgree
  BY DEF IInv
<1> QED  BY <1>1, Invariance, PTL

(* At most one page is empty, the one of the next handle: no page leaks.   *)
THEOREM NoPageLeaks == Spec => []EmptyPageIsCurrent
<1>1. IInv => EmptyPageIsCurrent
  BY DEF IInv
<1> QED  BY <1>1, Invariance, PTL

(* A live handle is never rebound to another object.                       *)
THEOREM NeverRebound == Spec => KeepsItsObject
<1>1. IInv /\ [Next]_vars =>
        [\A h \in Handles : Has(h) => Get(h)' \in {Get(h), NoObject}]_vars
  <2> SUFFICES ASSUME IInv, Next, NEW h \in Handles, Has(h)
               PROVE  Get(h)' \in {Get(h), NoObject}
    OBVIOUS
  <2>1. ASSUME NEW obj \in Objects, BeginAdd(obj) PROVE Get(h)' = Get(h)
    BY <2>1, GetInBeginAdd
  <2>2. CASE SkipHandle
    BY <2>2, GetInSkipHandle
  <2>3. CASE EndAdd
    <3>1. phase = "adding" /\ ~MustSkip
      BY <2>3 DEF EndAdd
    <3> QED  BY <2>3, <3>1, FoundIsFree, GetInEndAdd
  <2>4. ASSUME NEW k \in Handles, Del(k) PROVE Get(h)' \in {Get(h), NoObject}
    BY <2>4, GetInDel
  <2>5. CASE DelAll
    BY <2>5, GetInDelAll
  <2> QED  BY <2>1, <2>2, <2>3, <2>4, <2>5 DEF Next
<1> QED  BY <1>1, Invariance, PTL DEF Spec, KeepsItsObject

(* h lies behind next_handle_val, or the overflow has come or is about to. *)
Behind(h) == wrapped_around \/ next_handle_val = 0 \/ h < next_handle_val

(* h has been given out and is not in use again but after the overflow.    *)
Stale(h) == Behind(h) /\ (Has(h) => wrapped_around)

(* What is behind stays behind: the counter only falls when it overflows.  *)
LEMMA BehindStays ==
    ASSUME NEW h \in Handles, IInv, Behind(h), [Next]_vars
    PROVE  Behind(h)'
<1> USE DEF Behind
<1> TypeOK /\ AddNoticesOverflow  BY DEF IInv
<1>1. ASSUME NEW obj \in Objects, BeginAdd(obj) PROVE Behind(h)'
  BY <1>1 DEF BeginAdd, NoticeWrap
<1>2. CASE SkipHandle
  BY <1>2 DEF SkipHandle, MustSkip
<1>3. CASE EndAdd
  <2>1. phase = "adding" /\ next_handle_val' = Succ(next_handle_val) /\ wrapped_around' = wrapped_around
    BY <1>3 DEF EndAdd
  <2>2. next_handle_val \in Int /\ h \in Int
    BY SlotMapAssumption DEF TypeOK, Handles
  <2> QED BY <2>1, <2>2 DEF Succ, AddNoticesOverflow
<1>4. ASSUME NEW k \in Handles, Del(k) PROVE Behind(h)'
  BY <1>4 DEF Del
<1>5. CASE DelAll
  BY <1>5 DEF DelAll
<1>6. CASE UNCHANGED vars
  BY <1>6 DEF vars
<1> QED BY <1>1, <1>2, <1>3, <1>4, <1>5, <1>6 DEF Next

(* A handle that was released stays stale: only add() could bring it back, *)
(* and what it gives out is not behind next_handle_val.                    *)
LEMMA StaleStays ==
    ASSUME NEW h \in Handles, IInv, Stale(h), [Next]_vars
    PROVE  Stale(h)'
<1>1. Behind(h)'
  BY BehindStays DEF Stale
<1>2. wrapped_around => wrapped_around'
  BY DEF Next, BeginAdd, NoticeWrap, SkipHandle, EndAdd, Del, DelAll, vars
<1>3. CASE wrapped_around
  BY <1>1, <1>2, <1>3 DEF Stale
<1>4. CASE ~wrapped_around
  <2> SUFFICES ~Has(h)'
    BY <1>1 DEF Stale
  <2>1. ~Has(h)
    BY <1>4 DEF Stale
  <2>2. ASSUME NEW obj \in Objects, BeginAdd(obj) PROVE Get(h)' = Get(h)
    BY <2>2, GetInBeginAdd
  <2>3. CASE SkipHandle
    BY <2>1, <2>3, GetInSkipHandle DEF Has
  <2>4. CASE EndAdd
    <3>1. phase = "adding" /\ ~MustSkip
      BY <2>4 DEF EndAdd
    <3>2. h < next_handle_val
      BY <3>1, <1>4 DEF Stale, Behind, IInv, AddNoticesOverflow
    <3>3. h # next_handle_val
      BY <3>2, SlotMapAssumption DEF IInv, TypeOK, Handles
    <3> QED BY <2>1, <2>4, <3>1, <3>3, FoundIsFree, GetInEndAdd DEF Has
  <2>5. ASSUME NEW k \in Handles, Del(k) PROVE Get(h)' \in {Get(h), NoObject}
    BY <2>5, GetInDel
  <2>6. CASE DelAll
    BY <2>6, GetInDelAll DEF Has
  <2>7. CASE UNCHANGED vars
    BY <2>1, <2>7 DEF vars, Has, Get
  <2> QED BY <2>1, <2>2, <2>3, <2>4, <2>5, <2>6, <2>7 DEF Next, Has
<1> QED BY <1>3, <1>4

(* A handle that has been released stays invalid until the overflow.       *)
THEOREM StaleUntilOverflow == Spec => StaleHandleStaysInvalid
<1> SUFFICES ASSUME NEW h \in Handles
             PROVE  Spec => [](Has(h) => [](~Has(h) => [](Has(h) => wrapped_around)))
  BY DEF StaleHandleStaysInvalid
<1>1. IInv => (Has(h) => Behind(h))
  BY SlotMapAssumption DEF IInv, TypeOK, UnwrappedAhead, Behind, Handles
<1>2. IInv /\ Behind(h) /\ [Next]_vars => Behind(h)'
  BY BehindStays
<1>3. Behind(h) /\ ~Has(h) => Stale(h)
  BY DEF Stale
<1>4. IInv /\ Stale(h) /\ [Next]_vars => Stale(h)'
  BY StaleStays
<1>5. Stale(h) => (Has(h) => wrapped_around)
  BY DEF Stale
<1> QED BY <1>1, <1>2, <1>3, <1>4, <1>5, Invariance, PTL DEF Spec

(* The slot map implements the handle store: the search and the pages are  *)
(* stutters, storing the object is the creation of a free nonzero handle,  *)
(* del() releases one live handle and del_all() all of them.               *)
THEOREM Refinement == Spec => ImplementsHandleStore
<1> DEFINE names == [h \in Handles |-> Get(h)]
<1>1. Init => Store!Init
  BY DEF Init, Store!Init, Get
<1>2. IInv /\ [Next]_vars => [Store!Next]_names
  <2> SUFFICES ASSUME IInv, [Next]_vars PROVE Store!Next \/ names' = names
    OBVIOUS
  <2>1. ASSUME NEW obj \in Objects, BeginAdd(obj) PROVE names' = names
    BY <2>1, GetInBeginAdd
  <2>2. CASE SkipHandle
    BY <2>2, GetInSkipHandle
  <2>3. CASE EndAdd
    <3>1. phase = "adding" /\ ~MustSkip
      BY <2>3 DEF EndAdd
    <3>2. next_handle_val \in Handles \ {0} /\ ~Has(next_handle_val)
      BY <3>1, FoundIsFree
    <3>3. incoming \in Objects
      BY <3>1 DEF IInv, TypeOK
    <3>4. names' = [names EXCEPT ![next_handle_val] = incoming]
      BY <2>3, <3>2, GetInEndAdd
    <3>5. Store!Create(next_handle_val, incoming)
      BY <3>2, <3>4 DEF Store!Create, Has
    <3> QED  BY <3>2, <3>3, <3>5 DEF Store!Next
  <2>4. ASSUME NEW h \in Handles, Del(h) PROVE Store!Next
    <3>1. Has(h)
      BY <2>4 DEF Del
    <3>2. names' = [k \in Handles |-> IF k \in {h} THEN NoObject ELSE names[k]]
      BY <2>4, GetInDel
    <3>3. Store!Release({h})
      BY <3>1, <3>2 DEF Store!Release, Store!Live, Has
    <3> QED  BY <3>3 DEF Store!Next
  <2>5. CASE DelAll
    <3>1. names' = [k \in Handles |-> IF k \in LiveHandles THEN NoObject ELSE names[k]]
      BY <2>5, GetInDelAll DEF LiveHandles, Has
    <3>2. Store!Release(LiveHandles)
      BY <3>1 DEF Store!Release, Store!Live, LiveHandles, Has
    <3>3. LiveHandles \in SUBSET Handles
      BY DEF LiveHandles
    <3> QED  BY <3>2, <3>3 DEF Store!Next
  <2>6. CASE UNCHANGED vars
    BY <2>6 DEF vars, Get
  <2> QED  BY <2>1, <2>2, <2>3, <2>4, <2>5, <2>6 DEF Next
<1> QED  BY <1>1, <1>2, Invariance, PTL DEF Spec, ImplementsHandleStore, Store!Spec
=============================================================================
