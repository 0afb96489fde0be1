------------------------------ MODULE SlotMap ------------------------------
(***************************************************************************)
(* PyObjectSlotMap (src/extlib/pyobject_slotmap.cpp): the two-level table  *)
(* from REPY_Handle to Python object.  A handle is an unsigned integer     *)
(* whose high half selects a page and whose low half an entry of the page; *)
(* pages are allocated on demand and deleted when they empty.  Handle      *)
(* values are given out in increasing order, and after the integer has     *)
(* overflowed the map searches for the next value that is free.            *)
(*                                                                         *)
(* The width of the halves is a parameter (65536 by 65536 in the code), so *)
(* the overflow, which takes 2^32 creations, is a few steps away here.     *)
(* GlobalRootController calls every operation under _handles_mutex: add()  *)
(* is split only at the iterations of its search loop, and nothing else    *)
(* runs between them.                                                      *)
(***************************************************************************)
EXTENDS Integers, FiniteSets

CONSTANTS PageSize,   \* PYMAP_LEVEL_SIZE: entries of a page
          NumPages,   \* PYMAP_LEVEL_SIZE: slots of the page table
          Objects,    \* Python objects
          NoObject    \* a NULL entry

ASSUME SlotMapAssumption ==
    /\ PageSize \in Nat \ {0, 1}
    /\ NumPages \in Nat \ {0}
    /\ NoObject \notin Objects

Handles == 0 .. (PageSize * NumPages - 1)
PageTable == 0 .. (NumPages - 1)

(* PY_SPLIT_HANDLE and PY_HANDLE_PAGE_TABLE_POS.                           *)
PageIndex(h) == h \div PageSize
EntryIndex(h) == h % PageSize
PagePos(p) == p * PageSize

(* Faulty variant: a wider counter, which does not come back to 0.          *)
SuccWider(h) == h + 1

(* ++ on the unsigned integer: the largest handle is followed by 0.        *)
Succ(h) == IF h + 1 \in Handles THEN h + 1 ELSE 0

VARIABLES
    pages,            \* the indexes whose MapPage is allocated
    entries,          \* handle -> the object its entry holds
    items,            \* page index -> MapPage::count
    page_count,       \* PyObjectSlotMap::page_count
    count,            \* PyObjectSlotMap::count
    next_handle_val,
    wrapped_around,
    phase,            \* "idle", "adding" inside add(), "closed" after del_all()
    incoming          \* the object add() is storing

vars == <<pages, entries, items, page_count, count,
          next_handle_val, wrapped_around, phase, incoming>>
counters == <<items, count>>

(* get(): the object a handle names, and has().                            *)
Get(h) == IF PageIndex(h) \in pages THEN entries[h] ELSE NoObject
Has(h) == Get(h) # NoObject

LiveHandles == {h \in Handles : Has(h)}
LiveOn(p) == {h \in Handles : PageIndex(h) = p /\ Has(h)}
Full == Handles \ {0} \subseteq LiveHandles

TypeOK ==
    /\ pages \subseteq PageTable
    /\ entries \in [Handles -> Objects \cup {NoObject}]
    /\ items \in [PageTable -> Nat]
    /\ page_count \in Nat
    /\ count \in Nat
    /\ next_handle_val \in Handles
    /\ wrapped_around \in BOOLEAN
    /\ phase \in {"idle", "adding", "closed"}
    /\ incoming \in Objects \cup {NoObject}
    /\ phase = "adding" <=> incoming # NoObject
-----------------------------------------------------------------------------
Init ==
    /\ pages = {}
    /\ entries = [h \in Handles |-> NoObject]
    /\ items = [p \in PageTable |-> 0]
    /\ page_count = 0
    /\ count = 0
    /\ next_handle_val = 1
    /\ wrapped_around = FALSE
    /\ phase = "idle"
    /\ incoming = NoObject

(* Faulty variant: the page goes but stays counted.                        *)
DeletePageUncounted(p) ==
    /\ pages' = pages \ {p}
    /\ UNCHANGED page_count

(* delete pages[p]; pages[p] = NULL; page_count--;                         *)
DeletePage(p) ==
    /\ pages' = pages \ {p}
    /\ page_count' = page_count - 1

(* Faulty variant: the overflow of next_handle_val goes unnoticed.         *)
WrapUnnoticed == UNCHANGED wrapped_around

(* if (next_handle_val == 0) wrapped_around = true;                        *)
NoticeWrap == wrapped_around' = (wrapped_around \/ next_handle_val = 0)

(* add() enters get_next_handle(): an empty page at the position the next  *)
(* handle is about to open is dropped, and an overflow is noticed.         *)
BeginAdd(obj) ==
    /\ phase = "idle"
    /\ phase' = "adding"
    /\ incoming' = obj
    /\ LET p == PageIndex(next_handle_val) IN
         IF EntryIndex(next_handle_val) = 0 /\ p \in pages /\ items[p] = 0
         THEN DeletePage(p)
         ELSE UNCHANGED <<pages, page_count>>
    /\ NoticeWrap
    /\ UNCHANGED <<entries, counters, next_handle_val>>

(* Faulty variants of the search loop's condition: values in use are not   *)
(* skipped; no value is good enough.                                       *)
SearchSkipsZeroOnly == wrapped_around /\ next_handle_val = 0
SearchNeverStops == wrapped_around

(* The condition of the search loop.                                       *)
MustSkip == wrapped_around /\ (next_handle_val = 0 \/ Has(next_handle_val))

(* One iteration of the search loop.                                       *)
SkipHandle ==
    /\ phase = "adding"
    /\ MustSkip
    /\ next_handle_val' = Succ(next_handle_val)
    /\ UNCHANGED <<pages, entries, counters, page_count, wrapped_around, phase, incoming>>

(* The search is over: next_handle_val is given out and post-incremented,  *)
(* its page is allocated (all entries NULL) if need be, and the entry is   *)
(* stored.                                                                 *)
EndAdd ==
    LET h == next_handle_val
        p == PageIndex(h)
        fresh == p \notin pages
        paged == IF fresh
                 THEN [k \in Handles |-> IF PageIndex(k) = p THEN NoObject ELSE entries[k]]
                 ELSE entries
    IN  /\ phase = "adding"
        /\ ~MustSkip
        /\ pages' = pages \cup {p}
        /\ page_count' = IF fresh THEN page_count + 1 ELSE page_count
        /\ entries' = [paged EXCEPT ![h] = incoming]
        /\ items' = [items EXCEPT ![p] = (IF fresh THEN 0 ELSE @) + 1]
        /\ count' = count + 1
        /\ next_handle_val' = Succ(h)
        /\ phase' = "idle"
        /\ incoming' = NoObject
        /\ UNCHANGED wrapped_around

(* Faulty variant: an off-by-one keeps the page next_handle_val just left. *)
KeepOnePastPage(p) ==
    PagePos(p) <= next_handle_val /\ next_handle_val <= PagePos(p) + PageSize

(* del() keeps an emptied page when the next handle will be on it.         *)
PreservePage(p) ==
    PagePos(p) <= next_handle_val /\ next_handle_val <= PagePos(p) + PageSize - 1

(* Faulty variant: the freed handle is given out again at once.            *)
DelAndReuse(h) ==
    LET p == PageIndex(h) IN
    /\ phase = "idle"
    /\ Has(h)
    /\ entries' = [entries EXCEPT ![h] = NoObject]
    /\ items' = [items EXCEPT ![p] = @ - 1]
    /\ count' = count - 1
    /\ next_handle_val' = h
    /\ UNCHANGED <<pages, page_count, wrapped_around, phase, incoming>>

(* del(): its asserts require a live handle.                               *)
Del(h) ==
    LET p == PageIndex(h) IN
    /\ phase = "idle"
    /\ Has(h)
    /\ entries' = [entries EXCEPT ![h] = NoObject]
    /\ items' = [items EXCEPT ![p] = @ - 1]
    /\ count' = count - 1
    /\ IF items[p] = 1 /\ ~PreservePage(p)
       THEN DeletePage(p)
       ELSE UNCHANGED <<pages, page_count>>
    /\ UNCHANGED <<next_handle_val, wrapped_around, phase, incoming>>

(* del_all(), the last call a map receives, from ~GlobalRootController:    *)
(* the pages go, the counters are left as they are.                        *)
DelAll ==
    /\ phase = "idle"
    /\ phase' = "closed"
    /\ pages' = {}
    /\ UNCHANGED <<entries, counters, page_count, next_handle_val, wrapped_around, incoming>>

Next ==
    \/ \E obj \in Objects : BeginAdd(obj)
    \/ SkipHandle
    \/ EndAdd
    \/ \E h \in Handles : Del(h)
    \/ DelAll

Spec == Init /\ [][Next]_vars

(* The thread that is inside add() keeps running its loop.                 *)
FairSpec == Spec /\ WF_vars(SkipHandle) /\ WF_vars(EndAdd)
-----------------------------------------------------------------------------
(* Handle 0 never names an object (add() skips it after an overflow), so   *)
(* REPY_NO_OBJECT stays free to mean failure.                              *)
ZeroNeverLive == ~Has(0)

(* The slot add() is about to fill is empty (its assert): a live handle is *)
(* never given out a second time, before or after the overflow.            *)
SlotIsFree == phase = "adding" /\ ~MustSkip => ~Has(next_handle_val)

(* While a handle is live it names the object it was created for: neither  *)
(* the page it shares with others nor the overflow can give it another.    *)
KeepsItsObject ==
    [][\A h \in Handles : Has(h) => Get(h)' \in {Get(h), NoObject}]_vars

(* Until the overflow, no handle from next_handle_val on is in use: this   *)
(* is why the code may skip the search.                                    *)
UnwrappedAhead ==
    ~wrapped_around /\ next_handle_val # 0 =>
        \A h \in Handles : h >= next_handle_val => ~Has(h)

(* The three counters tell the truth: each page's own count decides when   *)
(* del() frees the page, so an error of one loses objects or leaks pages.  *)
PageCountsAgree == \A p \in pages : items[p] = Cardinality(LiveOn(p))
CountsAgree ==
    phase # "closed" =>
        /\ PageCountsAgree
        /\ page_count = Cardinality(pages)
        /\ count = Cardinality(LiveHandles)

(* Pages do not leak: a page that holds nothing is the one that holds the  *)
(* next handle value.                                                      *)
EmptyPageIsCurrent ==
    \A p \in pages : LiveOn(p) = {} => PageIndex(next_handle_val) = p

(* A handle that has been released stays invalid until the overflow: what  *)
(* REPY_IsValidHandle says of a stale handle can be relied on for the      *)
(* first 2^32 creations, and for no longer.                                *)
StaleHandleStaysInvalid ==
    \A h \in Handles :
        [](Has(h) => [](~Has(h) => [](Has(h) => wrapped_around)))

(* add() comes back whenever one nonzero handle is free.  (When none is,   *)
(* its loop runs for ever with _handles_mutex held.)                       *)
AddReturns == phase = "adding" /\ ~Full ~> phase = "idle"

(* The map is a handle store: the page structure, the order of the handles *)
(* and the overflow cannot be seen from above.                             *)
Store == INSTANCE HandleStore
           WITH NoHandle <- 0, store <- [h \in Handles |-> Get(h)]
ImplementsHandleStore == Store!Spec
=============================================================================
