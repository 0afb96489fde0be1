------------------------------ MODULE FnScope ------------------------------
(***************************************************************************)
(* The REPY_FN scopes of a mod function: the deferred cleanup, the         *)
(* iterator helpers, the if-chains and the static caches of compiled code  *)
(* that the REPY_FN and REPY_FOREACH macros expand to.                     *)
(*                                                                         *)
(* A thread runs a function that sets a scope up, executes the macros in   *)
(* any order the C syntax allows, loops and calls of itself included, and  *)
(* cleans the scope up.  A helper function is one step, but for what two   *)
(* threads share, the static caches: these are tested in one step and      *)
(* filled in another.                                                      *)
(*                                                                         *)
(* Handles and recomp_alloc() memory are cells of one heap.  Cell 0 stands *)
(* for NULL and REPY_NO_OBJECT; it is marked when something is released or *)
(* freed that is not there.  A cell of a function is dropped and given out *)
(* again, the lowest free cell first.                                      *)
(*                                                                         *)
(* Python code that raises is left out: an Eval that fails hands 0 to      *)
(* PythonNative_MakeSUH, as in HandleTable.  A loop may end early, as it   *)
(* does when the iterator raises.                                          *)
(***************************************************************************)
EXTENDS Integers, Sequences, FiniteSets, SequencesExt

CONSTANTS
    Threads,      \* threads that run the function
    Sites,        \* its macros with a compile cache, and its if-blocks
    Conditions,   \* the number of conditions of an if-block
    MaxItems,     \* bound: items of an iterable
    MaxScopes,    \* bound: scopes open at one time
    MaxCells      \* bound: cells of the heap

ASSUME FnScopeAssumption ==
    /\ Conditions \in Nat \ {0}
    /\ MaxItems \in Nat
    /\ MaxScopes \in Nat \ {0}
    /\ MaxCells \in Nat \ {0}

Null == 0
Cells == 1 .. MaxCells

VARIABLES
    heap,      \* cell -> what it holds
    cache,     \* the static bytecode handle of each site
    root,      \* the static chain root of each if-block
    frames     \* the scopes of each thread, innermost last

vars == <<heap, cache, root, frames>>

(* What a cell may hold.                                                   *)
Free == [kind |-> "free"]
Broken == [kind |-> "broken"]
Plain(k) == [kind |-> k]
Code(site, n) == [kind |-> "code", site |-> site, n |-> n]
Item(n) == [kind |-> "item", n |-> n]
Link(code) == [kind |-> "link", code |-> code, next |-> Null]
IfHelper(site) == [kind |-> "if", site |-> site, curr |-> Null, index |-> 0]
Iterator(iter, scope, name, auto) ==
    [kind |-> "iterator", iter |-> iter, scope |-> scope, name |-> name, auto |-> auto,
     curr |-> Null, index |-> 0, first |-> TRUE, given |-> 0]

Scope(locals) ==
    [locals |-> locals, cleanup |-> <<>>, loops |-> <<>>, helper |-> Null,
     condition |-> 0, site |-> Null, step |-> "body"]

Init ==
    /\ heap = [c \in Cells \cup {Null} |-> Free]
    /\ cache = [s \in Sites |-> Null]
    /\ root = [s \in Sites |-> Null]
    /\ frames = [t \in Threads |-> <<>>]
-----------------------------------------------------------------------------
(* Allocation and release.                                                 *)

FreeCells == {c \in Cells : heap[c] = Free}
Fresh(k) == CHOOSE c \in FreeCells : Cardinality({d \in FreeCells : d < c}) = k - 1
Room(k) == Cardinality(FreeCells) >= k

Discard(h, cs) ==
    IF \A c \in cs : h[c] # Free
    THEN [c \in DOMAIN h |-> IF c \in cs THEN Free ELSE h[c]]
    ELSE [h EXCEPT ![Null] = Broken]

(* What a helper releases when it is destroyed: an iterator helper, the    *)
(* handles it made.                                                        *)
Owns(x) ==
    IF x.kind = "iterator" THEN {x.iter, x.curr, x.scope, x.name} \ {Null} ELSE {}

Takes(h, c) == Owns(h[c]) \cup {c}

Destroy(h, c) == Discard(h, Takes(h, c))

(* The chain of a deferred cleanup is taken down from its last link.  Each *)
(* of its links releases what it takes: no two may take the same.          *)
CleanAll(h, cleanup) ==
    IF \A i, j \in DOMAIN cleanup : i # j => Takes(h, cleanup[i]) \cap Takes(h, cleanup[j]) = {}
    THEN Discard(h, UNION {Takes(h, cleanup[i]) : i \in DOMAIN cleanup})
    ELSE [h EXCEPT ![Null] = Broken]
-----------------------------------------------------------------------------
Inner(t) == Last(frames[t])
InBody(t) == frames[t] # <<>> /\ Inner(t).step = "body"

(* The scope a thread is in becomes f.                                     *)
Becomes(t, f) == frames' = [frames EXCEPT ![t] = Append(Front(@), f)]

Open == FoldFunction(+, 0, [t \in Threads |-> Len(frames[t])])

(* REPY_FN_SETUP, at the beginning of the function.                        *)
Setup(t) ==
    /\ Open < MaxScopes
    /\ frames[t] # <<>> => InBody(t) /\ Inner(t).helper = Null
    /\ Room(1)
    /\ heap' = [heap EXCEPT ![Fresh(1)] = Plain("dict")]
    /\ frames' = [frames EXCEPT ![t] = Append(@, Scope(Fresh(1)))]
    /\ UNCHANGED <<cache, root>>

(* REPY_FN_CLEANUP and a return, from inside of loops too.  A loop that is *)
(* not registered for cleanup must be left first.                          *)
Cleanup(t) ==
    /\ InBody(t)
    /\ Inner(t).helper = Null
    /\ \A i \in DOMAIN Inner(t).loops : ~heap[Inner(t).loops[i]].auto
    /\ heap' = Discard(CleanAll(heap, Inner(t).cleanup), {Inner(t).locals})
    /\ frames' = [frames EXCEPT ![t] = Front(@)]
    /\ UNCHANGED <<cache, root>>

(* REPY_FN_DEFER_RELEASE of a new handle, REPY_FN_DEFER_RECOMP_FREE of new *)
(* memory.                                                                 *)
Defer(t, k) ==
    /\ InBody(t) /\ Inner(t).helper = Null
    /\ Room(1)
    /\ heap' = [heap EXCEPT ![Fresh(1)] = Plain(k)]
    /\ Becomes(t, [Inner(t) EXCEPT !.cleanup = Append(@, Fresh(1))])
    /\ UNCHANGED <<cache, root>>

(* REPY_DeferredCleanupHelper_CleanNow, when nothing it destroys is used.  *)
CleanNow(t) ==
    /\ InBody(t)
    /\ Inner(t).helper = Null /\ Inner(t).loops = <<>>
    /\ heap' = CleanAll(heap, Inner(t).cleanup)
    /\ Becomes(t, [Inner(t) EXCEPT !.cleanup = <<>>])
    /\ UNCHANGED <<cache, root>>
-----------------------------------------------------------------------------
(* The compile caches: REPY_INLINE_COMPILE_CACHE_BLOCK.                    *)

(* Faulty variant: the static handle is not looked at.                     *)
CompileAgain(t, s) ==
    /\ InBody(t) /\ Inner(t).helper = Null
    /\ Becomes(t, [Inner(t) EXCEPT !.step = "compile", !.site = s])
    /\ UNCHANGED <<heap, cache, root>>

FindNotCompiled(t, s) ==
    /\ InBody(t) /\ Inner(t).helper = Null
    /\ cache[s] = Null
    /\ Becomes(t, [Inner(t) EXCEPT !.step = "compile", !.site = s])
    /\ UNCHANGED <<heap, cache, root>>

CompileAndStore(t) ==
    /\ frames[t] # <<>> /\ Inner(t).step = "compile"
    /\ Room(1)
    /\ heap' = [heap EXCEPT ![Fresh(1)] = Code(Inner(t).site, 0)]
    /\ cache' = [cache EXCEPT ![Inner(t).site] = Fresh(1)]
    /\ Becomes(t, [Inner(t) EXCEPT !.step = "body", !.site = Null])
    /\ UNCHANGED root
-----------------------------------------------------------------------------
(* The if-blocks.                                                          *)

(* REPY_FN_IF_CACHE_INIT                                                   *)
BeginIf(t, s) ==
    /\ InBody(t) /\ Inner(t).helper = Null
    /\ Room(1)
    /\ heap' = [heap EXCEPT ![Fresh(1)] = IfHelper(s)]
    /\ Becomes(t, [Inner(t) EXCEPT !.helper = Fresh(1), !.condition = 0,
                                   !.cleanup = Append(@, Fresh(1))])
    /\ UNCHANGED <<cache, root>>

(* Faulty variant: the helper goes back to the root.                       *)
NextLinkFromRoot(x) == root[x.site]

(* The link REPY_IfStmtHelper_Step goes to: the root on the first step.    *)
NextLink(x) == IF x.curr = Null THEN root[x.site] ELSE heap[x.curr].next

(* REPY_IfStmtHelper_Step, for the next condition of the block: it finds   *)
(* the link, moves to it and evaluates its code, or finds none.            *)
StepIf(t) ==
    LET f == Inner(t)  x == heap[f.helper]
    IN  /\ InBody(t)
        /\ f.helper # Null
        /\ f.condition < Conditions
        /\ IF NextLink(x) = Null
           THEN /\ Becomes(t, [f EXCEPT !.step = "chain"])
                /\ UNCHANGED heap
           ELSE /\ heap' = [heap EXCEPT ![f.helper].curr = NextLink(x),
                                        ![f.helper].index = IF x.curr = Null THEN @ ELSE @ + 1]
                /\ Becomes(t, [f EXCEPT !.condition = @ + 1])
        /\ UNCHANGED <<cache, root>>

(* It makes the missing link, stores it, and goes on as if it had found it *)
(* (it reads the pointer back).                                            *)
MakeLink(t) ==
    LET f == Inner(t)  x == heap[f.helper]
    IN  /\ frames[t] # <<>> /\ f.step = "chain"
        /\ Room(2)
        /\ IF x.curr = Null
           THEN /\ heap' = [heap EXCEPT ![Fresh(1)] = Code(x.site, f.condition + 1),
                                        ![Fresh(2)] = Link(Fresh(1))]
                /\ root' = [root EXCEPT ![x.site] = Fresh(2)]
           ELSE /\ heap' = [heap EXCEPT ![Fresh(1)] = Code(x.site, f.condition + 1),
                                        ![Fresh(2)] = Link(Fresh(1)),
                                        ![x.curr].next = Fresh(2)]
                /\ UNCHANGED root
        /\ Becomes(t, [f EXCEPT !.step = "body"])
        /\ UNCHANGED cache

(* The last condition evaluated was true, or there is no other.            *)
LeaveIf(t) ==
    /\ InBody(t)
    /\ Inner(t).helper # Null /\ Inner(t).condition > 0
    /\ Becomes(t, [Inner(t) EXCEPT !.helper = Null, !.condition = 0])
    /\ UNCHANGED <<heap, cache, root>>
-----------------------------------------------------------------------------
(* The loops over Python objects.                                          *)

(* REPY_FOREACH_FNAC: the helper is registered for cleanup.                *)
BeginForeachFnac(t) ==
    /\ InBody(t) /\ Inner(t).helper = Null
    /\ Room(2)
    /\ heap' = [heap EXCEPT ![Fresh(1)] = Plain("python"),
                            ![Fresh(2)] = Iterator(Fresh(1), Null, Null, FALSE)]
    /\ Becomes(t, [Inner(t) EXCEPT !.step = "update", !.loops = Append(@, Fresh(2)),
                                   !.cleanup = Append(@, Fresh(2))])
    /\ UNCHANGED <<cache, root>>

(* REPY_FN_FOREACH_CACHE, once its expression is compiled: the same, and   *)
(* the item is put in the local scope.                                     *)
BeginForeachCache(t, s) ==
    /\ InBody(t) /\ Inner(t).helper = Null
    /\ cache[s] # Null
    /\ Room(4)
    /\ heap' = [heap EXCEPT ![Fresh(1)] = Plain("python"),
                            ![Fresh(2)] = Plain("dict"),
                            ![Fresh(3)] = Plain("python"),
                            ![Fresh(4)] = Iterator(Fresh(1), Fresh(2), Fresh(3), FALSE)]
    /\ Becomes(t, [Inner(t) EXCEPT !.step = "update", !.loops = Append(@, Fresh(4)),
                                   !.cleanup = Append(@, Fresh(4))])
    /\ UNCHANGED <<cache, root>>

(* REPY_FOREACH with auto_self_destuct: the helper is not registered.      *)
BeginForeach(t) ==
    /\ InBody(t) /\ Inner(t).helper = Null
    /\ Room(2)
    /\ heap' = [heap EXCEPT ![Fresh(1)] = Plain("python"),
                            ![Fresh(2)] = Iterator(Fresh(1), Null, Null, TRUE)]
    /\ Becomes(t, [Inner(t) EXCEPT !.step = "update", !.loops = Append(@, Fresh(2))])
    /\ UNCHANGED <<cache, root>>

Looping(t) ==
    /\ frames[t] # <<>> /\ Inner(t).loops # <<>> /\ Inner(t).helper = Null
    /\ Inner(t).step \in {"body", "update"}

Loop(t) == Last(Inner(t).loops)

(* Faulty variant: the index counts the first update.                      *)
CountFromFirst(x) == [x EXCEPT !.first = FALSE, !.index = @ + 1]

(* The flag and the index of a helper that is updated.                     *)
Count(x) == [x EXCEPT !.first = FALSE, !.index = IF x.first THEN @ ELSE @ + 1]

(* Faulty variant: an update forgets the item it had.                      *)
ForgetItem(h, c) == [h EXCEPT ![c] = Count(h[c])]

(* REPY_IteratorHelper_Update counts, and releases the item it had.        *)
DropItem(h, c) ==
    LET x == h[c]
    IN  IF x.first \/ x.curr = Null
        THEN [h EXCEPT ![c] = Count(x)]
        ELSE [Discard(h, {x.curr}) EXCEPT ![c] = Count(x)]

(* The iterator gives another item, which goes into the scope of the       *)
(* helper if it has one.                                                   *)
NextItem(t) ==
    LET h == DropItem(heap, Loop(t))
        x == h[Loop(t)]
    IN  /\ Looping(t)
        /\ Room(1)
        /\ x.given < MaxItems
        /\ heap' = [h EXCEPT ![Fresh(1)] = Item(x.given + 1),
                             ![Loop(t)] = [x EXCEPT !.curr = Fresh(1), !.given = @ + 1],
                             ![Null] = IF x.scope # Null /\ Free \in {h[x.scope], h[x.name]}
                                       THEN Broken ELSE @]
        /\ Becomes(t, [Inner(t) EXCEPT !.step = "body"])
        /\ UNCHANGED <<cache, root>>

(* Faulty variant: every helper destroys itself after the last item.       *)
EndOfLoopDestroys(t) ==
    LET h == [DropItem(heap, Loop(t)) EXCEPT ![Loop(t)].curr = Null]
    IN  /\ Looping(t)
        /\ heap' = Destroy(h, Loop(t))
        /\ Becomes(t, [Inner(t) EXCEPT !.step = "body", !.loops = Front(@)])
        /\ UNCHANGED <<cache, root>>

(* There is no other item, or the iterator raised.                         *)
EndOfLoop(t) ==
    LET h == [DropItem(heap, Loop(t)) EXCEPT ![Loop(t)].curr = Null]
    IN  /\ Looping(t)
        /\ heap' = IF h[Loop(t)].auto THEN Destroy(h, Loop(t)) ELSE h
        /\ Becomes(t, [Inner(t) EXCEPT !.step = "body", !.loops = Front(@)])
        /\ UNCHANGED <<cache, root>>

(* REPY_FOREACH_BREAK, or a plain break out of a registered loop.          *)
Break(t) ==
    /\ Looping(t) /\ InBody(t)
    /\ heap' = IF heap[Loop(t)].auto THEN Destroy(heap, Loop(t)) ELSE heap
    /\ Becomes(t, [Inner(t) EXCEPT !.loops = Front(@)])
    /\ UNCHANGED <<cache, root>>

Next ==
    \E t \in Threads :
        \/ Setup(t)
        \/ Cleanup(t)
        \/ \E k \in {"python", "memory"} : Defer(t, k)
        \/ CleanNow(t)
        \/ \E s \in Sites : FindNotCompiled(t, s)
        \/ CompileAndStore(t)
        \/ \E s \in Sites : BeginIf(t, s)
        \/ StepIf(t)
        \/ MakeLink(t)
        \/ LeaveIf(t)
        \/ BeginForeachFnac(t)
        \/ \E s \in Sites : BeginForeachCache(t, s)
        \/ BeginForeach(t)
        \/ NextItem(t)
        \/ EndOfLoop(t)
        \/ Break(t)

Spec == Init /\ [][Next]_vars
-----------------------------------------------------------------------------
(* Nothing is released, freed or reached that is not there: a handle or a  *)
(* helper is released by its loop, by the deferred cleanup or by the scope *)
(* exactly once.                                                           *)
NothingReleasedTwice == heap[Null] = Free

(* The cells a scope will release: its locals, what is registered, and the *)
(* loops that destroy themselves.                                          *)
Holds(f) ==
    LET helpers == Range(f.cleanup) \cup {c \in Range(f.loops) : heap[c].auto}
    IN  {f.locals} \cup helpers \cup UNION {Owns(heap[c]) : c \in helpers}

(* Whatever a scope made is still held by a scope that is open, so that a  *)
(* function leaves only compiled code behind, whichever way it ends.       *)
ScopesLeaveNothing ==
    \A c \in Cells : heap[c].kind \notin {"free", "code", "link"} =>
        \E t \in Threads : \E i \in DOMAIN frames[t] : c \in Holds(frames[t][i])

(* In the body of a loop its borrowed item is live, and is the one its     *)
(* index says, also after nested loops and calls.                          *)
CurrentIsItem ==
    \A t \in Threads : \A i \in DOMAIN frames[t] :
        LET f == frames[t][i]
        IN  \A j \in DOMAIN f.loops :
                LET x == heap[f.loops[j]]
                IN  (f.step = "update" /\ j = Len(f.loops)) \/ heap[x.curr] = Item(x.index + 1)

(* Every condition of an if-block evaluates its own expression, on the run *)
(* that compiles it and on the later ones, for every thread.               *)
EvaluatesItsOwn ==
    \A t \in Threads : InBody(t) /\ Inner(t).helper # Null /\ Inner(t).condition > 0 =>
        LET x == heap[Inner(t).helper]
        IN  /\ heap[heap[x.curr].code] = Code(x.site, Inner(t).condition)
            /\ x.index = Inner(t).condition - 1

(* A code string is compiled once, however often and however deep the      *)
(* function runs.  Two threads can break this: see fn_cache_race.          *)
CompiledOnce ==
    \A c, d \in Cells : heap[c].kind = "code" /\ heap[c] = heap[d] => c = d
=============================================================================
