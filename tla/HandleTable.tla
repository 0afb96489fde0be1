---------------------------- MODULE HandleTable ----------------------------
(***************************************************************************)
(* The handle operations of GlobalRootController, called by the native API *)
(* functions of lib_main.cpp on several game threads.                      *)
(*                                                                         *)
(* A native API function takes _handles_mutex once for every handle        *)
(* operation it makes: get_py_object() for each argument, which returns a  *)
(* raw pointer into the table and queues a Single-Use handle (SUH) for     *)
(* release; then, with no lock, the Python operation; then create_handle() *)
(* for the result, if there is one; then release_suh_handles(), which      *)
(* empties the queue, and the return.  CreateTuple, CreateDict and VL      *)
(* instead take their arguments one by one in a loop, each lookup followed *)
(* by a Python operation that may raise.  The _SUH functions of the mod    *)
(* library then pass the result to PythonNative_MakeSUH.  The queue and    *)
(* the table belong to the process, the pointers to the call.  Each        *)
(* critical section is one action; threads interleave between them.        *)
(*                                                                         *)
(* The mods are the environment.  They respect ownership: a handle is      *)
(* released, or made Single-Use, by the thread that owns it and while no   *)
(* other thread is passing it, and a Single-Use handle is passed once, by  *)
(* its owner.  A plain handle is passed by any thread, as the handles      *)
(* cached in static variables by the REPY_FN macros are.                   *)
(*                                                                         *)
(* The arguments of a call are a set: to look the same plain handle up     *)
(* twice changes nothing, and the order of the lookups is left open.       *)
(* Handle values are given out in order; SlotMap has what happens when     *)
(* they run out.                                                           *)
(***************************************************************************)
EXTENDS Integers, Sequences, FiniteSets, SequencesExt

CONSTANTS
    Threads,           \* game threads
    SUHThreads,        \* those whose mods use Single-Use handles
    SingleUseBuffers,  \* whether these pass them to REPY_AllocAndCopyBuffer
    NestedErrors,      \* whether Python may raise inside an _SUH function
    Objects,           \* Python objects
    NoObject,
    Nobody,            \* the owner of a handle no mod holds
    MaxHandle,         \* bound: handles created in a run
    MaxArgs            \* bound: handle arguments of one call

ASSUME HandleTableAssumption ==
    /\ IsFiniteSet(Threads)
    /\ SUHThreads \subseteq Threads
    /\ SingleUseBuffers \in BOOLEAN
    /\ NestedErrors \in BOOLEAN
    /\ Nobody \notin Threads
    /\ NoObject \notin Objects
    /\ MaxHandle \in Nat \ {0}
    /\ MaxArgs \in Nat \ {0}

Handles == 1 .. MaxHandle
NoHandle == 0          \* REPY_NO_OBJECT

Entry == [obj : Objects, suh : BOOLEAN]
NoEntry == [obj |-> NoObject, suh |-> FALSE]

VARIABLES
    entries,    \* _handles: handle -> its REPY_HandleEntry
    next,       \* the next handle value of the slot map
    queue,      \* _suh_release_queue
    pc,         \* where each thread is in its native call
    args,       \* the arguments each call has yet to look up
    again,      \* the arguments of a second native call made by the same API function
    held,       \* the handles whose entry each call has a pointer to and may yet read
    kind,       \* how each call meets its arguments and errors (see OfKind)
    produces,   \* whether each call creates a handle for its result
    marks,      \* whether its API function makes the result Single-Use
    result,     \* the handle each call will return
    owner,      \* the thread whose mod must release each handle
    abandoned,  \* history: Single-Use handles passed to a call that raised before their lookup
    fault       \* how the process failed: an assert, a stale pointer, an uncaught exception

table == <<entries, next, queue>>
call == <<pc, args, again, held, kind, produces, marks, result>>
vars == <<table, call, owner, abandoned, fault>>

Live(h) == h \in Handles /\ entries[h] # NoEntry

(* The handles a thread's call is using.                                   *)
InFlight(t) == args[t] \cup again[t] \cup held[t]
UsedElsewhere(t, h) == \E u \in Threads \ {t} : h \in InFlight(u)

(* Where a call is that will yet drain the queue.                          *)
BeforeDrain == {"fetch", "operate", "create", "drain"}

TypeOK ==
    /\ entries \in [Handles -> Entry \cup {NoEntry}]
    /\ next \in 1 .. MaxHandle + 1
    /\ queue \in Seq(Handles)
    /\ pc \in [Threads -> {"idle", "fetch", "operate", "create", "drain", "mark"}]
    /\ args \in [Threads -> SUBSET Handles]
    /\ again \in [Threads -> SUBSET Handles]
    /\ held \in [Threads -> SUBSET Handles]
    /\ kind \in [Threads -> {"plain", "cast", "loop"}]
    /\ produces \in [Threads -> BOOLEAN]
    /\ marks \in [Threads -> BOOLEAN]
    /\ result \in [Threads -> Handles \cup {NoHandle}]
    /\ owner \in [Handles -> Threads \cup {Nobody}]
    /\ abandoned \in SUBSET Handles
    /\ fault \in {"none", "dead handle", "stale pointer", "uncaught exception"}

Init ==
    /\ entries = [h \in Handles |-> NoEntry]
    /\ next = 1
    /\ queue = <<>>
    /\ pc = [t \in Threads |-> "idle"]
    /\ args = [t \in Threads |-> {}]
    /\ again = [t \in Threads |-> {}]
    /\ held = [t \in Threads |-> {}]
    /\ kind = [t \in Threads |-> "plain"]
    /\ produces = [t \in Threads |-> FALSE]
    /\ marks = [t \in Threads |-> FALSE]
    /\ result = [t \in Threads |-> NoHandle]
    /\ owner = [h \in Handles |-> Nobody]
    /\ abandoned = {}
    /\ fault = "none"
-----------------------------------------------------------------------------
(* What the API functions do with handles: how many they look up, whether  *)
(* they create one for their result, whether mod code may then make it     *)
(* Single-Use, and after which outcomes they drain the queue.              *)

Always == {"done", "raised"}

(* A "plain" function looks up all its arguments, then operates.  So does  *)
(* a "cast", but it may also fail with an exception that is not an         *)
(* error_already_set.  A "loop" operates after every lookup.               *)
OfKind(k, arities, creates, marking, drains) ==
    [kind : {k}, arity : arities, creates : {creates}, marks : marking, drains : {drains}]
Group(arities, creates, marking, drains) ==
    OfKind("plain", arities, creates, marking, drains)

(* The functions that only read what they are given.                       *)
Query(arities) == Group(arities, FALSE, {FALSE}, Always)
(* Those that make a C++ value of a Python object: py::cast_error, or      *)
(* py::type_error of py::buffer.                                           *)
Cast == OfKind("cast", {1}, FALSE, {FALSE}, Always)
(* Those that fill a container from an array of handles.                   *)
Loop == OfKind("loop", 0 .. MaxArgs, TRUE, BOOLEAN, Always)
(* Those that make an object of the game's data, and have a _SUH variant.  *)
Data(drains) == Group({0}, TRUE, BOOLEAN, drains)

ModuleFns == Group({0}, TRUE, {FALSE}, {}) \cup Group({0}, TRUE, {FALSE}, {"raised"})
PrimitiveFns == Data({}) \cup Cast
Number64Fns == Data({"raised"}) \cup Cast
StringFns == Data({}) \cup Data({"raised"}) \cup Cast
MemcpyFns == Group({0}, TRUE, {FALSE}, {}) \cup Cast
IterationFns == Query({1}) \cup Group({1, 2}, TRUE, {FALSE}, Always)
TupleFns == Loop \cup Group({1}, TRUE, BOOLEAN, Always)
DictFns == Loop \cup Group({1, 2}, TRUE, {FALSE}, Always) \cup Query({1, 2, 3})
AttributeFns == Group({1, 2, 3}, TRUE, {FALSE}, Always) \cup Query({1, 2, 3})
CompileFns ==
    Group({0}, TRUE, {FALSE}, {"done"}) \cup Group({0}, TRUE, {FALSE}, {})
        \cup Group({3}, TRUE, {FALSE}, Always)
ExecFns == Query({0, 1, 2, 3})
EvalFns == Group({0, 1, 2, 3}, TRUE, BOOLEAN, Always) \cup Loop
CallFns == Query({1, 2, 3, 4}) \cup Group({1, 2, 3, 4}, TRUE, {FALSE}, Always)
ErrorFns == Group({0}, TRUE, {FALSE}, {})

ApiFunctions ==
    ModuleFns \cup PrimitiveFns \cup Number64Fns \cup StringFns \cup MemcpyFns
      \cup IterationFns \cup TupleFns \cup DictFns \cup AttributeFns \cup CompileFns
      \cup ExecFns \cup EvalFns \cup CallFns \cup ErrorFns

ArgumentSets == {as \in SUBSET Handles : Cardinality(as) \in 1 .. MaxArgs}

(* How the functions that can be given n handles differ from here on: once *)
(* a function has looked up a handle it drains the queue in every case.    *)
Signatures ==
    [n \in 1 .. MaxArgs |->
        {[kind |-> f.kind, creates |-> f.creates, marks |-> f.marks] :
            f \in {g \in ApiFunctions : n <= g.arity}}]
-----------------------------------------------------------------------------
(* What the mods may do.                                                   *)

MayPass(t, h) ==
    \/ owner[h] = t
    \/ owner[h] \in Threads /\ ~entries[h].suh

MayRelease(t, h) == owner[h] = t /\ ~UsedElsewhere(t, h)

MayMark(t) == t \in SUHThreads

(* The bound on creations counts the calls that have yet to create.        *)
Creating == {t \in Threads : produces[t] /\ pc[t] \in {"fetch", "operate", "create"}}
MayCreate == next + Cardinality(Creating) <= MaxHandle

(* Passing a Single-Use handle gives it up.                                *)
GivenUp(given) == {h \in given : entries[h].suh}
GiveUp(given) == owner' = [h \in Handles |-> IF h \in given THEN Nobody ELSE owner[h]]

Enter(t, k, as, second) ==
    /\ pc' = [pc EXCEPT ![t] = "fetch"]
    /\ kind' = [kind EXCEPT ![t] = k]
    /\ args' = [args EXCEPT ![t] = as]
    /\ again' = [again EXCEPT ![t] = second]
    /\ UNCHANGED <<table, held, abandoned, fault>>
-----------------------------------------------------------------------------
(* The handle operations, each under _handles_mutex.                       *)

(* A lookup of a handle that is 0 or not in the table ends the process.    *)
FailOn(h) ==
    /\ ~Live(h)
    /\ fault' = "dead handle"
    /\ UNCHANGED <<table, call, owner, abandoned>>

Add(e) ==
    /\ entries' = [entries EXCEPT ![next] = e]
    /\ next' = next + 1

(* Faulty variants: a Single-Use handle is not queued; every handle that   *)
(* is looked up is queued.                                                 *)
QueueNever(h) == UNCHANGED queue
QueueAlways(h) == queue' = Append(queue, h)

QueueIfSingleUse(h) ==
    queue' = IF entries[h].suh THEN Append(queue, h) ELSE queue

(* What a lookup does to the table.                                        *)
Lookup(h) ==
    /\ QueueIfSingleUse(h)
    /\ UNCHANGED entries

(* What is left to do, under a given outcome, for a function that has      *)
(* looked up no handle.                                                    *)
Rest(f, outcome) ==
    IF outcome \in f.drains THEN "drain" ELSE IF f.marks THEN "mark" ELSE "idle"

(* A function that takes no handle and returns one: create_handle().       *)
CreateObject(t, f, obj) ==
    /\ pc[t] = "idle"
    /\ f.arity = 0 /\ f.creates
    /\ f.marks => MayMark(t)
    /\ MayCreate
    /\ Add([obj |-> obj, suh |-> FALSE])
    /\ pc' = [pc EXCEPT ![t] = Rest(f, "done")]
    /\ marks' = [marks EXCEPT ![t] = f.marks]
    /\ IF Rest(f, "done") = "idle"
       THEN owner' = [owner EXCEPT ![next] = t] /\ UNCHANGED result
       ELSE result' = [result EXCEPT ![t] = next] /\ UNCHANGED owner
    /\ UNCHANGED <<queue, args, again, held, kind, produces, abandoned, fault>>

(* A function that takes no handle and returns none: it raised, or has no  *)
(* result.                                                                 *)
CreateNothing(t, f) ==
    /\ pc[t] = "idle"
    /\ f.arity = 0
    /\ f.creates => Rest(f, "raised") # "idle"
    /\ f.marks => MayMark(t) /\ NestedErrors
    /\ pc' = [pc EXCEPT ![t] = Rest(f, "raised")]
    /\ marks' = [marks EXCEPT ![t] = f.marks]
    /\ UNCHANGED <<table, args, again, held, kind, produces, result, owner, abandoned, fault>>

(* A function that takes handles; those it takes Single-Use are given up.  *)
BeginUse(t, as, f) ==
    /\ pc[t] = "idle"
    /\ \A h \in as : MayPass(t, h)
    /\ f.marks => MayMark(t)
    /\ f.creates => MayCreate
    /\ Enter(t, f.kind, as, {})
    /\ produces' = [produces EXCEPT ![t] = f.creates]
    /\ marks' = [marks EXCEPT ![t] = f.marks]
    /\ GiveUp(GivenUp(as))
    /\ UNCHANGED result

(* REPY_VariadicLocals with a dict: it returns the handle it was given,    *)
(* and REPY_VariadicLocals_SUH makes that handle Single-Use.  Mods do not  *)
(* pass it a Single-Use dict, as the documentation asks.                   *)
BeginVariadicLocals(t, dict, as, m) ==
    /\ pc[t] = "idle"
    /\ owner[dict] = t /\ ~entries[dict].suh
    /\ m => MayMark(t) /\ MayRelease(t, dict)
    /\ dict \notin as /\ Cardinality(as) < MaxArgs
    /\ \A h \in as : MayPass(t, h)
    /\ Enter(t, "loop", as \cup {dict}, {})
    /\ result' = [result EXCEPT ![t] = dict]
    /\ marks' = [marks EXCEPT ![t] = m]
    /\ GiveUp(GivenUp(as) \cup IF m THEN {dict} ELSE {})
    /\ UNCHANGED produces

(* REPY_AllocAndCopyBuffer(h): PythonNative_Len(h), then                   *)
(* PythonNative_MemcpyFromBuffer(h).                                       *)
BeginAllocAndCopyBuffer(t, h) ==
    /\ pc[t] = "idle"
    /\ MayPass(t, h)
    /\ entries[h].suh => SingleUseBuffers
    /\ Enter(t, "cast", {h}, {h})
    /\ GiveUp(GivenUp({h}))
    /\ UNCHANGED <<produces, marks, result>>

(* Where a call goes on when it has looked up h: an operation follows the  *)
(* last lookup, and in a loop each one, but not that of VL's own dict,     *)
(* which comes before the loop.                                            *)
AfterLookup(t, h) ==
    IF h # result[t] /\ (kind[t] = "loop" \/ args[t] = {h}) THEN "operate"
    ELSE IF args[t] = {h} THEN "drain" ELSE "fetch"

(* get_py_object() of an argument.                                         *)
Fetch(t, h) ==
    /\ pc[t] = "fetch"
    /\ h \in args[t]
    /\ result[t] \in args[t] => h = result[t]
    /\ \/ FailOn(h)
       \/ /\ Live(h)
          /\ Lookup(h)
          /\ held' = [held EXCEPT ![t] = @ \cup {h}]
          /\ args' = [args EXCEPT ![t] = @ \ {h}]
          /\ pc' = [pc EXCEPT ![t] = AfterLookup(t, h)]
          /\ UNCHANGED <<next, again, kind, produces, marks, result, owner, abandoned, fault>>

(* The operation succeeds.  A loop with arguments left goes on to the next *)
(* round and is done with the pointer of this one; VL keeps that of its    *)
(* dict.                                                                   *)
Succeed(t) ==
    /\ IF args[t] # {}
       THEN /\ pc' = [pc EXCEPT ![t] = "fetch"]
            /\ held' = [held EXCEPT ![t] = @ \cap {result[t]}]
       ELSE /\ pc' = [pc EXCEPT ![t] = IF produces[t] THEN "create" ELSE "drain"]
            /\ UNCHANGED held
    /\ UNCHANGED <<table, args, again, kind, produces, marks, result, owner, abandoned, fault>>

(* Faulty variant: the error path returns without release_suh_handles().   *)
RaiseReturns(t) ==
    /\ pc' = [pc EXCEPT ![t] = "idle"]
    /\ args' = [args EXCEPT ![t] = {}]
    /\ again' = [again EXCEPT ![t] = {}]
    /\ held' = [held EXCEPT ![t] = {}]
    /\ UNCHANGED <<table, kind, produces, marks, result, owner, abandoned, fault>>

(* It raises: error_already_set is caught, recorded, and the call returns  *)
(* 0 by way of release_suh_handles().  What a loop had yet to look up it   *)
(* does not look up any more.                                              *)
Raise(t) ==
    /\ marks[t] => NestedErrors
    /\ pc' = [pc EXCEPT ![t] = "drain"]
    /\ args' = [args EXCEPT ![t] = {}]
    /\ result' = [result EXCEPT ![t] = NoHandle]
    /\ abandoned' = abandoned \cup GivenUp(args[t])
    /\ UNCHANGED <<table, again, held, kind, produces, marks, owner, fault>>

(* A failing cast passes the catch clause, and nothing above the native    *)
(* function takes the exception.  PythonNative_Len, the first native call  *)
(* of REPY_AllocAndCopyBuffer, casts nothing.                              *)
Escape(t) ==
    /\ kind[t] = "cast" /\ again[t] = {}
    /\ fault' = "uncaught exception"
    /\ UNCHANGED <<table, call, owner, abandoned>>

(* The Python operation, with no lock: it reads its arguments through      *)
(* their pointers.                                                         *)
Operate(t) ==
    /\ pc[t] = "operate"
    /\ \/ /\ \E h \in held[t] : ~Live(h)
          /\ fault' = "stale pointer"
          /\ UNCHANGED <<table, call, owner, abandoned>>
       \/ /\ \A h \in held[t] : Live(h)
          /\ Succeed(t) \/ Raise(t) \/ Escape(t)

(* create_handle() of the result.                                          *)
CreateResult(t, obj) ==
    /\ pc[t] = "create"
    /\ Add([obj |-> obj, suh |-> FALSE])
    /\ result' = [result EXCEPT ![t] = next]
    /\ pc' = [pc EXCEPT ![t] = "drain"]
    /\ UNCHANGED <<queue, args, again, held, kind, produces, marks, owner, abandoned, fault>>

(* Faulty variants: the queue is walked but not emptied; every Single-Use  *)
(* handle goes, queued or not; an entry keeps its flag when it is cleared. *)
DrainKeepingQueue ==
    /\ entries' = [h \in Handles |-> IF h \in Range(queue) THEN NoEntry ELSE entries[h]]
    /\ UNCHANGED queue
DrainAllSingleUse ==
    /\ entries' = [h \in Handles |-> IF entries[h].suh THEN NoEntry ELSE entries[h]]
    /\ queue' = <<>>
DrainKeepingFlags ==
    /\ entries' = [h \in Handles |-> IF h \in Range(queue) THEN [entries[h] EXCEPT !.obj = NoObject]
                                     ELSE entries[h]]
    /\ queue' = <<>>

DrainQueue ==
    /\ entries' = [h \in Handles |-> IF h \in Range(queue) THEN NoEntry ELSE entries[h]]
    /\ queue' = <<>>

(* del() finds every queued handle live.                                   *)
QueueIsSound == IsInjective(queue) /\ \A h \in Range(queue) : Live(h)

(* What a thread does next: the second native call, PythonNative_MakeSUH,  *)
(* or the return to the mod.                                               *)
AfterDrain(t) ==
    IF again[t] # {} THEN "fetch" ELSE IF marks[t] THEN "mark" ELSE "idle"

HandOver(t) == owner' = [h \in Handles |-> IF h = result[t] THEN t ELSE owner[h]]

(* release_suh_handles(), and what follows it.                             *)
Drain(t) ==
    /\ pc[t] = "drain"
    /\ \/ /\ ~QueueIsSound
          /\ fault' = "dead handle"
          /\ UNCHANGED <<table, call, owner, abandoned>>
       \/ /\ QueueIsSound
          /\ DrainQueue
          /\ held' = [held EXCEPT ![t] = {}]
          /\ args' = [args EXCEPT ![t] = again[t]]
          /\ again' = [again EXCEPT ![t] = {}]
          /\ kind' = [kind EXCEPT ![t] = IF again[t] = {} THEN "plain" ELSE @]
          /\ produces' = [produces EXCEPT ![t] = FALSE]
          /\ pc' = [pc EXCEPT ![t] = AfterDrain(t)]
          /\ IF marks[t] THEN UNCHANGED <<result, owner>>
             ELSE result' = [result EXCEPT ![t] = NoHandle] /\ HandOver(t)
          /\ UNCHANGED <<next, marks, abandoned, fault>>

(* set_handle_suh()                                                        *)
SetSingleUse(h, value) == entries' = [entries EXCEPT ![h].suh = value]

(* The _SUH functions pass what the native call returned to                *)
(* PythonNative_MakeSUH, 0 included.                                       *)
Mark(t) ==
    /\ pc[t] = "mark"
    /\ \/ FailOn(result[t])
       \/ /\ Live(result[t])
          /\ SetSingleUse(result[t], TRUE)
          /\ HandOver(t)
          /\ result' = [result EXCEPT ![t] = NoHandle]
          /\ marks' = [marks EXCEPT ![t] = FALSE]
          /\ pc' = [pc EXCEPT ![t] = "idle"]
          /\ UNCHANGED <<next, queue, args, again, held, kind, produces, abandoned, fault>>

PlainCopy(h) == [obj |-> entries[h].obj, suh |-> FALSE]

(* Faulty variant: a Single-Use handle that is copied is released at once. *)
CopyEntryAndRelease(h) ==
    /\ entries' = [entries EXCEPT ![next] = PlainCopy(h), ![h] = IF @.suh THEN NoEntry ELSE @]
    /\ next' = next + 1
    /\ UNCHANGED queue

CopyEntry(h) ==
    /\ Add(PlainCopy(h))
    /\ QueueIfSingleUse(h)

(* PythonNative_CopyHandle: copy_handle(), then release_suh_handles().     *)
CopyHandle(t, h) ==
    /\ pc[t] = "idle"
    /\ MayPass(t, h)
    /\ MayCreate
    /\ \/ FailOn(h)
       \/ /\ Live(h)
          /\ CopyEntry(h)
          /\ result' = [result EXCEPT ![t] = next]
          /\ pc' = [pc EXCEPT ![t] = "drain"]
          /\ GiveUp(GivenUp({h}))
          /\ UNCHANGED <<args, again, held, kind, produces, marks, abandoned, fault>>

(* PythonNative_Release: release_handle(), which does not look at the      *)
(* queue.                                                                  *)
Release(t, h) ==
    /\ pc[t] = "idle"
    /\ MayRelease(t, h)
    /\ \/ FailOn(h)
       \/ /\ Live(h)
          /\ entries' = [entries EXCEPT ![h] = NoEntry]
          /\ owner' = [owner EXCEPT ![h] = Nobody]
          /\ UNCHANGED <<next, queue, call, abandoned, fault>>

(* PythonNative_MakeSUH and PythonNative_SetSUH.                           *)
SetSUH(t, h, value) ==
    /\ pc[t] = "idle"
    /\ MayRelease(t, h)
    /\ value => MayMark(t)
    /\ \/ FailOn(h)
       \/ /\ Live(h)
          /\ SetSingleUse(h, value)
          /\ UNCHANGED <<next, queue, call, owner, abandoned, fault>>

Step(t) ==
    \/ \E h \in Handles : Fetch(t, h)
    \/ Operate(t)
    \/ \E obj \in Objects : CreateResult(t, obj)
    \/ Drain(t)
    \/ Mark(t)

Next ==
    /\ fault = "none"
    /\ \E t \in Threads :
         \/ \E f \in ApiFunctions, obj \in Objects : CreateObject(t, f, obj)
         \/ \E f \in ApiFunctions : CreateNothing(t, f)
         \/ \E as \in ArgumentSets : \E f \in Signatures[Cardinality(as)] : BeginUse(t, as, f)
         \/ \E dict \in Handles, as \in ArgumentSets \cup {{}}, m \in BOOLEAN :
               BeginVariadicLocals(t, dict, as, m)
         \/ \E h \in Handles : BeginAllocAndCopyBuffer(t, h)
         \/ \E h \in Handles : Fetch(t, h)
         \/ Operate(t)
         \/ \E obj \in Objects : CreateResult(t, obj)
         \/ Drain(t)
         \/ Mark(t)
         \/ \E h \in Handles : CopyHandle(t, h)
         \/ \E h \in Handles : Release(t, h)
         \/ \E h \in Handles, value \in BOOLEAN : SetSUH(t, h, value)

Spec == Init /\ [][Next]_vars

(* A thread that has entered a native function runs on; whether a mod      *)
(* makes a call at all is its own affair.                                  *)
FairSpec == Spec /\ \A t \in Threads : WF_vars(fault = "none" /\ Step(t))
-----------------------------------------------------------------------------
(* A call never follows a pointer get_py_object() gave it into an entry    *)
(* that has been released since (no use after free).                       *)
NoStalePointer == fault # "stale pointer"

(* No operation is asked for a handle that is 0 or not in the table: the   *)
(* asserts of the handle operations and of del() hold.                     *)
NoDeadHandle == fault # "dead handle"

(* What a mod still owns is live: nobody else's call releases it.          *)
OwnedAreLive == \A h \in Handles : owner[h] # Nobody => Live(h)

(* A handle waits for release at most once, while it is live, and after    *)
(* its owner has passed it on.                                             *)
QueuedOnce ==
    /\ QueueIsSound
    /\ \A h \in Range(queue) : owner[h] = Nobody

(* Nothing else is forgotten: a live handle has an owner, or a call that   *)
(* uses or will return it is still running, or it waits for a running call *)
(* to drain the queue, or a loop that raised has abandoned it.  So the     *)
(* other error paths release what they were passed.                        *)
NothingForgotten ==
    fault = "none" =>
        \A h \in Handles : Live(h) =>
            \/ owner[h] # Nobody
            \/ \E t \in Threads : h \in InFlight(t) \/ result[t] = h
            \/ h \in Range(queue) /\ \E t \in Threads : pc[t] \in BeforeDrain
            \/ h \in abandoned

Quiet == fault = "none" /\ \A t \in Threads : pc[t] = "idle"

(* With every thread out of its calls, the queue is empty, and the live    *)
(* handles are exactly those the mods own and those a loop has abandoned.  *)
QuiescentIsExact ==
    Quiet =>
        /\ queue = <<>>
        /\ \A h \in Handles : Live(h) <=> owner[h] # Nobody \/ h \in abandoned

(* A Single-Use handle is gone when the call it was passed to has          *)
(* returned, as the documentation of the type says, whether it raised or   *)
(* not.                                                                    *)
SingleUseIsReleased ==
    Quiet => \A h \in Handles : Live(h) /\ entries[h].suh => owner[h] # Nobody

(* A handle that has been passed to a call and given up, or created for    *)
(* the result of one, is eventually released or handed to a mod: no call   *)
(* ends without the one or the other, but for a loop that abandons it.     *)
InFlightEnds ==
    \A h \in Handles :
        Live(h) /\ owner[h] = Nobody ~>
            ~Live(h) \/ owner[h] # Nobody \/ h \in abandoned \/ fault # "none"

(* The table is a handle store; looking up, queueing and marking handles   *)
(* are invisible there.                                                    *)
Store == INSTANCE HandleStore
           WITH Handles <- Handles \cup {NoHandle},
                store <- [h \in Handles \cup {NoHandle} |->
                            IF h = NoHandle THEN NoObject ELSE entries[h].obj]
ImplementsHandleStore == Store!Spec
=============================================================================
