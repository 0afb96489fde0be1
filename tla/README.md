# A TLA+ model of REPY (Python extlibs mod)

REPY lets game mods, which are MIPS code recompiled to C and run on several
game threads, use CPython. A mod calls the C API of
`include_in_dependents/repy_api.h`; the REPY mod library (`src/mod`) forwards the
calls to a native library (`src/extlib`), which keeps the Python objects and hands
out integer handles for them. This directory holds the specification of that
machinery, the configurations that model-check it and the proofs about it.

## 1. Inventory

| Part | State it keeps | Operations | Correct when |
|---|---|---|---|
| `PyObjectSlotMap` (`src/extlib/pyobject_slotmap.*`) | page table, entries, three counters, next handle, overflow flag | `add`, `del`, `get`, `has`, `del_all` | a handle names one object while it is live, 0 names none, no page leaks, counters are exact, all of it past the overflow of the 32-bit handle |
| `GlobalRootController` (`controllers/global_root_controller.*`) | the slot map and the queue of used Single-Use handles (SUH), under `_handles_mutex`; the interpreters, under `_global_interps_mutex` | `create_handle`, `copy_handle`, `get_py_object`, `set_handle_suh`, `release_suh_handles`, `release_handle` | every SUH is released once, after its use and not before; nothing a mod owns is released by others; nothing is forgotten on error paths (the loops of finding 3 do forget) |
| Native API functions (`lib_main.cpp`) and the exported functions of the mod library (`src/mod/api_main.c`) | the raw pointers and the progress of each call | look up arguments, run the Python operation, create the result, drain the SUH queue; the `_SUH` functions then mark the result | no pointer into a released entry is followed; no handle is looked up that is 0 or gone |
| `ThreadRootController`, `ThreadInterpreterController` | interpreter stack, lazily made per-interpreter controllers, guard objects, last error | push, pop, activate, deactivate, error functions | a mod function runs with the interpreter it pushed; errors stay with thread and interpreter |
| `LifetimeController`, `GlobalInterpreterController` | the controller of each thread id, under `_thread_root_mutex`; the registered interpreters; start and end of Python | register, start, find or make a controller, shutdown | every index that was given out has an interpreter; ids that are reused meet clean controllers; shutdown deletes no guard object of another thread |
| Helper objects (`src/mod/api_helpers`) and the `REPY_FN*`, `REPY_FOREACH`, compile-cache macros (`repy_api.h`) | deferred cleanups, iterators, if-chains; static caches of compiled code | set up and clean up a scope, defer, step, break, return | everything is released exactly once, whichever way a function ends; caches and chains are made once and evaluate the right code |
| `recomp_mem`, `repy_utils`, `lib_recomp.hpp`, `mem/byteswapped.py` | the memory of the game, host words in reverse byte order | typed, block and string reads and writes | game, mods and Python see one big-endian memory, cut and refuse the same things, and nobody leaves it (assumed of the callers) |
| Logging, printf, embedded library, build scripts, vendored Python | none of interest | I/O | out of scope |

**How they interact.** Every native function first finds the `t_controller` of its
thread. Handles and the SUH queue are shared by the whole process and guarded by
`_handles_mutex`, which is taken once for every handle operation and never for a
whole call. The interpreter stack belongs to one thread; which interpreter's
`PyThreadState` is attached to the thread follows the top of it. Python is the
free-threaded build (`globals.hpp` defines `Py_GIL_DISABLED`): threads do not
exclude each other by a GIL, but a thread that collects garbage stops its
interpreter until no other thread is attached to it.

**What is hard.**

* *Concurrency*: threads interleave between the critical sections of one call;
  the queue one thread fills is emptied by another; Python's stops meet the
  mutexes; static caches are filled without a lock.
* *Ordering*: nested pushes by mods that do not know each other; guard objects
  that restore what they found when they were made; scopes that are left from
  the inside of loops.
* *Limits*: the overflow of the handle, page boundaries, a full table; the last
  byte of memory, and strings that are cut.
* *Failure*: a Python exception in the middle of a call, also between two of its lookups;
  a C++ exception no catch clause takes; the handle 0.
* *Life cycle*: thread ids that are reused, controllers that outlive their
  threads, shutdown.

The list with source lines is in `PROJECT.json` under `hazards`.

## 2. Plan

All modules of the plan exist, in this order of importance.

1. `HandleStore`: what the handle layer promises (abstract).
2. `SlotMap` with `SlotMapProofs`: the slot map implements it.
3. `HandleTable` with `HandleTableProofs`: handle operations and native calls
   of several threads; the table implements `HandleStore` too.
4. `InterpStack` with `InterpStackProofs`: the interpreters and their stack,
   from registration to shutdown, with the error state.
5. `LockOrder` with `LockOrderProofs`: composes the control flow of the
   controllers, the handle operations and Python's stops as far as they wait.
6. `GameMemory` and `RecompMem` with `RecompMemProofs`: the memory of the game,
   abstract and detailed.
7. `FnScope` with `FnScopeProofs`: the mod-side helpers and the macros that use them.

`MC*` modules hold what TLC needs beside a `.cfg`. What could come next:
`FnScope` with Python errors; and a composition of `HandleTable` with `InterpStack` that says with which
interpreter a reference is dropped.

## 3. What is modelled

### HandleStore
One variable, `store`, from handles to objects. A handle is created only when it
is free and not 0; a set of live handles is released. It is the abstract
specification of the two modules that follow.

### SlotMap
| Model | Code |
|---|---|
| `pages`, `entries`, `items` | `pages[]`, `MapPage::entries`, `MapPage::count` |
| `page_count`, `count`, `next_handle_val`, `wrapped_around` | the members of the same name |
| `BeginAdd`, `SkipHandle`, `EndAdd` | `add()` and `get_next_handle()`: entry, one iteration of the search loop, the rest |
| `Del`, `DelAll` | `del()`, `del_all()` |

The halves of a handle, 65536 by 65536 in the code, are `PageSize` and `NumPages`.
`add()` is split into steps so that its loop can be asked to end; nothing else
runs between them, since the caller holds `_handles_mutex` (`phase`).

### HandleTable
| Model | Code |
|---|---|
| `entries`, `next`, `queue` | `_handles`, its next value, `_suh_release_queue` |
| `pc`, `args`, `again`, `held`, `kind`, `produces`, `marks`, `result` | where a thread is in an API function; the arguments it has yet to look up, now and in a second native call; the pointers it may yet read; how it meets arguments and errors; whether it makes a result and a Single-Use one; that result |
| `ModuleFns` ... `ErrorFns` | the API functions by what they do with handles: how many they take (`arity`), in which way (`kind`), whether they create one (`creates`), whether there is a `_SUH` variant (`marks`), and after which outcome they drain the queue when they have looked nothing up (`drains`) |
| `CreateObject`, `CreateNothing` | the functions that take no handle |
| `BeginUse`, `Fetch`, `Operate`, `CreateResult`, `Drain` | the functions that take handles: the call, `get_py_object()` of one argument, the Python operation, which reads through the pointers, `create_handle()`, `release_suh_handles()` |
| `Succeed`, `Raise`, `Escape` | how the operation ends: it succeeds; it throws `error_already_set`, which is caught; it throws something else (a failing cast), which is not |
| `Mark` | `PythonNative_MakeSUH` of the result, by a `_SUH` function of the mod library |
| `BeginVariadicLocals` | `REPY_VariadicLocals` with a dict, which returns what it was given |
| `BeginAllocAndCopyBuffer` | the two native calls of `REPY_AllocAndCopyBuffer` |
| `CopyHandle`, `Release`, `SetSUH` | `copy_handle()`, `release_handle()`, `set_handle_suh()` |
| `owner` | no variable of the code: the thread whose mod has to release a handle |
| `abandoned` | a history variable: the Single-Use handles passed to calls that raised before they looked them up |

Most functions (`kind` "plain") look up all their arguments, then operate. `CreateTuple`,
`CreateDict` and `VL` ("loop") operate after every lookup: an error there ends the call with
the later arguments never looked up. The casts ("cast") look one argument up, and may fail
with an exception that passes their catch clauses; the process ends.

`MayPass`, `MayRelease` and `GiveUp` say what the mods may do, after the API's
documentation: a handle is released or made Single-Use by its owner while no other
thread passes it, a Single-Use handle is passed once, a plain handle can be passed
by any thread. `SUHThreads`, `SingleUseBuffers` and `NestedErrors` choose which
threads use Single-Use handles, whether they pass them to
`REPY_AllocAndCopyBuffer`, and whether a `_SUH` function may meet a Python error. A
failed assert (or the null dereference that follows it in a build without
asserts), a read through a pointer into a released entry, and an exception nobody
catches set `fault` and stop the model. The arguments of a call are a set: a Single-Use handle
that is passed twice to one call is left out. Once a function has looked up a handle it always drains the queue, so
that `BeginUse` needs only the distinct `Signatures` of the functions.

### InterpStack
| Model | Code |
|---|---|
| `phase`, `registered`, `served` | before and after `REPY_Init`; `preinit_subinterp_count`; the size of `_global_interps` |
| `RegisterSubinterpreter`, `Start`, `Shutdown` | preinit, start, and the deletion of all controllers from one thread |
| `controllers`, `tls` | `LifetimeController::_thread_root`, the `thread_local t_controller` |
| `stack`, `tics`, `active` | `_interp_index_stack`, `_thread_interps`, `_is_active` |
| `attached`, `saved` | the thread's current `PyThreadState`; what the guard objects `_gil` and `_scope` put back |
| `error` | the last error of a `ThreadInterpreterController`, by the interpreter it was raised in |
| `scopes` | the pushes of the mod functions on the C stack |
| `PushInterpreter`, `PopInterpreter` | `push_interp_index()`, `pop_interp_index()` |
| `HandleException`, `GetError`, `ClearError` | `handle_exception()` and the error functions |
| `UseHandle`, `AutoDisarm`, `GetCurrentInterpreter`, `EndThread` | the functions that make a controller only, that make a `ThreadInterpreterController` only, that ask; the end of a thread |

The guard objects are pybind11's; how they save and restore the `PyThreadState`
is taken from how `thread_interpreter_controller.cpp` uses them. `AskAnywhere`
says whether mods call `REPY_GetCurrentInterpreter` outside of every scope.
The error functions are called inside of a scope.

### LockOrder
| Model | Code |
|---|---|
| `holder` | `_thread_root_mutex`, `_global_interps_mutex`, `_handles_mutex` |
| `known`, `tics`, `stack` | the controllers and the stack, as in `InterpStack` |
| `Find`, `Create`, `Found` | `get_thread_root_controller()`, which makes a controller under two mutexes |
| `LookUp`, `LookedUp` | `get_global_interp_controller()` |
| `LockHandles`, `UseEntry` | any handle operation |
| `RunUnderMutex` | a handle operation that drops the last reference to an object with a finalizer |
| `RunPython`, `PythonReturns` | the Python operation of a call |
| `StopTheWorld`, `StartTheWorld`, `Park`, `Attach` | external: garbage collection, and `activate()`, which waits for its end |

A thread that waits for a mutex of the extlib stays attached to its interpreter
and does not give way; this is what makes stops and mutexes depend on each other.
`Uses` says which interpreters each thread pushes, `Finalizing` where finalizers are.

### GameMemory and RecompMem
`GameMemory` is an array of bytes and the calls that load and store numbers, characters,
blocks, mirrored blocks, byte strings and texts in it. `RecompMem` has the host's memory, in
which the byte of address `a` is at `a ^ 3` (`Flip`), and each function as it is
written: `GameLoad` and `GameStore` the `MEM_*` macros of the recompiled game;
`ReadNumber` ... `WriteStrN` the functions of `recomp_mem` and of the native API, by the copying
function they use and the order of bytes it leaves; `Passes` the checks on the
thread and on the address. Callers are the game, mods, Python on a thread of the game
and Python on a thread of its own, which is refused. The refinement turns every group
of four bytes round.

`read_char`, `read_str`, `read_str_n` and `PythonNative_CreateStr`, `CreateStrN` make a
`py::str` and raise when the bytes are not UTF-8 (`Decoded`); which sequences of bytes
are, is the constant `Utf8`. A buffer is its bytes and the number of its items, `info.size`:
`write_buffer_n` and `PythonNative_MemcpyFromBuffer` copy one byte for each item, so
that a buffer of wider items is cut (`WriteBlock`). Items that do not lie one behind the other
in memory are copied as if they did, with the gaps; buffers with negative strides are left out.
A null byte inside of a string is stored like any other.

The code checks only the first byte of an access; that the rest is inside is
assumed of the caller (`Whole`). So nothing is said about accesses that begin in the
memory and leave it.

### FnScope
| Model | Code |
|---|---|
| `heap` | handles and `recomp_alloc()` memory as cells: what each is, and which others it releases |
| `cache`, `root` | the `static` variables of the macros: compiled code, the first link of an if-chain |
| `frames` | the open scopes of each thread: locals, `cleanup` (the `REPY_DeferredCleanupHelper`), open loops, the if-block in progress |
| `Setup`, `Cleanup`, `Defer`, `CleanNow` | `REPY_FN_SETUP`, `REPY_FN_CLEANUP`, `REPY_FN_DEFER_*`, `REPY_DeferredCleanupHelper_CleanNow` |
| `FindNotCompiled`, `CompileAndStore` | `REPY_INLINE_COMPILE_CACHE_BLOCK`: the test and the store are two steps |
| `BeginIf`, `StepIf`, `MakeLink`, `LeaveIf` | `REPY_FN_IF_CACHE_INIT` and `REPY_IfStmtHelper_Step` |
| `BeginForeach`, `BeginForeachFnac`, `BeginForeachCache` | the loops; helpers that destroy themselves, that are registered for cleanup, that have a scope of their own |
| `NextItem`, `EndOfLoop`, `Break` | `REPY_IteratorHelper_Update`, `REPY_FOREACH_BREAK` |

Functions call themselves and return from within loops. Cells are given
out lowest first, so that the identity of a cell adds no states.

## 4. What is checked

| Run | Instance (distinct states) | Shows |
|---|---|---|
| `slot_map` | 3 pages of 2 entries, 2 objects (6748) | 0 and live handles are never given out, counters and pages are exact, a stale handle stays invalid until the overflow, `add()` ends while a handle is free, refinement of `HandleStore` |
| `handle_shared` | 2 threads, 3 handles, 1 object, 2 arguments (288252) | with both threads using Single-Use handles, no dead handle; each is released once and only what was given up; nothing is forgotten but what loops abandon; calls end; refinement of `HandleStore` |
| `handle_forgotten` | 1 thread, 4 handles, 2 arguments | **finding**: Single-Use handles that are never released |
| `handle_shared_use` | 2 threads, 3 handles | **finding**: a stale pointer |
| `handle_buffer` | 1 thread, 5 handles | **finding**: a dead handle |
| `interp_stack` | 2 thread ids, 3 interpreters, 3 nested pushes (157112) | a function runs with its interpreter, one active interpreter, pops find controllers, errors stay apart, reused ids are clean, no assert fails from preinit to shutdown |
| `interp_ask` | 1 thread, 2 interpreters | **finding**: a null controller |
| `lock_order` | 2 threads, a shared and a private interpreter, 3 nested pushes (38777) | no wait cycle, Python runs in the interpreter that was pushed, mutexes are given back |
| `lock_deadlock` | 2 threads, 1 interpreter with finalizers | **finding**: a deadlock |
| `recomp_mem` | 2 words, 2 values of a byte, all widths and alignments, lengths to 3, 5 buffers (840528) | one big-endian memory, the cut of strings and buffers, and the refusal of what is not UTF-8 |
| `fn_scope` | 1 thread, 2 nested scopes, 1 cache and if-block of 2 conditions, 2 items, 7 cells (164226) | everything is released once and nothing left behind, loops and if-blocks see their item and their code, one thread compiles no string twice |
| `fn_cache_race` | 2 threads, 1 cache | **finding**: code compiled twice and one handle lost |

**Bounds.** Two entries make the smallest page with an inside, and three pages give
a page behind, at and ahead of the next handle; six values overflow after six
creations. Two threads are enough for one to drain what another has queued, and
three handles for two arguments and a result. The one object of
`handle_shared` does not tell a live handle that is given to another object; that is
left to `slot_map` and to the theorem `Refinement`. Three nested pushes of three
interpreters contain the same, a different and a repeated interpreter below the
top. In `lock_order` the two threads share an interpreter and one of them nests it with
its own, so that every mutex and both kinds of interpreter can be wanted at once. Two words of memory have accesses
that begin in one and end in the other at every offset; addresses run from one
before the first to the first one after the last. The byte 1 stands for those above 0x7F: two make a
character and one alone is not UTF-8, so that a text can be read, refused, and cut in mid-character; the
buffers have as many items as bytes, or half as many. Seven cells hold a loop
with a scope of its own inside of an if-block of a nested call; one site is enough because
sites share nothing.

**Deadlock** is checked for `lock_order` and `recomp_mem`. It is not where the
system may rest: the slot map after `del_all()`, the handle table and `FnScope` when their
bounds are used up, the interpreters after the end of the process.

**Fairness.** `SlotMap!FairSpec` is weak fairness of the search loop: the thread in
`add()` runs on. `HandleTable!FairSpec` is weak fairness of the steps of a call that
has begun; nothing is assumed of the mods, which need never call.
`LockOrder!FairSpec` is weak fairness of each thread's own steps, and strong fairness
of the end of Python code: it ends however often it is stopped or collects garbage.

**Findings.**

1. `release_suh_handles()` drains a queue of the whole process
   (`global_root_controller.cpp:207`): a Single-Use handle in use on one thread is
   freed by the end of any call on another (`handle_shared_use`). Its bookkeeping
   stays exact (`handle_shared`); what is lost is the time of the release.
2. `REPY_AllocAndCopyBuffer` (`src/mod/api_main.c:328`) uses its argument in two native
   calls, and the first releases a Single-Use handle (`handle_buffer`).
3. `CreateDict` (`lib_main.cpp:666`) and `VL` (1226) may raise between two lookups, `CreateTuple` only
   when memory runs out; the Single-Use arguments they have yet to look up are never queued (`handle_forgotten`). What is
   lost is exactly these (`abandoned` in `handle_shared`).
4. `INTERP_API_HEADER` (`lib_main.cpp:33`) asserts the opposite of what it means, and
   follows a null `t_controller`: `REPY_GetCurrentInterpreter` on a thread that has
   pushed nothing ends the process, where the documentation promises
   `REPY_INTERPRETER_STACK_EMPTY` (`interp_ask`).
5. `REPY_INLINE_COMPILE_CACHE_BLOCK` (`repy_api.h:621`) tests and fills a static
   variable without a lock: two threads compile the string twice, where
   `repy_api.h:942` promises once, and a handle is lost (`fn_cache_race`).
6. `release_suh_handles()` and `release_handle()` run finalizers under
   `_handles_mutex` (`global_root_controller.cpp:218`): one that collects garbage waits for
   the other threads of its interpreter, and these for the mutex (`lock_deadlock`). Where finalizers
   stay in interpreters that one thread uses, there is no deadlock (`lock_order`).

Seen on the way, with no run: the casts (`lib_main.cpp:263`, 299, 363, 427) and `py::buffer`
(494) throw exceptions other than `error_already_set` when the object has the wrong type, past the
catch clauses and the drain (`Escape`); `write_byte_str_n` stores what follows a null byte, where
`mem/byteswapped.py:297-298` says the content is truncated there; `write_buffer_n` takes
items for bytes and stores half of an array of 16 bit numbers, where
`mem/byteswapped.py:339-340` names arrays among the buffers it accepts; a text that `write_str_n` cuts
in mid-character cannot be read back with `read_str`; a `_SUH` function whose native call raises passes 0 to
`PythonNative_MakeSUH`, which asserts (`NestedErrors`); `REPY_FN_RETURN`
(`repy_api.h:866`) passes two arguments to a one-argument function and evaluates its
value twice; `REPY_STATIC_COMPILE_INCBIN_CACHE` (`repy_api.h:578`) pushes
outside and pops inside an `if`; the macro that sets a scope up with given globals drops
an argument; `PythonNative_IsErrorSet` (`lib_main.cpp:1436`) follows `t_controller`
with no check; the error functions make handles of null objects before the first
error; after `del_all()` the counters still say what they said before, so that the
destructor of the map reports leftovers.

## 5. What is proved

Each theorem holds for every value of the constants that satisfies the named assumptions.

`SlotMapProofs` (`SlotMapAssumption`: pages of two entries or more): the type
invariant, all safety invariants of the run, that a live handle is never rebound,
and that the map implements `HandleStore`. The invariant `IInv` is the conjunction of
the properties with two facts that make it inductive: an `add()` whose next value is
0 has noticed the overflow (else 0 would be given out), and every page's own count is
right (else `del()` could drop a page that still holds objects). The arguments worth
reading are `GetInBeginAdd`, `GetInEndAdd` and `GetInDel`, which reduce each step to its
effect on the map from handles to objects, and `IInvSkipHandle`: the search loop
leaves a page only by way of a live handle, so that no empty page is left behind.

`StaleUntilOverflow` is a nested temporal formula. For one handle it
splits into two stages, `Behind` (the next handle value has passed it, or the counter
overflowed) and `Stale` (behind and empty, or overflowed). Neither is ever left, since `add()` only fills what is
ahead until it notices the overflow.

`HandleTableProofs` (`HandleTableAssumption`): all properties of the passing run
but liveness, for any number of threads, handles, objects and arguments. `IInv` says
where a handle can be: not yet created (`FreshAhead`), owned and live
(`OwnedAreLive`), an argument still to be looked up (`PendingAreLive`), queued
(`QueueIsExact`), or a result that no other call knows (`ResultsArePrivate`); and that
every live handle is in one of these places, or a loop that raised has abandoned it (`AllAccounted`,
`AbandonedAreLost`: such a handle stays where it is, Single-Use, owned and queued by nobody). A Single-Use handle moves
from owner to argument to queue and is never in two of them, which is why the queue never
holds it twice.

Mods pass what they own; beyond that the invariant assumes nothing of mods or errors. Two faults of the API find a dead handle,
finding 2 (`SingleUseBuffers`) and the `_SUH` function that raises
(`NestedErrors`), and `IInv` names the states they leave: an argument that an earlier native call of the
same function has used up (`Spent`), and a call that is about to assert (`Doomed`). So the
types, ownership, the queue, `QuiescentIsExact` and the refinement of `HandleStore` hold
whether or not these faults are met: up to the assert that ends the process, the faults do not disturb the table. The other three
theorems say what they need. `HandlesAreLive` assumes `PoliteMods` (neither fault is met); without it
`handle_buffer` refutes it. `AllAreAccountedFor` assumes `~NestedErrors`: the call
that is about to assert has lost a handle. It and `NoLeaks` do not say that nothing leaks (finding 3), but
what does: with no call running, the live handles are the owned and the abandoned ones, no more and no less. `PointersAreSafe` assumes one thread, or no thread with
Single-Use handles; beyond that `handle_shared_use` refutes it.

`InterpStackProofs` (`InterpStackAssumption`): the type invariant and all
invariants of the run. The invariant adds that a controller's stack is exactly the
pushes its thread has not undone, that the guard of the active interpreter was
made when nothing was attached, and that from the start on there is an interpreter for every
registered index; `SwitchIsExact` then shows that deactivating before
activating leaves the right `PyThreadState`. `AlwaysAnswers` is proved under
`~AskAnywhere`; without it the run `interp_ask` refutes it.

`LockOrderProofs` (`LockOrderAssumption`): Python runs attached, and no wait cycle. The
invariant says where the holder of each mutex is and that who stops an
interpreter runs Python code in it. It holds whatever finalizers do, and so does `ModsRunAttached`. Only
`NoDeadlock` assumes `FinalizersArePrivate` (an interpreter with finalizers is used by one
thread); without it `lock_deadlock` refutes it. `NoCycle` concludes: a cycle of waiting
threads would have to pass from the end of a stop to a detaching thread, to
`_handles_mutex` and `_thread_root_mutex`, to `_global_interps_mutex`, whose holder
waits for nothing.

`RecompMemProofs` (`RecompMemAssumption`: memory of whole words, buffers with at most as many items as
bytes): the host's memory implements `GameMemory`, for every size, alignment,
width, length, string and buffer, and whatever is UTF-8. `Flip` is its own inverse and keeps words together
(`FlipOfAddress`, `PlaceOfWord`); `Copies`, `StringCopies` and `CopyToStores` say what
each copying function does to the abstract memory; then one lemma per operation.

`FnScopeProofs` (`FnScopeAssumption`): all properties of the run, for any number of
threads, sites, conditions, items, nested scopes and cells. The invariants of the run are
not inductive: that nothing is released twice depends on what nobody else holds. `IInv` adds
`Shape`: the cells in use are partitioned among scopes and iterator helpers, each with one holder that
will release it, and whatever is held is there. `CachesHold` and `ChainsCount` say that static variables
and links lead to the code of their own site and condition, whichever thread
filled them, and `ScopesAreSound` where a scope may be in a macro, at which link its
if-block is and at which item its loops. A step changes `Shape` in one of four ways (`ShapeGrows`,
`ShapeShrinks`, `ShapeWithItem`, `ShapeOpens`); the lemma of an action says which one
it is. `OneThreadCompilesOnce` assumes that one thread calls (`Sole`), and adds `OnceInv`: all compiled
code is reachable from a cache or a chain, and what a macro is about to compile is still missing. For two threads `fn_cache_race` refutes it.

Only model-checked: liveness under fairness (`AddReturns`, `InFlightEnds`,
`MutexesAreGivenBack`), which is out of the prover's reach. Every other property of
a passing run has its theorem.

## 6. What is not modelled

`PROJECT.json` lists every part with its status.

* Python errors in `FnScope`: a macro hands the 0 of a failed call on to one that
  asserts, which `HandleTable` shows with `NestedErrors`.
* Shutdown while threads run: the code's own comment excludes it.
* What Python operations do to objects. A call completes or raises. That an object
  is used in another interpreter than its own is a matter of documentation,
  not of a check in the code.
* The raw memory views of `recomp_mem`, which give Python the host's bytes and leave the rest
  to it; the numbers a failed cast leaves in the result register.
* Start-up: search paths, configuration, the archive of the standard library.
* Logging and `printf`, which only write; build scripts and vendored Python.

Of the C and C++ lines in the repository most are headers of the console's SDK
(`include/mod`), a third-party `printf` and the documentation comments of `repy_api.h`; the
modules cover nearly all functions of `lib_main.cpp`, the controllers, the slot
map and `recomp_mem`, and the parts of the mod library and of the macros that keep state.
