----------------------------- MODULE LockOrder -----------------------------
(***************************************************************************)
(* What the threads of a game wait for in REPY: the three mutexes of the   *)
(* extlib, and Python's own stops.                                         *)
(*                                                                         *)
(* Python is the free-threaded build (PYTHON_VERSION_STR).  A mod function *)
(* runs with the PyThreadState of its interpreter attached, and there is   *)
(* no GIL to wait for; but a thread that collects garbage stops the        *)
(* interpreter, and then waits until no other thread is attached to it.  A *)
(* thread gives way when it runs Python code or when it detaches, and not  *)
(* while it waits for a mutex of the extlib.                               *)
(*                                                                         *)
(* Native functions are taken apart into the steps that can wait: they     *)
(* look up and make controllers, operate on handles under _handles_mutex   *)
(* and run Python code, in any order.                                      *)
(***************************************************************************)
EXTENDS Naturals, Sequences

CONSTANTS
    Threads,
    Interps,
    Uses,         \* the interpreters that each thread pushes
    Finalizing,   \* those whose objects have finalizers
    Nobody,
    None,         \* no interpreter
    MaxDepth      \* a bound on nested pushes

ASSUME LockOrderAssumption ==
    /\ Nobody \notin Threads /\ None \notin Interps
    /\ Uses \in [Threads -> SUBSET Interps]
    /\ Finalizing \subseteq Interps
    /\ MaxDepth \in Nat

Mutexes == {"thread_root", "global_interps", "handles"}

VARIABLES
    holder,     \* the thread that holds each mutex
    known,      \* threads that have a ThreadRootController
    tics,       \* _thread_interps of each
    stack,      \* _interp_index_stack of each
    pc,
    wanted,     \* the interpreter whose controller a thread looks up
    attached,   \* the interpreter whose PyThreadState is attached
    stopper     \* the thread that stops each interpreter

vars == <<holder, known, tics, stack, pc, wanted, attached, stopper>>

Top(t) == stack[t][Len(stack[t])]
Pushed(t) == IF stack[t] = <<>> THEN None ELSE Top(t)

Init ==
    /\ holder = [m \in Mutexes |-> Nobody]
    /\ known = {}
    /\ tics = [t \in Threads |-> {}]
    /\ stack = [t \in Threads |-> <<>>]
    /\ pc = [t \in Threads |-> "mod"]
    /\ wanted = [t \in Threads |-> None]
    /\ attached = [t \in Threads |-> None]
    /\ stopper = [i \in Interps |-> Nobody]

Goes(t, from, to) == pc[t] = from /\ pc' = [pc EXCEPT ![t] = to]

Locks(t, m) == holder[m] = Nobody /\ holder' = [holder EXCEPT ![m] = t]
-----------------------------------------------------------------------------
(* The controllers.                                                        *)

(* get_interp(i): a controller that does not exist yet is made for the     *)
(* global controller of the interpreter.                                   *)
Seek(t, i, after) ==
    /\ wanted' = [wanted EXCEPT ![t] = i]
    /\ pc' = [pc EXCEPT ![t] = IF t \notin known THEN "find"
                               ELSE IF i \notin tics[t] THEN "lookup" ELSE after]

(* push_interp_index(): the interpreter on top is deactivated before the   *)
(* controller of the new one is looked up.                                 *)
PushInterpreter(t, i) ==
    /\ pc[t] = "mod" /\ i \in Uses[t] /\ Len(stack[t]) < MaxDepth
    /\ stack' = [stack EXCEPT ![t] = Append(@, i)]
    /\ IF stack[t] # <<>> /\ Top(t) = i
       THEN UNCHANGED <<pc, wanted, attached>>
       ELSE attached' = [attached EXCEPT ![t] = None] /\ Seek(t, i, "attach")
    /\ UNCHANGED <<holder, known, tics, stopper>>

(* Faulty variant: the interpreter below is not activated again.           *)
PopLeavesDetached(t) ==
    /\ pc[t] = "mod" /\ stack[t] # <<>>
    /\ stack' = [stack EXCEPT ![t] = SubSeq(@, 1, Len(@) - 1)]
    /\ IF Len(stack[t]) > 1 /\ stack[t][Len(stack[t]) - 1] = Top(t)
       THEN UNCHANGED attached
       ELSE attached' = [attached EXCEPT ![t] = None]
    /\ UNCHANGED <<holder, known, tics, pc, wanted, stopper>>

(* pop_interp_index()                                                      *)
PopInterpreter(t) ==
    /\ pc[t] = "mod" /\ stack[t] # <<>>
    /\ stack' = [stack EXCEPT ![t] = SubSeq(@, 1, Len(@) - 1)]
    /\ IF Len(stack[t]) > 1 /\ stack[t][Len(stack[t]) - 1] = Top(t)
       THEN UNCHANGED <<pc, attached>>
       ELSE /\ attached' = [attached EXCEPT ![t] = None]
            /\ pc' = [pc EXCEPT ![t] = IF Len(stack[t]) > 1 THEN "attach" ELSE "mod"]
    /\ UNCHANGED <<holder, known, tics, wanted, stopper>>

(* REPY_GetInterpreterAutoDisarm, REPY_SetInterpreterAutoDisarm            *)
AutoDisarm(t, i) ==
    /\ pc[t] = "mod"
    /\ Seek(t, i, "mod")
    /\ UNCHANGED <<holder, known, tics, stack, attached, stopper>>

(* get_thread_root_controller() holds _thread_root_mutex ...               *)
Find(t) ==
    /\ Goes(t, "find", "create")
    /\ Locks(t, "thread_root")
    /\ UNCHANGED <<known, tics, stack, wanted, attached, stopper>>

(* ... and create_thread_root_controller() takes _global_interps_mutex.    *)
Create(t) ==
    /\ Goes(t, "create", "created")
    /\ Locks(t, "global_interps")
    /\ UNCHANGED <<known, tics, stack, wanted, attached, stopper>>

(* Both return.  A native function that only wanted t_controller, operates *)
(* on its handle.                                                          *)
Found(t) ==
    /\ Goes(t, "created", IF wanted[t] = None THEN "handle" ELSE "lookup")
    /\ holder' = [holder EXCEPT !["thread_root"] = Nobody, !["global_interps"] = Nobody]
    /\ known' = known \cup {t}
    /\ UNCHANGED <<tics, stack, wanted, attached, stopper>>

(* get_global_interp_controller()                                          *)
LookUp(t) ==
    /\ Goes(t, "lookup", "looking")
    /\ Locks(t, "global_interps")
    /\ UNCHANGED <<known, tics, stack, wanted, attached, stopper>>

(* It returns; a push goes on to activate().                               *)
LookedUp(t) ==
    /\ Goes(t, "looking", IF stack[t] # <<>> /\ attached[t] = None THEN "attach" ELSE "mod")
    /\ holder' = [holder EXCEPT !["global_interps"] = Nobody]
    /\ tics' = [tics EXCEPT ![t] = @ \cup {wanted[t]}]
    /\ wanted' = [wanted EXCEPT ![t] = None]
    /\ UNCHANGED <<known, stack, attached, stopper>>
-----------------------------------------------------------------------------
(* The handles.                                                            *)

(* A handle is looked up, created, copied, marked or released, or the      *)
(* queue is drained: every one of these locks _handles_mutex.  Only those  *)
(* that INTERP_API_HEADER does not guard come first on a thread.           *)
UseHandle(t) ==
    /\ pc[t] = "mod"
    /\ pc' = [pc EXCEPT ![t] = IF t \in known THEN "handle" ELSE "find"]
    /\ wanted' = [wanted EXCEPT ![t] = None]
    /\ UNCHANGED <<holder, known, tics, stack, attached, stopper>>

LockHandles(t) ==
    /\ Goes(t, "handle", "entry")
    /\ Locks(t, "handles")
    /\ UNCHANGED <<known, tics, stack, wanted, attached, stopper>>

(* del() drops the last reference to an object with a finalizer, which is  *)
(* Python code; so is the repr() that is written to a verbose log.         *)
RunUnderMutex(t) ==
    /\ attached[t] \in Finalizing
    /\ Goes(t, "entry", "python")
    /\ UNCHANGED <<holder, known, tics, stack, wanted, attached, stopper>>

(* Faulty variant: the lock is kept while the object is used, so that      *)
(* nobody else can release it.                                             *)
UseEntryLocked(t) ==
    /\ Goes(t, "entry", IF attached[t] # None THEN "python" ELSE "mod")
    /\ holder' = IF attached[t] # None THEN holder ELSE [holder EXCEPT !["handles"] = Nobody]
    /\ UNCHANGED <<known, tics, stack, wanted, attached, stopper>>

(* The lock_guard goes out of scope.                                       *)
UseEntry(t) ==
    /\ Goes(t, "entry", "mod")
    /\ holder' = [holder EXCEPT !["handles"] = Nobody]
    /\ UNCHANGED <<known, tics, stack, wanted, attached, stopper>>
-----------------------------------------------------------------------------
(* Python, and activate(), which attaches a PyThreadState.                 *)

(* A native function runs Python code.                                     *)
RunPython(t) ==
    /\ attached[t] # None
    /\ Goes(t, "mod", "python")
    /\ UNCHANGED <<holder, known, tics, stack, wanted, attached, stopper>>

(* It ends; the mutex it ran under is released.                            *)
PythonReturns(t) ==
    /\ Goes(t, "python", "mod")
    /\ stopper[attached[t]] # t
    /\ holder' = IF holder["handles"] = t THEN [holder EXCEPT !["handles"] = Nobody] ELSE holder
    /\ UNCHANGED <<known, tics, stack, wanted, attached, stopper>>

(* Python code gives way to the thread that wants to stop the interpreter. *)
Park(t) ==
    /\ Goes(t, "python", "parked")
    /\ stopper[attached[t]] \notin {Nobody, t}
    /\ attached' = [attached EXCEPT ![t] = None]
    /\ UNCHANGED <<holder, known, tics, stack, wanted, stopper>>

Attach(t) ==
    /\ Goes(t, "parked", "python") \/ Goes(t, "attach", "mod")
    /\ stopper[Top(t)] = Nobody
    /\ attached' = [attached EXCEPT ![t] = Top(t)]
    /\ UNCHANGED <<holder, known, tics, stack, wanted, stopper>>

StopTheWorld(t) ==
    /\ pc[t] = "python" /\ stopper[attached[t]] = Nobody
    /\ stopper' = [stopper EXCEPT ![attached[t]] = t]
    /\ UNCHANGED <<holder, known, tics, stack, pc, wanted, attached>>

Others(t) == {u \in Threads \ {t} : attached[u] = attached[t]}

StartTheWorld(t) ==
    /\ pc[t] = "python" /\ stopper[attached[t]] = t
    /\ Others(t) = {}
    /\ stopper' = [stopper EXCEPT ![attached[t]] = Nobody]
    /\ UNCHANGED <<holder, known, tics, stack, pc, wanted, attached>>
-----------------------------------------------------------------------------
(* What a call does of itself once it has begun.                           *)
Step(t) ==
    \/ Find(t) \/ Create(t) \/ Found(t) \/ LookUp(t) \/ LookedUp(t)
    \/ LockHandles(t) \/ UseEntry(t)
    \/ Park(t) \/ Attach(t) \/ StartTheWorld(t)

Next ==
    \E t \in Threads :
        \/ Step(t)
        \/ \E i \in Interps : PushInterpreter(t, i) \/ AutoDisarm(t, i)
        \/ PopInterpreter(t) \/ UseHandle(t)
        \/ RunPython(t) \/ RunUnderMutex(t) \/ PythonReturns(t) \/ StopTheWorld(t)

Spec == Init /\ [][Next]_vars

(* Python code ends, however often it collects garbage.                    *)
FairSpec == Spec /\ \A t \in Threads : WF_vars(Step(t)) /\ SF_vars(PythonReturns(t))
-----------------------------------------------------------------------------
Places == {"mod", "find", "create", "created", "lookup", "looking", "attach",
           "handle", "entry", "python", "parked"}

TypeOK ==
    /\ holder \in [Mutexes -> Threads \cup {Nobody}]
    /\ known \subseteq Threads
    /\ tics \in [Threads -> SUBSET (Interps \cup {None})]
    /\ stack \in [Threads -> Seq(Interps)]
    /\ pc \in [Threads -> Places]
    /\ wanted \in [Threads -> Interps \cup {None}]
    /\ attached \in [Threads -> Interps \cup {None}]
    /\ stopper \in [Interps -> Threads \cup {Nobody}]

(* The threads a thread cannot go on without.                              *)
WaitsFor(t) ==
    CASE pc[t] = "find" -> {holder["thread_root"]} \ {Nobody}
      [] pc[t] \in {"create", "lookup"} -> {holder["global_interps"]} \ {Nobody}
      [] pc[t] = "handle" -> {holder["handles"]} \ {Nobody}
      [] pc[t] \in {"attach", "parked"} -> {stopper[Top(t)]} \ {Nobody}
      [] pc[t] = "python" -> IF stopper[attached[t]] = t THEN Others(t) ELSE {}
      [] OTHER -> {}

(* No threads wait for each other: neither for two mutexes that are taken  *)
(* in a different order, nor for a mutex and a stop of the interpreter.    *)
NoWaitCycle ==
    \A S \in SUBSET Threads : S # {} => \E t \in S : WaitsFor(t) \cap S = {}

(* A mod function and the Python code it runs have the PyThreadState of    *)
(* the interpreter that was pushed last, whatever stops there were in the  *)
(* meantime; outside of every scope there is none.                         *)
RunsAttached ==
    \A t \in Threads :
        pc[t] \in {"mod", "handle", "entry", "python"} => attached[t] = Pushed(t)

(* A mutex that is held is given back, whatever other threads do.          *)
MutexesAreGivenBack ==
    \A m \in Mutexes : holder[m] # Nobody ~> holder[m] = Nobody
=============================================================================
