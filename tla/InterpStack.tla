---------------------------- MODULE InterpStack ----------------------------
(***************************************************************************)
(* The interpreters of REPY from their registration to the end of the      *)
(* process, and its Interpreter Stack: ThreadRootController and            *)
(* ThreadInterpreterController, one set per game thread.                   *)
(*                                                                         *)
(* A mod function brackets its Python work with REPY_PushInterpreter and   *)
(* REPY_PopInterpreter, and calls functions of other mods that do the      *)
(* same, so that the pushes of one thread nest.  The stack decides which   *)
(* interpreter the thread's PyThreadState belongs to, and the state is     *)
(* changed only when the top of the stack changes.  Controllers are made   *)
(* on demand, are kept per std::thread::id, and outlive their thread: a    *)
(* later thread that is given the same id finds the old one.  A            *)
(* ThreadInterpreterController also keeps the last Python error that was   *)
(* captured on its thread in its interpreter.                              *)
(***************************************************************************)
EXTENDS Integers, Sequences

CONSTANTS
    Threads,      \* std::thread::id values
    NumInterps,   \* bound: the main interpreter (0) and the subinterpreters
    Detached,     \* no PyThreadState, no interpreter
    AskAnywhere,  \* whether mods ask for the current interpreter on a thread that has never pushed one
    MaxDepth      \* bound: nested pushes of one thread

ASSUME InterpStackAssumption ==
    /\ NumInterps \in Nat \ {0}
    /\ Detached \notin 0 .. (NumInterps - 1)
    /\ AskAnywhere \in BOOLEAN
    /\ MaxDepth \in Nat \ {0}

Interps == 0 .. (NumInterps - 1)
State == Interps \cup {Detached}

VARIABLES
    phase,        \* "preinit", "running", "ended"
    registered,   \* preinit_subinterp_count: the last index given to a mod
    served,       \* the size of _global_interps, and of each _thread_interps
    controllers,  \* LifetimeController::_thread_root: the ids that have a controller
    tls,          \* the running threads whose t_controller is set
    stack,        \* _interp_index_stack
    tics,         \* _thread_interps: the interpreters with a ThreadInterpreterController
    active,       \* those whose _is_active is set
    attached,     \* the interpreter of the thread's current PyThreadState
    saved,        \* what each _gil or _scope object will restore when it is deleted
    error,        \* the interpreter the last captured error was raised in, Detached for no error
    scopes,       \* the pushes the mod functions on the C stack have made and not undone
    crashed       \* an assert failed, or a null t_controller was followed

life == <<phase, registered, served>>
controlled == <<stack, tics, active>>
python == <<attached, saved>>
vars == <<life, controllers, tls, controlled, python, error, scopes, crashed>>

Top(s) == IF s = <<>> THEN Detached ELSE s[Len(s)]
Current(t) == Top(stack[t])

TypeOK ==
    /\ phase \in {"preinit", "running", "ended"}
    /\ registered \in Interps
    /\ served \in 0 .. NumInterps
    /\ controllers \subseteq Threads
    /\ phase # "ended" => tls \subseteq controllers
    /\ tls \subseteq Threads
    /\ stack \in [Threads -> Seq(Interps)]
    /\ tics \in [Threads -> SUBSET Interps]
    /\ active \in [Threads -> SUBSET Interps]
    /\ attached \in [Threads -> State]
    /\ saved \in [Threads -> [Interps -> State]]
    /\ error \in [Threads -> [Interps -> State]]
    /\ scopes \in [Threads -> Seq(Interps)]
    /\ crashed \in BOOLEAN

NoErrors == [i \in Interps |-> Detached]

Init ==
    /\ phase = "preinit"
    /\ registered = 0
    /\ served = 0
    /\ controllers = {}
    /\ tls = {}
    /\ stack = [t \in Threads |-> <<>>]
    /\ tics = [t \in Threads |-> {}]
    /\ active = [t \in Threads |-> {}]
    /\ attached = [t \in Threads |-> Detached]
    /\ saved = [t \in Threads |-> [i \in Interps |-> Detached]]
    /\ error = [t \in Threads |-> NoErrors]
    /\ scopes = [t \in Threads |-> <<>>]
    /\ crashed = FALSE
-----------------------------------------------------------------------------
(* A mod registers a subinterpreter, in the REPY_OnPreInit event.          *)
RegisterSubinterpreter ==
    /\ phase = "preinit"
    /\ registered + 1 \in Interps
    /\ registered' = registered + 1
    /\ UNCHANGED <<phase, served, controllers, tls, controlled, python, error, scopes, crashed>>

(* Faulty variant: there is no interpreter for the last index.             *)
StartWithoutLast ==
    /\ phase = "preinit"
    /\ phase' = "running"
    /\ served' = registered
    /\ UNCHANGED <<registered, controllers, tls, controlled, python, error, scopes, crashed>>

(* REPY_Init: the main interpreter and one for each registration.          *)
Start ==
    /\ phase = "preinit"
    /\ phase' = "running"
    /\ served' = registered + 1
    /\ UNCHANGED <<registered, controllers, tls, controlled, python, error, scopes, crashed>>

(* The process ends, and ~LifetimeController deletes the controllers of    *)
(* every thread from one thread.  As its comment says none of these        *)
(* threads is running a mod function any more.  A guard object that is     *)
(* deleted on another thread than its own fails.                           *)
Shutdown ==
    /\ phase = "running"
    /\ \A t \in Threads : scopes[t] = <<>>
    /\ phase' = "ended"
    /\ crashed' = (\E t \in Threads : active[t] # {})
    /\ controllers' = {}
    /\ stack' = [t \in Threads |-> <<>>]
    /\ tics' = [t \in Threads |-> {}]
    /\ active' = [t \in Threads |-> {}]
    /\ error' = [t \in Threads |-> NoErrors]
    /\ UNCHANGED <<registered, served, tls, python, scopes>>
-----------------------------------------------------------------------------
(* Faulty variant: a new controller is not entered in the map.             *)
FindUnregistered(t) ==
    /\ UNCHANGED controllers
    /\ tls' = tls \cup {t}

(* INTERP_API_HEADER_CREATE_T_CONTROLLER: the thread's controller is found *)
(* by its id, or made.                                                     *)
FindController(t) ==
    /\ controllers' = controllers \cup {t}
    /\ tls' = tls \cup {t}

(* Faulty variants: the new interpreter is activated before the old one is *)
(* deactivated; the old one is left active; the last one stays active when *)
(* the stack empties.                                                      *)
SwitchReversed(t, from, to) ==
    LET held == IF to = Detached THEN saved[t]
                ELSE [saved[t] EXCEPT ![to] = attached[t]]
    IN  /\ active' = [active EXCEPT ![t] = (@ \cup ({to} \ {Detached})) \ {from}]
        /\ attached' = [attached EXCEPT ![t] =
                          IF from # Detached THEN held[from] ELSE to]
        /\ saved' = [saved EXCEPT ![t] = held]

SwitchLeavesActive(t, from, to) ==
    /\ active' = [active EXCEPT ![t] = @ \cup ({to} \ {Detached})]
    /\ attached' = [attached EXCEPT ![t] = to]
    /\ UNCHANGED saved

SwitchUnlessEmptied(t, from, to) ==
    IF to = Detached THEN UNCHANGED <<active, python>>
    ELSE /\ active' = [active EXCEPT ![t] = {to}]
         /\ attached' = [attached EXCEPT ![t] = to]
         /\ UNCHANGED saved

(* deactivate() of one interpreter and activate() of another.  Deleting a  *)
(* guard object puts back the PyThreadState it found when it was made.     *)
(* Detached stands for none to deactivate or to activate.                  *)
Switch(t, from, to) ==
    LET restored == IF from = Detached THEN attached[t] ELSE saved[t][from] IN
    /\ active' = [active EXCEPT ![t] = (@ \ {from}) \cup ({to} \ {Detached})]
    /\ attached' = [attached EXCEPT ![t] = IF to = Detached THEN restored ELSE to]
    /\ saved' = IF to = Detached THEN saved
                ELSE [saved EXCEPT ![t][to] = restored]

SwitchIfTopChanges(t, from, to) ==
    IF from = to THEN UNCHANGED <<active, python>> ELSE Switch(t, from, to)

(* Faulty variant: only the activation of an empty stack looks it up.      *)
LookupFirst(t, i) ==
    tics' = IF stack[t] = <<>> THEN [tics EXCEPT ![t] = @ \cup {i}] ELSE tics

(* get_interp() makes the ThreadInterpreterController it is asked for.     *)
Lookup(t, i) == tics' = [tics EXCEPT ![t] = @ \cup {i}]

(* It asserts that there is such an interpreter.                           *)
Serves(i) == i < served

(* REPY_PushInterpreter on entry to a mod function, of an index that was   *)
(* given out: push_interp_index().                                         *)
PushInterpreter(t, i) ==
    /\ phase = "running"
    /\ i <= registered
    /\ Len(scopes[t]) < MaxDepth
    /\ FindController(t)
    /\ stack' = [stack EXCEPT ![t] = Append(@, i)]
    /\ Lookup(t, i)
    /\ SwitchIfTopChanges(t, Current(t), i)
    /\ scopes' = [scopes EXCEPT ![t] = Append(@, i)]
    /\ crashed' = ~Serves(i)
    /\ UNCHANGED <<life, error>>

Pop(s) == SubSeq(s, 1, Len(s) - 1)

(* REPY_PopInterpreter before it returns: pop_interp_index().  A mod that  *)
(* pops what it pushed never meets an empty stack.                         *)
PopInterpreter(t) ==
    /\ phase = "running"
    /\ scopes[t] # <<>>
    /\ stack' = [stack EXCEPT ![t] = Pop(@)]
    /\ SwitchIfTopChanges(t, Current(t), Top(Pop(stack[t])))
    /\ scopes' = [scopes EXCEPT ![t] = Pop(@)]
    /\ UNCHANGED <<life, controllers, tls, tics, error, crashed>>

(* The functions that make a controller but do not touch the stack:        *)
(* REPY_Release, REPY_MakeSUH, REPY_IsValidHandle, REPY_CopyHandle ...     *)
UseHandle(t) ==
    /\ phase = "running"
    /\ FindController(t)
    /\ UNCHANGED <<life, controlled, python, error, scopes, crashed>>

(* REPY_Get/SetInterpreterAutoDisarm: get_interp(), with no activation.    *)
AutoDisarm(t, i) ==
    /\ phase = "running"
    /\ i <= registered
    /\ FindController(t)
    /\ Lookup(t, i)
    /\ crashed' = ~Serves(i)
    /\ UNCHANGED <<life, stack, active, python, error, scopes>>

(* REPY_GetCurrentInterpreter: INTERP_API_HEADER reports a null            *)
(* t_controller, asserts that it is null, and follows it.                  *)
GetCurrentInterpreter(t) ==
    /\ phase = "running"
    /\ AskAnywhere \/ scopes[t] # <<>>
    /\ crashed' = (t \notin tls)
    /\ UNCHANGED <<life, controllers, tls, controlled, python, error, scopes>>

(* get_current_interp() needs a controller, and asserts that the stack is  *)
(* not empty.                                                              *)
NoCurrent(t) == t \notin tls \/ stack[t] = <<>>

(* REPY_IsErrorSet, REPY_GetErrorType, Trace and Value.                    *)
GetError(t) ==
    /\ phase = "running" /\ scopes[t] # <<>>
    /\ crashed' = NoCurrent(t)
    /\ UNCHANGED <<life, controllers, tls, controlled, python, error, scopes>>

(* Faulty variant: errors are kept with the first interpreter pushed.      *)
FirstPushed(t) == stack[t][1]

(* The interpreter an error is kept with.                                  *)
ErrorInterp(t) == Current(t)

(* A call of a mod function raises: handle_exception().                    *)
HandleException(t) ==
    /\ phase = "running" /\ scopes[t] # <<>>
    /\ error' = [error EXCEPT ![t][ErrorInterp(t)] = attached[t]]
    /\ crashed' = NoCurrent(t)
    /\ UNCHANGED <<life, controllers, tls, controlled, python, scopes>>

(* REPY_ClearError                                                         *)
ClearError(t) ==
    /\ phase = "running" /\ scopes[t] # <<>>
    /\ error' = [error EXCEPT ![t][ErrorInterp(t)] = Detached]
    /\ crashed' = NoCurrent(t)
    /\ UNCHANGED <<life, controllers, tls, controlled, python, scopes>>

(* The thread ends, outside every mod function.  Its thread_local goes;    *)
(* its controller stays in the map, and its id may be given out again.     *)
EndThread(t) ==
    /\ phase = "running"
    /\ scopes[t] = <<>>
    /\ tls' = tls \ {t}
    /\ UNCHANGED <<life, controllers, controlled, python, error, scopes, crashed>>

Next ==
    /\ ~crashed
    /\ \/ RegisterSubinterpreter
       \/ Start
       \/ Shutdown
       \/ \E t \in Threads :
            \/ \E i \in Interps : PushInterpreter(t, i)
            \/ PopInterpreter(t)
            \/ UseHandle(t)
            \/ \E i \in Interps : AutoDisarm(t, i)
            \/ GetCurrentInterpreter(t)
            \/ GetError(t)
            \/ HandleException(t)
            \/ ClearError(t)
            \/ EndThread(t)

Spec == Init /\ [][Next]_vars
-----------------------------------------------------------------------------
(* A mod function runs with the PyThreadState of the interpreter it        *)
(* pushed, also after a call to a function that pushed another one; and a  *)
(* thread outside every mod function holds no PyThreadState.               *)
ScopeHasItsInterpreter == \A t \in Threads : attached[t] = Top(scopes[t])

(* Just the interpreter on top of the stack is active, so the asserts of   *)
(* activate() and deactivate() hold at every switch.                       *)
OnlyTopIsActive == \A t \in Threads : active[t] = {Current(t)} \ {Detached}

(* Every interpreter on the stack has its controller: pop_interp_index()   *)
(* calls activate() on it without looking for NULL.                        *)
StackedHaveControllers ==
    \A t \in Threads : \A k \in DOMAIN stack[t] : stack[t][k] \in tics[t]

(* The error state is thread and interpreter specific: what is kept for an *)
(* interpreter was raised in it.                                           *)
ErrorsStayApart ==
    \A t \in Threads : \A i \in Interps : error[t][i] \in {Detached, i}

(* A thread id that is given out again finds an empty stack and no         *)
(* PyThreadState.                                                          *)
IdleControllersAreClean ==
    \A t \in Threads : t \notin tls => stack[t] = <<>> /\ attached[t] = Detached

(* No assert fails and no null controller is followed: every index a mod   *)
(* was given has its interpreter, questions are answered (with             *)
(* REPY_INTERPRETER_STACK_EMPTY on an empty stack), and the end of the     *)
(* process finds no guard object to delete.                                *)
AlwaysAnswers == ~crashed
=============================================================================
