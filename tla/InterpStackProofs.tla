------------------------- MODULE InterpStackProofs -------------------------
(***************************************************************************)
(* Proofs about InterpStack, for any number of threads, interpreters and   *)
(* nested pushes.  What the inductive invariant adds to the properties:    *)
(* the stack of a controller is exactly the pushes its thread has not      *)
(* undone, the guard object of the active interpreter was made when the    *)
(* thread held no PyThreadState, so that deleting it leaves none, and      *)
(* there is an interpreter for every index a mod was given.                *)
(***************************************************************************)
EXTENDS InterpStack, SequenceTheorems, TLAPS

StackIsScopes == stack = scopes

GuardsRestoreNothing ==
    \A t \in Threads : \A i \in Interps : Current(t) = i => saved[t][i] = Detached

ServedIsExact == phase = "running" => served = registered + 1

IInv ==
    /\ TypeOK
    /\ ServedIsExact
    /\ StackIsScopes
    /\ ScopeHasItsInterpreter
    /\ OnlyTopIsActive
    /\ StackedHaveControllers
    /\ IdleControllersAreClean
    /\ GuardsRestoreNothing
    /\ ErrorsStayApart
-----------------------------------------------------------------------------
(* The top of a stack, and what push and pop do to it.                     *)

LEMMA TopType == \A s \in Seq(Interps) :
    /\ Top(s) \in State
    /\ s = <<>> <=> Top(s) = Detached
<1> SUFFICES ASSUME NEW s \in Seq(Interps)
             PROVE  Top(s) \in State /\ (s = <<>> <=> Top(s) = Detached)
  OBVIOUS
<1>1. CASE s = <<>>
  BY <1>1 DEF Top, State
<1>2. CASE s # <<>>
  <2>1. Len(s) \in 1 .. Len(s)
    BY <1>2, EmptySeq, LenProperties
  <2>2. s[Len(s)] \in Interps
    BY <2>1, ElementOfSeq
  <2> QED  BY <1>2, <2>2, InterpStackAssumption DEF Top, State, Interps
<1> QED  BY <1>1, <1>2

LEMMA PushedTop ==
    ASSUME NEW s \in Seq(Interps), NEW i \in Interps
    PROVE  /\ Append(s, i) \in Seq(Interps) /\ Append(s, i) # <<>>
           /\ Top(Append(s, i)) = i
           /\ \A k \in DOMAIN Append(s, i) :
                Append(s, i)[k] = i \/ (k \in DOMAIN s /\ Append(s, i)[k] = s[k])
  BY AppendProperties, LenProperties DEF Top

LEMMA PoppedStack ==
    ASSUME NEW s \in Seq(Interps), s # <<>>
    PROVE  /\ Pop(s) \in Seq(Interps)
           /\ \A k \in DOMAIN Pop(s) : k \in DOMAIN s /\ Pop(s)[k] = s[k]
  BY EmptySeq, LenProperties DEF Pop

(* The top of a popped stack is on the stack.                              *)
LEMMA PoppedTop ==
    ASSUME NEW s \in Seq(Interps), s # <<>>, Top(Pop(s)) # Detached
    PROVE  \E k \in DOMAIN s : Top(Pop(s)) = s[k]
<1>1. Pop(s) \in Seq(Interps) /\ Pop(s) # <<>>
  BY PoppedStack DEF Top
<1>2. Len(Pop(s)) \in DOMAIN Pop(s)
  BY <1>1, EmptySeq, LenProperties
<1> QED  BY <1>1, <1>2, PoppedStack DEF Top
-----------------------------------------------------------------------------
(* With the right interpreter active before, deactivating it and           *)
(* activating another leaves the right one active.                         *)
LEMMA SwitchIsExact ==
    ASSUME IInv, NEW t \in Threads, NEW to \in State,
           SwitchIfTopChanges(t, Current(t), to)
    PROVE  /\ attached' = [attached EXCEPT ![t] = to]
           /\ active' = [active EXCEPT ![t] = {to} \ {Detached}]
           /\ saved' \in [Threads -> [Interps -> State]]
           /\ \A u \in Threads \ {t} : saved'[u] = saved[u]
           /\ to # Detached => saved'[t][to] = Detached
<1> DEFINE from == Current(t)
<1>1. /\ attached \in [Threads -> State] /\ active \in [Threads -> SUBSET Interps]
      /\ saved \in [Threads -> [Interps -> State]]
      /\ stack[t] \in Seq(Interps)
  BY DEF IInv, TypeOK
<1>2. attached[t] = from /\ active[t] = {from} \ {Detached}
  BY DEF IInv, StackIsScopes, ScopeHasItsInterpreter, OnlyTopIsActive, Current
<1>3. from \in State /\ (from # Detached => saved[t][from] = Detached)
  BY <1>1, TopType DEF IInv, GuardsRestoreNothing, Current, State
<1>4. CASE from = to
  <2>1. UNCHANGED <<active, attached, saved>>
    BY <1>4 DEF SwitchIfTopChanges, python
  <2> QED  BY <1>1, <1>2, <1>3, <1>4, <2>1
<1>5. CASE from # to
  <2> DEFINE restored == IF from = Detached THEN attached[t] ELSE saved[t][from]
  <2>1. restored = Detached
    BY <1>2, <1>3
  <2>2. /\ active' = [active EXCEPT ![t] = (@ \ {from}) \cup ({to} \ {Detached})]
        /\ attached' = [attached EXCEPT ![t] = IF to = Detached THEN restored ELSE to]
        /\ saved' = IF to = Detached THEN saved ELSE [saved EXCEPT ![t][to] = restored]
    BY <1>5 DEF SwitchIfTopChanges, Switch
  <2>3. active' = [active EXCEPT ![t] = {to} \ {Detached}]
    <3>1. (active[t] \ {from}) \cup ({to} \ {Detached}) = {to} \ {Detached}
      BY <1>2
    <3> QED  BY <1>1, <2>2, <3>1
  <2>4. attached' = [attached EXCEPT ![t] = to]
    BY <2>1, <2>2
  <2>5. CASE to = Detached
    BY <1>1, <2>2, <2>3, <2>4, <2>5
  <2>6. CASE to # Detached
    <3>1. saved' = [saved EXCEPT ![t] = [saved[t] EXCEPT ![to] = Detached]] /\ to \in Interps
      BY <2>1, <2>2, <2>6 DEF State
    <3> QED  BY <1>1, <2>3, <2>4, <3>1 DEF State
  <2> QED  BY <2>5, <2>6
<1> QED  BY <1>4, <1>5
-----------------------------------------------------------------------------
LEMMA IInvInit == Init => IInv
<1> SUFFICES ASSUME Init PROVE IInv
  OBVIOUS
<1>1. TypeOK
  <2>1. stack \in [Threads -> Seq(Interps)] /\ scopes \in [Threads -> Seq(Interps)]
    BY EmptySeq DEF Init
  <2>2. saved \in [Threads -> [Interps -> State]] /\ attached \in [Threads -> State]
    BY DEF Init, State
  <2>3. error \in [Threads -> [Interps -> State]]
    BY DEF Init, NoErrors, State
  <2>4. registered \in Interps /\ served \in 0 .. NumInterps
    BY InterpStackAssumption DEF Init, Interps
  <2> QED  BY <2>1, <2>2, <2>3, <2>4 DEF Init, TypeOK
<1>2. \A t \in Threads : Current(t) = Detached
  BY DEF Init, Current, Top
<1>3. GuardsRestoreNothing
  BY DEF Init, GuardsRestoreNothing
<1>4. ScopeHasItsInterpreter /\ OnlyTopIsActive
  BY <1>2 DEF Init, ScopeHasItsInterpreter, OnlyTopIsActive, Top
<1>5. StackedHaveControllers /\ IdleControllersAreClean /\ StackIsScopes
  BY DEF Init, StackedHaveControllers, IdleControllersAreClean, StackIsScopes
<1>6. ServedIsExact /\ ErrorsStayApart
  BY DEF Init, ServedIsExact, ErrorsStayApart, NoErrors
<1> QED  BY <1>1, <1>3, <1>4, <1>5, <1>6 DEF IInv

LEMMA IInvPush ==
    ASSUME IInv, NEW t \in Threads, NEW i \in Interps, PushInterpreter(t, i)
    PROVE  IInv'
<1>1. /\ controllers' = controllers \cup {t} /\ tls' = tls \cup {t}
      /\ stack' = [stack EXCEPT ![t] = Append(@, i)]
      /\ tics' = [tics EXCEPT ![t] = @ \cup {i}]
      /\ scopes' = [scopes EXCEPT ![t] = Append(@, i)]
      /\ crashed' \in BOOLEAN
      /\ UNCHANGED <<phase, registered, served, error>>
  BY DEF PushInterpreter, FindController, Lookup, life
<1>2. i \in State /\ i # Detached
  BY InterpStackAssumption DEF State, Interps
<1>3. /\ attached' = [attached EXCEPT ![t] = i]
      /\ active' = [active EXCEPT ![t] = {i} \ {Detached}]
      /\ saved' \in [Threads -> [Interps -> State]]
      /\ \A u \in Threads \ {t} : saved'[u] = saved[u]
      /\ saved'[t][i] = Detached
  BY <1>2, SwitchIsExact DEF PushInterpreter
<1>4. /\ stack \in [Threads -> Seq(Interps)] /\ scopes = stack
      /\ attached \in [Threads -> State] /\ active \in [Threads -> SUBSET Interps]
      /\ tics \in [Threads -> SUBSET Interps]
      /\ controllers \subseteq Threads /\ tls \subseteq Threads
      /\ phase # "ended" => tls \subseteq controllers
  BY DEF IInv, TypeOK, StackIsScopes
<1>5. /\ Append(stack[t], i) \in Seq(Interps) /\ Append(stack[t], i) # <<>>
      /\ Top(Append(stack[t], i)) = i
  BY <1>4, PushedTop
<1>6. \A u \in Threads : Top(stack'[u]) = IF u = t THEN i ELSE Top(stack[u])
  BY <1>1, <1>4, <1>5
<1>7. TypeOK'
  BY <1>1, <1>2, <1>3, <1>4, <1>5 DEF IInv, TypeOK
<1>8. StackIsScopes'
  BY <1>1, <1>4 DEF StackIsScopes
<1>9. ScopeHasItsInterpreter'
  BY <1>1, <1>3, <1>4, <1>6 DEF IInv, ScopeHasItsInterpreter
<1>10. OnlyTopIsActive'
  BY <1>3, <1>4, <1>6 DEF IInv, OnlyTopIsActive, Current
<1>11. StackedHaveControllers'
  <2> SUFFICES ASSUME NEW u \in Threads, NEW k \in DOMAIN stack'[u]
               PROVE  stack'[u][k] \in tics'[u]
    BY DEF StackedHaveControllers
  <2>1. CASE u = t
    <3>1. stack'[t] = Append(stack[t], i) /\ tics'[t] = tics[t] \cup {i}
      BY <1>1, <1>4
    <3> QED  BY <1>4, <2>1, <3>1, PushedTop DEF IInv, StackedHaveControllers
  <2>2. CASE u # t
    BY <1>1, <1>4, <2>2 DEF IInv, StackedHaveControllers
  <2> QED  BY <2>1, <2>2
<1>12. IdleControllersAreClean'
  BY <1>1, <1>3, <1>4 DEF IInv, IdleControllersAreClean
<1>13. GuardsRestoreNothing'
  BY <1>3, <1>6 DEF IInv, GuardsRestoreNothing, Current
<1>14. ServedIsExact' /\ ErrorsStayApart'
  BY <1>1 DEF IInv, ServedIsExact, ErrorsStayApart
<1> QED  BY <1>7, <1>8, <1>9, <1>10, <1>11, <1>12, <1>13, <1>14 DEF IInv

LEMMA IInvPop ==
    ASSUME IInv, NEW t \in Threads, PopInterpreter(t)
    PROVE  IInv'
<1> DEFINE rest == Pop(stack[t])
<1>1. /\ scopes[t] # <<>>
      /\ stack' = [stack EXCEPT ![t] = Pop(@)]
      /\ scopes' = [scopes EXCEPT ![t] = Pop(@)]
      /\ UNCHANGED <<phase, registered, served, controllers, tls, tics, error, crashed>>
  BY DEF PopInterpreter, life
<1>2. /\ stack \in [Threads -> Seq(Interps)] /\ scopes = stack
      /\ attached \in [Threads -> State] /\ active \in [Threads -> SUBSET Interps]
      /\ tics \in [Threads -> SUBSET Interps]
  BY DEF IInv, TypeOK, StackIsScopes
<1>3. stack[t] \in Seq(Interps) /\ stack[t] # <<>>
  BY <1>1, <1>2
<1>4. rest \in Seq(Interps) /\ Top(rest) \in State
  BY <1>3, PoppedStack, TopType
<1>5. SwitchIfTopChanges(t, Current(t), Top(rest))
  BY DEF PopInterpreter
<1>6. PICK to \in State : to = Top(rest)
  BY <1>4
<1>7. SwitchIfTopChanges(t, Current(t), to)
  BY <1>5, <1>6
<1>8. /\ attached' = [attached EXCEPT ![t] = to]
      /\ active' = [active EXCEPT ![t] = {to} \ {Detached}]
      /\ saved' \in [Threads -> [Interps -> State]]
      /\ \A u \in Threads \ {t} : saved'[u] = saved[u]
      /\ to # Detached => saved'[t][to] = Detached
  BY <1>7, SwitchIsExact
<1>9. \A u \in Threads : Top(stack'[u]) = IF u = t THEN to ELSE Top(stack[u])
  BY <1>1, <1>2, <1>6
<1>10. TypeOK'
  BY <1>1, <1>2, <1>4, <1>8 DEF IInv, TypeOK, State
<1>11. StackIsScopes'
  BY <1>1, <1>2 DEF StackIsScopes
<1>12. ScopeHasItsInterpreter'
  BY <1>1, <1>2, <1>8, <1>9 DEF IInv, ScopeHasItsInterpreter
<1>13. OnlyTopIsActive'
  BY <1>2, <1>8, <1>9 DEF IInv, OnlyTopIsActive, Current
<1>14. StackedHaveControllers'
  <2> SUFFICES ASSUME NEW u \in Threads, NEW k \in DOMAIN stack'[u]
               PROVE  stack'[u][k] \in tics'[u]
    BY DEF StackedHaveControllers
  <2>1. CASE u = t
    BY <1>1, <1>2, <1>3, <2>1, PoppedStack DEF IInv, StackedHaveControllers
  <2>2. CASE u # t
    BY <1>1, <1>2, <2>2 DEF IInv, StackedHaveControllers
  <2> QED  BY <2>1, <2>2
<1>15. IdleControllersAreClean'
  <2>1. t \in tls
    BY <1>3 DEF IInv, IdleControllersAreClean
  <2> QED  BY <1>1, <1>2, <1>8, <2>1 DEF IInv, IdleControllersAreClean
<1>16. GuardsRestoreNothing'
  <2> SUFFICES ASSUME NEW u \in Threads, NEW i \in Interps, Top(stack'[u]) = i
               PROVE  saved'[u][i] = Detached
    BY DEF GuardsRestoreNothing, Current
  <2>1. i # Detached
    BY InterpStackAssumption DEF Interps
  <2>2. CASE u = t
    BY <1>8, <1>9, <2>1, <2>2
  <2>3. CASE u # t
    BY <1>8, <1>9, <2>3 DEF IInv, GuardsRestoreNothing, Current
  <2> QED  BY <2>2, <2>3
<1>17. ServedIsExact' /\ ErrorsStayApart'
  BY <1>1 DEF IInv, ServedIsExact, ErrorsStayApart
<1> QED  BY <1>10, <1>11, <1>12, <1>13, <1>14, <1>15, <1>16, <1>17 DEF IInv

(* The steps that touch neither a stack nor a PyThreadState.               *)
LEMMA IInvElsewhere ==
    ASSUME IInv, UNCHANGED <<stack, active, python, scopes>>,
           phase' \in {"preinit", "running", "ended"},
           registered' \in Interps, served' \in 0 .. NumInterps, ServedIsExact',
           controllers' \subseteq Threads, tls' \subseteq Threads,
           phase' # "ended" => tls' \subseteq controllers',
           tics' \in [Threads -> SUBSET Interps],
           \A t \in Threads : tics[t] \subseteq tics'[t],
           error' \in [Threads -> [Interps -> State]], ErrorsStayApart',
           crashed' \in BOOLEAN,
           \A t \in Threads : t \notin tls' => t \notin tls \/ scopes[t] = <<>>
    PROVE  IInv'
<1>1. UNCHANGED <<stack, active, attached, saved, scopes>>
  BY DEF python
<1>2. \A t \in Threads : Current(t)' = Current(t)
  BY <1>1 DEF Current
<1>3. TypeOK'
  BY <1>1 DEF IInv, TypeOK
<1>4. StackIsScopes' /\ ScopeHasItsInterpreter'
  BY <1>1 DEF IInv, StackIsScopes, ScopeHasItsInterpreter
<1>5. OnlyTopIsActive' /\ GuardsRestoreNothing'
  BY <1>1, <1>2 DEF IInv, OnlyTopIsActive, GuardsRestoreNothing
<1>6. StackedHaveControllers'
  BY <1>1 DEF IInv, StackedHaveControllers
<1>7. IdleControllersAreClean'
  <2> SUFFICES ASSUME NEW t \in Threads, t \notin tls'
               PROVE  stack[t] = <<>> /\ attached[t] = Detached
    BY <1>1 DEF IdleControllersAreClean
  <2>1. CASE t \notin tls
    BY <2>1 DEF IInv, IdleControllersAreClean
  <2>2. CASE scopes[t] = <<>>
    BY <2>2 DEF IInv, StackIsScopes, ScopeHasItsInterpreter, Top
  <2> QED  BY <2>1, <2>2
<1> QED  BY <1>3, <1>4, <1>5, <1>6, <1>7 DEF IInv
-----------------------------------------------------------------------------
(* An error goes to the interpreter the thread runs.                       *)
LEMMA ErrorStays ==
    ASSUME IInv, NEW t \in Threads, scopes[t] # <<>>, NEW e \in {attached[t], Detached},
           error' = [error EXCEPT ![t][ErrorInterp(t)] = e]
    PROVE  error' \in [Threads -> [Interps -> State]] /\ ErrorsStayApart'
<1>1. /\ stack[t] \in Seq(Interps) /\ stack[t] # <<>> /\ stack[t] = scopes[t]
      /\ error \in [Threads -> [Interps -> State]]
  BY DEF IInv, TypeOK, StackIsScopes
<1>2. ErrorInterp(t) = attached[t] /\ ErrorInterp(t) \in Interps
  BY <1>1, TopType DEF ErrorInterp, Current, IInv, ScopeHasItsInterpreter, State
<1>3. e \in State /\ e \in {Detached, ErrorInterp(t)}
  BY <1>2 DEF State
<1>4. error' = [error EXCEPT ![t] = [error[t] EXCEPT ![ErrorInterp(t)] = e]]
  OBVIOUS
<1>5. \A u \in Threads : \A i \in Interps :
        error'[u][i] = IF u = t /\ i = ErrorInterp(t) THEN e ELSE error[u][i]
  BY <1>1, <1>2, <1>4
<1> QED  BY <1>1, <1>2, <1>3, <1>4, <1>5 DEF IInv, ErrorsStayApart

(* The end of the process finds every stack empty and nothing active.      *)
LEMMA IInvShutdown ==
    ASSUME IInv, Shutdown
    PROVE  IInv' /\ ~crashed'
<1>1. /\ \A t \in Threads : scopes[t] = <<>> /\ stack[t] = <<>>
      /\ stack' = [t \in Threads |-> <<>>] /\ scopes' = stack'
  <2>1. /\ scopes = stack /\ scopes' = scopes /\ stack \in [Threads -> Seq(Interps)]
        /\ \A t \in Threads : scopes[t] = <<>>
        /\ stack' = [t \in Threads |-> <<>>]
    BY DEF Shutdown, IInv, StackIsScopes, TypeOK
  <2>2. stack = [t \in Threads |-> stack[t]]
    BY <2>1
  <2> QED  BY <2>1, <2>2
<1>2. \A t \in Threads : attached[t] = Detached /\ active[t] = {}
  BY <1>1 DEF IInv, ScopeHasItsInterpreter, OnlyTopIsActive, Current, Top
<1>3. ~crashed'
  BY <1>2 DEF Shutdown
<1>4. TypeOK'
  <2>1. stack' \in [Threads -> Seq(Interps)] /\ scopes' \in [Threads -> Seq(Interps)]
    BY <1>1, EmptySeq
  <2>2. error' \in [Threads -> [Interps -> State]]
    BY DEF Shutdown, NoErrors, State
  <2> QED  BY <1>3, <2>1, <2>2 DEF IInv, TypeOK, Shutdown, python
<1>5. \A t \in Threads : Current(t)' = Detached /\ Top(scopes'[t]) = Detached
  BY <1>1 DEF Current, Top
<1>6. StackIsScopes' /\ ScopeHasItsInterpreter' /\ OnlyTopIsActive'
  BY <1>1, <1>2, <1>5 DEF Shutdown, python, StackIsScopes, ScopeHasItsInterpreter, OnlyTopIsActive
<1>7. StackedHaveControllers' /\ IdleControllersAreClean'
  BY <1>1, <1>2 DEF Shutdown, python, StackedHaveControllers, IdleControllersAreClean
<1>8. GuardsRestoreNothing'
  BY <1>5, InterpStackAssumption DEF GuardsRestoreNothing, Interps
<1>9. ErrorsStayApart' /\ ServedIsExact'
  BY DEF Shutdown, NoErrors, ErrorsStayApart, ServedIsExact
<1> QED  BY <1>3, <1>4, <1>6, <1>7, <1>8, <1>9 DEF IInv
-----------------------------------------------------------------------------
(* The inductive invariant holds in every state.                           *)
THEOREM Invariance == Spec => []IInv
<1>1. Init => IInv
  BY IInvInit
<1>2. IInv /\ [Next]_vars => IInv'
  <2> SUFFICES ASSUME IInv, [Next]_vars PROVE IInv'
    OBVIOUS
  <2>0. /\ TypeOK /\ ServedIsExact /\ ErrorsStayApart
        /\ registered \in Nat /\ NumInterps \in Nat \ {0}
    BY InterpStackAssumption DEF IInv, TypeOK, Interps
  <2>a. CASE RegisterSubinterpreter
    <3> USE <2>a DEF RegisterSubinterpreter, python, controlled
    <3>1. ServedIsExact' /\ ErrorsStayApart'
      BY <2>0 DEF ServedIsExact, ErrorsStayApart
    <3> QED  BY <2>0, <3>1, IInvElsewhere DEF TypeOK
  <2>b. CASE Start
    <3> USE <2>b DEF Start, python, controlled
    <3>1. ServedIsExact' /\ ErrorsStayApart'
      BY <2>0 DEF ServedIsExact, ErrorsStayApart
    <3>2. served' \in 0 .. NumInterps
      BY <2>0 DEF TypeOK, Interps
    <3> QED  BY <2>0, <3>1, <3>2, IInvElsewhere DEF TypeOK
  <2>c. CASE Shutdown
    BY <2>c, IInvShutdown
  <2>1. ASSUME NEW t \in Threads, NEW i \in Interps, PushInterpreter(t, i) PROVE IInv'
    BY <2>1, IInvPush
  <2>2. ASSUME NEW t \in Threads, PopInterpreter(t) PROVE IInv'
    BY <2>2, IInvPop
  <2>3. ASSUME UNCHANGED <<life, error>> PROVE ServedIsExact' /\ ErrorsStayApart'
    BY <2>0, <2>3 DEF life, ServedIsExact, ErrorsStayApart
  <2>4. ASSUME NEW t \in Threads, UseHandle(t) PROVE IInv'
    <3>1. UNCHANGED <<life, error>>
      BY <2>4 DEF UseHandle
    <3> QED  BY <2>0, <2>3, <2>4, <3>1, IInvElsewhere
             DEF UseHandle, FindController, TypeOK, controlled, life
  <2>5. ASSUME NEW t \in Threads, NEW i \in Interps, AutoDisarm(t, i) PROVE IInv'
    <3>1. UNCHANGED <<life, error>>
      BY <2>5 DEF AutoDisarm
    <3> QED  BY <2>0, <2>3, <2>5, <3>1, IInvElsewhere
             DEF AutoDisarm, FindController, Lookup, TypeOK, life
  <2>6. ASSUME NEW t \in Threads, GetCurrentInterpreter(t) \/ GetError(t) PROVE IInv'
    <3>1. UNCHANGED <<life, error>>
      BY <2>6 DEF GetCurrentInterpreter, GetError
    <3> QED  BY <2>0, <2>3, <2>6, <3>1, IInvElsewhere
             DEF GetCurrentInterpreter, GetError, NoCurrent, TypeOK, controlled, life
  <2>7. ASSUME NEW t \in Threads, HandleException(t) \/ ClearError(t) PROVE IInv'
    <3>1. error' \in [Threads -> [Interps -> State]] /\ ErrorsStayApart'
      BY <2>7, ErrorStays DEF HandleException, ClearError
    <3>2. ServedIsExact'
      BY <2>0, <2>7 DEF ServedIsExact, HandleException, ClearError, life
    <3> QED  BY <2>0, <2>7, <3>1, <3>2, IInvElsewhere
             DEF HandleException, ClearError, NoCurrent, TypeOK, controlled, life
  <2>8. ASSUME NEW t \in Threads, EndThread(t) PROVE IInv'
    <3>1. UNCHANGED <<life, error>>
      BY <2>8 DEF EndThread
    <3> QED  BY <2>0, <2>3, <2>8, <3>1, IInvElsewhere DEF EndThread, TypeOK, controlled, life
  <2>9. CASE UNCHANGED vars
    <3>1. UNCHANGED <<life, error>>
      BY <2>9 DEF vars
    <3> QED  BY <2>0, <2>3, <2>9, <3>1, IInvElsewhere DEF vars, TypeOK, controlled, life
  <2> QED  BY <2>a, <2>b, <2>c, <2>1, <2>2, <2>4, <2>5, <2>6, <2>7, <2>8, <2>9 DEF Next
<1> QED  BY <1>1, <1>2, PTL DEF Spec

(* The state of every controller keeps its type.                           *)
THEOREM TypeCorrect == Spec => []TypeOK
<1>1. IInv => TypeOK
  BY DEF IInv
<1> QED  BY <1>1, Invariance, PTL

(* A mod function runs with the interpreter it pushed, however its calls   *)
(* nest, and nothing is attached outside.                                  *)
THEOREM NestingIsExact == Spec => []ScopeHasItsInterpreter
<1>1. IInv => ScopeHasItsInterpreter
  BY DEF IInv
<1> QED  BY <1>1, Invariance, PTL

(* At most one interpreter of a thread is active, the one on top.          *)
THEOREM ActivationIsExact == Spec => []OnlyTopIsActive
<1>1. IInv => OnlyTopIsActive
  BY DEF IInv
<1> QED  BY <1>1, Invariance, PTL

(* pop_interp_index() never meets a missing ThreadInterpreterController.   *)
THEOREM PopFindsItsController == Spec => []StackedHaveControllers
<1>1. IInv => StackedHaveControllers
  BY DEF IInv
<1> QED  BY <1>1, Invariance, PTL

(* A thread that is given the id of one that ended finds a clean stack.    *)
THEOREM ReusedIdsAreClean == Spec => []IdleControllersAreClean
<1>1. IInv => IdleControllersAreClean
  BY DEF IInv
<1> QED  BY <1>1, Invariance, PTL

(* What is kept as the error of an interpreter was raised in it.           *)
THEOREM ErrorsAreSpecific == Spec => []ErrorsStayApart
<1>1. IInv => ErrorsStayApart
  BY DEF IInv
<1> QED  BY <1>1, Invariance, PTL

(* As long as mods ask for the current interpreter only between a push and *)
(* its pop, no assert fails and no null controller is followed.            *)
THEOREM NothingCrashes == ~AskAnywhere => (Spec => []AlwaysAnswers)
<1> SUFFICES ASSUME ~AskAnywhere PROVE Spec => []AlwaysAnswers
  OBVIOUS
<1>1. Init => AlwaysAnswers
  BY DEF Init, AlwaysAnswers
<1>2. IInv /\ AlwaysAnswers /\ [Next]_vars => AlwaysAnswers'
  <2> SUFFICES ASSUME IInv, ~crashed, [Next]_vars PROVE ~crashed'
    BY DEF AlwaysAnswers
  <2>1. ASSUME NEW t \in Threads, scopes[t] # <<>> PROVE t \in tls /\ ~NoCurrent(t)
    BY <2>1 DEF IInv, StackIsScopes, IdleControllersAreClean, NoCurrent
  <2>2. ASSUME NEW i \in Interps, i <= registered, phase = "running" PROVE Serves(i)
    BY <2>2 DEF IInv, TypeOK, ServedIsExact, Serves, Interps
  <2>3. CASE Shutdown
    BY <2>3, IInvShutdown
  <2>4. ASSUME NEW t \in Threads, NEW i \in Interps, PushInterpreter(t, i) \/ AutoDisarm(t, i)
        PROVE  ~crashed'
    BY <2>2, <2>4 DEF PushInterpreter, AutoDisarm
  <2>5. ASSUME NEW t \in Threads,
               GetCurrentInterpreter(t) \/ GetError(t) \/ HandleException(t) \/ ClearError(t)
        PROVE  ~crashed'
    BY <2>1, <2>5 DEF GetCurrentInterpreter, GetError, HandleException, ClearError
  <2>6. CASE UNCHANGED vars
    BY <2>6 DEF vars
  <2> QED
    BY <2>3, <2>4, <2>5, <2>6 DEF Next, RegisterSubinterpreter, Start, PopInterpreter, UseHandle, EndThread
<1> QED  BY <1>1, <1>2, Invariance, PTL DEF Spec
=============================================================================
