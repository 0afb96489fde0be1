--------------------------- MODULE LockOrderProofs ---------------------------
(***************************************************************************)
(* Proofs about LockOrder, for any number of threads and interpreters and  *)
(* any depth of nesting.                                                   *)
(*                                                                         *)
(* Threads wait for one another along a fixed order: for a stop of an      *)
(* interpreter to end, for a thread to detach from it, for _handles_mutex  *)
(* and _thread_root_mutex, and for _global_interps_mutex.  It breaks where *)
(* a thread runs Python code under _handles_mutex, unless no other thread  *)
(* uses that interpreter: only then is it never parked with the mutex.     *)
(***************************************************************************)
EXTENDS LockOrder, SequenceTheorems, TLAPS

(* Only one thread uses an interpreter whose objects have finalizers.      *)
FinalizersArePrivate ==
    \A t, u \in Threads : \A i \in Finalizing : i \in Uses[t] /\ i \in Uses[u] => t = u

(* A thread pushes interpreters of its own only.                           *)
UsesItsOwn == \A t \in Threads : stack[t] \in Seq(Uses[t]) /\ attached[t] \in Uses[t] \cup {None}

(* While a controller is looked up, nothing else has happened, or a push   *)
(* is on its way to activate().                                            *)
LookupsAreClean ==
    \A t \in Threads :
        pc[t] \in {"find", "create", "created", "lookup", "looking"} =>
            attached[t] = Pushed(t) \/ (attached[t] = None /\ wanted[t] # None /\ stack[t] # <<>>)

(* A thread that waits to be attached, is not.                             *)
DetachedWait ==
    \A t \in Threads : pc[t] \in {"attach", "parked"} => attached[t] = None /\ stack[t] # <<>>

PythonIsAttached == \A t \in Threads : pc[t] = "python" => attached[t] # None

(* Who stops an interpreter runs Python code in it.                        *)
StoppersRun ==
    \A t \in Threads : \A i \in Interps : stopper[i] = t => pc[t] = "python" /\ attached[t] = i

(* Where a thread is that holds a mutex.                                   *)
HoldersWork ==
    \A t \in Threads :
        /\ holder["thread_root"] = t => pc[t] \in {"create", "created"}
        /\ holder["global_interps"] = t => pc[t] \in {"created", "looking"}
        /\ holder["handles"] = t => \/ pc[t] = "entry"
                                    \/ (pc[t] = "python" /\ attached[t] \in Finalizing)
                                    \/ (pc[t] = "parked" /\ Top(t) \in Finalizing /\ ~FinalizersArePrivate)

IInv ==
    /\ TypeOK
    /\ RunsAttached
    /\ UsesItsOwn
    /\ LookupsAreClean
    /\ DetachedWait
    /\ PythonIsAttached
    /\ StoppersRun
    /\ HoldersWork
-----------------------------------------------------------------------------
(* No cycle.                                                               *)
LEMMA NoCycle ==
    ASSUME IInv, FinalizersArePrivate
    PROVE  NoWaitCycle
<1> SUFFICES ASSUME NEW S \in SUBSET Threads, \A t \in S : WaitsFor(t) \cap S # {}
             PROVE  S = {}
  BY DEF NoWaitCycle
<1>1. \A t \in S : pc[t] \notin {"mod", "created", "looking", "entry"}
  BY DEF WaitsFor
<1>2. \A t \in S : pc[t] \notin {"create", "lookup"}
  <2> SUFFICES ASSUME NEW t \in S, pc[t] \in {"create", "lookup"}
               PROVE  FALSE
    OBVIOUS
  <2>1. PICK u \in S : u = holder["global_interps"]
    BY DEF WaitsFor
  <2> QED  BY <1>1, <2>1 DEF IInv, HoldersWork
<1>3. \A t \in S : pc[t] # "find"
  BY <1>1, <1>2 DEF WaitsFor, IInv, HoldersWork
<1>4. \A t \in S : pc[t] # "handle"
  <2> SUFFICES ASSUME NEW t \in S, pc[t] = "handle"
               PROVE  FALSE
    OBVIOUS
  <2>1. PICK u \in S : u = holder["handles"]
    BY DEF WaitsFor
  <2>2. pc[u] = "python" /\ attached[u] \in Finalizing
    BY <1>1, <2>1 DEF IInv, HoldersWork
  <2>3. Others(u) = {}
    BY <2>2, LockOrderAssumption DEF Others, IInv, UsesItsOwn, FinalizersArePrivate
  <2> QED  BY <2>2, <2>3 DEF WaitsFor
<1>5. \A t \in S : pc[t] \in {"attach", "parked", "python"}
  BY <1>1, <1>2, <1>3, <1>4 DEF IInv, TypeOK, Places
<1>6. \A t \in S : pc[t] # "python"
  <2> SUFFICES ASSUME NEW t \in S, pc[t] = "python"
               PROVE  FALSE
    OBVIOUS
  <2>1. stopper[attached[t]] = t /\ Others(t) \cap S # {}
    BY DEF WaitsFor
  <2>2. PICK u \in S : u # t /\ attached[u] = attached[t]
    BY <2>1 DEF Others
  <2>3. pc[u] = "python"
    BY <1>5, <2>2 DEF IInv, DetachedWait, PythonIsAttached
  <2>4. stopper[attached[u]] = u
    BY <2>3 DEF WaitsFor
  <2> QED  BY <2>1, <2>2, <2>4
<1>7. \A t \in S : pc[t] \notin {"attach", "parked"}
  <2> SUFFICES ASSUME NEW t \in S, pc[t] \in {"attach", "parked"}
               PROVE  FALSE
    OBVIOUS
  <2>1. stack[t] \in Seq(Interps) /\ stack[t] # <<>>
    BY DEF IInv, TypeOK, DetachedWait
  <2>2. Top(t) \in Interps
    BY <2>1 DEF Top
  <2>3. PICK u \in S : u = stopper[Top(t)]
    BY DEF WaitsFor
  <2> QED  BY <1>6, <2>2, <2>3 DEF IInv, StoppersRun
<1> QED  BY <1>5, <1>6, <1>7
-----------------------------------------------------------------------------
(* Steps.                                                                  *)

LEMMA TopOfStack ==
    ASSUME IInv, NEW t \in Threads, stack[t] # <<>>
    PROVE  /\ Len(stack[t]) \in Nat \ {0} /\ Uses[t] \subseteq Interps
           /\ Top(t) \in Uses[t] /\ Top(t) \in Interps /\ Top(t) # None
<1>1. stack[t] \in Seq(Uses[t]) /\ Uses[t] \subseteq Interps
  BY LockOrderAssumption DEF IInv, UsesItsOwn
<1>2. Len(stack[t]) \in Nat \ {0}
  BY <1>1
<1>3. Top(t) \in Uses[t]
  BY <1>1, <1>2, ElementOfSeq DEF Top
<1> QED  BY <1>1, <1>2, <1>3, LockOrderAssumption

LEMMA FindKeeps ==
    ASSUME IInv, NEW t \in Threads, Find(t)
    PROVE  IInv'
<1> USE LockOrderAssumption DEF IInv
<1>1. TypeOK'
  BY DEF Find, Goes, Locks, TypeOK, Mutexes, Places
<1>2. RunsAttached'
  BY DEF Find, Goes, Locks, TypeOK, Mutexes, RunsAttached, Pushed, Top
<1>3. UsesItsOwn'
  BY DEF Find, Goes, Locks, TypeOK, Mutexes, UsesItsOwn
<1>4. LookupsAreClean'
  BY DEF Find, Goes, Locks, TypeOK, Mutexes, LookupsAreClean, Pushed, Top
<1>5. DetachedWait'
  BY DEF Find, Goes, Locks, TypeOK, Mutexes, DetachedWait
<1>6. PythonIsAttached'
  BY DEF Find, Goes, Locks, TypeOK, Mutexes, PythonIsAttached
<1>7. StoppersRun'
  BY DEF Find, Goes, Locks, TypeOK, Mutexes, StoppersRun
<1>8. HoldersWork'
  BY DEF Find, Goes, Locks, TypeOK, Mutexes, HoldersWork, Top
<1> QED  BY <1>1, <1>2, <1>3, <1>4, <1>5, <1>6, <1>7, <1>8

LEMMA CreateKeeps ==
    ASSUME IInv, NEW t \in Threads, Create(t)
    PROVE  IInv'
<1> USE LockOrderAssumption DEF IInv
<1>1. TypeOK'
  BY DEF Create, Goes, Locks, TypeOK, Mutexes, Places
<1>2. RunsAttached'
  BY DEF Create, Goes, Locks, TypeOK, Mutexes, RunsAttached, Pushed, Top
<1>3. UsesItsOwn'
  BY DEF Create, Goes, Locks, TypeOK, Mutexes, UsesItsOwn
<1>4. LookupsAreClean'
  BY DEF Create, Goes, Locks, TypeOK, Mutexes, LookupsAreClean, Pushed, Top
<1>5. DetachedWait'
  BY DEF Create, Goes, Locks, TypeOK, Mutexes, DetachedWait
<1>6. PythonIsAttached'
  BY DEF Create, Goes, Locks, TypeOK, Mutexes, PythonIsAttached
<1>7. StoppersRun'
  BY DEF Create, Goes, Locks, TypeOK, Mutexes, StoppersRun
<1>8. HoldersWork'
  BY DEF Create, Goes, Locks, TypeOK, Mutexes, HoldersWork, Top
<1> QED  BY <1>1, <1>2, <1>3, <1>4, <1>5, <1>6, <1>7, <1>8

LEMMA FoundKeeps ==
    ASSUME IInv, NEW t \in Threads, Found(t)
    PROVE  IInv'
<1> USE LockOrderAssumption DEF IInv
<1>1. TypeOK'
  BY DEF Found, Goes, Locks, TypeOK, Mutexes, Places
<1>2. RunsAttached'
  BY DEF Found, Goes, Locks, TypeOK, Mutexes, RunsAttached, Pushed, Top, LookupsAreClean
<1>3. UsesItsOwn'
  BY DEF Found, Goes, Locks, TypeOK, Mutexes, UsesItsOwn
<1>4. LookupsAreClean'
  BY DEF Found, Goes, Locks, TypeOK, Mutexes, LookupsAreClean, Pushed, Top
<1>5. DetachedWait'
  BY DEF Found, Goes, Locks, TypeOK, Mutexes, DetachedWait
<1>6. PythonIsAttached'
  BY DEF Found, Goes, Locks, TypeOK, Mutexes, PythonIsAttached
<1>7. StoppersRun'
  BY DEF Found, Goes, Locks, TypeOK, Mutexes, StoppersRun
<1>8. HoldersWork'
  BY DEF Found, Goes, Locks, TypeOK, Mutexes, HoldersWork, Top
<1> QED  BY <1>1, <1>2, <1>3, <1>4, <1>5, <1>6, <1>7, <1>8

LEMMA LookUpKeeps ==
    ASSUME IInv, NEW t \in Threads, LookUp(t)
    PROVE  IInv'
<1> USE LockOrderAssumption DEF IInv
<1>1. TypeOK'
  BY DEF LookUp, Goes, Locks, TypeOK, Mutexes, Places
<1>2. RunsAttached'
  BY DEF LookUp, Goes, Locks, TypeOK, Mutexes, RunsAttached, Pushed, Top
<1>3. UsesItsOwn'
  BY DEF LookUp, Goes, Locks, TypeOK, Mutexes, UsesItsOwn
<1>4. LookupsAreClean'
  BY DEF LookUp, Goes, Locks, TypeOK, Mutexes, LookupsAreClean, Pushed, Top
<1>5. DetachedWait'
  BY DEF LookUp, Goes, Locks, TypeOK, Mutexes, DetachedWait
<1>6. PythonIsAttached'
  BY DEF LookUp, Goes, Locks, TypeOK, Mutexes, PythonIsAttached
<1>7. StoppersRun'
  BY DEF LookUp, Goes, Locks, TypeOK, Mutexes, StoppersRun
<1>8. HoldersWork'
  BY DEF LookUp, Goes, Locks, TypeOK, Mutexes, HoldersWork, Top
<1> QED  BY <1>1, <1>2, <1>3, <1>4, <1>5, <1>6, <1>7, <1>8

LEMMA LookedUpKeeps ==
    ASSUME IInv, NEW t \in Threads, LookedUp(t)
    PROVE  IInv'
<1> USE LockOrderAssumption DEF IInv
<1>1. TypeOK'
  BY DEF LookedUp, Goes, Locks, TypeOK, Mutexes, Places
<1>2. RunsAttached'
  BY DEF LookedUp, Goes, Locks, TypeOK, Mutexes, RunsAttached, Pushed, Top, LookupsAreClean
<1>3. UsesItsOwn'
  BY DEF LookedUp, Goes, Locks, TypeOK, Mutexes, UsesItsOwn
<1>4. LookupsAreClean'
  BY DEF LookedUp, Goes, Locks, TypeOK, Mutexes, LookupsAreClean, Pushed, Top
<1>5. DetachedWait'
  BY DEF LookedUp, Goes, Locks, TypeOK, Mutexes, DetachedWait
<1>6. PythonIsAttached'
  BY DEF LookedUp, Goes, Locks, TypeOK, Mutexes, PythonIsAttached
<1>7. StoppersRun'
  BY DEF LookedUp, Goes, Locks, TypeOK, Mutexes, StoppersRun
<1>8. HoldersWork'
  BY DEF LookedUp, Goes, Locks, TypeOK, Mutexes, HoldersWork, Top
<1> QED  BY <1>1, <1>2, <1>3, <1>4, <1>5, <1>6, <1>7, <1>8

LEMMA LockHandlesKeeps ==
    ASSUME IInv, NEW t \in Threads, LockHandles(t)
    PROVE  IInv'
<1> USE LockOrderAssumption DEF IInv
<1>1. TypeOK'
  BY DEF LockHandles, Goes, Locks, TypeOK, Mutexes, Places
<1>2. RunsAttached'
  BY DEF LockHandles, Goes, Locks, TypeOK, Mutexes, RunsAttached, Pushed, Top
<1>3. UsesItsOwn'
  BY DEF LockHandles, Goes, Locks, TypeOK, Mutexes, UsesItsOwn
<1>4. LookupsAreClean'
  BY DEF LockHandles, Goes, Locks, TypeOK, Mutexes, LookupsAreClean, Pushed, Top
<1>5. DetachedWait'
  BY DEF LockHandles, Goes, Locks, TypeOK, Mutexes, DetachedWait
<1>6. PythonIsAttached'
  BY DEF LockHandles, Goes, Locks, TypeOK, Mutexes, PythonIsAttached
<1>7. StoppersRun'
  BY DEF LockHandles, Goes, Locks, TypeOK, Mutexes, StoppersRun
<1>8. HoldersWork'
  BY DEF LockHandles, Goes, Locks, TypeOK, Mutexes, HoldersWork, Top
<1> QED  BY <1>1, <1>2, <1>3, <1>4, <1>5, <1>6, <1>7, <1>8

LEMMA UseEntryKeeps ==
    ASSUME IInv, NEW t \in Threads, UseEntry(t)
    PROVE  IInv'
<1> USE LockOrderAssumption DEF IInv
<1>1. TypeOK'
  BY DEF UseEntry, Goes, Locks, TypeOK, Mutexes, Places
<1>2. RunsAttached'
  BY DEF UseEntry, Goes, Locks, TypeOK, Mutexes, RunsAttached, Pushed, Top
<1>3. UsesItsOwn'
  BY DEF UseEntry, Goes, Locks, TypeOK, Mutexes, UsesItsOwn
<1>4. LookupsAreClean'
  BY DEF UseEntry, Goes, Locks, TypeOK, Mutexes, LookupsAreClean, Pushed, Top
<1>5. DetachedWait'
  BY DEF UseEntry, Goes, Locks, TypeOK, Mutexes, DetachedWait
<1>6. PythonIsAttached'
  BY DEF UseEntry, Goes, Locks, TypeOK, Mutexes, PythonIsAttached
<1>7. StoppersRun'
  BY DEF UseEntry, Goes, Locks, TypeOK, Mutexes, StoppersRun
<1>8. HoldersWork'
  BY DEF UseEntry, Goes, Locks, TypeOK, Mutexes, HoldersWork, Top
<1> QED  BY <1>1, <1>2, <1>3, <1>4, <1>5, <1>6, <1>7, <1>8

LEMMA ParkKeeps ==
    ASSUME IInv, NEW t \in Threads, Park(t)
    PROVE  IInv'
<1> USE LockOrderAssumption DEF IInv
<1>0. stack[t] # <<>> /\ attached[t] \in Interps /\ attached[t] \in Uses[t] /\ attached[t] = Top(t)
  BY DEF Park, Goes, RunsAttached, Pushed, PythonIsAttached, TypeOK, UsesItsOwn
<1>9. holder["handles"] = t => attached[t] \in Finalizing /\ ~FinalizersArePrivate
  <2> SUFFICES ASSUME holder["handles"] = t, ~(attached[t] \in Finalizing /\ ~FinalizersArePrivate)
               PROVE  FALSE
    OBVIOUS
  <2>1. attached[t] \in Finalizing
    BY DEF Park, Goes, HoldersWork
  <2> DEFINE u == stopper[attached[t]]
  <2>2. u \in Threads /\ u # t
    BY <1>0 DEF Park, TypeOK
  <2>3. attached[u] = attached[t] /\ attached[u] \in Uses[u]
    BY <1>0, <2>2 DEF StoppersRun, UsesItsOwn
  <2> HIDE DEF u
  <2>4. FinalizersArePrivate
    BY <2>1
  <2> QED  BY <1>0, <2>1, <2>2, <2>3, <2>4 DEF FinalizersArePrivate
<1>1. TypeOK'
  BY <1>0 DEF Park, Goes, Locks, TypeOK, Mutexes, Places
<1>2. RunsAttached'
  BY <1>0 DEF Park, Goes, Locks, TypeOK, Mutexes, RunsAttached, Pushed, Top
<1>3. UsesItsOwn'
  BY <1>0 DEF Park, Goes, Locks, TypeOK, Mutexes, UsesItsOwn
<1>4. LookupsAreClean'
  BY <1>0 DEF Park, Goes, Locks, TypeOK, Mutexes, LookupsAreClean, Pushed, Top
<1>5. DetachedWait'
  BY <1>0 DEF Park, Goes, Locks, TypeOK, Mutexes, DetachedWait
<1>6. PythonIsAttached'
  BY <1>0 DEF Park, Goes, Locks, TypeOK, Mutexes, PythonIsAttached
<1>7. StoppersRun'
  BY <1>0 DEF Park, Goes, Locks, TypeOK, Mutexes, StoppersRun
<1>8. HoldersWork'
  BY <1>0, <1>9 DEF Park, Goes, Locks, TypeOK, Mutexes, HoldersWork, Top
<1> QED  BY <1>1, <1>2, <1>3, <1>4, <1>5, <1>6, <1>7, <1>8

LEMMA AttachKeeps ==
    ASSUME IInv, NEW t \in Threads, Attach(t)
    PROVE  IInv'
<1> USE LockOrderAssumption DEF IInv
<1>0. Top(t) \in Uses[t] /\ Top(t) \in Interps /\ Top(t) # None /\ stack[t] # <<>>
  BY TopOfStack DEF Attach, Goes, DetachedWait
<1>1. TypeOK'
  BY <1>0 DEF Attach, Goes, Locks, TypeOK, Mutexes, Places
<1>2. RunsAttached'
  BY <1>0 DEF Attach, Goes, Locks, TypeOK, Mutexes, RunsAttached, Pushed, Top
<1>3. UsesItsOwn'
  BY <1>0 DEF Attach, Goes, Locks, TypeOK, Mutexes, UsesItsOwn
<1>4. LookupsAreClean'
  BY <1>0 DEF Attach, Goes, Locks, TypeOK, Mutexes, LookupsAreClean, Pushed, Top
<1>5. DetachedWait'
  BY <1>0 DEF Attach, Goes, Locks, TypeOK, Mutexes, DetachedWait
<1>6. PythonIsAttached'
  BY <1>0 DEF Attach, Goes, Locks, TypeOK, Mutexes, PythonIsAttached
<1>7. StoppersRun'
  BY <1>0 DEF Attach, Goes, Locks, TypeOK, Mutexes, StoppersRun
<1>8. HoldersWork'
  BY <1>0 DEF Attach, Goes, Locks, TypeOK, Mutexes, HoldersWork, Top
<1> QED  BY <1>1, <1>2, <1>3, <1>4, <1>5, <1>6, <1>7, <1>8

LEMMA StartTheWorldKeeps ==
    ASSUME IInv, NEW t \in Threads, StartTheWorld(t)
    PROVE  IInv'
<1> USE LockOrderAssumption DEF IInv
<1>1. TypeOK'
  BY DEF StartTheWorld, Goes, Locks, TypeOK, Mutexes, Places
<1>2. RunsAttached'
  BY DEF StartTheWorld, Goes, Locks, TypeOK, Mutexes, RunsAttached, Pushed, Top
<1>3. UsesItsOwn'
  BY DEF StartTheWorld, Goes, Locks, TypeOK, Mutexes, UsesItsOwn
<1>4. LookupsAreClean'
  BY DEF StartTheWorld, Goes, Locks, TypeOK, Mutexes, LookupsAreClean, Pushed, Top
<1>5. DetachedWait'
  BY DEF StartTheWorld, Goes, Locks, TypeOK, Mutexes, DetachedWait
<1>6. PythonIsAttached'
  BY DEF StartTheWorld, Goes, Locks, TypeOK, Mutexes, PythonIsAttached
<1>7. StoppersRun'
  BY DEF StartTheWorld, Goes, Locks, TypeOK, Mutexes, StoppersRun
<1>8. HoldersWork'
  BY DEF StartTheWorld, Goes, Locks, TypeOK, Mutexes, HoldersWork, Top
<1> QED  BY <1>1, <1>2, <1>3, <1>4, <1>5, <1>6, <1>7, <1>8

LEMMA PushInterpreterKeeps ==
    ASSUME IInv, NEW t \in Threads, NEW i \in Interps, PushInterpreter(t, i)
    PROVE  IInv'
<1> USE LockOrderAssumption DEF IInv
<1>0. /\ stack'[t] = Append(stack[t], i) /\ i \in Uses[t] /\ i # None
      /\ stack'[t] \in Seq(Uses[t]) /\ stack'[t] \in Seq(Interps) /\ stack'[t] # <<>>
      /\ stack' \in [Threads -> Seq(Interps)]
      /\ Top(t)' = i /\ Pushed(t)' = i /\ Pushed(t) = IF stack[t] = <<>> THEN None ELSE Top(t)
      /\ \A u \in Threads \ {t} : stack'[u] = stack[u] /\ Pushed(u)' = Pushed(u)
  <2>1. /\ stack[t] \in Seq(Uses[t]) /\ i \in Uses[t] /\ Uses[t] \subseteq Interps
        /\ stack' = [stack EXCEPT ![t] = Append(@, i)] /\ t \in DOMAIN stack
    BY DEF PushInterpreter, UsesItsOwn, TypeOK
  <2>2. /\ stack'[t] = Append(stack[t], i)
        /\ stack'[t] \in Seq(Uses[t]) /\ stack'[t] # <<>> /\ Top(t)' = i
    BY <2>1, AppendProperties DEF Top
  <2>3. stack'[t] \in Seq(Interps)
    BY <2>1, <2>2, SeqMonotonic
  <2>4. \A u \in Threads \ {t} : stack'[u] = stack[u] /\ Pushed(u)' = Pushed(u)
    BY <2>1 DEF Pushed, Top
  <2>5. stack' \in [Threads -> Seq(Interps)]
    BY <2>1, <2>2, <2>3 DEF TypeOK
  <2> QED  BY <2>1, <2>2, <2>3, <2>4, <2>5, LockOrderAssumption DEF Pushed
<1>1. TypeOK'
  <2>1. pc' \in [Threads -> Places] /\ wanted' \in [Threads -> Interps \cup {None}]
    <3>1. CASE UNCHANGED <<pc, wanted>>
      BY <3>1 DEF TypeOK
    <3>2. CASE Seek(t, i, "attach")
      BY <3>2 DEF Seek, TypeOK, Places
    <3> QED  BY <3>1, <3>2 DEF PushInterpreter
  <2>2. attached' \in [Threads -> Interps \cup {None}]
    BY DEF PushInterpreter, TypeOK
  <2>3. UNCHANGED <<holder, known, tics, stopper>>
    BY DEF PushInterpreter
  <2> QED  BY <1>0, <2>1, <2>2, <2>3 DEF TypeOK
<1>2. RunsAttached'
  BY <1>0 DEF PushInterpreter, Goes, Locks, Seek, TypeOK, Mutexes, RunsAttached, Top
<1>3. UsesItsOwn'
  BY <1>0 DEF PushInterpreter, Goes, Locks, Seek, TypeOK, Mutexes, UsesItsOwn
<1>4. LookupsAreClean'
  BY <1>0 DEF PushInterpreter, Goes, Locks, Seek, TypeOK, Mutexes, LookupsAreClean, Top
<1>5. DetachedWait'
  BY <1>0 DEF PushInterpreter, Goes, Locks, Seek, TypeOK, Mutexes, DetachedWait
<1>6. PythonIsAttached'
  BY <1>0 DEF PushInterpreter, Goes, Locks, Seek, TypeOK, Mutexes, PythonIsAttached
<1>7. StoppersRun'
  BY <1>0 DEF PushInterpreter, Goes, Locks, Seek, TypeOK, Mutexes, StoppersRun
<1>8. HoldersWork'
  <2>1. pc[t] = "mod" /\ holder' = holder /\ \A u \in Threads \ {t} : attached'[u] = attached[u]
    BY DEF PushInterpreter, TypeOK
  <2>2. \A u \in Threads \ {t} : pc'[u] = pc[u] /\ Top(u)' = Top(u)
    BY <1>0 DEF PushInterpreter, Seek, TypeOK, Top
  <2> QED  BY <2>1, <2>2 DEF HoldersWork
<1> QED  BY <1>1, <1>2, <1>3, <1>4, <1>5, <1>6, <1>7, <1>8

LEMMA AutoDisarmKeeps ==
    ASSUME IInv, NEW t \in Threads, NEW i \in Interps, AutoDisarm(t, i)
    PROVE  IInv'
<1> USE LockOrderAssumption DEF IInv
<1>1. TypeOK'
  BY DEF AutoDisarm, Goes, Locks, Seek, TypeOK, Mutexes, Places
<1>2. RunsAttached'
  BY DEF AutoDisarm, Goes, Locks, Seek, TypeOK, Mutexes, RunsAttached, Pushed, Top, RunsAttached
<1>3. UsesItsOwn'
  BY DEF AutoDisarm, Goes, Locks, Seek, TypeOK, Mutexes, UsesItsOwn
<1>4. LookupsAreClean'
  BY DEF AutoDisarm, Goes, Locks, Seek, TypeOK, Mutexes, LookupsAreClean, Pushed, Top, RunsAttached
<1>5. DetachedWait'
  BY DEF AutoDisarm, Goes, Locks, Seek, TypeOK, Mutexes, DetachedWait
<1>6. PythonIsAttached'
  BY DEF AutoDisarm, Goes, Locks, Seek, TypeOK, Mutexes, PythonIsAttached
<1>7. StoppersRun'
  BY DEF AutoDisarm, Goes, Locks, Seek, TypeOK, Mutexes, StoppersRun
<1>8. HoldersWork'
  BY DEF AutoDisarm, Goes, Locks, Seek, TypeOK, Mutexes, HoldersWork, Top
<1> QED  BY <1>1, <1>2, <1>3, <1>4, <1>5, <1>6, <1>7, <1>8

LEMMA PopInterpreterKeeps ==
    ASSUME IInv, NEW t \in Threads, PopInterpreter(t)
    PROVE  IInv'
<1> USE LockOrderAssumption DEF IInv
<1>0. /\ stack[t] # <<>> /\ Len(stack[t]) \in Nat \ {0}
      /\ stack'[t] \in Seq(Uses[t]) /\ stack'[t] \in Seq(Interps)
      /\ IF Len(stack[t]) = 1 THEN stack'[t] = <<>> /\ Pushed(t)' = None
         ELSE stack'[t] # <<>> /\ Pushed(t)' = stack[t][Len(stack[t]) - 1]
      /\ Pushed(t) = Top(t)
      /\ \A u \in Threads \ {t} : stack'[u] = stack[u] /\ Pushed(u)' = Pushed(u)
  <2>1. /\ stack[t] \in Seq(Uses[t]) /\ Uses[t] \subseteq Interps /\ stack[t] # <<>>
        /\ stack' = [stack EXCEPT ![t] = SubSeq(@, 1, Len(@) - 1)] /\ t \in DOMAIN stack
    BY DEF PopInterpreter, UsesItsOwn, TypeOK
  <2>2. /\ Len(stack[t]) \in Nat \ {0}
        /\ stack'[t] = SubSeq(stack[t], 1, Len(stack[t]) - 1)
    BY <2>1
  <2>3. /\ stack'[t] \in Seq(Uses[t]) /\ Len(stack'[t]) = Len(stack[t]) - 1
        /\ \A k \in 1 .. (Len(stack[t]) - 1) : stack'[t][k] = stack[t][k]
    <3> DEFINE s == stack[t]
               n == Len(s) - 1
    <3>1. n \in Nat /\ stack'[t] = SubSeq(s, 1, n) /\ \A k \in 1 .. n : s[k] \in Uses[t]
      BY <2>1, <2>2, ElementOfSeq
    <3> HIDE DEF s, n
    <3>2. /\ SubSeq(s, 1, n) \in Seq(Uses[t]) /\ Len(SubSeq(s, 1, n)) = n
          /\ \A k \in 1 .. n : SubSeq(s, 1, n)[k] = s[k]
      BY <3>1, SubSeqProperties
    <3> QED  BY <3>1, <3>2 DEF s, n
  <2>4. stack'[t] \in Seq(Interps)
    BY <2>1, <2>3, SeqMonotonic
  <2>5. IF Len(stack[t]) = 1 THEN stack'[t] = <<>> /\ Pushed(t)' = None
        ELSE stack'[t] # <<>> /\ Pushed(t)' = stack[t][Len(stack[t]) - 1]
    <3>1. CASE Len(stack[t]) = 1
      BY <2>3, <3>1, EmptySeq DEF Pushed
    <3>2. CASE Len(stack[t]) # 1
      <4>1. Len(stack'[t]) = Len(stack[t]) - 1 /\ Len(stack[t]) - 1 \in 1 .. (Len(stack[t]) - 1)
        <5> DEFINE n == Len(stack[t])
        <5>1. n \in Nat \ {0} /\ n # 1
          BY <2>2, <3>2
        <5> HIDE DEF n
        <5>2. n - 1 \in 1 .. (n - 1)
          BY <5>1
        <5> QED  BY <2>3, <5>2 DEF n
      <4>2. stack'[t] # <<>>
        <5> HIDE DEF IInv
        <5>1. Len(stack'[t]) \in Nat /\ Len(stack'[t]) >= 1
          BY <4>1
        <5> QED  BY <5>1
      <4>3. Top(t)' = stack[t][Len(stack[t]) - 1]
        <5>1. Top(t)' = stack'[t][Len(stack'[t])]
          BY DEF Top
        <5> HIDE DEF IInv
        <5> QED  BY <2>3, <4>1, <5>1
      <4> QED  BY <3>2, <4>2, <4>3 DEF Pushed
    <3> QED  BY <3>1, <3>2
  <2>6. \A u \in Threads \ {t} : stack'[u] = stack[u] /\ Pushed(u)' = Pushed(u)
    <3>1. \A u \in Threads \ {t} : stack'[u] = stack[u]
      BY <2>1
    <3> QED  BY <3>1 DEF Pushed, Top
  <2> QED  BY <2>1, <2>2, <2>3, <2>4, <2>5, <2>6 DEF Pushed
<1>1. TypeOK'
  BY <1>0 DEF PopInterpreter, Goes, Locks, TypeOK, Mutexes, Places
<1>2. RunsAttached'
  BY <1>0 DEF PopInterpreter, Goes, Locks, TypeOK, Mutexes, RunsAttached, Top
<1>3. UsesItsOwn'
  BY <1>0 DEF PopInterpreter, Goes, Locks, TypeOK, Mutexes, UsesItsOwn
<1>4. LookupsAreClean'
  BY <1>0 DEF PopInterpreter, Goes, Locks, TypeOK, Mutexes, LookupsAreClean, Top
<1>5. DetachedWait'
  BY <1>0 DEF PopInterpreter, Goes, Locks, TypeOK, Mutexes, DetachedWait
<1>6. PythonIsAttached'
  BY <1>0 DEF PopInterpreter, Goes, Locks, TypeOK, Mutexes, PythonIsAttached
<1>7. StoppersRun'
  BY <1>0 DEF PopInterpreter, Goes, Locks, TypeOK, Mutexes, StoppersRun
<1>8. HoldersWork'
  <2>1. pc[t] = "mod" /\ holder' = holder /\ \A u \in Threads \ {t} : attached'[u] = attached[u]
    BY DEF PopInterpreter, TypeOK
  <2>2. \A u \in Threads \ {t} : pc'[u] = pc[u] /\ Top(u)' = Top(u)
    BY <1>0 DEF PopInterpreter, TypeOK, Top
  <2> QED  BY <2>1, <2>2 DEF HoldersWork
<1> QED  BY <1>1, <1>2, <1>3, <1>4, <1>5, <1>6, <1>7, <1>8

LEMMA UseHandleKeeps ==
    ASSUME IInv, NEW t \in Threads, UseHandle(t)
    PROVE  IInv'
<1> USE LockOrderAssumption DEF IInv
<1>1. TypeOK'
  BY DEF UseHandle, Goes, Locks, TypeOK, Mutexes, Places
<1>2. RunsAttached'
  BY DEF UseHandle, Goes, Locks, TypeOK, Mutexes, RunsAttached, Pushed, Top
<1>3. UsesItsOwn'
  BY DEF UseHandle, Goes, Locks, TypeOK, Mutexes, UsesItsOwn
<1>4. LookupsAreClean'
  BY DEF UseHandle, Goes, Locks, TypeOK, Mutexes, LookupsAreClean, Pushed, Top, RunsAttached
<1>5. DetachedWait'
  BY DEF UseHandle, Goes, Locks, TypeOK, Mutexes, DetachedWait
<1>6. PythonIsAttached'
  BY DEF UseHandle, Goes, Locks, TypeOK, Mutexes, PythonIsAttached
<1>7. StoppersRun'
  BY DEF UseHandle, Goes, Locks, TypeOK, Mutexes, StoppersRun
<1>8. HoldersWork'
  BY DEF UseHandle, Goes, Locks, TypeOK, Mutexes, HoldersWork, Top
<1> QED  BY <1>1, <1>2, <1>3, <1>4, <1>5, <1>6, <1>7, <1>8

LEMMA RunPythonKeeps ==
    ASSUME IInv, NEW t \in Threads, RunPython(t)
    PROVE  IInv'
<1> USE LockOrderAssumption DEF IInv
<1>1. TypeOK'
  BY DEF RunPython, Goes, Locks, TypeOK, Mutexes, Places
<1>2. RunsAttached'
  BY DEF RunPython, Goes, Locks, TypeOK, Mutexes, RunsAttached, Pushed, Top
<1>3. UsesItsOwn'
  BY DEF RunPython, Goes, Locks, TypeOK, Mutexes, UsesItsOwn
<1>4. LookupsAreClean'
  BY DEF RunPython, Goes, Locks, TypeOK, Mutexes, LookupsAreClean, Pushed, Top
<1>5. DetachedWait'
  BY DEF RunPython, Goes, Locks, TypeOK, Mutexes, DetachedWait
<1>6. PythonIsAttached'
  BY DEF RunPython, Goes, Locks, TypeOK, Mutexes, PythonIsAttached
<1>7. StoppersRun'
  BY DEF RunPython, Goes, Locks, TypeOK, Mutexes, StoppersRun
<1>8. HoldersWork'
  BY DEF RunPython, Goes, Locks, TypeOK, Mutexes, HoldersWork, Top
<1> QED  BY <1>1, <1>2, <1>3, <1>4, <1>5, <1>6, <1>7, <1>8

LEMMA RunUnderMutexKeeps ==
    ASSUME IInv, NEW t \in Threads, RunUnderMutex(t)
    PROVE  IInv'
<1> USE LockOrderAssumption DEF IInv
<1>1. TypeOK'
  BY DEF RunUnderMutex, Goes, Locks, TypeOK, Mutexes, Places
<1>2. RunsAttached'
  BY DEF RunUnderMutex, Goes, Locks, TypeOK, Mutexes, RunsAttached, Pushed, Top
<1>3. UsesItsOwn'
  BY DEF RunUnderMutex, Goes, Locks, TypeOK, Mutexes, UsesItsOwn
<1>4. LookupsAreClean'
  BY DEF RunUnderMutex, Goes, Locks, TypeOK, Mutexes, LookupsAreClean, Pushed, Top
<1>5. DetachedWait'
  BY DEF RunUnderMutex, Goes, Locks, TypeOK, Mutexes, DetachedWait
<1>6. PythonIsAttached'
  BY DEF RunUnderMutex, Goes, Locks, TypeOK, Mutexes, PythonIsAttached
<1>7. StoppersRun'
  BY DEF RunUnderMutex, Goes, Locks, TypeOK, Mutexes, StoppersRun
<1>8. HoldersWork'
  BY DEF RunUnderMutex, Goes, Locks, TypeOK, Mutexes, HoldersWork, Top
<1> QED  BY <1>1, <1>2, <1>3, <1>4, <1>5, <1>6, <1>7, <1>8

LEMMA PythonReturnsKeeps ==
    ASSUME IInv, NEW t \in Threads, PythonReturns(t)
    PROVE  IInv'
<1> USE LockOrderAssumption DEF IInv
<1>1. TypeOK'
  BY DEF PythonReturns, Goes, Locks, TypeOK, Mutexes, Places
<1>2. RunsAttached'
  BY DEF PythonReturns, Goes, Locks, TypeOK, Mutexes, RunsAttached, Pushed, Top
<1>3. UsesItsOwn'
  BY DEF PythonReturns, Goes, Locks, TypeOK, Mutexes, UsesItsOwn
<1>4. LookupsAreClean'
  BY DEF PythonReturns, Goes, Locks, TypeOK, Mutexes, LookupsAreClean, Pushed, Top
<1>5. DetachedWait'
  BY DEF PythonReturns, Goes, Locks, TypeOK, Mutexes, DetachedWait
<1>6. PythonIsAttached'
  BY DEF PythonReturns, Goes, Locks, TypeOK, Mutexes, PythonIsAttached
<1>7. StoppersRun'
  BY DEF PythonReturns, Goes, Locks, TypeOK, Mutexes, StoppersRun
<1>8. HoldersWork'
  BY DEF PythonReturns, Goes, Locks, TypeOK, Mutexes, HoldersWork, Top
<1> QED  BY <1>1, <1>2, <1>3, <1>4, <1>5, <1>6, <1>7, <1>8

LEMMA StopTheWorldKeeps ==
    ASSUME IInv, NEW t \in Threads, StopTheWorld(t)
    PROVE  IInv'
<1> USE LockOrderAssumption DEF IInv
<1>1. TypeOK'
  BY DEF StopTheWorld, Goes, Locks, TypeOK, Mutexes, Places
<1>2. RunsAttached'
  BY DEF StopTheWorld, Goes, Locks, TypeOK, Mutexes, RunsAttached, Pushed, Top
<1>3. UsesItsOwn'
  BY DEF StopTheWorld, Goes, Locks, TypeOK, Mutexes, UsesItsOwn
<1>4. LookupsAreClean'
  BY DEF StopTheWorld, Goes, Locks, TypeOK, Mutexes, LookupsAreClean, Pushed, Top
<1>5. DetachedWait'
  BY DEF StopTheWorld, Goes, Locks, TypeOK, Mutexes, DetachedWait
<1>6. PythonIsAttached'
  BY DEF StopTheWorld, Goes, Locks, TypeOK, Mutexes, PythonIsAttached
<1>7. StoppersRun'
  BY DEF StopTheWorld, Goes, Locks, TypeOK, Mutexes, StoppersRun
<1>8. HoldersWork'
  BY DEF StopTheWorld, Goes, Locks, TypeOK, Mutexes, HoldersWork, Top
<1> QED  BY <1>1, <1>2, <1>3, <1>4, <1>5, <1>6, <1>7, <1>8
-----------------------------------------------------------------------------
(* The theorems.                                                           *)
LEMMA InitHolds == Init => IInv
<1> SUFFICES ASSUME Init PROVE IInv
  OBVIOUS
<1>1. \A t \in Threads : stack[t] \in Seq(Interps) /\ stack[t] \in Seq(Uses[t])
  BY EmptySeq DEF Init
<1>2. TypeOK
  BY <1>1, LockOrderAssumption DEF Init, TypeOK, Mutexes, Places
<1>3. RunsAttached /\ UsesItsOwn
  BY <1>1 DEF Init, RunsAttached, Pushed, UsesItsOwn
<1>4. LookupsAreClean /\ DetachedWait /\ PythonIsAttached
  BY DEF Init, LookupsAreClean, DetachedWait, PythonIsAttached
<1>5. StoppersRun /\ HoldersWork
  BY LockOrderAssumption DEF Init, StoppersRun, HoldersWork, Mutexes
<1> QED  BY <1>2, <1>3, <1>4, <1>5 DEF IInv

LEMMA StepHolds ==
    ASSUME IInv, [Next]_vars
    PROVE  IInv'
<1>1. ASSUME NEW t \in Threads, Step(t) PROVE IInv'
  BY <1>1, FindKeeps, CreateKeeps, FoundKeeps, LookUpKeeps, LookedUpKeeps, LockHandlesKeeps,
     UseEntryKeeps, ParkKeeps, AttachKeeps, StartTheWorldKeeps DEF Step
<1>2. ASSUME NEW t \in Threads, NEW i \in Interps, PushInterpreter(t, i) \/ AutoDisarm(t, i) PROVE IInv'
  BY <1>2, PushInterpreterKeeps, AutoDisarmKeeps
<1>3. ASSUME NEW t \in Threads,
             \/ PopInterpreter(t) \/ UseHandle(t)
             \/ RunPython(t) \/ RunUnderMutex(t) \/ PythonReturns(t) \/ StopTheWorld(t)
      PROVE  IInv'
  BY <1>3, PopInterpreterKeeps, UseHandleKeeps, RunPythonKeeps, RunUnderMutexKeeps,
     PythonReturnsKeeps, StopTheWorldKeeps
<1>4. CASE UNCHANGED vars
  BY <1>4 DEF vars, IInv, TypeOK, RunsAttached, UsesItsOwn, LookupsAreClean, DetachedWait,
              PythonIsAttached, StoppersRun, HoldersWork, Pushed, Top
<1> QED  BY <1>1, <1>2, <1>3, <1>4 DEF Next

THEOREM Invariance == Spec => []IInv
<1>1. Init => IInv
  BY InitHolds
<1>2. IInv /\ [Next]_vars => IInv'
  BY StepHolds
<1> QED  BY <1>1, <1>2, PTL DEF Spec

(* The state keeps its type.                                               *)
THEOREM TypeCorrect == Spec => []TypeOK
<1>1. IInv => TypeOK
  BY DEF IInv
<1> QED  BY <1>1, Invariance, PTL

(* No threads ever wait for one another in a circle, be it for mutexes or  *)
(* for a stop of an interpreter, as long as Python code runs under         *)
(* _handles_mutex only where a single thread uses the interpreter.         *)
THEOREM NoDeadlock ==
    ASSUME FinalizersArePrivate
    PROVE  Spec => []NoWaitCycle
<1>1. IInv => NoWaitCycle
  BY NoCycle
<1> QED  BY <1>1, Invariance, PTL

(* Stops of an interpreter, and the lookups and lazy controllers of a      *)
(* push, leave a mod function with the PyThreadState of its interpreter.   *)
THEOREM ModsRunAttached == Spec => []RunsAttached
<1>1. IInv => RunsAttached
  BY DEF IInv
<1> QED  BY <1>1, Invariance, PTL
=============================================================================
