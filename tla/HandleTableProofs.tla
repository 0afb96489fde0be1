------------------------- MODULE HandleTableProofs -------------------------
(***************************************************************************)
(* Proofs about HandleTable, for any number of threads, handles, objects   *)
(* and arguments: who owns which handle, what the Single-Use queue holds,  *)
(* that nothing is forgotten, and that the table implements HandleStore.   *)
(*                                                                         *)
(* Two faults of the API find a dead handle: a Single-Use handle that is   *)
(* passed to REPY_AllocAndCopyBuffer (run handle_buffer), and an _SUH call *)
(* that raises and ends with a lookup of handle 0.  Mods that meet neither *)
(* are PoliteMods, and for these no handle is ever found dead.  The rest   *)
(* of what is proved does not need them: up to the assert that ends the    *)
(* process, the faults do not disturb the table, the queue or the owners.  *)
(* A third fault leaks: a loop that raises abandons the Single-Use handles *)
(* it has yet to look up (run handle_forgotten).  The theorems on leaks    *)
(* say that these handles are all that is ever lost.                       *)
(***************************************************************************)
EXTENDS HandleTable, FiniteSetTheorems, TLAPS

PoliteMods == ~SingleUseBuffers /\ ~NestedErrors

Kinds == {"plain", "cast", "loop"}

Pending(t) == args[t] \cup again[t]
Queued(h) == h \in Range(queue)

(* No handle is in use before it is created.                               *)
FreshAhead ==
    \A h \in Handles : h >= next =>
        /\ entries[h] = NoEntry
        /\ owner[h] = Nobody
        /\ \A t \in Threads : h \notin InFlight(t)

(* What the fields of a call hold at each point of it.                     *)
CallShape ==
    \A t \in Threads :
        /\ pc[t] \in {"idle", "mark"} => InFlight(t) = {}
        /\ pc[t] = "idle" => ~produces[t] /\ ~marks[t] /\ result[t] = NoHandle
        /\ pc[t] \in {"create", "drain"} => args[t] = {}
        /\ pc[t] = "operate" /\ kind[t] # "loop" => args[t] = {}
        /\ kind[t] = "loop" => again[t] = {}
        /\ pc[t] = "create" => produces[t]
        /\ pc[t] \in {"fetch", "operate", "create"} /\ produces[t] => result[t] = NoHandle
        /\ pc[t] \in {"fetch", "operate"} /\ marks[t] => produces[t] \/ result[t] # NoHandle
        /\ pc[t] \in {"drain", "mark"} /\ marks[t] /\ result[t] = NoHandle => NestedErrors
        /\ pc[t] = "mark" => marks[t] /\ ~produces[t]
        /\ again[t] # {} => ~produces[t] /\ ~marks[t] /\ result[t] = NoHandle

(* The handle a call will return is live and plain.  Unless it is the dict *)
(* its thread owns, nobody owns it and no other call uses it.              *)
ResultsArePrivate ==
    \A t \in Threads, h \in Handles : result[t] = h =>
        /\ Live(h) /\ ~entries[h].suh
        /\ owner[h] \in {t, Nobody}
        /\ marks[t] => owner[h] = Nobody
        /\ pc[t] \in {"fetch", "operate"} /\ ~marks[t] => owner[h] = t
        /\ \A u \in Threads \ {t} :
              /\ result[u] # h
              /\ owner[h] = Nobody => h \notin InFlight(u)

(* The Single-Use handle of REPY_AllocAndCopyBuffer, once the first of its *)
(* native calls has looked it up: it is queued or already released.        *)
Spent(t, h) ==
    /\ SingleUseBuffers
    /\ owner[h] = Nobody
    /\ ~Live(h) \/ (h \notin args[t] /\ Queued(h))

(* What a lookup needs: the argument is live.  If it is Single-Use it was  *)
(* given up to this call alone and is not queued; if it is plain somebody  *)
(* owns it, or the call will return it.                                    *)
Available(t, h) ==
    /\ Live(h)
    /\ entries[h].suh =>
          /\ owner[h] = Nobody /\ ~Queued(h)
          /\ h \in again[t] => SingleUseBuffers /\ h \in args[t]
          /\ \A u \in Threads \ {t} : h \notin Pending(u)
    /\ ~entries[h].suh => owner[h] # Nobody \/ result[t] = h

PendingAreLive ==
    \A t \in Threads : \A h \in Pending(t) : Spent(t, h) \/ Available(t, h)

(* The queue holds Single-Use handles that were given up, each once, and   *)
(* some call will drain it.                                                *)
QueueIsExact ==
    /\ QueuedOnce
    /\ \A h \in Handles : Queued(h) =>
          /\ entries[h].suh
          /\ \E t \in Threads : pc[t] \in BeforeDrain

(* An _SUH call has raised: the next step of its thread fails.             *)
Doomed ==
    \E t \in Threads :
        pc[t] \in {"drain", "mark"} /\ marks[t] /\ result[t] = NoHandle

(* A live handle is owned, queued, an argument, a result, or abandoned.    *)
AllAccounted ==
    ~Doomed => \A h \in Handles : Live(h) =>
        \/ owner[h] # Nobody
        \/ Queued(h)
        \/ \E t \in Threads : h \in Pending(t) \/ result[t] = h
        \/ h \in abandoned

(* What a loop has abandoned stays where it is: a live Single-Use handle   *)
(* that nobody owns, no call will look up and no drain will release.       *)
AbandonedAreLost ==
    \A h \in abandoned :
        /\ Live(h) /\ entries[h].suh
        /\ owner[h] = Nobody /\ ~Queued(h)
        /\ \A t \in Threads : h \notin Pending(t)

(* No handle is found dead but by way of the two known faults.             *)
OnlyKnownFaults == PoliteMods => NoDeadHandle

(* The calls that have yet to create a handle fit under the bound.         *)
RoomToCreate == next + Cardinality(Creating) <= MaxHandle + 1

IInv ==
    /\ TypeOK
    /\ FreshAhead
    /\ CallShape
    /\ ResultsArePrivate
    /\ PendingAreLive
    /\ OwnedAreLive
    /\ QueueIsExact
    /\ AllAccounted
    /\ AbandonedAreLost
    /\ RoomToCreate
    /\ OnlyKnownFaults
-----------------------------------------------------------------------------
(* The queue.                                                              *)

LEMMA RangeOfAppend ==
    ASSUME NEW q \in Seq(Handles), NEW h \in Handles, IsInjective(q), h \notin Range(q)
    PROVE  /\ Range(Append(q, h)) = Range(q) \cup {h}
           /\ IsInjective(Append(q, h))
<1> DEFINE r == Append(q, h)
<1>1. /\ DOMAIN q = 1 .. Len(q) /\ Len(q) \in Nat
      /\ DOMAIN r = 1 .. Len(q) + 1
      /\ r[Len(q) + 1] = h
      /\ \A k \in 1 .. Len(q) : r[k] = q[k]
  OBVIOUS
<1>2. \A k \in 1 .. Len(q) : q[k] # h
  BY <1>1 DEF Range
<1> HIDE DEF r
<1>3. \A k \in 1 .. Len(q) + 1 : k = Len(q) + 1 \/ k \in 1 .. Len(q)
  BY <1>1
<1>4. Range(r) = Range(q) \cup {h}
  <2>1. Range(r) \subseteq Range(q) \cup {h}
    BY <1>1, <1>3 DEF Range
  <2>2. Len(q) + 1 \in DOMAIN r /\ \A k \in DOMAIN q : k \in DOMAIN r /\ r[k] = q[k]
    BY <1>1
  <2>3. Range(q) \cup {h} \subseteq Range(r)
    BY <1>1, <2>2 DEF Range
  <2> QED  BY <2>1, <2>3
<1>5. IsInjective(r)
  BY <1>1, <1>2, <1>3 DEF IsInjective
<1> QED  BY <1>4, <1>5 DEF r

LEMMA NoHandleIsNone == NoHandle \notin Handles
  BY DEF NoHandle, Handles

LEMMA NobodyIsNone == Nobody \notin Threads
  BY HandleTableAssumption

LEMMA RangeOfEmpty == Range(<<>>) = {} /\ IsInjective(<<>>)
  BY DEF Range, IsInjective

-----------------------------------------------------------------------------
(* What the table of API functions says.                                   *)

(* A function with an _SUH variant creates the handle it makes Single-Use. *)
LEMMA ApiFunctionsType ==
    \A f \in ApiFunctions :
        /\ f.kind \in Kinds /\ f.creates \in BOOLEAN /\ f.marks \in BOOLEAN
        /\ f.marks => f.creates
<1> USE DEF OfKind, Group, Query, Cast, Loop, Data, Always, Kinds
<1>1. \A f \in ModuleFns \cup PrimitiveFns \cup Number64Fns \cup StringFns \cup MemcpyFns :
        f.kind \in Kinds /\ f.creates \in BOOLEAN /\ f.marks \in BOOLEAN /\ (f.marks => f.creates)
  BY DEF ModuleFns, PrimitiveFns, Number64Fns, StringFns, MemcpyFns
<1>2. \A f \in IterationFns \cup TupleFns \cup DictFns \cup AttributeFns \cup CompileFns :
        f.kind \in Kinds /\ f.creates \in BOOLEAN /\ f.marks \in BOOLEAN /\ (f.marks => f.creates)
  BY DEF IterationFns, TupleFns, DictFns, AttributeFns, CompileFns
<1>3. \A f \in ExecFns \cup EvalFns \cup CallFns \cup ErrorFns :
        f.kind \in Kinds /\ f.creates \in BOOLEAN /\ f.marks \in BOOLEAN /\ (f.marks => f.creates)
  BY DEF ExecFns, EvalFns, CallFns, ErrorFns
<1> QED  BY <1>1, <1>2, <1>3 DEF ApiFunctions

LEMMA SignaturesType ==
    \A as \in ArgumentSets : \A f \in Signatures[Cardinality(as)] :
        /\ as \subseteq Handles
        /\ f.kind \in Kinds /\ f.creates \in BOOLEAN /\ f.marks \in BOOLEAN
        /\ f.marks => f.creates
<1> SUFFICES ASSUME NEW as \in ArgumentSets, NEW f \in Signatures[Cardinality(as)]
             PROVE  /\ as \subseteq Handles
                    /\ f.kind \in Kinds /\ f.creates \in BOOLEAN /\ f.marks \in BOOLEAN
                    /\ f.marks => f.creates
  OBVIOUS
<1>1. as \subseteq Handles /\ Cardinality(as) \in 1 .. MaxArgs
  BY DEF ArgumentSets
<1>2. PICK g \in ApiFunctions : f = [kind |-> g.kind, creates |-> g.creates, marks |-> g.marks]
  BY <1>1 DEF Signatures
<1> QED  BY <1>1, <1>2, ApiFunctionsType
-----------------------------------------------------------------------------
(* The bound on creations.                                                 *)

LEMMA CreatingFinite ==
    /\ IsFiniteSet(Creating)
    /\ \A S \in SUBSET Threads : IsFiniteSet(S) /\ Cardinality(S) \in Nat
<1>1. Creating \subseteq Threads
  BY DEF Creating
<1> QED  BY <1>1, FS_Subset, FS_CardinalityType, HandleTableAssumption

LEMMA Numbers ==
    ASSUME TypeOK
    PROVE  MaxHandle \in Nat /\ next \in Nat /\ next >= 1
<1>1. next \in 1 .. MaxHandle + 1
  BY DEF TypeOK
<1>2. MaxHandle \in Nat
  BY HandleTableAssumption
<1> QED  BY <1>1, <1>2

(* A step that creates nothing and begins no call that will.               *)
LEMMA RoomKept ==
    ASSUME RoomToCreate, TypeOK, next' = next, Creating' \subseteq Creating
    PROVE  RoomToCreate'
<1>1. Cardinality(Creating') <= Cardinality(Creating)
  BY CreatingFinite, FS_Subset
<1>2. Cardinality(Creating') \in Nat /\ Cardinality(Creating) \in Nat
  BY CreatingFinite DEF Creating
<1> QED  BY <1>1, <1>2, Numbers DEF RoomToCreate

(* A step that creates a handle outside of the calls counted.              *)
LEMMA RoomForOne ==
    ASSUME MayCreate, TypeOK, next' = next + 1, Creating' \subseteq Creating
    PROVE  RoomToCreate' /\ next \in Handles
<1>1. Cardinality(Creating') <= Cardinality(Creating)
  BY CreatingFinite, FS_Subset
<1>2. Cardinality(Creating') \in Nat /\ Cardinality(Creating) \in Nat
  BY CreatingFinite DEF Creating
<1> QED  BY <1>1, <1>2, Numbers DEF RoomToCreate, MayCreate, Handles

(* A call that will create a handle begins.                                *)
LEMMA RoomClaimed ==
    ASSUME MayCreate, TypeOK, NEW t \in Threads,
           next' = next, Creating' \subseteq Creating \cup {t}
    PROVE  RoomToCreate'
<1>1. IsFiniteSet(Creating \cup {t}) /\ Cardinality(Creating \cup {t}) <= Cardinality(Creating) + 1
  BY CreatingFinite, FS_AddElement, FS_CardinalityType
<1>2. Cardinality(Creating') <= Cardinality(Creating \cup {t})
  BY <1>1, FS_Subset
<1>3. /\ Cardinality(Creating') \in Nat /\ Cardinality(Creating) \in Nat
      /\ Cardinality(Creating \cup {t}) \in Nat
  BY <1>1, CreatingFinite, FS_CardinalityType DEF Creating
<1> QED  BY <1>1, <1>2, <1>3, Numbers DEF RoomToCreate, MayCreate

(* A call creates the handle it had claimed.                               *)
LEMMA RoomUsed ==
    ASSUME RoomToCreate, TypeOK, NEW t \in Creating,
           next' = next + 1, Creating' \subseteq Creating \ {t}
    PROVE  RoomToCreate' /\ next \in Handles
<1>1. IsFiniteSet(Creating \ {t}) /\ Cardinality(Creating \ {t}) = Cardinality(Creating) - 1
  BY CreatingFinite, FS_RemoveElement
<1>2. Cardinality(Creating') <= Cardinality(Creating \ {t})
  BY <1>1, FS_Subset
<1>3. Cardinality(Creating') \in Nat /\ Cardinality(Creating) \in Nat /\ Cardinality(Creating \ {t}) \in Nat
  BY <1>1, CreatingFinite, FS_CardinalityType DEF Creating
<1> QED  BY <1>1, <1>2, <1>3, Numbers DEF RoomToCreate, Handles
-----------------------------------------------------------------------------
(* Every action preserves the invariant.                                   *)

(* Nothing changes but how the process failed: not for a dead handle, if   *)
(* the mods are polite.                                                    *)
LEMMA SameTableIInv ==
    ASSUME IInv,
           UNCHANGED <<entries, next, queue, pc, args, again, held, kind, produces, marks, result, owner, abandoned>>,
           fault' \in {fault, "stale pointer", "uncaught exception", "dead handle"},
           PoliteMods => fault' \in {fault, "stale pointer", "uncaught exception"}
    PROVE  IInv'
<1>1. \A u \in Threads : InFlight(u)' = InFlight(u) /\ Pending(u)' = Pending(u)
  BY DEF InFlight, Pending
<1>2. TypeOK' /\ OnlyKnownFaults'
  BY DEF IInv, TypeOK, OnlyKnownFaults, PoliteMods, NoDeadHandle
<1>3. FreshAhead'
  BY <1>1 DEF IInv, FreshAhead
<1>4. CallShape'
  BY <1>1 DEF IInv, CallShape
<1>5. ResultsArePrivate'
  <2>1. ResultsArePrivate
    BY DEF IInv
  <2> QED  BY <2>1 DEF ResultsArePrivate, Live, InFlight
<1>6. PendingAreLive'
  <2>1. PendingAreLive
    BY DEF IInv
  <2>2. UNCHANGED <<entries, queue, args, again, result, owner>>
    OBVIOUS
  <2>3. \A u \in Threads : \A h \in Pending(u) : Spent(u, h) => Spent(u, h)'
    BY <2>2 DEF Spent, Live, Queued
  <2>4. \A u \in Threads : \A h \in Pending(u) : Available(u, h) => Available(u, h)'
    BY <1>1, <2>2 DEF Available, Live, Queued
  <2> QED  BY <1>1, <2>1, <2>3, <2>4 DEF PendingAreLive
<1>7. OwnedAreLive'
  BY DEF IInv, OwnedAreLive, Live
<1>8. QueueIsExact'
  BY DEF IInv, QueueIsExact, QueuedOnce, QueueIsSound, Live, Queued
<1>9. AllAccounted'
  BY <1>1 DEF IInv, AllAccounted, Doomed, Live, Queued
<1>10. RoomToCreate'
  BY DEF IInv, RoomToCreate, Creating
<1>11. AbandonedAreLost'
  BY <1>1 DEF IInv, AbandonedAreLost, Live, Queued
<1> QED  BY <1>2, <1>3, <1>4, <1>5, <1>6, <1>7, <1>8, <1>9, <1>10, <1>11 DEF IInv

(* A handle that is not found by a mod that meets one of the two faults.   *)
LEMMA FailOnKeepsIInv ==
    ASSUME IInv, NEW h, FailOn(h), ~PoliteMods
    PROVE  IInv'
BY SameTableIInv DEF FailOn, table, call

(* A thread whose call has failed waits for its end.                       *)
LEMMA DoomedStays ==
    ASSUME NEW t \in Threads, pc[t] \notin {"drain", "mark"},
           \A u \in Threads \ {t} : pc'[u] = pc[u] /\ marks'[u] = marks[u] /\ result'[u] = result[u]
    PROVE  Doomed => Doomed'
BY DEF Doomed

(* A step that looks nothing up and begins no call.                        *)
LEMMA PendingKept ==
    ASSUME PendingAreLive, UNCHANGED <<args, again>>,
           \A u \in Threads : \A x \in Pending(u) :
              /\ entries'[x] = entries[x] /\ owner'[x] = owner[x]
              /\ Queued(x)' <=> Queued(x)
              /\ result[u] = x => result'[u] = x
    PROVE  PendingAreLive'
<1>1. \A u \in Threads : Pending(u)' = Pending(u)
  BY DEF Pending
<1> SUFFICES ASSUME NEW u \in Threads, NEW x \in Pending(u)
             PROVE  Spent(u, x)' \/ Available(u, x)'
  BY <1>1 DEF PendingAreLive
<1>2. Spent(u, x) => Spent(u, x)'
  BY DEF Spent, Live
<1>3. Available(u, x) => Available(u, x)'
  BY <1>1 DEF Available, Live
<1> QED  BY <1>2, <1>3 DEF PendingAreLive

(* An abandoned handle is nobody's argument and nobody's result.           *)
LEMMA AbandonedFacts ==
    ASSUME IInv, NEW h \in abandoned
    PROVE  /\ h \in Handles /\ Live(h) /\ entries[h].suh
           /\ owner[h] = Nobody /\ ~Queued(h)
           /\ \A u \in Threads : h \notin Pending(u) /\ result[u] # h
<1>1. /\ h \in Handles /\ Live(h) /\ entries[h].suh /\ owner[h] = Nobody /\ ~Queued(h)
      /\ \A u \in Threads : h \notin Pending(u)
  BY DEF IInv, AbandonedAreLost, TypeOK
<1>2. \A u \in Threads : result[u] # h
  BY <1>1 DEF IInv, ResultsArePrivate
<1> QED  BY <1>1, <1>2

(* A step that does not touch what is abandoned.                           *)
LEMMA AbandonedKept ==
    ASSUME IInv, abandoned' = abandoned,
           \A h \in abandoned :
              /\ entries'[h] = entries[h] /\ owner'[h] = owner[h]
              /\ Queued(h)' => Queued(h)
              /\ \A u \in Threads : h \in Pending(u)' => h \in Pending(u)
    PROVE  AbandonedAreLost'
<1> SUFFICES ASSUME NEW h \in abandoned
             PROVE  /\ Live(h)' /\ entries'[h].suh
                    /\ owner'[h] = Nobody /\ ~Queued(h)'
                    /\ \A u \in Threads : h \notin Pending(u)'
  BY DEF AbandonedAreLost
<1>1. Live(h)' <=> Live(h)
  BY DEF Live
<1> QED  BY <1>1, AbandonedFacts

(* Marking an entry leaves it an entry.                                    *)
LEMMA EntrySetSUH ==
    ASSUME NEW es \in [Handles -> Entry \cup {NoEntry}], NEW h \in Handles,
           es[h] # NoEntry, NEW value \in BOOLEAN
    PROVE  LET fs == [es EXCEPT ![h].suh = value]
           IN  /\ fs \in [Handles -> Entry \cup {NoEntry}]
               /\ fs[h] # NoEntry /\ fs[h].suh = value
               /\ \A x \in Handles \ {h} : fs[x] = es[x]
<1> DEFINE e == [es[h] EXCEPT !.suh = value]
<1>1. es[h] \in Entry
  OBVIOUS
<1>2. e \in Entry /\ e.suh = value /\ e.obj \in Objects
  BY <1>1 DEF Entry
<1>3. e # NoEntry
  BY <1>2, HandleTableAssumption DEF NoEntry
<1> QED  BY <1>2, <1>3

LEMMA FetchLiveKeepsIInv ==
    ASSUME IInv, NEW t \in Threads, NEW h \in Handles, Live(h), Fetch(t, h)
    PROVE  IInv'
<1> USE HandleTableAssumption DEF IInv
<1>0. Live(h) /\ h \in args[t] /\ h \in Pending(t) /\ pc[t] = "fetch"
  BY DEF Pending, Fetch
<1>1. Available(t, h)
  BY <1>0 DEF PendingAreLive, Spent
<1>a. /\ Lookup(h)
      /\ held' = [held EXCEPT ![t] = @ \cup {h}]
      /\ args' = [args EXCEPT ![t] = @ \ {h}]
      /\ pc' = [pc EXCEPT ![t] = AfterLookup(t, h)]
      /\ UNCHANGED <<next, again, kind, produces, marks, result, owner, abandoned, fault>>
  BY <1>0 DEF Fetch, FailOn
<1>d. /\ \A u \in Threads \ {t} : pc'[u] = pc[u] /\ args'[u] = args[u]
      /\ pc'[t] \in {"fetch", "operate", "drain"} /\ pc'[t] = AfterLookup(t, h)
      /\ args'[t] = args[t] \ {h}
      /\ pc' \in [Threads -> {"idle", "fetch", "operate", "create", "drain", "mark"}]
  BY <1>a DEF TypeOK, AfterLookup
<1>e. /\ pc'[t] = "drain" => args'[t] = {} /\ result[t] = h
      /\ pc'[t] = "operate" /\ kind[t] # "loop" => args'[t] = {}
  BY <1>d DEF AfterLookup
<1>b. /\ entries' = entries
      /\ queue' \in Seq(Handles)
      /\ IsInjective(queue')
      /\ Range(queue') = IF entries[h].suh THEN Range(queue) \cup {h} ELSE Range(queue)
  <2>1. entries[h].suh => h \notin Range(queue)
    BY <1>1 DEF Available, Queued
  <2>2. queue \in Seq(Handles) /\ IsInjective(queue)
    BY DEF TypeOK, QueueIsExact, QueuedOnce, QueueIsSound
  <2>3. CASE entries[h].suh
    BY <1>a, <2>1, <2>2, <2>3, RangeOfAppend DEF Lookup, QueueIfSingleUse
  <2>4. CASE ~entries[h].suh
    BY <1>a, <2>2, <2>4 DEF Lookup, QueueIfSingleUse
  <2> QED  BY <2>3, <2>4
<1> HIDE DEF IInv
<1>c. \A u \in Threads :
        /\ InFlight(u)' = InFlight(u)
        /\ Pending(u)' \subseteq Pending(u)
        /\ u # t => args'[u] = args[u]
        /\ entries[h].suh /\ h \in Pending(u)' =>
              u = t /\ SingleUseBuffers /\ h \notin args'[u]
  <2>1. \A u \in Threads : InFlight(u)' = InFlight(u) /\ Pending(u)' \subseteq Pending(u)
    <3> SUFFICES ASSUME NEW u \in Threads
                 PROVE  InFlight(u)' = InFlight(u) /\ Pending(u)' \subseteq Pending(u)
      OBVIOUS
    <3>1. /\ args \in [Threads -> SUBSET Handles] /\ held \in [Threads -> SUBSET Handles]
          /\ again' = again
      BY <1>a DEF TypeOK, IInv
    <3>2. CASE u = t
      <4>1. args'[u] = args[u] \ {h} /\ held'[u] = held[u] \cup {h} /\ h \in args[u]
        BY <1>0, <1>a, <3>1, <3>2
      <4> QED  BY <3>1, <4>1 DEF InFlight, Pending
    <3>3. CASE u # t
      <4>1. args'[u] = args[u] /\ held'[u] = held[u]
        BY <1>a, <3>1, <3>3
      <4> QED  BY <3>1, <4>1 DEF InFlight, Pending
    <3> QED  BY <3>2, <3>3
  <2>2. entries[h].suh => /\ h \in again[t] => SingleUseBuffers
                          /\ \A u \in Threads \ {t} : h \notin Pending(u)
    BY <1>1 DEF Available
  <2>3. /\ h \notin args'[t] /\ again' = again
        /\ \A u \in Threads \ {t} : args'[u] = args[u]
    BY <1>a DEF TypeOK, IInv
  <2>4. ASSUME NEW u \in Threads, entries[h].suh, h \in Pending(u)'
        PROVE  u = t /\ SingleUseBuffers /\ h \notin args'[u]
    BY <2>1, <2>2, <2>3, <2>4 DEF Pending
  <2> QED  BY <2>1, <2>3, <2>4
<1>10. TypeOK'
  <2>1. /\ held' \in [Threads -> SUBSET Handles] /\ args' \in [Threads -> SUBSET Handles]
        /\ abandoned' \in SUBSET Handles
    BY <1>a DEF TypeOK, IInv
  <2>2. entries' \in [Handles -> Entry \cup {NoEntry}] /\ queue' \in Seq(Handles)
    BY <1>b DEF TypeOK, IInv
  <2>3. UNCHANGED <<next, again, kind, produces, marks, result, owner, fault>>
    BY <1>a
  <2> QED  BY <1>d, <2>1, <2>2, <2>3 DEF TypeOK, IInv
<1>2. FreshAhead'
  BY <1>a, <1>b, <1>c DEF FreshAhead, IInv
<1>3. CallShape'
  <2>1. UNCHANGED <<again, kind, produces, marks, result>>
    BY <1>a
  <2>2. pc'[t] = "drain" => result[t] # NoHandle
    BY <1>e, NoHandleIsNone
  <2> QED  BY <1>0, <1>c, <1>d, <1>e, <2>1, <2>2 DEF CallShape, IInv
<1>4. ResultsArePrivate'
  <2>1. \A u \in Threads : pc'[u] \in {"fetch", "operate"} => pc[u] \in {"fetch", "operate"}
    BY <1>0, <1>d
  <2> QED  BY <1>a, <1>b, <1>c, <2>1 DEF ResultsArePrivate, IInv, Live
<1>5. PendingAreLive'
  <2> SUFFICES ASSUME NEW u \in Threads, NEW x \in Pending(u)'
               PROVE  Spent(u, x)' \/ Available(u, x)'
    BY DEF PendingAreLive
  <2>1. x \in Pending(u) /\ (Spent(u, x) \/ Available(u, x))
    BY <1>c DEF IInv, PendingAreLive
  <2>2. args'[u] \subseteq args[u] /\ (x # h => (x \in args[u] => x \in args'[u]))
    BY <1>a, <1>c DEF IInv, TypeOK
  <2>3. Queued(x)' <=> Queued(x) \/ (x = h /\ entries[h].suh)
    BY <1>b DEF Queued
  <2>4. CASE x = h /\ entries[h].suh
    BY <1>1, <1>a, <1>c, <2>3, <2>4 DEF Spent, Available
  <2>5. CASE x = h /\ ~entries[h].suh
    <3>1. Available(u, x)
      BY <1>0, <2>1, <2>5 DEF Spent, IInv, QueueIsExact
    <3> QED  BY <1>a, <1>b, <2>5, <3>1 DEF Available, Live
  <2>6. CASE x # h /\ Spent(u, x)
    BY <1>a, <1>b, <2>2, <2>3, <2>6 DEF Spent, Live
  <2>7. CASE x # h /\ Available(u, x)
    BY <1>a, <1>b, <1>c, <2>2, <2>3, <2>7 DEF Available, Live
  <2> QED  BY <2>1, <2>4, <2>5, <2>6, <2>7
<1>6. OwnedAreLive'
  BY <1>0, <1>a, <1>b DEF OwnedAreLive, TypeOK, IInv, Live
<1>7. QueueIsExact'
  <2>1. \A x \in Range(queue') : x = h \/ x \in Range(queue)
    BY <1>b
  <2>2. h \in Range(queue') => entries[h].suh /\ owner[h] = Nobody
    BY <1>1, <1>b DEF Available, Queued, IInv, QueueIsExact, QueuedOnce
  <2>3. QueuedOnce'
    BY <1>0, <1>a, <1>b, <2>1, <2>2 DEF QueueIsExact, QueuedOnce, QueueIsSound, IInv, Live
  <2>4. ASSUME NEW x \in Handles, x \in Range(queue')
        PROVE  entries'[x].suh /\ \E u \in Threads : pc'[u] \in BeforeDrain
    <3>1. pc'[t] \in BeforeDrain
      BY <1>d DEF BeforeDrain
    <3>2. CASE x = h
      BY <1>b, <2>2, <2>4, <3>1, <3>2
    <3>3. CASE x # h
      BY <1>b, <2>1, <2>4, <3>1, <3>3 DEF IInv, QueueIsExact, Queued
    <3> QED  BY <3>2, <3>3
  <2> QED  BY <2>3, <2>4 DEF QueueIsExact, Queued
<1>8. AllAccounted'
  <2>0. ~Doomed' => ~Doomed
    BY <1>0, <1>a, <1>d, DoomedStays
  <2> SUFFICES ASSUME ~Doomed, NEW x \in Handles, Live(x)', owner'[x] = Nobody, ~Queued(x)',
                      x \notin abandoned
               PROVE  \E u \in Threads : x \in Pending(u)' \/ result'[u] = x
    BY <2>0, <1>a DEF AllAccounted
  <2>1. Live(x) /\ owner[x] = Nobody /\ ~Queued(x)
    BY <1>a, <1>b DEF Live, Queued
  <2>2. CASE x = h
    BY <1>1, <1>a, <1>b, <2>1, <2>2 DEF Available, Queued
  <2>3. CASE x # h
    BY <1>a, <2>1, <2>3 DEF AllAccounted, TypeOK, IInv, Pending
  <2> QED  BY <2>2, <2>3
<1>9. RoomToCreate'
  <2>1. Creating' \subseteq Creating
    BY <1>0, <1>a, <1>d DEF Creating
  <2> QED  BY <1>a, <2>1, RoomKept DEF IInv
<1>11. OnlyKnownFaults'
  BY <1>a DEF IInv, OnlyKnownFaults, PoliteMods, NoDeadHandle
<1>12. AbandonedAreLost'
  <2>1. h \notin abandoned
    BY <1>0, AbandonedFacts
  <2>2. \A x \in abandoned : Queued(x)' => Queued(x)
    BY <1>b, <2>1 DEF Queued
  <2> QED  BY <1>a, <1>b, <1>c, <2>2, AbandonedKept
<1> QED BY <1>2, <1>3, <1>4, <1>5, <1>6, <1>7, <1>8, <1>9, <1>10, <1>11, <1>12 DEF IInv

LEMMA FetchKeepsIInv ==
    ASSUME IInv, NEW t \in Threads, NEW h \in Handles, Fetch(t, h)
    PROVE  IInv'
<1>1. CASE Live(h)
  BY <1>1, FetchLiveKeepsIInv
<1>2. CASE ~Live(h)
  <2>1. h \in Pending(t) /\ FailOn(h)
    BY <1>2 DEF Fetch, Pending
  <2>2. Spent(t, h)
    BY <1>2, <2>1 DEF IInv, PendingAreLive, Available
  <2> QED  BY <2>1, <2>2, FailOnKeepsIInv DEF Spent, PoliteMods
<1> QED  BY <1>1, <1>2

(* The next handle is new to everything.                                   *)
LEMMA NextIsNew ==
    ASSUME IInv, next \in Handles
    PROVE  /\ entries[next] = NoEntry /\ owner[next] = Nobody /\ ~Queued(next)
           /\ next \notin abandoned
           /\ \A u \in Threads :
                 next \notin InFlight(u) /\ next \notin Pending(u) /\ result[u] # next
<1>1. /\ entries[next] = NoEntry /\ owner[next] = Nobody
      /\ \A u \in Threads : next \notin InFlight(u)
  BY Numbers DEF IInv, FreshAhead
<1>2. ~Queued(next)
  BY <1>1 DEF IInv, QueueIsExact, QueuedOnce, QueueIsSound, Live, Queued
<1>3. \A u \in Threads : next \notin Pending(u)
  BY <1>1 DEF InFlight, Pending
<1>4. \A u \in Threads : result[u] # next
  BY <1>1 DEF IInv, ResultsArePrivate, Live, Handles, NoHandle
<1>5. next \notin abandoned
  BY <1>1, AbandonedFacts DEF Live
<1> QED  BY <1>1, <1>2, <1>3, <1>4, <1>5

(* create_handle() and copy_handle() add one plain entry.                  *)
LEMMA AddFacts ==
    ASSUME IInv, next \in Handles, NEW obj \in Objects, Add([obj |-> obj, suh |-> FALSE])
    PROVE  /\ entries' \in [Handles -> Entry \cup {NoEntry}]
           /\ next' \in 1 .. MaxHandle + 1
           /\ next' = next + 1
           /\ \A h \in Handles : h >= next' <=> h >= next /\ h # next
           /\ \A h \in Handles \ {next} : entries'[h] = entries[h]
           /\ entries'[next] # NoEntry /\ ~entries'[next].suh
<1> DEFINE e == [obj |-> obj, suh |-> FALSE]
<1>1. e \in Entry /\ ~e.suh
  BY DEF Entry
<1>2. e # NoEntry
  BY HandleTableAssumption DEF NoEntry
<1>3. entries \in [Handles -> Entry \cup {NoEntry}]
  BY DEF IInv, TypeOK
<1>4. entries' = [entries EXCEPT ![next] = e] /\ next' = next + 1
  BY DEF Add
<1> HIDE DEF e
<1>5. entries'[next] = e /\ \A h \in Handles \ {next} : entries'[h] = entries[h]
  BY <1>3, <1>4
<1>6. entries' \in [Handles -> Entry \cup {NoEntry}]
  BY <1>1, <1>3, <1>4
<1>7. next \in 1 .. MaxHandle /\ MaxHandle \in Nat
  BY HandleTableAssumption DEF Handles
<1>8. next' \in 1 .. MaxHandle + 1
  BY <1>4, <1>7
<1>9. \A h \in Handles : h >= next' <=> h >= next /\ h # next
  BY <1>4, <1>7 DEF Handles
<1> QED  BY <1>1, <1>2, <1>4, <1>5, <1>6, <1>8, <1>9

LEMMA CreateResultKeepsIInv ==
    ASSUME IInv, NEW t \in Threads, NEW obj \in Objects, CreateResult(t, obj)
    PROVE  IInv'
<1>a. /\ entries' = [entries EXCEPT ![next] = [obj |-> obj, suh |-> FALSE]]
      /\ next' = next + 1
      /\ result' = [result EXCEPT ![t] = next]
      /\ pc' = [pc EXCEPT ![t] = "drain"]
      /\ UNCHANGED <<queue, args, again, held, kind, produces, marks, owner, abandoned, fault>>
  BY DEF CreateResult, Add
<1>b. pc[t] = "create" /\ produces[t] /\ result[t] = NoHandle /\ args[t] = {} /\ again[t] = {}
  BY DEF CreateResult, IInv, CallShape
<1>c. t \in Creating /\ Creating' \subseteq Creating \ {t}
  BY <1>a, <1>b DEF Creating, IInv, TypeOK
<1>d. RoomToCreate' /\ next \in Handles
  BY <1>a, <1>c, RoomUsed DEF IInv
<1>e. /\ entries[next] = NoEntry /\ owner[next] = Nobody /\ ~Queued(next) /\ next \notin abandoned
      /\ \A u \in Threads : next \notin InFlight(u) /\ next \notin Pending(u) /\ result[u] # next
  BY <1>d, NextIsNew
<1>f. /\ entries' \in [Handles -> Entry \cup {NoEntry}]
      /\ next' \in 1 .. MaxHandle + 1
      /\ \A h \in Handles : h >= next' <=> h >= next /\ h # next
      /\ \A h \in Handles \ {next} : entries'[h] = entries[h]
      /\ entries'[next] # NoEntry /\ ~entries'[next].suh
  BY <1>d, AddFacts DEF CreateResult
<1>g. /\ \A u \in Threads : InFlight(u)' = InFlight(u) /\ Pending(u)' = Pending(u)
      /\ result'[t] = next /\ pc'[t] = "drain"
      /\ \A u \in Threads \ {t} : result'[u] = result[u] /\ pc'[u] = pc[u]
  BY <1>a DEF InFlight, Pending, IInv, TypeOK
<1>1. TypeOK'
  BY <1>a, <1>d, <1>f DEF TypeOK, IInv
<1>2. FreshAhead'
  BY <1>a, <1>f, <1>g DEF FreshAhead, IInv
<1>3. CallShape'
  BY <1>a, <1>b, <1>d, <1>g DEF CallShape, IInv, Handles, NoHandle
<1>4. ResultsArePrivate'
  BY <1>a, <1>d, <1>e, <1>f, <1>g DEF ResultsArePrivate, IInv, Live
<1>5. PendingAreLive'
  <2>1. \A u \in Threads : \A x \in Pending(u) : x \in Handles \ {next}
    BY <1>e DEF IInv, TypeOK, Pending
  <2>2. \A u \in Threads : \A x \in Pending(u) : result[u] = x => result'[u] = x
    BY <1>b, <1>g, <2>1, NoHandleIsNone
  <2> QED  BY <1>a, <1>f, <1>g, <2>1, <2>2 DEF PendingAreLive, Spent, Available, IInv, Live, Queued
<1>6. OwnedAreLive'
  BY <1>a, <1>f DEF OwnedAreLive, IInv, Live
<1>7. QueueIsExact'
  <2>1. \A u \in Threads : pc[u] \in BeforeDrain => pc'[u] \in BeforeDrain
    BY <1>g DEF BeforeDrain
  <2> QED  BY <1>a, <1>e, <1>f, <2>1 DEF QueueIsExact, QueuedOnce, QueueIsSound, IInv, Live, Queued
<1>8. AllAccounted'
  <2>0. ~Doomed' => ~Doomed
    BY <1>a, <1>b, <1>g, DoomedStays
  <2> SUFFICES ASSUME ~Doomed, NEW x \in Handles, x # next, Live(x), owner[x] = Nobody, ~Queued(x),
                      x \notin abandoned
               PROVE  \E u \in Threads : x \in Pending(u)' \/ result'[u] = x
    BY <2>0, <1>a, <1>f, <1>g DEF AllAccounted, Live, Queued
  <2>1. PICK u \in Threads : x \in Pending(u) \/ result[u] = x
    BY DEF AllAccounted, IInv
  <2> QED  BY <1>b, <1>g, <2>1, NoHandleIsNone
<1>9. OnlyKnownFaults'
  BY <1>a DEF IInv, OnlyKnownFaults, PoliteMods, NoDeadHandle
<1>10. AbandonedAreLost'
  <2>1. \A x \in abandoned : x \in Handles \ {next}
    BY <1>e, AbandonedFacts
  <2>2. \A x \in abandoned : entries'[x] = entries[x] /\ owner'[x] = owner[x]
    BY <1>a, <1>f, <1>g, <2>1
  <2> QED  BY <1>a, <1>g, <2>2, AbandonedKept DEF Queued
<1> QED  BY <1>1, <1>2, <1>3, <1>4, <1>5, <1>6, <1>7, <1>8, <1>9, <1>10, <1>d DEF IInv

(* The operation succeeds.                                                 *)
LEMMA SucceedKeepsIInv ==
    ASSUME IInv, NEW t \in Threads, pc[t] = "operate", Succeed(t)
    PROVE  IInv'
<1>a. UNCHANGED <<entries, next, queue, args, again, kind, produces, marks, result, owner, abandoned, fault>>
  BY DEF Succeed, table
<1>b. /\ \A u \in Threads \ {t} : pc'[u] = pc[u]
      /\ \A u \in Threads : held'[u] \subseteq held[u]
      /\ pc' \in [Threads -> {"idle", "fetch", "operate", "create", "drain", "mark"}]
      /\ held' \in [Threads -> SUBSET Handles]
      /\ pc'[t] = IF args[t] # {} THEN "fetch" ELSE IF produces[t] THEN "create" ELSE "drain"
  <2>1. /\ pc \in [Threads -> {"idle", "fetch", "operate", "create", "drain", "mark"}]
        /\ held \in [Threads -> SUBSET Handles]
    BY DEF IInv, TypeOK
  <2>2. CASE args[t] # {}
    BY <2>1, <2>2 DEF Succeed
  <2>3. CASE args[t] = {}
    BY <2>1, <2>3 DEF Succeed
  <2> QED  BY <2>2, <2>3
<1>c. \A u \in Threads : InFlight(u)' \subseteq InFlight(u) /\ Pending(u)' = Pending(u)
  BY <1>a, <1>b DEF InFlight, Pending
<1>1. TypeOK'
  BY <1>a, <1>b DEF TypeOK, IInv
<1>2. FreshAhead'
  BY <1>a, <1>c DEF FreshAhead, IInv
<1>3. CallShape'
  BY <1>a, <1>b, <1>c DEF CallShape, IInv
<1>4. ResultsArePrivate'
  <2>1. \A u \in Threads : pc'[u] \in {"fetch", "operate"} => pc[u] \in {"fetch", "operate"}
    BY <1>b
  <2> QED  BY <1>a, <1>c, <2>1 DEF ResultsArePrivate, IInv, Live
<1>5. PendingAreLive'
  BY <1>a, PendingKept DEF IInv, Queued
<1>6. OwnedAreLive'
  BY <1>a DEF OwnedAreLive, IInv, Live
<1>7. QueueIsExact'
  <2>1. \A u \in Threads : pc[u] \in BeforeDrain => pc'[u] \in BeforeDrain
    BY <1>b DEF BeforeDrain
  <2> QED  BY <1>a, <2>1 DEF QueueIsExact, QueuedOnce, QueueIsSound, IInv, Live, Queued
<1>8. AllAccounted'
  <2>1. ~Doomed' => ~Doomed
    BY <1>a, <1>b, DoomedStays
  <2> QED  BY <1>a, <1>c, <2>1 DEF AllAccounted, IInv, Live, Queued
<1>9. RoomToCreate'
  <2>1. Creating' \subseteq Creating
    BY <1>a, <1>b DEF Creating
  <2> QED  BY <1>a, <2>1, RoomKept DEF IInv
<1>10. OnlyKnownFaults'
  BY <1>a DEF IInv, OnlyKnownFaults, PoliteMods, NoDeadHandle
<1>11. AbandonedAreLost'
  BY <1>a, <1>c, AbandonedKept DEF Queued
<1> QED  BY <1>1, <1>2, <1>3, <1>4, <1>5, <1>6, <1>7, <1>8, <1>9, <1>10, <1>11 DEF IInv

(* It raises.  The arguments left are plain and owned, or Single-Use, not  *)
(* queued, and abandoned from now on.                                      *)
LEMMA RaiseKeepsIInv ==
    ASSUME IInv, NEW t \in Threads, pc[t] = "operate", Raise(t)
    PROVE  IInv'
<1>a. /\ UNCHANGED <<entries, next, queue, again, held, kind, produces, marks, owner, fault>>
      /\ marks[t] => NestedErrors
      /\ abandoned' = abandoned \cup GivenUp(args[t])
  BY DEF Raise, table
<1>b. /\ \A u \in Threads \ {t} :
            pc'[u] = pc[u] /\ args'[u] = args[u] /\ result'[u] = result[u]
      /\ pc'[t] = "drain" /\ args'[t] = {} /\ result'[t] = NoHandle
      /\ pc' \in [Threads -> {"idle", "fetch", "operate", "create", "drain", "mark"}]
      /\ args' \in [Threads -> SUBSET Handles]
      /\ result' \in [Threads -> Handles \cup {NoHandle}]
  BY DEF Raise, IInv, TypeOK
<1>c. /\ args[t] = {} \/ again[t] = {}
      /\ again[t] # {} => result[t] = NoHandle
      /\ args[t] \subseteq Handles /\ again[t] \subseteq Handles
  BY DEF IInv, CallShape, TypeOK
<1>d. /\ \A u \in Threads : InFlight(u)' \subseteq InFlight(u)
      /\ \A u \in Threads : args'[u] \subseteq args[u] /\ again'[u] = again[u]
      /\ \A u \in Threads : Pending(u)' \subseteq Pending(u)
      /\ \A u \in Threads \ {t} : Pending(u)' = Pending(u)
      /\ Pending(t)' = again[t]
  BY <1>a, <1>b DEF InFlight, Pending
<1>e. \A h \in args[t] : Live(h) => Available(t, h)
  BY DEF IInv, PendingAreLive, Spent, Pending
<1>f. \A h \in GivenUp(args[t]) :
        /\ h \in args[t] /\ Live(h) /\ entries[h].suh
        /\ owner[h] = Nobody /\ ~Queued(h)
        /\ \A u \in Threads \ {t} : h \notin Pending(u)
  <2> SUFFICES ASSUME NEW h \in GivenUp(args[t])
               PROVE  /\ h \in args[t] /\ Live(h) /\ entries[h].suh
                      /\ owner[h] = Nobody /\ ~Queued(h)
                      /\ \A u \in Threads \ {t} : h \notin Pending(u)
    OBVIOUS
  <2>1. h \in args[t] /\ entries[h].suh /\ h \in Handles
    BY <1>c DEF GivenUp
  <2>2. Live(h)
    BY <2>1 DEF Live, NoEntry
  <2> QED  BY <1>e, <2>1, <2>2 DEF Available
<1>1. TypeOK'
  <2>1. abandoned' \in SUBSET Handles
    BY <1>a, <1>c, <1>f DEF IInv, TypeOK
  <2> QED  BY <1>a, <1>b, <2>1 DEF TypeOK, IInv
<1>2. FreshAhead'
  BY <1>a, <1>d DEF FreshAhead, IInv
<1>3. CallShape'
  BY <1>a, <1>b, <1>d DEF CallShape, IInv
<1>4. ResultsArePrivate'
  <2>1. \A u \in Threads : \A h \in Handles : result'[u] = h => u # t /\ result[u] = h
    BY <1>b, NoHandleIsNone
  <2> QED  BY <1>a, <1>b, <1>d, <2>1, NoHandleIsNone DEF ResultsArePrivate, IInv, Live
<1>5. PendingAreLive'
  <2> SUFFICES ASSUME NEW u \in Threads, NEW h \in Pending(u)'
               PROVE  Spent(u, h)' \/ Available(u, h)'
    BY DEF PendingAreLive
  <2>1. args'[u] = args[u] /\ (result[u] = h => result'[u] = h) /\ h \in Pending(u)
    <3>1. CASE u # t
      BY <1>b, <1>d, <3>1
    <3>2. CASE u = t
      <4>1. h \in again[t]
        BY <1>d, <3>2
      <4> QED  BY <1>b, <1>c, <1>d, <3>2, <4>1, NoHandleIsNone
    <3> QED  BY <3>1, <3>2
  <2>2. Spent(u, h) => Spent(u, h)'
    BY <1>a, <2>1 DEF Spent, Live, Queued
  <2>3. Available(u, h) => Available(u, h)'
    BY <1>a, <1>d, <2>1 DEF Available, Live, Queued
  <2> QED  BY <2>1, <2>2, <2>3 DEF IInv, PendingAreLive
<1>6. OwnedAreLive'
  BY <1>a DEF OwnedAreLive, IInv, Live
<1>7. QueueIsExact'
  <2>1. \A u \in Threads : pc[u] \in BeforeDrain => pc'[u] \in BeforeDrain
    BY <1>b DEF BeforeDrain
  <2> QED  BY <1>a, <2>1 DEF QueueIsExact, QueuedOnce, QueueIsSound, IInv, Live, Queued
<1>8. AllAccounted'
  <2>0. ~Doomed' => ~Doomed /\ ~marks[t]
    <3>1. ~Doomed' => ~Doomed
      BY <1>a, <1>b, DoomedStays
    <3>2. ~Doomed' => ~marks[t]
      BY <1>a, <1>b DEF Doomed
    <3> QED  BY <3>1, <3>2
  <2> SUFFICES ASSUME ~Doomed, ~marks[t], NEW x \in Handles, Live(x), owner[x] = Nobody, ~Queued(x),
                      x \notin abandoned, x \notin GivenUp(args[t])
               PROVE  \E u \in Threads : x \in Pending(u)' \/ result'[u] = x
    BY <1>a, <2>0 DEF AllAccounted, Live, Queued
  <2>1. PICK u \in Threads : x \in Pending(u) \/ result[u] = x
    BY DEF AllAccounted, IInv
  <2>2. result[t] # x
    BY NobodyIsNone DEF IInv, ResultsArePrivate
  <2>3. x \notin args[t]
    BY <1>e, <2>2 DEF Available, GivenUp
  <2> QED  BY <1>b, <1>d, <2>1, <2>2, <2>3 DEF Pending
<1>9. RoomToCreate'
  <2>1. Creating' \subseteq Creating
    BY <1>a, <1>b DEF Creating
  <2> QED  BY <1>a, <2>1, RoomKept DEF IInv
<1>10. OnlyKnownFaults'
  BY <1>a DEF IInv, OnlyKnownFaults, PoliteMods, NoDeadHandle
<1>11. AbandonedAreLost'
  <2> SUFFICES ASSUME NEW h \in abandoned'
               PROVE  /\ Live(h)' /\ entries'[h].suh
                      /\ owner'[h] = Nobody /\ ~Queued(h)'
                      /\ \A u \in Threads : h \notin Pending(u)'
    BY DEF AbandonedAreLost
  <2>1. /\ Live(h) /\ entries[h].suh /\ owner[h] = Nobody /\ ~Queued(h)
        /\ \A u \in Threads : h \notin Pending(u)'
    <3>1. CASE h \in abandoned
      BY <1>d, <3>1, AbandonedFacts
    <3>2. CASE h \in GivenUp(args[t])
      <4>1. Pending(t)' = {}
        BY <1>c, <1>d, <1>f, <3>2
      <4> QED  BY <1>d, <1>f, <3>2, <4>1
    <3> QED  BY <1>a, <3>1, <3>2
  <2> QED  BY <1>a, <2>1 DEF Live, Queued
<1> QED  BY <1>1, <1>2, <1>3, <1>4, <1>5, <1>6, <1>7, <1>8, <1>9, <1>10, <1>11 DEF IInv

LEMMA OperateKeepsIInv ==
    ASSUME IInv, NEW t \in Threads, Operate(t)
    PROVE  IInv'
<1>1. CASE \E h \in held[t] : ~Live(h)
  <2>1. fault' = "stale pointer" /\ UNCHANGED <<table, call, owner, abandoned>>
    BY <1>1 DEF Operate
  <2> QED  BY <2>1, SameTableIInv DEF table, call
<1>2. CASE Succeed(t)
  BY <1>2, SucceedKeepsIInv DEF Operate
<1>3. CASE Raise(t)
  BY <1>3, RaiseKeepsIInv DEF Operate
<1>4. CASE Escape(t)
  BY <1>4, SameTableIInv DEF Escape, table, call
<1> QED  BY <1>1, <1>2, <1>3, <1>4 DEF Operate

(* A call that begins.  What is given up is its Single-Use arguments, and  *)
(* the handle r that it will return and make Single-Use, if there is one.  *)
Begins(t, k, as, second, p, m, r) ==
    /\ pc[t] = "idle"
    /\ \A h \in as \cup second : MayPass(t, h)
    /\ \A h \in second : h \in as /\ (entries[h].suh => SingleUseBuffers)
    /\ p => MayCreate /\ r = NoHandle
    /\ m => p \/ r # NoHandle
    /\ second # {} => ~p /\ ~m /\ r = NoHandle /\ k # "loop"
    /\ r # NoHandle => owner[r] = t /\ ~entries[r].suh
    /\ r # NoHandle /\ m => ~UsedElsewhere(t, r)
    /\ Enter(t, k, as, second)
    /\ produces' = [produces EXCEPT ![t] = p]
    /\ marks' = [marks EXCEPT ![t] = m]
    /\ result' = [result EXCEPT ![t] = r]
    /\ owner' = [h \in Handles |->
                    IF (h \in as /\ entries[h].suh) \/ (m /\ h = r) THEN Nobody ELSE owner[h]]

LEMMA BeginKeepsIInv ==
    ASSUME IInv, NEW t \in Threads,
           NEW k \in Kinds, NEW as \in SUBSET Handles, NEW second \in SUBSET Handles,
           NEW p \in BOOLEAN, NEW m \in BOOLEAN, NEW r \in Handles \cup {NoHandle},
           Begins(t, k, as, second, p, m, r)
    PROVE  IInv'
<1> USE DEF Begins
<1>a. /\ pc[t] = "idle"
      /\ pc' = [pc EXCEPT ![t] = "fetch"]
      /\ kind' = [kind EXCEPT ![t] = k]
      /\ args' = [args EXCEPT ![t] = as]
      /\ again' = [again EXCEPT ![t] = second]
      /\ UNCHANGED <<entries, next, queue, held, abandoned, fault>>
  BY DEF Enter, table
<1>b. /\ InFlight(t) = {} /\ Pending(t) = {}
      /\ ~produces[t] /\ ~marks[t] /\ result[t] = NoHandle
  BY DEF IInv, CallShape, InFlight, Pending
<1>c. /\ \A u \in Threads \ {t} :
           /\ pc'[u] = pc[u] /\ args'[u] = args[u] /\ again'[u] = again[u]
           /\ kind'[u] = kind[u]
           /\ produces'[u] = produces[u] /\ marks'[u] = marks[u] /\ result'[u] = result[u]
      /\ pc'[t] = "fetch" /\ kind'[t] = k /\ args'[t] = as /\ again'[t] = second
      /\ produces'[t] = p /\ marks'[t] = m /\ result'[t] = r
  BY <1>a DEF IInv, TypeOK
<1>d. /\ \A u \in Threads \ {t} : InFlight(u)' = InFlight(u) /\ Pending(u)' = Pending(u)
      /\ InFlight(t)' = as \cup second /\ Pending(t)' = as \cup second
  BY <1>a, <1>b, <1>c DEF InFlight, Pending
<1>e. \A h \in Handles :
         owner'[h] = IF (h \in as /\ entries[h].suh) \/ (m /\ h = r) THEN Nobody ELSE owner[h]
  OBVIOUS
<1>f. \A h \in as \cup second :
        /\ Live(h) /\ owner[h] # Nobody /\ ~Queued(h)
        /\ entries[h].suh => owner[h] = t /\ \A u \in Threads : h \notin Pending(u)
  <2> SUFFICES ASSUME NEW h \in as \cup second
               PROVE  /\ Live(h) /\ owner[h] # Nobody /\ ~Queued(h)
                      /\ entries[h].suh =>
                            owner[h] = t /\ \A u \in Threads : h \notin Pending(u)
    OBVIOUS
  <2>1. owner[h] # Nobody /\ (entries[h].suh => owner[h] = t)
    BY HandleTableAssumption DEF MayPass
  <2>2. Live(h) /\ ~Queued(h)
    BY <2>1 DEF IInv, OwnedAreLive, QueueIsExact, QueuedOnce, Queued
  <2>3. entries[h].suh => \A u \in Threads : h \notin Pending(u)
    BY <2>1, <2>2 DEF IInv, PendingAreLive, Spent, Available
  <2> QED  BY <2>1, <2>2, <2>3
<1>g. r # NoHandle => Live(r) /\ \A u \in Threads : result[u] # r
  <2>1. r # NoHandle => owner[r] # Nobody
    BY HandleTableAssumption
  <2> QED  BY <1>b, <2>1, HandleTableAssumption DEF IInv, OwnedAreLive, ResultsArePrivate
<1>1. TypeOK'
  <2>1. owner' \in [Handles -> Threads \cup {Nobody}]
    BY DEF IInv, TypeOK
  <2> QED  BY <1>a, <2>1 DEF IInv, TypeOK, Kinds
<1>2. FreshAhead'
  <2> SUFFICES ASSUME NEW h \in Handles, h >= next
               PROVE  /\ entries[h] = NoEntry /\ owner'[h] = Nobody
                      /\ \A u \in Threads : h \notin InFlight(u)'
    BY <1>a DEF FreshAhead
  <2>1. /\ entries[h] = NoEntry /\ owner[h] = Nobody
        /\ \A u \in Threads : h \notin InFlight(u)
    BY DEF IInv, FreshAhead
  <2>2. h \notin as \cup second
    BY <1>f, <2>1
  <2> QED  BY <1>d, <1>e, <2>1, <2>2
<1>3. CallShape'
  BY <1>c, <1>d DEF IInv, CallShape
<1>4. ResultsArePrivate'
  <2> SUFFICES ASSUME NEW u \in Threads, NEW h \in Handles, result'[u] = h
               PROVE  /\ Live(h) /\ ~entries[h].suh
                      /\ owner'[h] \in {u, Nobody}
                      /\ marks'[u] => owner'[h] = Nobody
                      /\ pc'[u] \in {"fetch", "operate"} /\ ~marks'[u] => owner'[h] = u
                      /\ \A v \in Threads \ {u} :
                            /\ result'[v] # h
                            /\ owner'[h] = Nobody => h \notin InFlight(v)'
    BY <1>a DEF ResultsArePrivate, Live
  <2>1. CASE u = t
    <3>1. h = r /\ r # NoHandle
      BY <1>c, <2>1, NoHandleIsNone
    <3>2. owner'[h] = (IF m THEN Nobody ELSE t) /\ ~entries[h].suh /\ Live(h)
      BY <1>e, <1>g, <3>1
    <3>3. \A v \in Threads \ {t} : result'[v] # h /\ (m => h \notin InFlight(v)')
      BY <1>c, <1>d, <1>g, <3>1 DEF UsedElsewhere
    <3>4. marks'[u] = m /\ owner'[h] \in {u, Nobody} /\ (owner'[h] = Nobody <=> m)
      <4>1. marks'[t] = m /\ t # Nobody
        BY <1>c, NobodyIsNone
      <4> QED  BY <2>1, <3>2, <4>1
    <3>5. ~marks'[u] => owner'[h] = u
      BY <2>1, <3>2, <3>4
    <3>6. \A v \in Threads \ {u} :
             result'[v] # h /\ (owner'[h] = Nobody => h \notin InFlight(v)')
      BY <2>1, <3>3, <3>4
    <3> QED  BY <3>2, <3>4, <3>5, <3>6
  <2>2. CASE u # t
    <3>1. result[u] = h /\ marks'[u] = marks[u] /\ pc'[u] = pc[u]
      BY <1>c, <2>2
    <3>2. /\ Live(h) /\ ~entries[h].suh
          /\ owner[h] \in {u, Nobody}
          /\ marks[u] => owner[h] = Nobody
          /\ pc[u] \in {"fetch", "operate"} /\ ~marks[u] => owner[h] = u
          /\ \A v \in Threads \ {u} :
                result[v] # h /\ (owner[h] = Nobody => h \notin InFlight(v))
      BY <3>1 DEF IInv, ResultsArePrivate
    <3>3. h # r
      BY <1>g, <3>1, NoHandleIsNone
    <3>4. owner'[h] = owner[h]
      BY <1>e, <3>2, <3>3
    <3>5. owner[h] = Nobody => h \notin as \cup second
      BY <1>f
    <3>6. ASSUME NEW v \in Threads \ {u}
          PROVE  result'[v] # h /\ (owner'[h] = Nobody => h \notin InFlight(v)')
      <4>1. CASE v = t
        BY <1>c, <1>d, <3>3, <3>4, <3>5, <4>1
      <4>2. CASE v # t
        <5>1. result[v] # h /\ (owner[h] = Nobody => h \notin InFlight(v))
          BY <3>2
        <5>2. result'[v] = result[v] /\ InFlight(v)' = InFlight(v)
          BY <1>c, <1>d, <4>2
        <5> QED  BY <3>4, <5>1, <5>2
      <4> QED  BY <4>1, <4>2
    <3> QED  BY <3>1, <3>2, <3>4, <3>6
  <2> QED  BY <2>1, <2>2
<1>5. PendingAreLive'
  <2> SUFFICES ASSUME NEW u \in Threads, NEW h \in Pending(u)'
               PROVE  Spent(u, h)' \/ Available(u, h)'
    BY DEF PendingAreLive
  <2>1. CASE u = t
    <3>1. h \in as \cup second
      BY <1>d, <2>1
    <3>2. /\ entries[h].suh => owner'[h] = Nobody
          /\ ~entries[h].suh => owner'[h] # Nobody \/ result'[t] = h
      BY <1>c, <1>e, <1>f, <3>1
    <3>3. entries[h].suh => \A v \in Threads \ {t} : h \notin Pending(v)'
      <4>1. entries[h].suh => \A v \in Threads : h \notin Pending(v)
        BY <1>f, <3>1
      <4>2. \A v \in Threads \ {t} : Pending(v)' = Pending(v)
        BY <1>d
      <4> QED  BY <4>1, <4>2
    <3>4. Live(h)' /\ ~Queued(h)' /\ entries' = entries
      BY <1>a, <1>f, <3>1 DEF Live, Queued
    <3>5. h \in again'[t] /\ entries[h].suh => SingleUseBuffers /\ h \in args'[t]
      BY <1>c
    <3> QED  BY <2>1, <3>2, <3>3, <3>4, <3>5 DEF Available
  <2>2. CASE u # t
    <3>1. h \in Pending(u) /\ h \in InFlight(u) /\ h \in Handles
      BY <1>d, <2>2 DEF Pending, InFlight, IInv, TypeOK
    <3>2. m => h # r
      BY <2>2, <3>1, NoHandleIsNone DEF UsedElsewhere
    <3>3. CASE Spent(u, h)
      <4>1. owner'[h] = Nobody
        BY <1>e, <3>1, <3>3 DEF Spent
      <4> QED  BY <1>a, <1>c, <2>2, <3>3, <4>1 DEF Spent, Live, Queued
    <3>4. CASE Available(u, h)
      <4>1. ~entries[h].suh => owner'[h] # Nobody \/ result'[u] = h
        BY <1>c, <1>e, <2>2, <3>1, <3>2, <3>4 DEF Available
      <4>2. entries[h].suh => owner'[h] = Nobody /\ h \notin as \cup second
        BY <1>e, <1>f, <3>1, <3>4 DEF Available
      <4>3. entries[h].suh => \A v \in Threads \ {u} : h \notin Pending(v)'
        BY <1>d, <3>4, <4>2 DEF Available
      <4> QED  BY <1>a, <1>c, <2>2, <3>4, <4>1, <4>2, <4>3 DEF Available, Live, Queued
    <3> QED  BY <3>1, <3>3, <3>4 DEF IInv, PendingAreLive
  <2> QED  BY <2>1, <2>2
<1>6. OwnedAreLive'
  BY <1>a, <1>e DEF IInv, OwnedAreLive, Live
<1>7. QueueIsExact'
  <2>1. \A u \in Threads : pc[u] \in BeforeDrain => pc'[u] \in BeforeDrain
    BY <1>c DEF BeforeDrain
  <2>2. \A h \in Range(queue) : h \in Handles /\ owner'[h] = Nobody
    BY <1>e DEF IInv, QueueIsExact, QueuedOnce, QueueIsSound, Live
  <2> QED  BY <1>a, <2>1, <2>2 DEF IInv, QueueIsExact, QueuedOnce, QueueIsSound, Live, Queued
<1>8. AllAccounted'
  <2>0. ~Doomed' => ~Doomed
    BY <1>a, <1>c, DoomedStays
  <2> SUFFICES ASSUME ~Doomed, NEW x \in Handles, Live(x), owner'[x] = Nobody, ~Queued(x),
                      x \notin abandoned
               PROVE  \E u \in Threads : x \in Pending(u)' \/ result'[u] = x
    BY <1>a, <2>0 DEF AllAccounted, Live, Queued
  <2>1. CASE owner[x] = Nobody
    <3>1. PICK u \in Threads : x \in Pending(u) \/ result[u] = x
      BY <2>1 DEF IInv, AllAccounted
    <3> QED  BY <1>b, <1>c, <1>d, <3>1, NoHandleIsNone
  <2>2. CASE owner[x] # Nobody
    BY <1>c, <1>d, <1>e, <2>2
  <2> QED  BY <2>1, <2>2
<1>9. RoomToCreate'
  <2>1. CASE p
    <3>1. Creating' \subseteq Creating \cup {t}
      BY <1>c DEF Creating
    <3> QED  BY <1>a, <2>1, <3>1, RoomClaimed DEF IInv
  <2>2. CASE ~p
    <3>1. Creating' \subseteq Creating
      BY <1>c, <2>2 DEF Creating
    <3> QED  BY <1>a, <3>1, RoomKept DEF IInv
  <2> QED  BY <2>1, <2>2
<1>10. OnlyKnownFaults'
  BY <1>a DEF IInv, OnlyKnownFaults, PoliteMods, NoDeadHandle
<1>11. AbandonedAreLost'
  <2> SUFFICES ASSUME NEW x \in abandoned
               PROVE  owner'[x] = owner[x] /\ \A u \in Threads : x \in Pending(u)' => x \in Pending(u)
    BY <1>a, AbandonedKept DEF Queued
  <2>1. owner[x] = Nobody /\ x \in Handles
    BY AbandonedFacts
  <2>2. x \notin as \cup second
    BY <1>f, <2>1
  <2> QED  BY <1>d, <1>e, <2>1, <2>2
<1> QED  BY <1>1, <1>2, <1>3, <1>4, <1>5, <1>6, <1>7, <1>8, <1>9, <1>10, <1>11 DEF IInv

LEMMA BeginUseKeepsIInv ==
    ASSUME IInv, NEW t \in Threads, NEW as \in ArgumentSets,
           NEW f \in Signatures[Cardinality(as)], BeginUse(t, as, f)
    PROVE  IInv'
<1>1. as \in SUBSET Handles /\ f.kind \in Kinds /\ f.creates \in BOOLEAN /\ f.marks \in BOOLEAN
      /\ (f.marks => f.creates)
  BY SignaturesType
<1>2. result' = [result EXCEPT ![t] = NoHandle]
  BY DEF BeginUse, IInv, CallShape, TypeOK
<1>3. owner' = [h \in Handles |->
                  IF (h \in as /\ entries[h].suh) \/ (f.marks /\ h = NoHandle)
                  THEN Nobody ELSE owner[h]]
  BY <1>1, NoHandleIsNone DEF BeginUse, GiveUp, GivenUp
<1>4. Begins(t, f.kind, as, {}, f.creates, f.marks, NoHandle)
  BY <1>1, <1>2, <1>3 DEF BeginUse, Begins
<1> QED  BY <1>1, <1>4, BeginKeepsIInv

LEMMA BeginVariadicLocalsKeepsIInv ==
    ASSUME IInv, NEW t \in Threads, NEW dict \in Handles,
           NEW as \in SUBSET Handles, NEW m \in BOOLEAN, BeginVariadicLocals(t, dict, as, m)
    PROVE  IInv'
<1>1. /\ pc[t] = "idle" /\ owner[dict] = t /\ ~entries[dict].suh
      /\ m => ~UsedElsewhere(t, dict)
      /\ \A h \in as \cup {dict} : MayPass(t, h)
      /\ Enter(t, "loop", as \cup {dict}, {})
      /\ result' = [result EXCEPT ![t] = dict]
      /\ marks' = [marks EXCEPT ![t] = m]
  BY DEF BeginVariadicLocals, MayPass, MayRelease
<1>2. produces' = [produces EXCEPT ![t] = FALSE]
  BY DEF BeginVariadicLocals, IInv, CallShape, TypeOK
<1>3. owner' = [h \in Handles |->
                  IF (h \in as \cup {dict} /\ entries[h].suh) \/ (m /\ h = dict)
                  THEN Nobody ELSE owner[h]]
  BY <1>1 DEF BeginVariadicLocals, GiveUp, GivenUp
<1>4. Begins(t, "loop", as \cup {dict}, {}, FALSE, m, dict)
  BY <1>1, <1>2, <1>3, NoHandleIsNone DEF Begins
<1> QED  BY <1>4, BeginKeepsIInv DEF Kinds

LEMMA BeginAllocAndCopyBufferKeepsIInv ==
    ASSUME IInv, NEW t \in Threads, NEW h \in Handles,
           BeginAllocAndCopyBuffer(t, h)
    PROVE  IInv'
<1>1. /\ pc[t] = "idle" /\ MayPass(t, h)
      /\ entries[h].suh => SingleUseBuffers
      /\ Enter(t, "cast", {h}, {h})
  BY DEF BeginAllocAndCopyBuffer
<1>2. /\ produces' = [produces EXCEPT ![t] = FALSE]
      /\ marks' = [marks EXCEPT ![t] = FALSE]
      /\ result' = [result EXCEPT ![t] = NoHandle]
  BY <1>1 DEF BeginAllocAndCopyBuffer, IInv, CallShape, TypeOK
<1>3. owner' = [x \in Handles |->
                  IF (x \in {h} /\ entries[x].suh) \/ (FALSE /\ x = NoHandle)
                  THEN Nobody ELSE owner[x]]
  BY <1>1 DEF BeginAllocAndCopyBuffer, GiveUp, GivenUp
<1>4. Begins(t, "cast", {h}, {h}, FALSE, FALSE, NoHandle)
  BY <1>1, <1>2, <1>3 DEF Begins
<1> QED  BY <1>4, BeginKeepsIInv DEF Kinds

LEMMA CreateNothingKeepsIInv ==
    ASSUME IInv, NEW t \in Threads, NEW f \in ApiFunctions, CreateNothing(t, f)
    PROVE  IInv'
<1>1. f.marks \in BOOLEAN /\ (f.marks => NestedErrors)
  BY ApiFunctionsType DEF CreateNothing
<1>2. /\ UNCHANGED <<entries, next, queue, args, again, held, kind, produces, result, owner, abandoned, fault>>
      /\ pc' = [pc EXCEPT ![t] = Rest(f, "raised")]
      /\ marks' = [marks EXCEPT ![t] = f.marks]
      /\ pc[t] = "idle"
      /\ InFlight(t) = {} /\ ~produces[t] /\ ~marks[t] /\ result[t] = NoHandle
  BY DEF CreateNothing, table, IInv, CallShape
<1>3. /\ Rest(f, "raised") \in {"drain", "mark", "idle"}
      /\ Rest(f, "raised") = "mark" => f.marks
      /\ Rest(f, "raised") = "idle" => ~f.marks
  BY <1>1 DEF Rest
<1>4. /\ \A u \in Threads \ {t} : pc'[u] = pc[u] /\ marks'[u] = marks[u]
      /\ pc'[t] = Rest(f, "raised") /\ marks'[t] = f.marks
      /\ pc' \in [Threads -> {"idle", "fetch", "operate", "create", "drain", "mark"}]
      /\ marks' \in [Threads -> BOOLEAN]
  BY <1>1, <1>2, <1>3 DEF IInv, TypeOK
<1>5. TypeOK'
  BY <1>2, <1>3, <1>4 DEF IInv, TypeOK
<1>6. FreshAhead'
  BY <1>2 DEF IInv, FreshAhead, InFlight
<1>7. CallShape'
  BY <1>1, <1>2, <1>3, <1>4 DEF IInv, CallShape, InFlight
<1>8. ResultsArePrivate'
  <2>1. \A u \in Threads : \A h \in Handles : result[u] = h => u # t
    BY <1>2, NoHandleIsNone
  <2> QED  BY <1>2, <1>4, <2>1 DEF IInv, ResultsArePrivate, InFlight, Live
<1>9. PendingAreLive'
  BY <1>2, PendingKept DEF IInv, Queued
<1>10. OwnedAreLive'
  BY <1>2 DEF IInv, OwnedAreLive, Live
<1>11. QueueIsExact'
  BY <1>2, <1>4 DEF BeforeDrain, IInv, QueueIsExact, QueuedOnce, QueueIsSound, Live, Queued
<1>12. AllAccounted'
  <2>1. ~Doomed' => ~Doomed
    BY <1>2, <1>4, DoomedStays
  <2> QED  BY <1>2, <2>1 DEF IInv, AllAccounted, Live, Pending, Queued
<1>13. OnlyKnownFaults'
  BY <1>2 DEF IInv, OnlyKnownFaults, PoliteMods, NoDeadHandle
<1>14. RoomToCreate'
  BY <1>2, <1>3, <1>4, RoomKept DEF IInv, Creating
<1>15. AbandonedAreLost'
  BY <1>2, AbandonedKept DEF Queued, Pending
<1> QED  BY <1>5, <1>6, <1>7, <1>8, <1>9, <1>10, <1>11, <1>12, <1>13, <1>14, <1>15 DEF IInv

LEMMA ReleaseKeepsIInv ==
    ASSUME IInv, NEW t \in Threads, NEW h \in Handles, Release(t, h)
    PROVE  IInv'
<1>1. /\ pc[t] = "idle" /\ owner[h] = t /\ ~UsedElsewhere(t, h)
      /\ Live(h) /\ owner[h] # Nobody
  BY NobodyIsNone DEF Release, MayRelease, IInv, OwnedAreLive
<1>2. /\ entries' = [entries EXCEPT ![h] = NoEntry]
      /\ owner' = [owner EXCEPT ![h] = Nobody]
      /\ UNCHANGED <<next, queue, pc, args, again, held, kind, produces, marks, result, abandoned, fault>>
  BY <1>1 DEF Release, FailOn, call
<1>3. /\ \A x \in Handles \ {h} : entries'[x] = entries[x] /\ owner'[x] = owner[x]
      /\ entries'[h] = NoEntry /\ owner'[h] = Nobody
  BY <1>2 DEF IInv, TypeOK
<1>4. \A u \in Threads : h \notin InFlight(u) /\ h \notin Pending(u) /\ result[u] # h
  <2>1. InFlight(t) = {} /\ result[t] # h
    BY <1>1, NoHandleIsNone DEF IInv, CallShape
  <2>2. \A u \in Threads : h \notin InFlight(u)
    BY <1>1, <2>1 DEF UsedElsewhere
  <2>3. \A u \in Threads : result[u] # h
    BY <1>1, <2>1 DEF IInv, ResultsArePrivate
  <2> QED  BY <2>2, <2>3 DEF InFlight, Pending
<1>5. ~Queued(h)
  BY <1>1 DEF IInv, QueueIsExact, QueuedOnce, Queued
<1>6. \A u \in Threads : InFlight(u)' = InFlight(u) /\ Pending(u)' = Pending(u)
  BY <1>2 DEF InFlight, Pending
<1>7. TypeOK'
  BY <1>2 DEF IInv, TypeOK
<1>8. FreshAhead' /\ CallShape'
  BY <1>2, <1>3, <1>6 DEF IInv, FreshAhead, CallShape
<1>9. ResultsArePrivate'
  BY <1>2, <1>3, <1>4, <1>6 DEF IInv, ResultsArePrivate, Live
<1>10. PendingAreLive'
  <2>1. \A u \in Threads : \A x \in Pending(u) : x \in Handles \ {h}
    BY <1>4 DEF IInv, TypeOK, Pending
  <2> QED  BY <1>2, <1>3, <2>1, PendingKept DEF IInv, Queued
<1>11. OwnedAreLive' /\ OnlyKnownFaults'
  BY <1>2, <1>3 DEF IInv, OwnedAreLive, OnlyKnownFaults, PoliteMods, NoDeadHandle, Live
<1>12. QueueIsExact'
  <2>1. \A x \in Range(queue) : x \in Handles \ {h}
    BY <1>5 DEF IInv, QueueIsExact, QueuedOnce, QueueIsSound, Live, Queued
  <2> QED  BY <1>2, <1>3, <2>1 DEF IInv, QueueIsExact, QueuedOnce, QueueIsSound, Live, Queued
<1>13. AllAccounted'
  BY <1>2, <1>3, <1>6 DEF IInv, AllAccounted, Doomed, Live, Queued
<1>14. RoomToCreate'
  BY <1>2, RoomKept DEF IInv, Creating
<1>15. AbandonedAreLost'
  <2>1. \A x \in abandoned : x \in Handles \ {h}
    BY <1>1, AbandonedFacts
  <2> QED  BY <1>2, <1>3, <1>6, <2>1, AbandonedKept DEF Queued
<1> QED  BY <1>7, <1>8, <1>9, <1>10, <1>11, <1>12, <1>13, <1>14, <1>15 DEF IInv

LEMMA SetSUHKeepsIInv ==
    ASSUME IInv, NEW t \in Threads, NEW h \in Handles, NEW value \in BOOLEAN,
           SetSUH(t, h, value)
    PROVE  IInv'
<1>1. /\ pc[t] = "idle" /\ owner[h] = t /\ ~UsedElsewhere(t, h)
      /\ Live(h) /\ owner[h] # Nobody
  BY NobodyIsNone DEF SetSUH, MayRelease, IInv, OwnedAreLive
<1>2. /\ entries' = [entries EXCEPT ![h].suh = value]
      /\ UNCHANGED <<next, queue, owner, pc, args, again, held, kind, produces, marks, result, abandoned, fault>>
  BY <1>1 DEF SetSUH, SetSingleUse, FailOn, call
<1>3. /\ \A x \in Handles \ {h} : entries'[x] = entries[x]
      /\ entries'[h] # NoEntry
      /\ entries' \in [Handles -> Entry \cup {NoEntry}]
  <2>1. entries \in [Handles -> Entry \cup {NoEntry}] /\ entries[h] # NoEntry
    BY <1>1 DEF IInv, TypeOK, Live
  <2> QED  BY <1>2, <2>1, EntrySetSUH
<1>4. \A u \in Threads : h \notin InFlight(u) /\ h \notin Pending(u) /\ result[u] # h
  <2>1. InFlight(t) = {} /\ result[t] # h
    BY <1>1, NoHandleIsNone DEF IInv, CallShape
  <2>2. \A u \in Threads : h \notin InFlight(u)
    BY <1>1, <2>1 DEF UsedElsewhere
  <2>3. \A u \in Threads : result[u] # h
    BY <1>1, <2>1 DEF IInv, ResultsArePrivate
  <2> QED  BY <2>2, <2>3 DEF InFlight, Pending
<1>5. ~Queued(h)
  BY <1>1 DEF IInv, QueueIsExact, QueuedOnce, Queued
<1>6. \A u \in Threads : InFlight(u)' = InFlight(u) /\ Pending(u)' = Pending(u)
  BY <1>2 DEF InFlight, Pending
<1>7. TypeOK'
  BY <1>2, <1>3 DEF IInv, TypeOK
<1>8. FreshAhead' /\ CallShape'
  <2>1. ~(h >= next)
    BY <1>1 DEF IInv, FreshAhead
  <2> QED  BY <1>2, <1>3, <1>6, <2>1 DEF IInv, FreshAhead, CallShape
<1>9. ResultsArePrivate'
  BY <1>2, <1>3, <1>4, <1>6 DEF IInv, ResultsArePrivate, Live
<1>10. PendingAreLive'
  <2>1. \A u \in Threads : \A x \in Pending(u) : x \in Handles \ {h}
    BY <1>4 DEF IInv, TypeOK, Pending
  <2> QED  BY <1>2, <1>3, <2>1, PendingKept DEF IInv, Queued
<1>11. OwnedAreLive' /\ OnlyKnownFaults'
  BY <1>2, <1>3 DEF IInv, OwnedAreLive, OnlyKnownFaults, PoliteMods, NoDeadHandle, Live
<1>12. QueueIsExact'
  <2>1. \A x \in Range(queue) : x \in Handles \ {h}
    BY <1>5 DEF IInv, QueueIsExact, QueuedOnce, QueueIsSound, Live, Queued
  <2> QED  BY <1>2, <1>3, <2>1 DEF IInv, QueueIsExact, QueuedOnce, QueueIsSound, Live, Queued
<1>13. AllAccounted'
  BY <1>1, <1>2, <1>3, <1>6 DEF IInv, AllAccounted, Doomed, Live, Queued
<1>14. RoomToCreate'
  BY <1>2, RoomKept DEF IInv, Creating
<1>15. AbandonedAreLost'
  <2>1. \A x \in abandoned : x \in Handles \ {h}
    BY <1>1, AbandonedFacts
  <2> QED  BY <1>2, <1>3, <1>6, <2>1, AbandonedKept DEF Queued
<1> QED  BY <1>7, <1>8, <1>9, <1>10, <1>11, <1>12, <1>13, <1>14, <1>15 DEF IInv

LEMMA MarkLiveKeepsIInv ==
    ASSUME IInv, NEW t \in Threads, NEW h \in Handles, result[t] = h, Mark(t)
    PROVE  IInv'
<1>0. result[t] = h
  OBVIOUS
<1>1. /\ pc[t] = "mark" /\ marks[t] /\ ~produces[t] /\ InFlight(t) = {}
      /\ h \in Handles
  BY DEF Mark, IInv, CallShape
<1>2. /\ Live(h) /\ ~entries[h].suh /\ owner[h] = Nobody
      /\ \A u \in Threads \ {t} : result[u] # h /\ h \notin InFlight(u)
  BY <1>0, <1>1 DEF IInv, ResultsArePrivate
<1>3. /\ entries' = [entries EXCEPT ![h].suh = TRUE]
      /\ owner' = [x \in Handles |-> IF x = h THEN t ELSE owner[x]]
      /\ result' = [result EXCEPT ![t] = NoHandle]
      /\ marks' = [marks EXCEPT ![t] = FALSE]
      /\ pc' = [pc EXCEPT ![t] = "idle"]
      /\ UNCHANGED <<next, queue, args, again, held, kind, produces, abandoned, fault>>
  BY <1>0, <1>2 DEF Mark, FailOn, SetSingleUse, HandOver
<1>4. /\ \A x \in Handles \ {h} : entries'[x] = entries[x] /\ owner'[x] = owner[x]
      /\ entries'[h] # NoEntry /\ owner'[h] = t
      /\ entries' \in [Handles -> Entry \cup {NoEntry}]
  <2>1. entries \in [Handles -> Entry \cup {NoEntry}] /\ entries[h] # NoEntry
    BY <1>2 DEF IInv, TypeOK, Live
  <2>2. /\ \A x \in Handles \ {h} : entries'[x] = entries[x]
        /\ entries'[h] # NoEntry
        /\ entries' \in [Handles -> Entry \cup {NoEntry}]
    <3> DEFINE e == [entries[h] EXCEPT !.suh = TRUE]
    <3>1. entries[h] \in Entry
      BY <1>1, <2>1
    <3>2. e \in Entry /\ e # NoEntry
      BY <3>1, HandleTableAssumption DEF Entry, NoEntry
    <3>3. entries' = [entries EXCEPT ![h] = e]
      BY <1>3
    <3> HIDE DEF e
    <3> QED  BY <1>1, <2>1, <3>2, <3>3
  <2>3. owner'[h] = t /\ \A x \in Handles \ {h} : owner'[x] = owner[x]
    BY <1>1, <1>3
  <2> QED  BY <2>2, <2>3
<1>5. /\ \A u \in Threads \ {t} : result'[u] = result[u] /\ marks'[u] = marks[u] /\ pc'[u] = pc[u]
      /\ result'[t] = NoHandle /\ ~marks'[t] /\ pc'[t] = "idle"
  BY <1>3 DEF IInv, TypeOK
<1>6. \A u \in Threads : InFlight(u)' = InFlight(u) /\ Pending(u)' = Pending(u)
  BY <1>3 DEF InFlight, Pending
<1>7. ~Queued(h) /\ ~(h >= next) /\ \A u \in Threads : h \notin InFlight(u) /\ h \notin Pending(u)
  <2>1. \A u \in Threads : h \notin InFlight(u)
    BY <1>1, <1>2
  <2>2. ~Queued(h)
    BY <1>1, <1>2 DEF IInv, QueueIsExact
  <2>3. ~(h >= next)
    BY <1>2 DEF IInv, FreshAhead, Live
  <2> QED  BY <2>1, <2>2, <2>3 DEF InFlight, Pending
<1>8. TypeOK'
  <2>1. owner' \in [Handles -> Threads \cup {Nobody}]
    BY <1>3 DEF IInv, TypeOK
  <2> QED  BY <1>3, <1>4, <2>1 DEF IInv, TypeOK
<1>9. FreshAhead'
  BY <1>3, <1>4, <1>6, <1>7 DEF IInv, FreshAhead
<1>10. CallShape'
  BY <1>1, <1>3, <1>5, <1>6 DEF IInv, CallShape, InFlight
<1>11. ResultsArePrivate'
  <2>1. \A u \in Threads : \A x \in Handles :
           result'[u] = x => u # t /\ result[u] = x /\ x # h
    BY <1>2, <1>5, NoHandleIsNone
  <2> QED  BY <1>3, <1>4, <1>5, <1>6, <2>1, NoHandleIsNone DEF IInv, ResultsArePrivate, Live
<1>12. PendingAreLive'
  <2>1. \A u \in Threads : \A x \in Pending(u) : x \in Handles \ {h} /\ u # t
    BY <1>1, <1>7 DEF IInv, TypeOK, InFlight, Pending
  <2> QED  BY <1>3, <1>4, <1>5, <2>1, PendingKept DEF IInv, Queued
<1>13. OwnedAreLive' /\ OnlyKnownFaults'
  BY <1>3, <1>4 DEF IInv, OwnedAreLive, OnlyKnownFaults, PoliteMods, NoDeadHandle, Live
<1>14. QueueIsExact'
  <2>1. \A x \in Range(queue) : x \in Handles \ {h}
    BY <1>7 DEF IInv, QueueIsExact, QueuedOnce, QueueIsSound, Live, Queued
  <2>2. \A u \in Threads : pc[u] \in BeforeDrain => pc'[u] \in BeforeDrain
    BY <1>1, <1>5 DEF BeforeDrain
  <2> QED  BY <1>3, <1>4, <2>1, <2>2
           DEF IInv, QueueIsExact, QueuedOnce, QueueIsSound, Live, Queued
<1>15. AllAccounted'
  <2>0. ~Doomed' => ~Doomed
    BY <1>0, <1>5, NoHandleIsNone DEF Doomed
  <2> SUFFICES ASSUME ~Doomed, NEW x \in Handles, x # h, Live(x), owner[x] = Nobody, ~Queued(x),
                      x \notin abandoned
               PROVE  \E u \in Threads : x \in Pending(u)' \/ result'[u] = x
    BY <2>0, <1>3, <1>4, NobodyIsNone DEF AllAccounted, Live, Queued
  <2>1. PICK u \in Threads : x \in Pending(u) \/ result[u] = x
    BY DEF IInv, AllAccounted
  <2> QED  BY <1>0, <1>5, <1>6, <2>1
<1>16. RoomToCreate'
  BY <1>1, <1>3, <1>5, RoomKept DEF IInv, Creating
<1>17. AbandonedAreLost'
  <2>1. \A x \in abandoned : x \in Handles \ {h}
    BY <1>0, AbandonedFacts
  <2> QED  BY <1>3, <1>4, <1>6, <2>1, AbandonedKept DEF Queued
<1> QED  BY <1>8, <1>9, <1>10, <1>11, <1>12, <1>13, <1>14, <1>15, <1>16, <1>17 DEF IInv

LEMMA MarkKeepsIInv ==
    ASSUME IInv, NEW t \in Threads, Mark(t)
    PROVE  IInv'
<1>1. CASE result[t] \in Handles
  BY <1>1, MarkLiveKeepsIInv
<1>2. CASE result[t] = NoHandle
  <2>1. FailOn(result[t])
    BY <1>2, NoHandleIsNone DEF Mark, Live
  <2>2. NestedErrors
    BY <1>2 DEF Mark, IInv, CallShape
  <2> QED  BY <2>1, <2>2, FailOnKeepsIInv DEF PoliteMods
<1> QED  BY <1>1, <1>2 DEF IInv, TypeOK

LEMMA DrainKeepsIInv ==
    ASSUME IInv, NEW t \in Threads, Drain(t)
    PROVE  IInv'
<1>1. pc[t] = "drain" /\ QueueIsSound /\ args[t] = {}
  BY DEF Drain, IInv, QueueIsExact, QueuedOnce, CallShape
<1>2. /\ entries' = [x \in Handles |-> IF Queued(x) THEN NoEntry ELSE entries[x]]
      /\ queue' = <<>>
      /\ held' = [held EXCEPT ![t] = {}]
      /\ args' = [args EXCEPT ![t] = again[t]]
      /\ again' = [again EXCEPT ![t] = {}]
      /\ produces' = [produces EXCEPT ![t] = FALSE]
      /\ pc' = [pc EXCEPT ![t] = AfterDrain(t)]
      /\ kind' = [kind EXCEPT ![t] = IF again[t] = {} THEN "plain" ELSE @]
      /\ UNCHANGED <<next, marks, abandoned, fault>>
  BY <1>1 DEF Drain, DrainQueue, Queued
<1>3. \/ /\ marks[t]
         /\ result' = result /\ owner' = owner
      \/ /\ ~marks[t]
         /\ result' = [result EXCEPT ![t] = NoHandle]
         /\ owner' = [x \in Handles |-> IF x = result[t] THEN t ELSE owner[x]]
  BY <1>1 DEF Drain, HandOver
<1>4. /\ \A u \in Threads \ {t} :
            /\ pc'[u] = pc[u] /\ args'[u] = args[u] /\ again'[u] = again[u]
            /\ kind'[u] = kind[u]
            /\ held'[u] = held[u] /\ produces'[u] = produces[u] /\ result'[u] = result[u]
      /\ pc'[t] = AfterDrain(t) /\ args'[t] = again[t] /\ again'[t] = {} /\ held'[t] = {}
      /\ ~produces'[t]
      /\ result'[t] = IF marks[t] THEN result[t] ELSE NoHandle
  BY <1>2, <1>3 DEF IInv, TypeOK
<1>5. /\ \A x \in Handles : owner'[x] = IF x = result[t] /\ ~marks[t] THEN t ELSE owner[x]
      /\ owner' \in [Handles -> Threads \cup {Nobody}]
  <2>1. owner \in [Handles -> Threads \cup {Nobody}]
    BY DEF IInv, TypeOK
  <2>2. CASE marks[t]
    BY <1>3, <2>1, <2>2
  <2>3. CASE ~marks[t]
    <3>1. owner' = [x \in Handles |-> IF x = result[t] THEN t ELSE owner[x]]
      BY <1>3, <2>3
    <3> QED  BY <2>1, <2>3, <3>1
  <2> QED  BY <2>2, <2>3
<1>6. /\ \A u \in Threads : Pending(u)' = Pending(u) /\ InFlight(u)' \subseteq InFlight(u)
      /\ InFlight(t)' = again[t]
  BY <1>1, <1>4 DEF Pending, InFlight
<1>7. /\ again[t] # {} => pc'[t] = "fetch" /\ ~marks[t] /\ result[t] = NoHandle
      /\ again[t] = {} /\ marks[t] => pc'[t] = "mark" /\ (result[t] = NoHandle => NestedErrors)
      /\ again[t] = {} /\ ~marks[t] => pc'[t] = "idle"
      /\ pc'[t] \in {"fetch", "mark", "idle"}
  BY <1>1, <1>4 DEF AfterDrain, IInv, CallShape
<1>8. \A x \in Handles : Queued(x) => entries[x].suh /\ owner[x] = Nobody
  BY DEF IInv, QueueIsExact, QueuedOnce, Queued
<1>9. /\ \A x \in Handles : ~Queued(x) => entries'[x] = entries[x]
      /\ \A x \in Handles : Queued(x) => entries'[x] = NoEntry
      /\ \A x : ~Queued(x)'
      /\ entries' \in [Handles -> Entry \cup {NoEntry}]
  BY <1>2, RangeOfEmpty DEF IInv, TypeOK, Queued
<1>10. \A u \in Threads : \A x \in Handles : result[u] = x => Live(x) /\ ~Queued(x)
  BY <1>8 DEF IInv, ResultsArePrivate
<1>11. TypeOK'
  <2>1. /\ pc' \in [Threads -> {"idle", "fetch", "operate", "create", "drain", "mark"}]
        /\ result' \in [Threads -> Handles \cup {NoHandle}]
    BY <1>2, <1>3, <1>4, <1>7 DEF IInv, TypeOK
  <2>2. /\ args' \in [Threads -> SUBSET Handles] /\ again' \in [Threads -> SUBSET Handles]
        /\ held' \in [Threads -> SUBSET Handles] /\ produces' \in [Threads -> BOOLEAN]
        /\ kind' \in [Threads -> {"plain", "cast", "loop"}]
    BY <1>2 DEF IInv, TypeOK
  <2>3. next' \in 1 .. MaxHandle + 1 /\ marks' \in [Threads -> BOOLEAN]
    BY <1>2 DEF IInv, TypeOK
  <2>5. queue' \in Seq(Handles)
    BY <1>2
  <2>4. /\ fault' \in {"none", "dead handle", "stale pointer", "uncaught exception"}
        /\ abandoned' \in SUBSET Handles
    BY <1>2 DEF IInv, TypeOK
  <2> QED  BY <1>5, <1>9, <2>1, <2>2, <2>3, <2>4, <2>5 DEF TypeOK
<1>12. FreshAhead'
  <2> SUFFICES ASSUME NEW x \in Handles, x >= next
               PROVE  /\ entries'[x] = NoEntry /\ owner'[x] = Nobody
                      /\ \A u \in Threads : x \notin InFlight(u)'
    BY <1>2 DEF FreshAhead
  <2>1. /\ entries[x] = NoEntry /\ owner[x] = Nobody
        /\ \A u \in Threads : x \notin InFlight(u)
    BY DEF IInv, FreshAhead
  <2>2. result[t] # x
    BY <1>10, <2>1 DEF Live
  <2> QED  BY <1>5, <1>6, <1>9, <2>1, <2>2
<1>13. CallShape'
  <2>1. \A u \in Threads \ {t} : InFlight(u)' = InFlight(u)
    BY <1>4 DEF InFlight
  <2> QED  BY <1>2, <1>4, <1>6, <1>7, <2>1 DEF IInv, CallShape
<1>14. ResultsArePrivate'
  <2> SUFFICES ASSUME NEW u \in Threads, NEW x \in Handles, result'[u] = x
               PROVE  /\ x \in Handles /\ entries'[x] # NoEntry /\ ~entries'[x].suh
                      /\ owner'[x] \in {u, Nobody}
                      /\ marks[u] => owner'[x] = Nobody
                      /\ pc'[u] \in {"fetch", "operate"} /\ ~marks[u] => owner'[x] = u
                      /\ \A v \in Threads \ {u} :
                            /\ result'[v] # x
                            /\ owner'[x] = Nobody => x \notin InFlight(v)'
    BY <1>2 DEF ResultsArePrivate, Live
  <2>1. result[u] = x /\ (u = t => marks[t] /\ pc'[t] # "fetch")
    BY <1>4, <1>7, NoHandleIsNone
  <2>2. /\ Live(x) /\ ~entries[x].suh
        /\ owner[x] \in {u, Nobody}
        /\ marks[u] => owner[x] = Nobody
        /\ pc[u] \in {"fetch", "operate"} /\ ~marks[u] => owner[x] = u
        /\ \A v \in Threads \ {u} :
              result[v] # x /\ (owner[x] = Nobody => x \notin InFlight(v))
    BY <2>1 DEF IInv, ResultsArePrivate
  <2>3. entries'[x] = entries[x]
    BY <1>9, <1>10, <2>1
  <2>4. owner'[x] = owner[x]
    BY <1>5, <2>1, <2>2
  <2>5. \A v \in Threads \ {u} : result'[v] # x
    BY <1>4, <2>2, NoHandleIsNone
  <2>6. \A v \in Threads \ {u} : owner[x] = Nobody => x \notin InFlight(v)'
    BY <1>6, <2>2
  <2>7. pc'[u] \in {"fetch", "operate"} /\ ~marks[u] => owner[x] = u
    BY <1>4, <2>1, <2>2
  <2> QED  BY <2>2, <2>3, <2>4, <2>5, <2>6, <2>7 DEF Live
<1>15. PendingAreLive'
  <2> SUFFICES ASSUME NEW u \in Threads, NEW x \in Pending(u)
               PROVE  Spent(u, x)' \/ Available(u, x)'
    BY <1>6 DEF PendingAreLive
  <2>1. x \in Handles /\ (Spent(u, x) \/ Available(u, x))
    BY DEF IInv, PendingAreLive, TypeOK, Pending
  <2>2. CASE Spent(u, x)
    <3>1. owner[x] = Nobody /\ ~Live(x)'
      BY <1>9, <2>1, <2>2 DEF Spent, Live
    <3>2. owner'[x] = Nobody \/ (x = result[t] /\ ~marks[t])
      BY <1>5, <2>1, <3>1
    <3>3. x = result[t] => Live(x)'
      BY <1>9, <1>10, <2>1 DEF Live
    <3> QED  BY <2>2, <3>1, <3>2, <3>3 DEF Spent
  <2>3. CASE Available(u, x)
    <3>1. ~Queued(x) /\ entries'[x] = entries[x]
      BY <1>8, <1>9, <2>1, <2>3 DEF Available
    <3>2. entries[x].suh => u # t
      BY <1>1, <2>3 DEF Available, Pending
    <3>3. entries[x].suh => result[t] # x
      BY <2>1 DEF IInv, ResultsArePrivate
    <3>4. ~entries[x].suh => owner'[x] # Nobody \/ result'[u] = x
      BY <1>4, <1>5, <2>1, <2>3, NobodyIsNone DEF Available
    <3>5. entries[x].suh => owner'[x] = Nobody
      BY <1>5, <2>1, <2>3, <3>3 DEF Available
    <3>6. \A v \in Threads : x \notin Pending(v) => x \notin Pending(v)'
      BY <1>6
    <3> QED  BY <1>4, <1>9, <2>3, <3>1, <3>2, <3>4, <3>5, <3>6 DEF Available, Live
  <2> QED  BY <2>1, <2>2, <2>3
<1>16. OwnedAreLive'
  <2>1. \A x \in Handles : owner'[x] # Nobody => Live(x) /\ ~Queued(x)
    BY <1>5, <1>8, <1>10 DEF IInv, OwnedAreLive
  <2> QED  BY <1>9, <2>1 DEF OwnedAreLive, Live
<1>17. QueueIsExact'
  BY <1>2, <1>9, RangeOfEmpty DEF QueueIsExact, QueuedOnce, QueueIsSound, Queued
<1>18. AllAccounted'
  <2>0. ~Doomed' => ~Doomed
    <3> SUFFICES ASSUME Doomed PROVE Doomed'
      OBVIOUS
    <3>1. PICK u \in Threads : pc[u] \in {"drain", "mark"} /\ marks[u] /\ result[u] = NoHandle
      BY DEF Doomed
    <3>2. pc'[u] \in {"drain", "mark"}
      <4>1. CASE u = t
        BY <1>7, <3>1, <4>1
      <4>2. CASE u # t
        BY <1>4, <3>1, <4>2
      <4> QED  BY <4>1, <4>2
    <3>3. marks'[u] /\ result'[u] = NoHandle
      BY <1>2, <1>4, <3>1
    <3> QED  BY <3>2, <3>3 DEF Doomed
  <2> SUFFICES ASSUME ~Doomed, NEW x \in Handles, Live(x), owner'[x] = Nobody, ~Queued(x),
                      x \notin abandoned
               PROVE  \E u \in Threads : x \in Pending(u)' \/ result'[u] = x
    BY <1>2, <1>9, <2>0 DEF AllAccounted, Live
  <2>1. owner[x] = Nobody /\ (result[t] = x => marks[t])
    BY <1>5, NobodyIsNone
  <2>2. PICK u \in Threads : x \in Pending(u) \/ result[u] = x
    BY <2>1 DEF IInv, AllAccounted
  <2> QED  BY <1>4, <1>6, <2>1, <2>2
<1>19. RoomToCreate'
  <2>1. Creating' \subseteq Creating
    BY <1>4 DEF Creating
  <2> QED  BY <1>2, <2>1, RoomKept DEF IInv
<1>20. OnlyKnownFaults'
  BY <1>2 DEF IInv, OnlyKnownFaults, PoliteMods, NoDeadHandle
<1>21. AbandonedAreLost'
  <2> SUFFICES ASSUME NEW x \in abandoned
               PROVE  entries'[x] = entries[x] /\ owner'[x] = owner[x]
    BY <1>2, <1>6, <1>9, AbandonedKept
  <2> QED  BY <1>5, <1>9, AbandonedFacts
<1> QED  BY <1>11, <1>12, <1>13, <1>14, <1>15, <1>16, <1>17, <1>18, <1>19, <1>20, <1>21 DEF IInv

LEMMA CreateObjectKeepsIInv ==
    ASSUME IInv, NEW t \in Threads, NEW f \in ApiFunctions, NEW obj \in Objects,
           CreateObject(t, f, obj)
    PROVE  IInv'
<1> DEFINE kept == Rest(f, "done") # "idle"
<1>a. /\ pc[t] = "idle" /\ MayCreate /\ Add([obj |-> obj, suh |-> FALSE])
      /\ next' = next + 1
      /\ pc' = [pc EXCEPT ![t] = Rest(f, "done")]
      /\ marks' = [marks EXCEPT ![t] = f.marks]
      /\ UNCHANGED <<queue, args, again, held, kind, produces, abandoned, fault>>
      /\ kept => result' = [result EXCEPT ![t] = next] /\ owner' = owner
      /\ ~kept => result' = result /\ owner' = [owner EXCEPT ![next] = t]
  BY DEF CreateObject, Add
<1>b. /\ Rest(f, "done") \in {"drain", "mark", "idle"}
      /\ f.marks \in BOOLEAN
      /\ ~kept => ~f.marks
      /\ Rest(f, "done") = "mark" => f.marks
  BY ApiFunctionsType DEF Rest
<1>c. /\ InFlight(t) = {} /\ ~produces[t] /\ ~marks[t] /\ result[t] = NoHandle
      /\ args[t] = {} /\ again[t] = {}
  BY <1>a DEF IInv, CallShape, InFlight
<1> HIDE DEF kept
<1>d. RoomToCreate' /\ next \in Handles
  <2>1. Creating' \subseteq Creating
    BY <1>a, <1>b DEF Creating, IInv, TypeOK
  <2> QED  BY <1>a, <2>1, RoomForOne DEF IInv
<1>e. /\ entries[next] = NoEntry /\ owner[next] = Nobody /\ ~Queued(next) /\ next \notin abandoned
      /\ \A u \in Threads : next \notin InFlight(u) /\ next \notin Pending(u) /\ result[u] # next
  BY <1>d, NextIsNew
<1>f. /\ entries' \in [Handles -> Entry \cup {NoEntry}]
      /\ next' \in 1 .. MaxHandle + 1
      /\ \A h \in Handles : h >= next' <=> h >= next /\ h # next
      /\ \A h \in Handles \ {next} : entries'[h] = entries[h]
      /\ entries'[next] # NoEntry /\ ~entries'[next].suh
  BY <1>a, <1>d, AddFacts
<1>g. /\ \A u \in Threads \ {t} :
           pc'[u] = pc[u] /\ marks'[u] = marks[u] /\ result'[u] = result[u]
      /\ pc'[t] = Rest(f, "done") /\ marks'[t] = f.marks
      /\ result'[t] = IF kept THEN next ELSE NoHandle
      /\ \A h \in Handles \ {next} : owner'[h] = owner[h]
      /\ owner'[next] = IF kept THEN Nobody ELSE t
  BY <1>a, <1>c, <1>d, <1>e DEF IInv, TypeOK
<1>h. \A u \in Threads : InFlight(u)' = InFlight(u) /\ Pending(u)' = Pending(u)
  BY <1>a DEF InFlight, Pending
<1>1. TypeOK'
  <2>1. /\ result' \in [Threads -> Handles \cup {NoHandle}]
        /\ owner' \in [Handles -> Threads \cup {Nobody}]
    <3>1. /\ result \in [Threads -> Handles \cup {NoHandle}]
          /\ owner \in [Handles -> Threads \cup {Nobody}]
      BY DEF IInv, TypeOK
    <3>2. CASE kept
      BY <1>a, <1>d, <3>1, <3>2
    <3>3. CASE ~kept
      BY <1>a, <1>d, <3>1, <3>3
    <3> QED  BY <3>2, <3>3
  <2>2. /\ pc' \in [Threads -> {"idle", "fetch", "operate", "create", "drain", "mark"}]
        /\ marks' \in [Threads -> BOOLEAN]
    BY <1>a, <1>b DEF IInv, TypeOK
  <2> QED  BY <1>a, <1>f, <2>1, <2>2 DEF TypeOK, IInv
<1>2. FreshAhead'
  BY <1>f, <1>g, <1>h DEF FreshAhead, IInv
<1>3. CallShape'
  <2>1. kept <=> Rest(f, "done") # "idle"
    BY DEF kept
  <2>2. next # NoHandle
    BY <1>d, NoHandleIsNone
  <2> QED  BY <1>a, <1>b, <1>c, <1>g, <1>h, <2>1, <2>2 DEF CallShape, IInv
<1>4. ResultsArePrivate'
  <2>1. \A u \in Threads : \A h \in Handles :
           \/ h = next /\ u = t /\ kept
           \/ h # next /\ u # t /\ result[u] = h
           \/ result'[u] # h
    BY <1>c, <1>e, <1>g, NoHandleIsNone
  <2> QED  BY <1>b, <1>d, <1>e, <1>f, <1>g, <1>h, <2>1 DEF ResultsArePrivate, IInv, Live
<1>5. PendingAreLive'
  <2>1. \A u \in Threads : \A h \in Pending(u) : h \in Handles \ {next} /\ u # t
    BY <1>c, <1>e DEF Pending, IInv, TypeOK
  <2> QED  BY <1>a, <1>f, <1>g, <2>1, PendingKept DEF IInv, Queued
<1>6. OwnedAreLive'
  BY <1>d, <1>f, <1>g DEF OwnedAreLive, IInv, Live
<1>7. QueueIsExact'
  <2>1. \A h \in Range(queue) : h \in Handles \ {next}
    BY <1>e DEF IInv, QueueIsExact, QueuedOnce, QueueIsSound, Live, Queued
  <2>2. \A u \in Threads : pc[u] \in BeforeDrain => pc'[u] \in BeforeDrain
    BY <1>a, <1>g DEF BeforeDrain
  <2> QED  BY <1>a, <1>f, <1>g, <2>1, <2>2
           DEF QueueIsExact, QueuedOnce, QueueIsSound, IInv, Live, Queued
<1>8. AllAccounted'
  <2>0. ~Doomed' => ~Doomed
    BY <1>a, <1>g, DoomedStays
  <2> SUFFICES ASSUME ~Doomed, NEW x \in Handles, Live(x)', owner'[x] = Nobody, ~Queued(x),
                      x \notin abandoned
               PROVE  \E u \in Threads : x \in Pending(u)' \/ result'[u] = x
    BY <1>a, <2>0 DEF AllAccounted, Queued
  <2>1. CASE x = next
    BY <1>g, <2>1, NobodyIsNone
  <2>2. CASE x # next
    <3>1. Live(x) /\ owner[x] = Nobody
      BY <1>f, <1>g, <2>2 DEF Live
    <3>2. PICK u \in Threads : x \in Pending(u) \/ result[u] = x
      BY <3>1 DEF AllAccounted, IInv
    <3> QED  BY <1>c, <1>g, <1>h, <3>2, NoHandleIsNone
  <2> QED  BY <2>1, <2>2
<1>9. OnlyKnownFaults'
  BY <1>a DEF IInv, OnlyKnownFaults, PoliteMods, NoDeadHandle
<1>10. AbandonedAreLost'
  <2>1. \A x \in abandoned : x \in Handles \ {next}
    BY <1>e, AbandonedFacts
  <2>2. \A x \in abandoned : entries'[x] = entries[x] /\ owner'[x] = owner[x]
    BY <1>a, <1>f, <1>g, <2>1
  <2> QED  BY <1>a, <1>h, <2>2, AbandonedKept DEF Queued
<1> QED  BY <1>1, <1>2, <1>3, <1>4, <1>5, <1>6, <1>7, <1>8, <1>9, <1>10, <1>d DEF IInv

LEMMA CopyHandleKeepsIInv ==
    ASSUME IInv, NEW t \in Threads, NEW h \in Handles, CopyHandle(t, h)
    PROVE  IInv'
<1>1. /\ Live(h) /\ ~Queued(h) /\ owner[h] # Nobody
      /\ entries[h].suh => owner[h] = t /\ \A u \in Threads : h \notin Pending(u)
  <2>1. owner[h] # Nobody /\ (entries[h].suh => owner[h] = t)
    BY NobodyIsNone DEF CopyHandle, MayPass
  <2>2. Live(h) /\ ~Queued(h)
    BY <2>1 DEF IInv, OwnedAreLive, QueueIsExact, QueuedOnce, Queued
  <2>3. entries[h].suh => \A u \in Threads : h \notin Pending(u)
    BY <2>1, <2>2, NobodyIsNone DEF IInv, PendingAreLive, Spent, Available
  <2> QED  BY <2>1, <2>2, <2>3
<1>2. PICK obj \in Objects : PlainCopy(h) = [obj |-> obj, suh |-> FALSE]
  <2>1. entries[h] \in Entry
    BY <1>1 DEF IInv, TypeOK, Live
  <2>2. entries[h].obj \in Objects
    BY <2>1 DEF Entry
  <2> QED  BY <2>2 DEF PlainCopy
<1>a. /\ pc[t] = "idle" /\ MayCreate /\ Add([obj |-> obj, suh |-> FALSE])
      /\ QueueIfSingleUse(h)
      /\ next' = next + 1
      /\ result' = [result EXCEPT ![t] = next]
      /\ pc' = [pc EXCEPT ![t] = "drain"]
      /\ GiveUp(GivenUp({h}))
      /\ UNCHANGED <<args, again, held, kind, produces, marks, abandoned, fault>>
  BY <1>1, <1>2 DEF CopyHandle, CopyEntry, FailOn, Add
<1>b. /\ queue' \in Seq(Handles) /\ IsInjective(queue')
      /\ Range(queue') = IF entries[h].suh THEN Range(queue) \cup {h} ELSE Range(queue)
  <2>1. queue \in Seq(Handles) /\ IsInjective(queue) /\ h \notin Range(queue)
    BY <1>1 DEF IInv, TypeOK, QueueIsExact, QueuedOnce, QueueIsSound, Queued
  <2>2. CASE entries[h].suh
    BY <1>a, <2>1, <2>2, RangeOfAppend DEF QueueIfSingleUse
  <2>3. CASE ~entries[h].suh
    BY <1>a, <2>1, <2>3 DEF QueueIfSingleUse
  <2> QED  BY <2>2, <2>3
<1>c. /\ InFlight(t) = {} /\ ~produces[t] /\ ~marks[t] /\ result[t] = NoHandle
      /\ args[t] = {} /\ again[t] = {}
  BY <1>a DEF IInv, CallShape, InFlight
<1>d. RoomToCreate' /\ next \in Handles
  <2>1. Creating' \subseteq Creating
    BY <1>a DEF Creating, IInv, TypeOK
  <2> QED  BY <1>a, <2>1, RoomForOne DEF IInv
<1>e. /\ entries[next] = NoEntry /\ owner[next] = Nobody /\ ~Queued(next) /\ next # h
      /\ next \notin abandoned
      /\ \A u \in Threads : next \notin InFlight(u) /\ next \notin Pending(u) /\ result[u] # next
  BY <1>1, <1>d, NextIsNew DEF Live
<1>f. /\ entries' \in [Handles -> Entry \cup {NoEntry}]
      /\ next' \in 1 .. MaxHandle + 1
      /\ \A x \in Handles : x >= next' <=> x >= next /\ x # next
      /\ \A x \in Handles \ {next} : entries'[x] = entries[x]
      /\ entries'[next] # NoEntry /\ ~entries'[next].suh
  BY <1>a, <1>d, AddFacts
<1>g. /\ \A u \in Threads \ {t} : pc'[u] = pc[u] /\ result'[u] = result[u]
      /\ pc'[t] = "drain" /\ result'[t] = next
  BY <1>a DEF IInv, TypeOK
<1>h. \A u \in Threads : InFlight(u)' = InFlight(u) /\ Pending(u)' = Pending(u)
  BY <1>a DEF InFlight, Pending
<1>i. /\ \A x \in Handles : owner'[x] = IF x = h /\ entries[h].suh THEN Nobody ELSE owner[x]
      /\ owner' \in [Handles -> Threads \cup {Nobody}]
  BY <1>a DEF GiveUp, GivenUp, IInv, TypeOK
<1>3. TypeOK'
  BY <1>a, <1>b, <1>d, <1>f, <1>i DEF TypeOK, IInv
<1>4. FreshAhead'
  BY <1>f, <1>h, <1>i DEF FreshAhead, IInv
<1>5. CallShape'
  <2>1. next # NoHandle
    BY <1>d, NoHandleIsNone
  <2> QED  BY <1>a, <1>c, <1>g, <1>h, <2>1 DEF CallShape, IInv
<1>6. ResultsArePrivate'
  <2>1. \A u \in Threads : \A x \in Handles :
           \/ x = next /\ u = t
           \/ x # next /\ u # t /\ result[u] = x
           \/ result'[u] # x
    BY <1>e, <1>g
  <2>2. \A u \in Threads \ {t} : \A x \in Handles : result[u] = x => owner'[x] = owner[x]
    BY <1>i DEF IInv, ResultsArePrivate
  <2> QED  BY <1>a, <1>c, <1>d, <1>e, <1>f, <1>g, <1>h, <1>i, <2>1, <2>2
           DEF ResultsArePrivate, IInv, Live
<1>7. PendingAreLive'
  <2>1. \A u \in Threads : \A x \in Pending(u) :
           /\ x \in Handles \ {next} /\ u # t
           /\ x = h => ~entries[h].suh
    <3> SUFFICES ASSUME NEW u \in Threads, NEW x \in Pending(u)
                 PROVE  /\ x \in Handles \ {next} /\ u # t
                        /\ x = h => ~entries[h].suh
      OBVIOUS
    <3>1. x \in Handles
      BY DEF Pending, IInv, TypeOK
    <3>2. x # next /\ u # t
      BY <1>c, <1>e DEF Pending
    <3>3. x = h => ~entries[h].suh
      BY <1>1, <3>2
    <3> QED  BY <3>1, <3>2, <3>3
  <2>2. \A x \in Handles : Queued(x)' <=> Queued(x) \/ (x = h /\ entries[h].suh)
    BY <1>b DEF Queued
  <2>3. \A u \in Threads : \A x \in Pending(u) :
           /\ entries'[x] = entries[x]
           /\ result'[u] = result[u]
    BY <1>f, <1>g, <2>1
  <2>4. \A u \in Threads : \A x \in Pending(u) :
           /\ owner'[x] = owner[x]
           /\ Queued(x)' <=> Queued(x)
    BY <1>i, <2>1, <2>2
  <2>5. PendingAreLive /\ UNCHANGED <<args, again>>
    BY <1>a DEF IInv
  <2> QED  BY <2>3, <2>4, <2>5, PendingKept
<1>8. OwnedAreLive'
  BY <1>e, <1>f, <1>i DEF OwnedAreLive, IInv, Live
<1>9. QueueIsExact'
  <2>1. \A x \in Range(queue') : x \in Handles \ {next} /\ (Queued(x) \/ (x = h /\ entries[h].suh))
    BY <1>b, <1>e DEF IInv, QueueIsExact, QueuedOnce, QueueIsSound, Live, Queued
  <2>2. \A x \in Range(queue') : entries[x].suh /\ owner'[x] = Nobody /\ Live(x)
    BY <1>1, <1>i, <2>1 DEF IInv, QueueIsExact, QueuedOnce, QueueIsSound, Queued
  <2> QED  BY <1>b, <1>f, <1>g, <2>1, <2>2 DEF BeforeDrain, QueueIsExact, QueuedOnce, QueueIsSound, Live, Queued
<1>10. AllAccounted'
  <2>0. ~Doomed' => ~Doomed
    <3>1. \A u \in Threads \ {t} : marks'[u] = marks[u]
      BY <1>a
    <3> QED  BY <1>a, <1>g, <3>1, DoomedStays
  <2> SUFFICES ASSUME ~Doomed, NEW x \in Handles, Live(x)', owner'[x] = Nobody, ~Queued(x)',
                      x \notin abandoned
               PROVE  \E u \in Threads : x \in Pending(u)' \/ result'[u] = x
    BY <1>a, <2>0 DEF AllAccounted
  <2>1. CASE x = next
    BY <1>g, <2>1
  <2>2. CASE x # next
    <3>1. Live(x) /\ owner[x] = Nobody /\ ~Queued(x)
      BY <1>b, <1>f, <1>i, <2>2 DEF Live, Queued
    <3>2. PICK u \in Threads : x \in Pending(u) \/ result[u] = x
      BY <3>1 DEF AllAccounted, IInv
    <3> QED  BY <1>c, <1>g, <1>h, <3>2, NoHandleIsNone
  <2> QED  BY <2>1, <2>2
<1>11. OnlyKnownFaults'
  BY <1>a DEF IInv, OnlyKnownFaults, PoliteMods, NoDeadHandle
<1>12. AbandonedAreLost'
  <2> SUFFICES ASSUME NEW x \in abandoned
               PROVE  entries'[x] = entries[x] /\ owner'[x] = owner[x] /\ (Queued(x)' => Queued(x))
    BY <1>a, <1>h, AbandonedKept
  <2>1. x \in Handles /\ x # next /\ x # h
    BY <1>1, <1>e, AbandonedFacts
  <2> QED  BY <1>b, <1>f, <1>i, <2>1 DEF Queued
<1> QED  BY <1>3, <1>4, <1>5, <1>6, <1>7, <1>8, <1>9, <1>10, <1>11, <1>12, <1>d DEF IInv
-----------------------------------------------------------------------------
(* The invariance of IInv.                                                 *)

LEMMA InitIInv == Init => IInv
<1> SUFFICES ASSUME Init PROVE IInv
  OBVIOUS
<1>1. /\ \A h \in Handles : entries[h] = NoEntry /\ owner[h] = Nobody
      /\ \A t \in Threads : InFlight(t) = {} /\ Pending(t) = {}
      /\ \A h : ~Queued(h)
  BY RangeOfEmpty DEF Init, InFlight, Pending, Queued
<1>2. TypeOK
  <2>1. 1 \in 1 .. MaxHandle + 1
    BY HandleTableAssumption
  <2> QED  BY <2>1 DEF Init, TypeOK
<1>3. FreshAhead /\ CallShape /\ OwnedAreLive /\ AllAccounted
  BY <1>1 DEF Init, FreshAhead, CallShape, OwnedAreLive, AllAccounted, Live
<1>4. ResultsArePrivate
  BY NoHandleIsNone DEF Init, ResultsArePrivate
<1>5. PendingAreLive
  BY <1>1 DEF PendingAreLive
<1>6. QueueIsExact
  BY <1>1, RangeOfEmpty DEF Init, QueueIsExact, QueuedOnce, QueueIsSound
<1>7. RoomToCreate
  <2>1. Creating = {}
    BY DEF Init, Creating
  <2>2. Cardinality({}) = 0
    BY FS_EmptySet
  <2> QED  BY <2>1, <2>2, HandleTableAssumption DEF Init, RoomToCreate
<1>8. OnlyKnownFaults /\ AbandonedAreLost
  BY DEF Init, OnlyKnownFaults, NoDeadHandle, AbandonedAreLost
<1> QED  BY <1>2, <1>3, <1>4, <1>5, <1>6, <1>7, <1>8 DEF IInv

LEMMA StutterIInv ==
    ASSUME IInv, UNCHANGED vars
    PROVE  IInv'
  BY SameTableIInv DEF vars, table, call

LEMMA NextIInv ==
    ASSUME IInv, Next
    PROVE  IInv'
<1>1. ASSUME NEW t \in Threads, NEW f \in ApiFunctions, NEW obj \in Objects,
             CreateObject(t, f, obj)
      PROVE  IInv'
  BY <1>1, CreateObjectKeepsIInv
<1>2. ASSUME NEW t \in Threads, NEW f \in ApiFunctions, CreateNothing(t, f)
      PROVE  IInv'
  BY <1>2, CreateNothingKeepsIInv
<1>3. ASSUME NEW t \in Threads, NEW as \in ArgumentSets,
             NEW f \in Signatures[Cardinality(as)], BeginUse(t, as, f)
      PROVE  IInv'
  BY <1>3, BeginUseKeepsIInv
<1>4. ASSUME NEW t \in Threads, NEW dict \in Handles, NEW as \in ArgumentSets \cup {{}},
             NEW m \in BOOLEAN, BeginVariadicLocals(t, dict, as, m)
      PROVE  IInv'
  <2>1. as \in SUBSET Handles
    BY DEF ArgumentSets
  <2> QED  BY <1>4, <2>1, BeginVariadicLocalsKeepsIInv
<1>5. ASSUME NEW t \in Threads, NEW h \in Handles, BeginAllocAndCopyBuffer(t, h)
      PROVE  IInv'
  BY <1>5, BeginAllocAndCopyBufferKeepsIInv
<1>6. ASSUME NEW t \in Threads, NEW h \in Handles, Fetch(t, h) PROVE IInv'
  BY <1>6, FetchKeepsIInv
<1>7. ASSUME NEW t \in Threads, Operate(t) PROVE IInv'
  BY <1>7, OperateKeepsIInv
<1>8. ASSUME NEW t \in Threads, NEW obj \in Objects, CreateResult(t, obj) PROVE IInv'
  BY <1>8, CreateResultKeepsIInv
<1>9. ASSUME NEW t \in Threads, Drain(t) PROVE IInv'
  BY <1>9, DrainKeepsIInv
<1>10. ASSUME NEW t \in Threads, Mark(t) PROVE IInv'
  BY <1>10, MarkKeepsIInv
<1>11. ASSUME NEW t \in Threads, NEW h \in Handles, CopyHandle(t, h) PROVE IInv'
  BY <1>11, CopyHandleKeepsIInv
<1>12. ASSUME NEW t \in Threads, NEW h \in Handles, Release(t, h) PROVE IInv'
  BY <1>12, ReleaseKeepsIInv
<1>13. ASSUME NEW t \in Threads, NEW h \in Handles, NEW value \in BOOLEAN, SetSUH(t, h, value)
       PROVE  IInv'
  BY <1>13, SetSUHKeepsIInv
<1> QED  BY <1>1, <1>2, <1>3, <1>4, <1>5, <1>6, <1>7, <1>8, <1>9, <1>10, <1>11, <1>12, <1>13
         DEF Next

(* What holds of the calls and the table, whatever the mods do.            *)
THEOREM Invariance == Spec => []IInv
<1>1. IInv /\ [Next]_vars => IInv'
  BY NextIInv, StutterIInv
<1> QED  BY <1>1, InitIInv, PTL DEF Spec
-----------------------------------------------------------------------------
(* The properties of the runs.                                             *)

(* The state of the handle table keeps its type.                           *)
THEOREM TypeCorrect == Spec => []TypeOK
<1>1. IInv => TypeOK
  BY DEF IInv
<1> QED  BY <1>1, Invariance, PTL

(* No handle operation is asked for a handle that is 0 or not live: the    *)
(* asserts of get_py_object(), copy_handle(), set_handle_suh(),            *)
(* release_handle() and del() hold.                                        *)
THEOREM HandlesAreLive ==
    ASSUME PoliteMods
    PROVE  Spec => []NoDeadHandle
<1>1. IInv => NoDeadHandle
  BY DEF IInv, OnlyKnownFaults
<1> QED  BY <1>1, Invariance, PTL

(* No call releases what a mod still owns.                                 *)
THEOREM OwnershipIsRespected == Spec => []OwnedAreLive
<1>1. IInv => OwnedAreLive
  BY DEF IInv
<1> QED  BY <1>1, Invariance, PTL

(* The shared queue holds each given-up Single-Use handle once, whichever  *)
(* thread drains it.                                                       *)
THEOREM QueueIsRight == Spec => []QueuedOnce
<1>1. IInv => QueuedOnce
  BY DEF IInv, QueueIsExact
<1> QED  BY <1>1, Invariance, PTL

(* No live handle is forgotten but those a loop that raised has abandoned: *)
(* the other error paths release what the call was passed.                 *)
THEOREM AllAreAccountedFor ==
    ASSUME ~NestedErrors
    PROVE  Spec => []NothingForgotten
<1>1. ASSUME IInv, NEW h \in Handles, Live(h), owner[h] = Nobody, h \notin abandoned
      PROVE  \/ \E t \in Threads : h \in InFlight(t) \/ result[t] = h
             \/ h \in Range(queue) /\ \E t \in Threads : pc[t] \in BeforeDrain
  <2>1. CASE Queued(h)
    BY <1>1, <2>1 DEF IInv, QueueIsExact, Queued
  <2>2. CASE ~Queued(h)
    <3>1. ~Doomed
      BY <1>1 DEF Doomed, IInv, CallShape
    <3> QED  BY <1>1, <2>2, <3>1 DEF IInv, AllAccounted, InFlight, Pending
  <2> QED  BY <2>1, <2>2
<1>2. IInv => NothingForgotten
  BY <1>1 DEF NothingForgotten
<1> QED  BY <1>2, Invariance, PTL

(* Between calls the live handles are exactly those the mods own and those *)
(* a loop has abandoned.                                                   *)
THEOREM NoLeaks == Spec => []QuiescentIsExact
<1>1. ASSUME IInv, \A t \in Threads : pc[t] = "idle"
      PROVE  /\ queue = <<>>
             /\ \A h \in Handles : Live(h) <=> owner[h] # Nobody \/ h \in abandoned
  <2>1. \A t \in Threads : Pending(t) = {} /\ result[t] = NoHandle
    BY <1>1 DEF IInv, CallShape, InFlight, Pending
  <2>2. \A h \in Handles : ~Queued(h)
    BY <1>1 DEF IInv, QueueIsExact, BeforeDrain
  <2>3. queue = <<>>
    <3>1. queue \in Seq(Handles)
      BY <1>1 DEF IInv, TypeOK
    <3> QED  BY <2>2, <3>1 DEF Queued, Range
  <2>4. \A h \in Handles : Live(h) => owner[h] # Nobody \/ h \in abandoned
    BY <1>1, <2>1, <2>2, NoHandleIsNone DEF IInv, AllAccounted, Doomed
  <2>5. \A h \in Handles : owner[h] # Nobody \/ h \in abandoned => Live(h)
    BY <1>1, AbandonedFacts DEF IInv, OwnedAreLive
  <2> QED  BY <2>3, <2>4, <2>5
<1>2. IInv => QuiescentIsExact
  BY <1>1 DEF QuiescentIsExact, Quiet
<1> QED  BY <1>2, Invariance, PTL

(* The handle table implements the handle store: create_handle() and       *)
(* copy_handle() create, release_handle() and release_suh_handles()        *)
(* release, and every other step is a stutter.                             *)
THEOREM Refinement == Spec => ImplementsHandleStore
<1> DEFINE names == [h \in Handles \cup {NoHandle} |->
                       IF h = NoHandle THEN NoObject ELSE entries[h].obj]
<1>1. Init => Store!Init
  BY DEF Init, Store!Init, NoEntry
<1>2. ASSUME IInv, NEW h \in Handles, Live(h)
      PROVE  entries[h] \in Entry /\ entries[h].obj \in Objects /\ names[h] # NoObject
  <2>1. entries[h] \in Entry
    BY <1>2 DEF IInv, TypeOK, Live
  <2>2. entries[h].obj \in Objects
    BY <2>1 DEF Entry
  <2>3. names[h] = entries[h].obj
    BY NoHandleIsNone
  <2> QED  BY <2>1, <2>2, <2>3, HandleTableAssumption
<1>3. ASSUME IInv, next \in Handles, NEW obj \in Objects, Add([obj |-> obj, suh |-> FALSE])
      PROVE  Store!Next
  <2>1. entries[next] = NoEntry
    BY <1>3, NextIsNew
  <2>2. names' = [names EXCEPT ![next] = obj]
    BY <1>3, NoHandleIsNone DEF Add, IInv, TypeOK
  <2>3. Store!Create(next, obj)
    BY <1>3, <2>1, <2>2, NoHandleIsNone DEF Store!Create, NoEntry
  <2> QED  BY <1>3, <2>3 DEF Store!Next
<1>4. ASSUME IInv, NEW released \in SUBSET Handles, \A h \in released : Live(h),
             \A h \in Handles : entries'[h] = IF h \in released THEN NoEntry ELSE entries[h]
      PROVE  Store!Next
  <2>1. released \subseteq Store!Live
    BY <1>2, <1>4 DEF Store!Live
  <2>2. names' = [h \in Handles \cup {NoHandle} |-> IF h \in released THEN NoObject ELSE names[h]]
    BY <1>4, NoHandleIsNone DEF NoEntry
  <2>3. Store!Release(released)
    BY <2>1, <2>2 DEF Store!Release
  <2> QED  BY <2>3 DEF Store!Next
<1>5. ASSUME IInv, NEW h \in Handles, Live(h), NEW value \in BOOLEAN, SetSingleUse(h, value)
      PROVE  names' = names
  <2>1. entries' = [entries EXCEPT ![h] = [entries[h] EXCEPT !.suh = value]]
    BY <1>5 DEF SetSingleUse
  <2>2. [entries[h] EXCEPT !.suh = value].obj = entries[h].obj
    BY <1>2, <1>5 DEF Entry
  <2> QED  BY <2>1, <2>2 DEF IInv, TypeOK
<1>6. ASSUME IInv, entries' = entries PROVE names' = names
  BY <1>6
<1>7. IInv /\ [Next]_vars => [Store!Next]_names
  <2> SUFFICES ASSUME IInv, [Next]_vars PROVE Store!Next \/ names' = names
    OBVIOUS
  <2> HIDE DEF names
  <2>1. ASSUME NEW t \in Threads, NEW f \in ApiFunctions, NEW obj \in Objects,
               CreateObject(t, f, obj)
        PROVE  Store!Next
    <3>1. next \in Handles
      BY <2>1, CreatingFinite, Numbers DEF CreateObject, MayCreate, IInv, Handles, Creating
    <3> QED  BY <1>3, <2>1, <3>1 DEF CreateObject
  <2>2. ASSUME NEW t \in Threads, NEW f \in ApiFunctions, CreateNothing(t, f)
        PROVE  names' = names
    BY <1>6, <2>2 DEF CreateNothing, table
  <2>3. ASSUME NEW t \in Threads, NEW as, NEW f, BeginUse(t, as, f)
        PROVE  names' = names
    BY <1>6, <2>3 DEF BeginUse, Enter, table
  <2>4. ASSUME NEW t \in Threads, NEW dict \in Handles, NEW as,
               NEW m \in BOOLEAN, BeginVariadicLocals(t, dict, as, m)
        PROVE  names' = names
    BY <1>6, <2>4 DEF BeginVariadicLocals, Enter, table
  <2>5. ASSUME NEW t \in Threads, NEW h \in Handles, BeginAllocAndCopyBuffer(t, h)
        PROVE  names' = names
    BY <1>6, <2>5 DEF BeginAllocAndCopyBuffer, Enter, table
  <2>6. ASSUME NEW t \in Threads, NEW h \in Handles, Fetch(t, h) PROVE names' = names
    BY <1>6, <2>6 DEF Fetch, FailOn, Lookup, table
  <2>7. ASSUME NEW t \in Threads, Operate(t) PROVE names' = names
    BY <1>6, <2>7 DEF Operate, Succeed, Raise, Escape, table
  <2>8. ASSUME NEW t \in Threads, NEW obj \in Objects, CreateResult(t, obj) PROVE Store!Next
    <3>1. t \in Creating
      BY <2>8 DEF CreateResult, Creating, IInv, CallShape
    <3>2. Cardinality(Creating) \in Nat /\ Cardinality(Creating) # 0
      BY <3>1, CreatingFinite, FS_EmptySet DEF Creating
    <3>3. next \in Handles
      BY <3>2, Numbers DEF RoomToCreate, IInv, Handles
    <3> QED  BY <1>3, <2>8, <3>3 DEF CreateResult
  <2>9. ASSUME NEW t \in Threads, Drain(t) PROVE Store!Next \/ names' = names
    <3>1. CASE ~QueueIsSound
      BY <1>6, <2>9, <3>1 DEF Drain, table
    <3>2. CASE QueueIsSound
      <4> DEFINE released == Range(queue)
      <4>1. released \in SUBSET Handles /\ \A h \in released : Live(h)
        BY <3>2 DEF QueueIsSound, Live
      <4>2. \A h \in Handles : entries'[h] = IF h \in released THEN NoEntry ELSE entries[h]
        BY <2>9, <3>2 DEF Drain, DrainQueue
      <4> QED  BY <1>4, <4>1, <4>2
    <3> QED  BY <3>1, <3>2
  <2>10. ASSUME NEW t \in Threads, Mark(t) PROVE names' = names
    <3>1. CASE Live(result[t]) /\ SetSingleUse(result[t], TRUE)
      BY <1>5, <3>1 DEF Live
    <3>2. CASE FailOn(result[t])
      BY <1>6, <3>2 DEF FailOn, table
    <3> QED  BY <2>10, <3>1, <3>2 DEF Mark
  <2>11. ASSUME NEW t \in Threads, NEW h \in Handles, CopyHandle(t, h)
         PROVE  Store!Next \/ names' = names
    <3>1. CASE FailOn(h)
      BY <1>6, <3>1 DEF FailOn, table
    <3>2. CASE Live(h) /\ Add(PlainCopy(h))
      <4>1. entries[h].obj \in Objects
        BY <1>2, <3>2
      <4>2. next \in Handles
        BY <2>11, CreatingFinite, Numbers DEF CopyHandle, MayCreate, IInv, Handles, Creating
      <4> QED  BY <1>3, <3>2, <4>1, <4>2 DEF PlainCopy
    <3> QED  BY <2>11, <3>1, <3>2 DEF CopyHandle, CopyEntry
  <2>12. ASSUME NEW t \in Threads, NEW h \in Handles, Release(t, h)
         PROVE  Store!Next \/ names' = names
    <3>1. CASE FailOn(h)
      BY <1>6, <3>1 DEF FailOn, table
    <3>2. CASE Live(h) /\ entries' = [entries EXCEPT ![h] = NoEntry]
      <4>1. \A x \in Handles : entries'[x] = IF x \in {h} THEN NoEntry ELSE entries[x]
        BY <3>2 DEF IInv, TypeOK
      <4> QED  BY <1>4, <3>2, <4>1
    <3> QED  BY <2>12, <3>1, <3>2 DEF Release
  <2>13. ASSUME NEW t \in Threads, NEW h \in Handles, NEW value \in BOOLEAN, SetSUH(t, h, value)
         PROVE  names' = names
    <3>1. CASE Live(h) /\ SetSingleUse(h, value)
      BY <1>5, <3>1
    <3>2. CASE FailOn(h)
      BY <1>6, <3>2 DEF FailOn, table
    <3> QED  BY <2>13, <3>1, <3>2 DEF SetSUH
  <2>14. CASE UNCHANGED vars
    BY <1>6, <2>14 DEF vars, table
  <2> QED  BY <2>1, <2>2, <2>3, <2>4, <2>5, <2>6, <2>7, <2>8, <2>9, <2>10, <2>11, <2>12,
              <2>13, <2>14 DEF Next
<1> QED  BY <1>1, <1>7, Invariance, PTL DEF Spec, ImplementsHandleStore, Store!Spec
-----------------------------------------------------------------------------
(* No use after free.  It holds when the mods of one thread only are       *)
(* running, or when no mod uses Single-Use handles; the run                *)
(* handle_shared_use refutes it with two threads that do.                  *)

Sole == \E t \in Threads : Threads = {t}

(* An entry a call points to is live, and queued if it is Single-Use: it   *)
(* is not released before the queue is drained.                            *)
PointersAreLive ==
    \A t \in Threads : \A h \in held[t] :
        /\ Live(h)
        /\ entries[h].suh => Queued(h)

NoneIsSingleUse ==
    SUHThreads = {} => /\ \A h \in Handles : ~entries[h].suh
                       /\ \A t \in Threads : ~marks[t]

PInv == PointersAreLive /\ NoneIsSingleUse /\ NoStalePointer

(* A step that follows no new pointer and keeps what the pointers need.    *)
LEMMA PointersKept ==
    ASSUME PointersAreLive,
           \A u \in Threads : held'[u] \subseteq held[u],
           \A u \in Threads : \A x \in held'[u] :
              /\ entries'[x] = entries[x]
              /\ Queued(x) => Queued(x)'
    PROVE  PointersAreLive'
  BY DEF PointersAreLive, Live

(* A step of a thread outside of its calls.                                *)
LEMMA IdleKeepsPointers ==
    ASSUME IInv, PointersAreLive, Sole \/ SUHThreads = {}, NEW t \in Threads,
           held[t] = {}, UNCHANGED held,
           \A u \in Threads \ {t} : \A x \in held[u] : SUHThreads = {} =>
              /\ entries'[x] = entries[x]
              /\ Queued(x) => Queued(x)'
    PROVE  PointersAreLive'
<1>1. CASE Sole
  <2>1. \A u \in Threads : held'[u] = {}
    BY <1>1 DEF Sole
  <2> QED  BY <2>1 DEF PointersAreLive
<1>2. CASE SUHThreads = {}
  <2>1. \A u \in Threads : \A x \in held'[u] : u # t
    OBVIOUS
  <2> QED  BY <1>2, <2>1, PointersKept
<1> QED  BY <1>1, <1>2

(* A lookup that fails ends the process before it changes the table.       *)
LEMMA DeadHandleChangesNothing ==
    ASSUME Next, fault' = "dead handle"
    PROVE  UNCHANGED <<table, call, owner>>
<1>1. fault = "none"
  BY DEF Next
<1>2. ASSUME NEW t \in Threads, NEW f \in ApiFunctions, NEW obj \in Objects, CreateObject(t, f, obj)
      PROVE  FALSE
  BY <1>1, <1>2 DEF CreateObject
<1>3. ASSUME NEW t \in Threads, NEW f \in ApiFunctions, CreateNothing(t, f)
      PROVE  FALSE
  BY <1>1, <1>3 DEF CreateNothing
<1>4. ASSUME NEW t \in Threads, NEW as \in ArgumentSets,
             NEW f \in Signatures[Cardinality(as)], BeginUse(t, as, f)
      PROVE  FALSE
  BY <1>1, <1>4 DEF BeginUse, Enter
<1>5. ASSUME NEW t \in Threads, NEW dict \in Handles, NEW as \in ArgumentSets \cup {{}},
             NEW m \in BOOLEAN, BeginVariadicLocals(t, dict, as, m)
      PROVE  FALSE
  BY <1>1, <1>5 DEF BeginVariadicLocals, Enter
<1>6. ASSUME NEW t \in Threads, NEW h \in Handles, BeginAllocAndCopyBuffer(t, h)
      PROVE  FALSE
  BY <1>1, <1>6 DEF BeginAllocAndCopyBuffer, Enter
<1>7. ASSUME NEW t \in Threads, NEW h \in Handles,
             \/ Fetch(t, h) \/ CopyHandle(t, h) \/ Release(t, h)
             \/ \E value \in BOOLEAN : SetSUH(t, h, value)
      PROVE  UNCHANGED <<table, call, owner>>
  BY <1>1, <1>7 DEF Fetch, CopyHandle, Release, SetSUH, FailOn
<1>8. ASSUME NEW t \in Threads, Operate(t) \/ Drain(t) \/ Mark(t)
      PROVE  UNCHANGED <<table, call, owner>>
  BY <1>1, <1>8 DEF Operate, Succeed, Raise, Escape, Drain, Mark, FailOn
<1>9. ASSUME NEW t \in Threads, NEW obj \in Objects, CreateResult(t, obj)
      PROVE  FALSE
  BY <1>1, <1>9 DEF CreateResult
<1> QED  BY <1>2, <1>3, <1>4, <1>5, <1>6, <1>7, <1>8, <1>9 DEF Next

LEMMA NextPInv ==
    ASSUME Sole \/ SUHThreads = {}, IInv, PInv, Next, NoDeadHandle'
    PROVE  PInv'
<1>a. PointersAreLive /\ NoneIsSingleUse /\ NoStalePointer
  BY DEF PInv
<1>b. fault' # "dead handle"
  BY DEF NoDeadHandle
<1>c. /\ entries \in [Handles -> Entry \cup {NoEntry}]
      /\ marks \in [Threads -> BOOLEAN]
      /\ result \in [Threads -> Handles \cup {NoHandle}]
      /\ owner \in [Handles -> Threads \cup {Nobody}]
      /\ queue \in Seq(Handles)
      /\ held \in [Threads -> SUBSET Handles]
  BY DEF IInv, TypeOK
<1>d. \A t \in Threads : pc[t] \in {"idle", "mark"} => held[t] = {}
  BY DEF IInv, CallShape, InFlight
<1>e. \A u \in Threads : \A x \in held[u] : x \in Handles /\ Live(x)
  BY <1>a DEF PointersAreLive, Live
<1>f. \A given : SUHThreads = {} /\ given \subseteq Handles => GivenUp(given) = {}
  BY <1>a DEF GivenUp, NoneIsSingleUse
<1>g. ASSUME GiveUp({}) PROVE owner' = owner
  BY <1>c, <1>g DEF GiveUp
<1>1. ASSUME NEW t \in Threads, NEW f \in ApiFunctions, NEW obj \in Objects,
             CreateObject(t, f, obj)
      PROVE  PInv'
  <2>1. /\ pc[t] = "idle" /\ UNCHANGED <<queue, held, fault>>
        /\ Add([obj |-> obj, suh |-> FALSE])
        /\ marks' = [marks EXCEPT ![t] = f.marks]
        /\ f.marks => MayMark(t)
        /\ owner' = owner \/ owner' = [owner EXCEPT ![next] = t]
        /\ result' = result \/ result' = [result EXCEPT ![t] = next]
    BY <1>1 DEF CreateObject
  <2>2. next \in Handles
    BY <1>1, CreatingFinite, Numbers DEF CreateObject, MayCreate, IInv, Handles, Creating
  <2>3. \A h \in Handles \ {next} : entries'[h] = entries[h] /\ owner'[h] = owner[h]
    BY <1>c, <2>1, <2>2, AddFacts
  <2>4. \A u \in Threads : next \notin held[u]
    BY <2>2, NextIsNew DEF InFlight
  <2>5. \A u \in Threads \ {t} : result'[u] = result[u]
    BY <1>c, <2>1
  <2>6. PointersAreLive'
    BY <1>a, <1>d, <1>e, <2>1, <2>3, <2>4, <2>5, IdleKeepsPointers DEF Queued
  <2>7. NoneIsSingleUse'
    BY <1>a, <1>c, <2>1, <2>2, <2>3, AddFacts DEF NoneIsSingleUse, MayMark
  <2> QED  BY <1>a, <2>1, <2>6, <2>7 DEF PInv, NoStalePointer
<1>2. ASSUME NEW t \in Threads, NEW f \in ApiFunctions, CreateNothing(t, f)
      PROVE  PInv'
  <2>1. /\ pc[t] = "idle"
        /\ UNCHANGED <<entries, queue, held, owner, result, fault>>
        /\ marks' = [marks EXCEPT ![t] = f.marks]
        /\ f.marks => MayMark(t)
    BY <1>2 DEF CreateNothing, table
  <2>2. PointersAreLive'
    BY <1>a, <1>d, <2>1, IdleKeepsPointers DEF Queued
  <2>3. NoneIsSingleUse'
    BY <1>a, <1>c, <2>1 DEF NoneIsSingleUse, MayMark
  <2> QED  BY <1>a, <2>1, <2>2, <2>3 DEF PInv, NoStalePointer
<1>3. ASSUME NEW t \in Threads, NEW as \in ArgumentSets,
             NEW f \in Signatures[Cardinality(as)], BeginUse(t, as, f)
      PROVE  PInv'
  <2>1. /\ pc[t] = "idle"
        /\ UNCHANGED <<entries, queue, held, result, fault>>
        /\ marks' = [marks EXCEPT ![t] = f.marks]
        /\ f.marks => MayMark(t)
        /\ GiveUp(GivenUp(as))
    BY <1>3 DEF BeginUse, Enter, table
  <2>2. as \subseteq Handles
    BY DEF ArgumentSets
  <2>3. SUHThreads = {} => owner' = owner
    BY <1>f, <1>g, <2>1, <2>2
  <2>4. PointersAreLive'
    BY <1>a, <1>d, <2>1, <2>3, IdleKeepsPointers DEF Queued
  <2>5. NoneIsSingleUse'
    BY <1>a, <1>c, <2>1 DEF NoneIsSingleUse, MayMark
  <2> QED  BY <1>a, <2>1, <2>4, <2>5 DEF PInv, NoStalePointer
<1>4. ASSUME NEW t \in Threads, NEW dict \in Handles, NEW as \in ArgumentSets \cup {{}},
             NEW m \in BOOLEAN, BeginVariadicLocals(t, dict, as, m)
      PROVE  PInv'
  <2>1. /\ pc[t] = "idle"
        /\ UNCHANGED <<entries, queue, held, fault>>
        /\ result' = [result EXCEPT ![t] = dict]
        /\ marks' = [marks EXCEPT ![t] = m]
        /\ m => MayMark(t)
        /\ GiveUp(GivenUp(as) \cup IF m THEN {dict} ELSE {})
    BY <1>4 DEF BeginVariadicLocals, Enter, table
  <2>2. as \subseteq Handles
    BY DEF ArgumentSets
  <2>3. SUHThreads = {} => ~m /\ owner' = owner
    <3>1. SUHThreads = {} => ~m
      BY <2>1 DEF MayMark
    <3>2. SUHThreads = {} => GivenUp(as) \cup (IF m THEN {dict} ELSE {}) = {}
      BY <1>f, <2>2, <3>1
    <3> QED  BY <1>g, <2>1, <3>1, <3>2
  <2>4. PointersAreLive'
    BY <1>a, <1>c, <1>d, <2>1, <2>3, IdleKeepsPointers DEF Queued
  <2>5. NoneIsSingleUse'
    BY <1>a, <1>c, <2>1 DEF NoneIsSingleUse, MayMark
  <2> QED  BY <1>a, <2>1, <2>4, <2>5 DEF PInv, NoStalePointer
<1>5. ASSUME NEW t \in Threads, NEW h \in Handles, BeginAllocAndCopyBuffer(t, h)
      PROVE  PInv'
  <2>1. /\ pc[t] = "idle"
        /\ UNCHANGED <<entries, queue, held, result, marks, fault>>
        /\ GiveUp(GivenUp({h}))
    BY <1>5 DEF BeginAllocAndCopyBuffer, Enter, table
  <2>2. SUHThreads = {} => owner' = owner
    BY <1>f, <1>g, <2>1
  <2>3. PointersAreLive'
    BY <1>a, <1>d, <2>1, <2>2, IdleKeepsPointers DEF Queued
  <2>4. NoneIsSingleUse'
    BY <1>a, <2>1 DEF NoneIsSingleUse
  <2> QED  BY <1>a, <2>1, <2>3, <2>4 DEF PInv, NoStalePointer
<1>6. ASSUME NEW t \in Threads, NEW h \in Handles, Fetch(t, h) PROVE PInv'
  <2>1. /\ Lookup(h) /\ UNCHANGED <<owner, result, marks, fault>>
        /\ held' = [held EXCEPT ![t] = @ \cup {h}]
        /\ h \in args[t] /\ h \in Pending(t) /\ Live(h)
    BY <1>b, <1>6 DEF Fetch, FailOn, Pending
  <2>2. Live(h) /\ (entries[h].suh => ~Queued(h))
    BY <2>1 DEF IInv, PendingAreLive, Spent, Available
  <2>3. /\ entries' = entries
        /\ \A x : Queued(x) => Queued(x)'
        /\ entries[h].suh => Queued(h)'
    <3>1. IsInjective(queue)
      BY DEF IInv, QueueIsExact, QueuedOnce, QueueIsSound
    <3>2. CASE entries[h].suh
      BY <1>c, <2>1, <2>2, <3>1, <3>2, RangeOfAppend DEF Lookup, QueueIfSingleUse, Queued
    <3>3. CASE ~entries[h].suh
      BY <2>1, <3>3 DEF Lookup, QueueIfSingleUse, Queued
    <3> QED  BY <3>2, <3>3, <2>1 DEF Lookup
  <2>4. \A u \in Threads : \A x \in held'[u] : x \in held[u] \/ (x = h /\ u = t)
    <3>1. \A u \in Threads : held'[u] = IF u = t THEN held[t] \cup {h} ELSE held[u]
      BY <1>c, <2>1
    <3> QED  BY <3>1
  <2>5. PointersAreLive'
    BY <1>a, <2>1, <2>2, <2>3, <2>4 DEF PointersAreLive, Live
  <2>6. NoneIsSingleUse'
    BY <1>a, <2>1, <2>3 DEF NoneIsSingleUse
  <2> QED  BY <1>a, <2>1, <2>5, <2>6 DEF PInv, NoStalePointer
<1>7. ASSUME NEW t \in Threads, Operate(t) PROVE PInv'
  <2>1. /\ pc[t] = "operate" /\ ~(\E h \in held[t] : ~Live(h))
    BY <1>7, <1>e DEF Operate
  <2>2. /\ UNCHANGED <<entries, queue, owner, marks>>
        /\ held' = held \/ held' = [held EXCEPT ![t] = @ \cap {result[t]}]
        /\ fault' \in {fault, "uncaught exception"}
    BY <1>7, <2>1 DEF Operate, Succeed, Raise, Escape, table, call
  <2>3. \A u \in Threads : held'[u] \subseteq held[u]
    BY <1>c, <2>2
  <2>4. PointersAreLive'
    BY <1>a, <2>2, <2>3, PointersKept DEF Queued
  <2>5. NoneIsSingleUse'
    BY <1>a, <2>2 DEF NoneIsSingleUse
  <2> QED  BY <1>a, <2>2, <2>4, <2>5 DEF PInv, NoStalePointer
<1>8. ASSUME NEW t \in Threads, NEW obj \in Objects, CreateResult(t, obj) PROVE PInv'
  <2>1. /\ UNCHANGED <<queue, held, owner, marks, fault>>
        /\ Add([obj |-> obj, suh |-> FALSE])
        /\ result' = [result EXCEPT ![t] = next]
        /\ result[t] = NoHandle
    BY <1>8 DEF CreateResult, IInv, CallShape
  <2>2. next \in Handles
    <3>1. t \in Creating
      BY <1>8 DEF CreateResult, Creating, IInv, CallShape
    <3>2. Cardinality(Creating) \in Nat /\ Cardinality(Creating) # 0
      BY <3>1, CreatingFinite, FS_EmptySet DEF Creating
    <3> QED  BY <3>2, Numbers DEF RoomToCreate, IInv, Handles
  <2>3. /\ \A h \in Handles \ {next} : entries'[h] = entries[h]
        /\ ~entries'[next].suh
    BY <2>1, <2>2, AddFacts
  <2>4. \A u \in Threads : next \notin held[u]
    BY <2>2, NextIsNew DEF InFlight
  <2>5. \A u \in Threads : \A x \in held[u] : result[u] = x => result'[u] = x
    BY <1>c, <1>e, <2>1, NoHandleIsNone
  <2>6. PointersAreLive'
    BY <1>a, <1>e, <2>1, <2>3, <2>4, <2>5, PointersKept DEF Queued
  <2>7. NoneIsSingleUse'
    BY <1>a, <2>1, <2>3 DEF NoneIsSingleUse
  <2> QED  BY <1>a, <2>1, <2>6, <2>7 DEF PInv, NoStalePointer
<1>9. ASSUME NEW t \in Threads, Drain(t) PROVE PInv'
  <2>1. QueueIsSound
    BY DEF IInv, QueueIsExact, QueuedOnce
  <2>2. /\ DrainQueue /\ UNCHANGED <<marks, fault>>
        /\ held' = [held EXCEPT ![t] = {}]
        /\ \/ result' = result /\ owner' = owner
           \/ result' = [result EXCEPT ![t] = NoHandle] /\ HandOver(t)
    BY <1>9, <2>1 DEF Drain
  <2>3. SUHThreads = {} => \A x \in Handles : ~Queued(x) /\ entries'[x] = entries[x]
    BY <1>a, <2>2 DEF NoneIsSingleUse, IInv, QueueIsExact, DrainQueue, Queued
  <2>4. held'[t] = {} /\ \A u \in Threads \ {t} : held'[u] = held[u] /\ result'[u] = result[u]
    BY <1>c, <2>2
  <2>5. \A x \in Handles : owner[x] # Nobody => owner'[x] # Nobody
    BY <1>c, <2>2, NobodyIsNone DEF HandOver
  <2>6. CASE Sole
    <3>1. \A u \in Threads : held'[u] = {}
      BY <2>4, <2>6 DEF Sole
    <3> QED  BY <1>a, <2>2, <3>1 DEF PInv, PointersAreLive, NoneIsSingleUse, NoStalePointer, DrainQueue, NoEntry
  <2>7. CASE SUHThreads = {}
    <3>1. \A u \in Threads : \A x \in held'[u] : u # t /\ x \in held[u] /\ x \in Handles
      BY <1>e, <2>4
    <3>2. PointersAreLive'
      BY <1>a, <2>3, <2>4, <2>5, <2>7, <3>1, PointersKept
    <3>3. NoneIsSingleUse'
      BY <1>a, <2>2, <2>3 DEF NoneIsSingleUse
    <3> QED  BY <1>a, <2>2, <3>2, <3>3 DEF PInv, NoStalePointer
  <2> QED  BY <2>6, <2>7
<1>10. ASSUME NEW t \in Threads, Mark(t) PROVE PInv'
  <2>1. pc[t] = "mark" /\ marks[t] /\ fault' = fault /\ held' = held
    BY <1>b, <1>10 DEF Mark, FailOn, IInv, CallShape
  <2>2. SUHThreads # {}
    BY <1>a, <2>1 DEF NoneIsSingleUse
  <2>3. \A u \in Threads : held'[u] = {}
    BY <1>d, <2>1, <2>2 DEF Sole
  <2> QED  BY <1>a, <2>1, <2>2, <2>3 DEF PInv, PointersAreLive, NoneIsSingleUse, NoStalePointer
<1>11. ASSUME NEW t \in Threads, NEW h \in Handles, CopyHandle(t, h) PROVE PInv'
  <2>1. /\ pc[t] = "idle" /\ UNCHANGED <<held, marks, fault>>
        /\ Live(h) /\ Add(PlainCopy(h))
        /\ QueueIfSingleUse(h) /\ GiveUp(GivenUp({h}))
        /\ result' = [result EXCEPT ![t] = next]
    BY <1>b, <1>11 DEF CopyHandle, CopyEntry, FailOn
  <2>2. next \in Handles
    BY <1>11, CreatingFinite, Numbers DEF CopyHandle, MayCreate, IInv, Handles, Creating
  <2>3. entries[h].obj \in Objects
    BY <1>c, <2>1 DEF Live, Entry
  <2>4. /\ \A x \in Handles \ {next} : entries'[x] = entries[x]
        /\ ~entries'[next].suh
    BY <2>1, <2>2, <2>3, AddFacts DEF PlainCopy
  <2>5. SUHThreads = {} => owner' = owner /\ queue' = queue
    BY <1>a, <1>f, <1>g, <2>1 DEF QueueIfSingleUse, NoneIsSingleUse
  <2>6. \A u \in Threads : next \notin held[u]
    BY <2>2, NextIsNew DEF InFlight
  <2>7. \A u \in Threads \ {t} : result'[u] = result[u]
    BY <1>c, <2>1
  <2>8. PointersAreLive'
    BY <1>a, <1>d, <1>e, <2>1, <2>4, <2>5, <2>6, <2>7, IdleKeepsPointers DEF Queued
  <2>9. NoneIsSingleUse'
    BY <1>a, <2>1, <2>4 DEF NoneIsSingleUse
  <2> QED  BY <1>a, <2>1, <2>8, <2>9 DEF PInv, NoStalePointer
<1>12. ASSUME NEW t \in Threads, NEW h \in Handles, Release(t, h) PROVE PInv'
  <2>1. /\ pc[t] = "idle" /\ UNCHANGED <<queue, held, result, marks, fault>>
        /\ \A u \in Threads \ {t} : h \notin held[u]
        /\ entries' = [entries EXCEPT ![h] = NoEntry]
        /\ owner' = [owner EXCEPT ![h] = Nobody]
    BY <1>b, <1>12 DEF Release, FailOn, MayRelease, UsedElsewhere, InFlight, call
  <2>2. PointersAreLive'
    BY <1>a, <1>d, <2>1, IdleKeepsPointers DEF Queued
  <2>3. NoneIsSingleUse'
    BY <1>a, <1>c, <2>1 DEF NoneIsSingleUse, NoEntry
  <2> QED  BY <1>a, <2>1, <2>2, <2>3 DEF PInv, NoStalePointer
<1>13. ASSUME NEW t \in Threads, NEW h \in Handles, NEW value \in BOOLEAN, SetSUH(t, h, value)
       PROVE  PInv'
  <2>1. /\ pc[t] = "idle" /\ UNCHANGED <<queue, held, owner, result, marks, fault>>
        /\ \A u \in Threads \ {t} : h \notin held[u]
        /\ SetSingleUse(h, value) /\ Live(h)
        /\ value => MayMark(t)
    BY <1>b, <1>13 DEF SetSUH, FailOn, MayRelease, UsedElsewhere, InFlight, call
  <2>2. entries'[h].suh = value /\ \A x \in Handles \ {h} : entries'[x] = entries[x]
    BY <1>c, <2>1, EntrySetSUH DEF SetSingleUse, Live
  <2>3. PointersAreLive'
    BY <1>a, <1>d, <1>e, <2>1, <2>2, IdleKeepsPointers DEF Queued
  <2>4. NoneIsSingleUse'
    BY <1>a, <2>1, <2>2 DEF NoneIsSingleUse, MayMark
  <2> QED  BY <1>a, <2>1, <2>3, <2>4 DEF PInv, NoStalePointer
<1> QED  BY <1>1, <1>2, <1>3, <1>4, <1>5, <1>6, <1>7, <1>8, <1>9, <1>10, <1>11, <1>12, <1>13
         DEF Next

(* No call follows a pointer into a released entry, with one thread or     *)
(* with plain handles only.                                                *)
THEOREM PointersAreSafe ==
    ASSUME Sole \/ SUHThreads = {}
    PROVE  Spec => []NoStalePointer
<1>1. Init => PInv
  <2>1. Init => \A h \in Handles : ~entries[h].suh
    BY DEF Init, NoEntry
  <2> QED  BY <2>1 DEF Init, PInv, PointersAreLive, NoneIsSingleUse, NoStalePointer
<1>2. IInv /\ PInv /\ [Next]_vars => PInv'
  <2>1. PInv /\ UNCHANGED vars => PInv'
    BY DEF vars, table, call, PInv, PointersAreLive, NoneIsSingleUse, NoStalePointer, Live, Queued
  <2>2. Next /\ PInv /\ ~NoDeadHandle' => PInv'
    BY DeadHandleChangesNothing
       DEF NoDeadHandle, table, call, PInv, PointersAreLive, NoneIsSingleUse, NoStalePointer, Live, Queued
  <2> QED  BY <2>1, <2>2, NextPInv
<1>3. PInv => NoStalePointer
  BY DEF PInv
<1> QED  BY <1>1, <1>2, <1>3, Invariance, PTL DEF Spec
=============================================================================
