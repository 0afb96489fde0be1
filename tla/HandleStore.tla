---------------------------- MODULE HandleStore ----------------------------
(***************************************************************************)
(* What the handle layer of REPY promises to everything above it: a        *)
(* REPY_Handle names at most one Python object, a new handle is never the  *)
(* name of an object that is still alive, and the name 0 is never used.    *)
(* This is the abstract specification that the slot map (SlotMap) and the  *)
(* handle operations of the GlobalRootController (HandleTable) implement.  *)
(***************************************************************************)
CONSTANTS Handles,    \* the values a REPY_Handle can take
          NoHandle,   \* REPY_NO_OBJECT, the value 0
          Objects,    \* the Python objects handles are given to
          NoObject    \* marks a handle that names nothing

VARIABLE store        \* handle -> the object it names

TypeOK == store \in [Handles -> Objects \cup {NoObject}]

Live == {h \in Handles : store[h] # NoObject}
-----------------------------------------------------------------------------
Init == store = [h \in Handles |-> NoObject]

(* A handle is created for obj: any value but 0 that names nothing.        *)
Create(h, obj) ==
    /\ h # NoHandle
    /\ store[h] = NoObject
    /\ store' = [store EXCEPT ![h] = obj]

(* Live handles are released: one by REPY_Release, several at the end of a *)
(* call that was passed Single-Use handles, all of them at shutdown.       *)
Release(released) ==
    /\ released \subseteq Live
    /\ store' = [h \in Handles |-> IF h \in released THEN NoObject ELSE store[h]]

Next ==
    \/ \E h \in Handles, obj \in Objects : Create(h, obj)
    \/ \E released \in SUBSET Handles : Release(released)

Spec == Init /\ [][Next]_store
=============================================================================
