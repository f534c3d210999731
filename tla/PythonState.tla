----------------------------- MODULE PythonState -----------------------------
(***************************************************************************)
(* State and AsyncState of the Python client (state.py): one cell that the *)
(* reader thread sets, threads that iterate over State.changes(), and      *)
(* tasks that iterate over AsyncState.changes().  What runs under the      *)
(* cell's lock is one step; the listeners are called, and the current      *)
(* value is replayed to a new one, outside of it.                          *)
(*                                                                         *)
(* A value is the number of the _set that stored it, which makes _value    *)
(* and _version one variable: all the code compares is the version.        *)
(***************************************************************************)
EXTENDS Integers, Sequences, SequencesExt

CONSTANTS
    Observers,   \* the iterators that State.changes() returned
    Pollers,     \* the iterators that AsyncState.changes() returned
    MaxSets      \* bound: how often the cell is set

ASSUME MaxSetsAssumption == MaxSets \in Nat

VARIABLES
    value,       \* _value and _version
    listeners,   \* _listeners: whose updates.put is registered
    todo,        \* the listeners that the running _set has yet to call
    observer,    \* where each changes() of a State is
    snapshot,    \* what `self.value` returned to it
    updates,     \* its Queue
    yielded,     \* what it has handed to the loop over it
    seen         \* seen_version of each changes() of an AsyncState

cellVars == <<value, listeners, todo>>
observerVars == <<observer, snapshot, updates, yielded>>
vars == <<cellVars, observerVars, seen>>

Init ==
    /\ value = 0
    /\ listeners = {}
    /\ todo = {}
    /\ observer = [o \in Observers |-> "new"]
    /\ snapshot = [o \in Observers |-> -1]
    /\ updates = [o \in Observers |-> <<>>]
    /\ yielded = [o \in Observers |-> <<>>]
    /\ seen = [p \in Pollers |-> -1]

-----------------------------------------------------------------------------
(* _set: subscription callbacks call it, all of them on the reader thread. *)

(* Under the lock: store the value and copy the listeners.                 *)
Set ==
    /\ todo = {}
    /\ value < MaxSets
    /\ value' = value + 1
    /\ todo' = listeners
    /\ UNCHANGED <<listeners, observerVars, seen>>

(* Fault: the queues hold one value, and a listener never blocks.          *)
CallListenerUnlessFull(o) ==
    /\ o \in todo
    /\ todo' = todo \ {o}
    /\ updates' = [updates EXCEPT ![o] = IF @ = <<>> THEN <<value>> ELSE @]
    /\ UNCHANGED <<value, listeners, observer, snapshot, yielded, seen>>

(* listener(value), which is updates.put; the copy is of a set.            *)
CallListener(o) ==
    /\ o \in todo
    /\ todo' = todo \ {o}
    /\ updates' = [updates EXCEPT ![o] = Append(@, value)]
    /\ UNCHANGED <<value, listeners, observer, snapshot, yielded, seen>>

-----------------------------------------------------------------------------
(* State.changes()                                                         *)

Moves(o, here, there) ==
    /\ observer[o] = here
    /\ observer' = [observer EXCEPT ![o] = there]

(* Fault: there is room for one listener.                                  *)
ListenAlone(o) ==
    /\ Moves(o, "new", "listening")
    /\ listeners' = {o}
    /\ UNCHANGED <<value, todo, snapshot, updates, yielded, seen>>

(* self._listen(updates.put)                                               *)
Listen(o) ==
    /\ Moves(o, "new", "listening")
    /\ listeners' = listeners \cup {o}
    /\ UNCHANGED <<value, todo, snapshot, updates, yielded, seen>>

(* The argument of updates.put(self.value).                                *)
ReadValue(o) ==
    /\ Moves(o, "listening", "read")
    /\ snapshot' = [snapshot EXCEPT ![o] = value]
    /\ UNCHANGED <<cellVars, updates, yielded, seen>>

PutValue(o) ==
    /\ Moves(o, "read", "loop")
    /\ updates' = [updates EXCEPT ![o] = Append(@, snapshot[o])]
    /\ UNCHANGED <<cellVars, snapshot, yielded, seen>>

(* Fault: a LifoQueue.                                                     *)
YieldNewest(o) ==
    /\ observer[o] = "loop"
    /\ updates[o] # <<>>
    /\ updates' = [updates EXCEPT ![o] = Front(@)]
    /\ yielded' = [yielded EXCEPT ![o] = Append(@, Last(updates[o]))]
    /\ UNCHANGED <<cellVars, observer, snapshot, seen>>

(* yield updates.get()                                                     *)
Yield(o) ==
    /\ observer[o] = "loop"
    /\ updates[o] # <<>>
    /\ updates' = [updates EXCEPT ![o] = Tail(@)]
    /\ yielded' = [yielded EXCEPT ![o] = Append(@, Head(updates[o]))]
    /\ UNCHANGED <<cellVars, observer, snapshot, seen>>

(* Fault: nothing unsubscribes.                                            *)
UnsubscribeNot(o) ==
    /\ yielded[o] # <<>>
    /\ Moves(o, "loop", "closed")
    /\ UNCHANGED <<cellVars, snapshot, updates, yielded, seen>>

(* The iterator is closed where it is suspended: finally unsubscribe().    *)
(* A _set that copied the listeners before still puts into its queue.      *)
Unsubscribe(o) ==
    /\ yielded[o] # <<>>
    /\ Moves(o, "loop", "closed")
    /\ listeners' = listeners \ {o}
    /\ UNCHANGED <<value, todo, snapshot, updates, yielded, seen>>

-----------------------------------------------------------------------------
(* AsyncState.changes()                                                    *)

(* Fault: a task that missed a version waits for the one it missed.        *)
PollNext(p) ==
    /\ value = seen[p] + 1
    /\ seen' = [seen EXCEPT ![p] = value]
    /\ UNCHANGED <<cellVars, observerVars>>

(* _snapshot found another version, whose value is yielded; a turn of the  *)
(* loop that finds the same one changes nothing.                           *)
Poll(p) ==
    /\ value # seen[p]
    /\ seen' = [seen EXCEPT ![p] = value]
    /\ UNCHANGED <<cellVars, observerVars>>

-----------------------------------------------------------------------------

Step(o) == ReadValue(o) \/ PutValue(o) \/ Yield(o)

Next ==
    \/ Set
    \/ \E o \in Observers : \/ CallListener(o)
                            \/ Listen(o)
                            \/ Step(o)
                            \/ Unsubscribe(o)
    \/ \E p \in Pollers : Poll(p)

Spec == Init /\ [][Next]_vars

(* The reader thread calls its listeners, a thread that iterates goes on,  *)
(* and the event loop wakes a task from its sleep.  Nothing has to be set. *)
FairSpec ==
    /\ Spec
    /\ \A o \in Observers : WF_vars(CallListener(o)) /\ WF_vars(Step(o))
    /\ \A p \in Pollers : WF_vars(Poll(p))

-----------------------------------------------------------------------------

TypeOK ==
    /\ value \in 0..MaxSets
    /\ listeners = {o \in Observers : observer[o] \notin {"new", "closed"}}
    /\ todo \subseteq Observers
    /\ observer \in [Observers -> {"new", "listening", "read", "loop", "closed"}]
    /\ snapshot \in [Observers -> -1..MaxSets]
    /\ updates \in [Observers -> Seq(0..MaxSets)]
    /\ yielded \in [Observers -> Seq(0..MaxSets)]
    /\ seen \in [Pollers -> -1..MaxSets]

Delivered(o) == yielded[o] \o updates[o]

(* changes() listens before it reads the current value: from that value on *)
(* an observer is given every value that the cell ever held.               *)
NoUpdateLost ==
    \A o \in Observers : observer[o] = "loop" =>
        \A v \in snapshot[o]..value :
            Contains(Delivered(o), v) \/ (v = value /\ o \in todo)

(* The values come in the order in which they were set, each of them once; *)
(* only the replayed one may be out of place.                              *)
UpdatesInOrder ==
    \A o \in Observers : \A i, j \in 1..Len(Delivered(o)) :
        i < j => \/ Delivered(o)[i] < Delivered(o)[j]
                 \/ Delivered(o)[j] = snapshot[o]

(* core.md section 2 of the updates of a State: "new observers also see    *)
(* the current value".  The code puts the value it read after the lock was *)
(* released, behind a newer one that was put meanwhile, and the observer   *)
(* is left with the old value until the next update: it does not hold.     *)
ObserverEndsUpToDate ==
    \A o \in Observers :
        observer[o] = "loop" /\ updates[o] = <<>> /\ o \notin todo =>
            Last(yielded[o]) = value

(* An observer that keeps iterating comes to see every value that was set  *)
(* while it did.                                                           *)
ObserversSeeEveryValue ==
    \A o \in Observers : \A n \in 0..MaxSets :
        observer[o] = "loop" /\ value = n
            ~> observer[o] = "closed" \/ Contains(yielded[o], n)

(* A polling task may skip values, but sees each one that lasts, or a      *)
(* newer one instead.                                                      *)
PollersCatchUp ==
    \A p \in Pollers : \A n \in 0..MaxSets : value = n ~> seen[p] >= n
=============================================================================
