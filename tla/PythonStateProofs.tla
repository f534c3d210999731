-------------------------- MODULE PythonStateProofs --------------------------
(***************************************************************************)
(* What holds of PythonState for any number of observers, of pollers and   *)
(* of values set.                                                          *)
(***************************************************************************)
EXTENDS PythonState, SequenceTheorems, TLAPS

-----------------------------------------------------------------------------
(* The inductive invariant.                                                *)

(* An observer has a snapshot from ReadValue on, of a value that was set.  *)
SnapshotTaken ==
    \A o \in Observers :
        IF observer[o] \in {"new", "listening"}
        THEN snapshot[o] = -1
        ELSE snapshot[o] \in 0..value

(* The same as NoUpdateLost, but for the value that is still to be put.    *)
NoUpdateLostYet ==
    \A o \in Observers : observer[o] = "read" =>
        \A v \in (snapshot[o] + 1)..value :
            \/ \E i \in 1..Len(Delivered(o)) : Delivered(o)[i] = v
            \/ v = value /\ o \in todo

(* Nobody is given a value before it is set, and an observer that _set has *)
(* yet to call does not have the new value, unless by its snapshot.        *)
NothingFromTheFuture ==
    \A o \in Observers : \A i \in 1..Len(Delivered(o)) :
        /\ Delivered(o)[i] <= value
        /\ o \in todo => Delivered(o)[i] < value \/ Delivered(o)[i] = snapshot[o]

IInv ==
    /\ TypeOK
    /\ SnapshotTaken
    /\ NoUpdateLostYet
    /\ NoUpdateLost
    /\ NothingFromTheFuture
    /\ UpdatesInOrder

-----------------------------------------------------------------------------
(* Sequences                                                               *)

(* What Append does to the length and to the elements.                     *)
LEMMA AppendFacts ==
  ASSUME NEW S, NEW s \in Seq(S), NEW x \in S
  PROVE  /\ Append(s, x) \in Seq(S)
         /\ Len(s) \in Nat
         /\ Len(Append(s, x)) = Len(s) + 1
         /\ \A i \in 1..Len(s) : Append(s, x)[i] = s[i]
         /\ Append(s, x)[Len(s) + 1] = x
  OBVIOUS

(* To append to the second of two sequences is to append to both.          *)
LEMMA ConcatAppend ==
  ASSUME NEW S, NEW s \in Seq(S), NEW t \in Seq(S), NEW x \in S
  PROVE  s \o Append(t, x) = Append(s \o t, x)
  <1>1. <<x>> \in Seq(S) /\ s \o t \in Seq(S)
    OBVIOUS
  <1>2. Append(t, x) = t \o <<x>> /\ Append(s \o t, x) = (s \o t) \o <<x>>
    BY <1>1, AppendIsConcat
  <1> QED
    BY <1>1, <1>2, ConcatAssociative

(* To move the head of the second to the end of the first changes nothing. *)
LEMMA ConcatMove ==
  ASSUME NEW S, NEW s \in Seq(S), NEW t \in Seq(S), t # <<>>
  PROVE  /\ Head(t) \in S
         /\ Tail(t) \in Seq(S)
         /\ Append(s, Head(t)) \o Tail(t) = s \o t
  <1>1. Head(t) \in S /\ Tail(t) \in Seq(S) /\ <<Head(t)>> \in Seq(S)
    OBVIOUS
  <1>2. t = <<Head(t)>> \o Tail(t)
    BY <1>1
  <1>3. Append(s, Head(t)) = s \o <<Head(t)>>
    BY <1>1, AppendIsConcat
  <1>4. (s \o <<Head(t)>>) \o Tail(t) = s \o (<<Head(t)>> \o Tail(t))
    BY <1>1, ConcatAssociative
  <1> QED
    BY <1>1, <1>2, <1>3, <1>4

-----------------------------------------------------------------------------
(* Types                                                                   *)

LEMMA InitIInv == Init => IInv
  <1> SUFFICES ASSUME Init PROVE IInv
    OBVIOUS
  <1>1. \A o \in Observers : Len(Delivered(o)) = 0
    BY DEF Init, Delivered
  <1> QED
    BY <1>1, MaxSetsAssumption
    DEF Init, IInv, TypeOK, SnapshotTaken, NoUpdateLostYet, NoUpdateLost,
        NothingFromTheFuture, UpdatesInOrder

LEMMA TypesNext == TypeOK /\ SnapshotTaken /\ [Next]_vars => TypeOK' /\ SnapshotTaken'
  <1> SUFFICES ASSUME TypeOK, SnapshotTaken, [Next]_vars
               PROVE  TypeOK' /\ SnapshotTaken'
    OBVIOUS
  <1> USE MaxSetsAssumption DEF TypeOK, SnapshotTaken, cellVars, observerVars
  <1>1. CASE Set
    BY <1>1 DEF Set
  <1>2. ASSUME NEW o \in Observers, CallListener(o)
        PROVE  TypeOK' /\ SnapshotTaken'
    <2>1. Append(updates[o], value) \in Seq(0..MaxSets)
      OBVIOUS
    <2> QED
      BY <1>2, <2>1 DEF CallListener
  <1>3. ASSUME NEW o \in Observers, Listen(o) \/ Unsubscribe(o)
        PROVE  TypeOK' /\ SnapshotTaken'
    BY <1>3 DEF Listen, Unsubscribe, Moves
  <1>4. ASSUME NEW o \in Observers, ReadValue(o)
        PROVE  TypeOK' /\ SnapshotTaken'
    BY <1>4 DEF ReadValue, Moves
  <1>5. ASSUME NEW o \in Observers, PutValue(o)
        PROVE  TypeOK' /\ SnapshotTaken'
    <2>1. observer[o] = "read"
      BY <1>5 DEF PutValue, Moves
    <2>2. snapshot[o] \in 0..value
      BY <2>1
    <2>3. snapshot[o] \in 0..MaxSets
      BY <2>2
    <2>4. Append(updates[o], snapshot[o]) \in Seq(0..MaxSets)
      BY <2>3, AppendFacts
    <2> QED
      BY <1>5, <2>4 DEF PutValue, Moves
  <1>6. ASSUME NEW o \in Observers, Yield(o)
        PROVE  TypeOK' /\ SnapshotTaken'
    <2>1. /\ Tail(updates[o]) \in Seq(0..MaxSets)
          /\ Append(yielded[o], Head(updates[o])) \in Seq(0..MaxSets)
      BY <1>6, AppendFacts, ConcatMove DEF Yield
    <2> QED
      BY <1>6, <2>1 DEF Yield
  <1>7. ASSUME NEW p \in Pollers, Poll(p)
        PROVE  TypeOK' /\ SnapshotTaken'
    BY <1>7 DEF Poll
  <1>8. CASE UNCHANGED vars
    BY <1>8 DEF vars
  <1> QED
    BY <1>1, <1>2, <1>3, <1>4, <1>5, <1>6, <1>7, <1>8 DEF Next, Step

-----------------------------------------------------------------------------
(* What a step does to what was delivered.                                 *)

LEMMA DeliveredType ==
  ASSUME TypeOK, NEW o \in Observers
  PROVE  Delivered(o) \in Seq(0..MaxSets)
  BY DEF TypeOK, Delivered

(* What was delivered is a number, which the order is about.               *)
LEMMA DeliveredNat ==
  ASSUME TypeOK, NEW o \in Observers, NEW i \in 1..Len(Delivered(o))
  PROVE  Delivered(o)[i] \in Nat
  <1>1. Delivered(o) \in Seq(0..MaxSets)
    BY DeliveredType
  <1> QED
    BY <1>1, MaxSetsAssumption

(* A value that is put comes last.                                         *)
LEMMA PutDelivers ==
  ASSUME TypeOK, NEW o \in Observers, NEW v \in 0..MaxSets,
         updates' = [updates EXCEPT ![o] = Append(@, v)], UNCHANGED yielded
  PROVE  /\ Delivered(o)' = Append(Delivered(o), v)
         /\ \A p \in Observers \ {o} : Delivered(p)' = Delivered(p)
  <1> DEFINE S == 0..MaxSets
  <1>1. yielded[o] \in Seq(S) /\ updates[o] \in Seq(S) /\ v \in S
    BY DEF TypeOK
  <1>2. yielded[o] \o Append(updates[o], v) = Append(yielded[o] \o updates[o], v)
    <2>1. \A a, b \in Seq(S) : \A x \in S : a \o Append(b, x) = Append(a \o b, x)
      BY ConcatAppend
    <2> HIDE DEF S
    <2> QED
      BY <1>1, <2>1
  <1> QED
    BY <1>2 DEF TypeOK, Delivered

(* To yield changes nothing.                                               *)
LEMMA YieldDelivers ==
  ASSUME TypeOK, NEW o \in Observers, Yield(o)
  PROVE  \A p \in Observers : Delivered(p)' = Delivered(p)
  <1>1. /\ yielded[o] \in Seq(0..MaxSets)
        /\ updates[o] \in Seq(0..MaxSets)
        /\ updates[o] # <<>>
    BY DEF TypeOK, Yield
  <1>2. Append(yielded[o], Head(updates[o])) \o Tail(updates[o]) = yielded[o] \o updates[o]
    BY <1>1, ConcatMove
  <1> QED
    BY <1>2 DEF TypeOK, Delivered, Yield

-----------------------------------------------------------------------------
(* The four parts about what was delivered, action by action.              *)

DeliveryOK == NoUpdateLostYet /\ NoUpdateLost /\ NothingFromTheFuture /\ UpdatesInOrder

LEMMA SetDelivers == IInv /\ Set => DeliveryOK'
  <1> SUFFICES ASSUME IInv, Set PROVE DeliveryOK'
    OBVIOUS
  <1>1. /\ \A o \in Observers : Delivered(o)' = Delivered(o)
        /\ value \in Nat /\ value' = value + 1 /\ todo = {} /\ todo' = listeners
        /\ UNCHANGED <<observer, snapshot>>
    BY DEF IInv, TypeOK, Set, Delivered, cellVars, observerVars
  <1>2. \A o \in Observers : observer[o] \in {"read", "loop"} =>
          o \in todo' /\ snapshot[o] \in 0..value
    BY <1>1 DEF IInv, TypeOK, SnapshotTaken
  <1>3. NoUpdateLostYet'
    BY <1>1, <1>2 DEF IInv, NoUpdateLostYet
  <1>4. NoUpdateLost'
    BY <1>1, <1>2 DEF IInv, NoUpdateLost, Contains
  <1>5. NothingFromTheFuture'
    BY <1>1, DeliveredNat DEF IInv, NothingFromTheFuture
  <1>6. UpdatesInOrder'
    BY <1>1 DEF IInv, UpdatesInOrder
  <1> QED
    BY <1>3, <1>4, <1>5, <1>6 DEF DeliveryOK

(* The listener is called: the value it was not given yet comes last.      *)
LEMMA CallListenerDelivers ==
  ASSUME IInv, NEW o \in Observers, CallListener(o)
  PROVE  DeliveryOK'
  <1>1. /\ o \in todo /\ todo' = todo \ {o} /\ value \in 0..MaxSets /\ value \in Nat
        /\ UNCHANGED <<value, observer, snapshot, yielded>>
        /\ updates' = [updates EXCEPT ![o] = Append(@, value)]
    BY MaxSetsAssumption DEF IInv, TypeOK, CallListener
  <1>2. /\ Delivered(o)' = Append(Delivered(o), value)
        /\ \A p \in Observers \ {o} : Delivered(p)' = Delivered(p)
    BY <1>1, PutDelivers DEF IInv
  <1>3. /\ Len(Delivered(o)) \in Nat
        /\ Len(Delivered(o)') = Len(Delivered(o)) + 1
        /\ \A i \in 1..Len(Delivered(o)) :
              Delivered(o)'[i] = Delivered(o)[i] /\ Delivered(o)[i] \in Nat
        /\ Delivered(o)'[Len(Delivered(o)) + 1] = value
    BY <1>1, <1>2, DeliveredType, DeliveredNat, AppendFacts DEF IInv
  <1>4. snapshot[o] \in Int /\ snapshot[o] <= value
    BY <1>1 DEF IInv, TypeOK, SnapshotTaken
  <1> HIDE DEF Delivered
  <1>5. NoUpdateLostYet'
    BY <1>1, <1>2, <1>3, SMTT(30) DEF IInv, NoUpdateLostYet
  <1>6. NoUpdateLost'
    BY <1>1, <1>2, <1>3, SMTT(30) DEF IInv, NoUpdateLost, Contains
  <1>7. NothingFromTheFuture'
    BY <1>1, <1>2, <1>3 DEF IInv, NothingFromTheFuture
  <1>8. UpdatesInOrder'
    <2>1. \A i \in 1..Len(Delivered(o)) :
            Delivered(o)[i] < value \/ Delivered(o)[i] = snapshot[o]
      BY <1>1 DEF IInv, NothingFromTheFuture
    <2>2. \A i, j \in 1..Len(Delivered(o)') : i < j =>
            Delivered(o)'[i] < Delivered(o)'[j] \/ Delivered(o)'[j] = snapshot[o]
      <3> SUFFICES ASSUME NEW i \in 1..Len(Delivered(o)'), NEW j \in 1..Len(Delivered(o)'), i < j
                   PROVE  \/ Delivered(o)'[i] < Delivered(o)'[j]
                          \/ Delivered(o)'[j] = snapshot[o]
        OBVIOUS
      <3>1. i \in 1..Len(Delivered(o)) /\ Delivered(o)'[i] = Delivered(o)[i]
        BY <1>3
      <3>2. CASE j \in 1..Len(Delivered(o))
        BY <3>1, <3>2, <1>3 DEF IInv, UpdatesInOrder
      <3>3. CASE j = Len(Delivered(o)) + 1
        BY <3>1, <3>3, <2>1, <1>1, <1>3, <1>4
      <3> QED
        BY <3>2, <3>3, <1>3
    <2> QED
      BY <1>1, <1>2, <2>2 DEF IInv, UpdatesInOrder
  <1> QED
    BY <1>5, <1>6, <1>7, <1>8 DEF DeliveryOK

LEMMA ReadValueDelivers ==
  ASSUME IInv, NEW o \in Observers, ReadValue(o)
  PROVE  DeliveryOK'
  <1>1. /\ \A p \in Observers : Delivered(p)' = Delivered(p)
        /\ observer[o] = "listening" /\ observer' = [observer EXCEPT ![o] = "read"]
        /\ snapshot' = [snapshot EXCEPT ![o] = value]
        /\ UNCHANGED <<value, todo>> /\ value \in Int
    BY DEF IInv, TypeOK, ReadValue, Moves, Delivered, cellVars
  <1>2. snapshot[o] = -1 /\ snapshot'[o] = value /\ observer'[o] = "read"
    BY <1>1 DEF IInv, TypeOK, SnapshotTaken
  <1>3. \A p \in Observers \ {o} : snapshot'[p] = snapshot[p] /\ observer'[p] = observer[p]
    BY <1>1 DEF IInv, TypeOK
  <1>4. \A i \in 1..Len(Delivered(o)) : Delivered(o)[i] \in Nat
    BY DeliveredNat DEF IInv
  <1>5. NoUpdateLostYet'
    BY <1>1, <1>2, <1>3 DEF IInv, NoUpdateLostYet
  <1>6. NoUpdateLost'
    BY <1>1, <1>2, <1>3 DEF IInv, NoUpdateLost
  <1>7. NothingFromTheFuture'
    BY <1>1, <1>2, <1>3, <1>4 DEF IInv, NothingFromTheFuture
  <1>8. UpdatesInOrder'
    BY <1>1, <1>2, <1>3, <1>4 DEF IInv, UpdatesInOrder
  <1> QED
    BY <1>5, <1>6, <1>7, <1>8 DEF DeliveryOK

LEMMA PutValueDelivers ==
  ASSUME IInv, NEW o \in Observers, PutValue(o)
  PROVE  DeliveryOK'
  <1>1. /\ observer[o] = "read" /\ observer' = [observer EXCEPT ![o] = "loop"]
        /\ UNCHANGED <<value, todo, snapshot, yielded>>
        /\ updates' = [updates EXCEPT ![o] = Append(@, snapshot[o])]
    BY DEF PutValue, Moves, cellVars
  <1>2. snapshot[o] \in 0..value /\ value \in 0..MaxSets
    BY <1>1 DEF IInv, TypeOK, SnapshotTaken
  <1>3. snapshot[o] \in 0..MaxSets /\ snapshot[o] \in Nat /\ value \in Nat
    BY <1>2, MaxSetsAssumption
  <1>4. /\ Delivered(o)' = Append(Delivered(o), snapshot[o])
        /\ \A p \in Observers \ {o} : Delivered(p)' = Delivered(p)
    BY <1>1, <1>3, PutDelivers DEF IInv
  <1>5. /\ Len(Delivered(o)) \in Nat
        /\ Len(Delivered(o)') = Len(Delivered(o)) + 1
        /\ \A i \in 1..Len(Delivered(o)) : Delivered(o)'[i] = Delivered(o)[i]
        /\ Delivered(o)'[Len(Delivered(o)) + 1] = snapshot[o]
    BY <1>3, <1>4, DeliveredType, AppendFacts DEF IInv
  <1>6. \A p \in Observers \ {o} : observer'[p] = observer[p]
    BY <1>1 DEF IInv, TypeOK
  <1>7. observer'[o] = "loop"
    BY <1>1 DEF IInv, TypeOK
  <1>8. NoUpdateLostYet'
    BY <1>1, <1>4, <1>6, <1>7 DEF IInv, NoUpdateLostYet
  <1>9. NoUpdateLost'
    <2>1. SUFFICES ASSUME NEW w \in snapshot[o]..value
                   PROVE  Contains(Delivered(o)', w) \/ (w = value /\ o \in todo)
      BY <1>1, <1>4, <1>6 DEF IInv, NoUpdateLost, Contains
    <2>2. CASE w = snapshot[o]
      BY <2>2, <1>5 DEF Contains
    <2>3. CASE w \in (snapshot[o] + 1)..value
      BY <2>3, <1>1, <1>5 DEF IInv, NoUpdateLostYet, Contains
    <2> QED
      BY <2>2, <2>3, <1>3
  <1>10. NothingFromTheFuture'
    BY <1>1, <1>2, <1>4, <1>5 DEF IInv, NothingFromTheFuture
  <1>11. UpdatesInOrder'
    BY <1>1, <1>4, <1>5, SMTT(30) DEF IInv, UpdatesInOrder
  <1> QED
    BY <1>8, <1>9, <1>10, <1>11 DEF DeliveryOK

LEMMA QuietDelivers ==
  ASSUME IInv,
         \A o \in Observers : Delivered(o)' = Delivered(o),
         \A o \in Observers : observer'[o] \in {"read", "loop"} => observer'[o] = observer[o],
         UNCHANGED <<value, todo, snapshot>>
  PROVE  DeliveryOK'
  <1>1. NoUpdateLostYet'
    BY DEF IInv, NoUpdateLostYet
  <1>2. NoUpdateLost'
    BY DEF IInv, NoUpdateLost
  <1>3. NothingFromTheFuture'
    BY DEF IInv, NothingFromTheFuture
  <1>4. UpdatesInOrder'
    BY DEF IInv, UpdatesInOrder
  <1> QED
    BY <1>1, <1>2, <1>3, <1>4 DEF DeliveryOK

LEMMA IInvNext == IInv /\ [Next]_vars => IInv'
  <1> SUFFICES ASSUME IInv, [Next]_vars PROVE DeliveryOK'
    BY TypesNext DEF IInv, DeliveryOK
  <1>1. CASE Set
    BY <1>1, SetDelivers
  <1>2. ASSUME NEW o \in Observers, CallListener(o) PROVE DeliveryOK'
    BY <1>2, CallListenerDelivers
  <1>3. ASSUME NEW o \in Observers, ReadValue(o) PROVE DeliveryOK'
    BY <1>3, ReadValueDelivers
  <1>4. ASSUME NEW o \in Observers, PutValue(o) PROVE DeliveryOK'
    BY <1>4, PutValueDelivers
  <1>5. ASSUME NEW o \in Observers, Listen(o) \/ Unsubscribe(o) PROVE DeliveryOK'
    <2>1. /\ \A p \in Observers : Delivered(p)' = Delivered(p)
          /\ UNCHANGED <<value, todo, snapshot>>
      BY <1>5 DEF Listen, Unsubscribe, Delivered
    <2>2. \A p \in Observers : observer'[p] \in {"read", "loop"} => observer'[p] = observer[p]
      BY <1>5 DEF Listen, Unsubscribe, Moves, IInv, TypeOK
    <2> QED
      BY <2>1, <2>2, QuietDelivers
  <1>6. ASSUME NEW o \in Observers, Yield(o) PROVE DeliveryOK'
    <2>1. \A p \in Observers : Delivered(p)' = Delivered(p)
      BY <1>6, YieldDelivers DEF IInv
    <2>2. UNCHANGED <<value, todo, snapshot, observer>>
      BY <1>6 DEF Yield, cellVars
    <2> QED
      BY <2>1, <2>2, QuietDelivers
  <1>7. CASE (\E p \in Pollers : Poll(p)) \/ UNCHANGED vars
    BY <1>7, QuietDelivers DEF Poll, vars, cellVars, observerVars, Delivered
  <1> QED
    BY <1>1, <1>2, <1>3, <1>4, <1>5, <1>6, <1>7 DEF Next, Step

-----------------------------------------------------------------------------
(* The theorems                                                            *)

(* Whatever threads iterate and poll, the cell keeps its invariant.         *)
THEOREM Invariance == Spec => []IInv
  <1> QED
    BY InitIInv, IInvNext, PTL DEF Spec

(* The variables keep their types, and the registered listeners are those  *)
(* of the iterators between their _listen and their unsubscribe.           *)
THEOREM TypeCorrect == Spec => []TypeOK
  <1>1. IInv => TypeOK
    BY DEF IInv
  <1> QED
    BY <1>1, Invariance, PTL

(* State.changes() registers before it reads, so from the value it read on *)
(* no value is lost to it, however _set and changes() interleave.          *)
THEOREM NothingIsLost == Spec => []NoUpdateLost
  <1>1. IInv => NoUpdateLost
    BY DEF IInv
  <1> QED
    BY <1>1, Invariance, PTL

(* An observer is given the values in the order in which they were set,    *)
(* but for the one that it read itself.                                    *)
THEOREM OrderIsKept == Spec => []UpdatesInOrder
  <1>1. IInv => UpdatesInOrder
    BY DEF IInv
  <1> QED
    BY <1>1, Invariance, PTL
=============================================================================
