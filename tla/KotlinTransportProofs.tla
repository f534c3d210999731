------------------------ MODULE KotlinTransportProofs ------------------------
(***************************************************************************)
(* What holds of KotlinTransport for every set of calls, every content of  *)
(* the port at the start and any amount of noise: the types, the path of   *)
(* the calls and correlation; then the slots of `pending` through close()  *)
(* and failTransport(), and the implementation of CommandChannel.          *)
(***************************************************************************)
EXTENDS KotlinTransport, SequenceTheorems, TLAPS

LEMMA InitTypeOK == Init => TypeOK
  BY CallsAssumption, LeftoversAssumption, NoiseAssumption
  DEF Init, TypeOK, Requests, Raws, Results, Idle

LEMMA BootTypeOK == TypeOK /\ Boot => TypeOK'
  <1> SUFFICES ASSUME TypeOK, Boot PROVE TypeOK'
    OBVIOUS
  <1> USE DEF TypeOK, Requests, Raws, loopVars, portVars, closeVars
  <1>1. CASE BootCrlf
    BY <1>1 DEF BootCrlf, WriteRaw
  <1>2. CASE BootStartCLI
    BY <1>2 DEF BootStartCLI, WriteRaw
  <1>3. CASE BootAwaits \/ BootReady \/ BootFails
    BY <1>3 DEF BootAwaits, BootReady, BootFails, BootMoves
  <1>4. CASE BootTimeout \/ BootCancelled
    BY <1>4 DEF BootTimeout, BootCancelled, BootMoves
  <1>5. CASE BootClosePort
    BY <1>5 DEF BootClosePort
  <1> QED
    BY <1>1, <1>2, <1>3, <1>4, <1>5 DEF Boot

LEMMA CompleteTypeOK ==
  ASSUME TypeOK, NEW c \in Calls, NEW r \in Results, Complete(c, r)
  PROVE  result' \in [Calls -> Results]
  BY DEF Complete, TypeOK

LEMMA WriterTypeOK == TypeOK /\ Writer => TypeOK'
  <1> SUFFICES ASSUME TypeOK, Writer PROVE TypeOK'
    OBVIOUS
  <1> USE DEF TypeOK, Requests, clientVars, portVars, closeVars
  <1>1. CASE WriterReceive
    <2>1. Head(writes) \in Requests /\ Tail(writes) \in Seq(Requests)
      BY <1>1 DEF WriterReceive
    <2> QED
      BY <1>1, <2>1 DEF WriterReceive, Requests
  <1>2. CASE WriterEnds \/ WriterDropsRequest \/ WriterStops
    BY <1>2 DEF WriterEnds, WriterDropsRequest, WriterStops
  <1>3. CASE WriterRegister
    BY <1>3 DEF WriterRegister
  <1>4. CASE WriterWrite
    BY <1>4 DEF WriterWrite
  <1>5. CASE WriterWriteFails \/ WriterCancelledAfterWrite
    <2>1. WriteThrows
      BY <1>5 DEF WriterWriteFails, WriterCancelledAfterWrite
    <2>2. result' \in [Calls -> Results]
      BY <2>1, CompleteTypeOK DEF WriteThrows, Failed, Results
    <2> QED
      BY <2>1, <2>2 DEF WriteThrows
  <1>6. CASE WriterWrote
    BY <1>6 DEF WriterWrote
  <1>7. CASE WriterFailsTransport
    BY <1>7 DEF WriterFailsTransport, Begin, loopVars
  <1> QED
    BY <1>1, <1>2, <1>3, <1>4, <1>5, <1>6, <1>7 DEF Writer

LEMMA ReaderTypeOK == TypeOK /\ Reader => TypeOK'
  <1> SUFFICES ASSUME TypeOK, Reader PROVE TypeOK'
    OBVIOUS
  <1> USE DEF TypeOK, loopVars, portVars, closeVars
  <1>1. CASE ReaderLine
    <2>1. Head(rx) \in Lines /\ Tail(rx) \in Seq(Lines)
      BY <1>1 DEF ReaderLine
    <2>2. initialized' \in {"pending", "done", "failed"}
      BY <1>1 DEF ReaderLine, handleLine
    <2>3. ASSUME completeNext(Head(rx))
          PROVE  pending' \in Seq(Calls) /\ result' \in [Calls -> Results]
      <3>1. CASE pending = <<>>
        BY <2>3, <3>1 DEF completeNext
      <3>2. CASE pending # <<>>
        <4>1. Head(pending) \in Calls /\ Tail(pending) \in Seq(Calls)
          BY <3>2
        <4>2. [tag |-> IF Head(rx).kind = "R" THEN "success" ELSE "error",
               of |-> Head(rx).of] \in Results
          BY <2>1 DEF Results, Lines
        <4> QED
          BY <2>3, <3>2, <4>1, <4>2, CompleteTypeOK DEF completeNext
      <3> QED
        BY <3>1, <3>2
    <2>4. pending' \in Seq(Calls) /\ result' \in [Calls -> Results]
      BY <1>1, <2>3 DEF ReaderLine, handleLine
    <2> QED
      BY <1>1, <2>1, <2>2, <2>4 DEF ReaderLine
  <1>2. CASE ReaderFails \/ ReaderStops \/ ReaderStopsFailing
    BY <1>2 DEF ReaderFails, ReaderStops, ReaderStopsFailing, clientVars
  <1>3. CASE ReaderFailsTransport
    BY <1>3 DEF ReaderFailsTransport, Begin, clientVars
  <1> QED
    BY <1>1, <1>2, <1>3 DEF Reader

LEMMA ShutdownTypeOK == TypeOK /\ Shutdown => TypeOK'
  <1> SUFFICES ASSUME TypeOK, Shutdown PROVE TypeOK'
    OBVIOUS
  <1> USE DEF TypeOK, loopVars, portVars, Teardown
  <1>1. CASE CloseWrites \/ ClosePending \/ Drained \/ CancelScope
    BY <1>1 DEF CloseWrites, ClosePending, Drained, CancelScope, clientVars
  <1>2. CASE FailInitialized
    BY <1>2 DEF FailInitialized
  <1>3. CASE Drain
    <2>1. Head(pending) \in Calls /\ Tail(pending) \in Seq(Calls)
      BY <1>3 DEF Drain
    <2>2. result' \in [Calls -> Results]
      BY <1>3, <2>1, CompleteTypeOK DEF Drain, Failed, Results
    <2> QED
      BY <1>3, <2>1, <2>2 DEF Drain
  <1>4. CASE ClosePort
    BY <1>4 DEF ClosePort, clientVars
  <1> QED
    BY <1>1, <1>2, <1>3, <1>4 DEF Shutdown

LEMMA LineTypes ==
  /\ Marker \in Lines
  /\ \A c \in Calls : AnswerTo(c) \in Lines
  /\ \A kind \in Noise : [kind |-> kind, of |-> NoCall] \in Lines
  BY NoiseAssumption DEF Marker, AnswerTo, Lines, Kinds

LEMMA ReceivesType ==
  ASSUME TypeOK, NEW line \in Lines, Receives(line)
  PROVE  rx' \in Seq(Lines)
  BY DEF TypeOK, Receives

LEMMA OthersTypeOK ==
  ASSUME TypeOK, \/ \E c \in Calls : Enqueue(c)
                 \/ Close \/ DeviceAnswers \/ DeviceSpeaks
  PROVE  TypeOK'
  <1> USE DEF TypeOK, clientVars, loopVars, portVars, closeVars
  <1>1. ASSUME NEW c \in Calls, Enqueue(c) PROVE TypeOK'
    <2>1. result' \in [Calls -> Results]
      BY <1>1 DEF Enqueue, Failed, Open, Results
    <2>2. writes' = writes \/ writes' = Append(writes, c)
      BY <1>1 DEF Enqueue
    <2>3. c \in Requests
      BY DEF Requests
    <2>4. writes' \in Seq(Requests)
      <3> HIDE DEF TypeOK
      <3>1. writes \in Seq(Requests)
        BY DEF TypeOK
      <3> QED
        BY <3>1, <2>2, <2>3
    <2> QED
      BY <1>1, <2>1, <2>4 DEF Enqueue
  <1>2. CASE Close
    BY <1>2 DEF Close, Begin
  <1>3. CASE DeviceAnswers
    <2>1. Head(toDevice) \in Requests /\ Tail(toDevice) \in Seq(Requests)
      BY <1>3 DEF DeviceAnswers
    <2>2. rx' \in Seq(Lines)
      BY <1>3, <2>1, ReceivesType, LineTypes DEF DeviceAnswers
    <2> QED
      BY <1>3, <2>1, <2>2 DEF DeviceAnswers
  <1>4. CASE DeviceSpeaks
    <2>1. PICK kind \in Noise : Receives([kind |-> kind, of |-> NoCall])
      BY <1>4 DEF DeviceSpeaks
    <2>2. rx' \in Seq(Lines)
      BY <2>1, ReceivesType, LineTypes
    <2> QED
      BY <1>4, <2>2, NoiseAssumption DEF DeviceSpeaks
  <1> QED
    BY <1>1, <1>2, <1>3, <1>4

LEMMA TypeOKNext == TypeOK /\ [Next]_vars => TypeOK'
  <1> SUFFICES ASSUME TypeOK, [Next]_vars PROVE TypeOK'
    OBVIOUS
  <1>1. CASE UNCHANGED vars
    BY <1>1 DEF TypeOK, vars, clientVars, loopVars, portVars, closeVars
  <1> QED
    BY <1>1, BootTypeOK, WriterTypeOK, ReaderTypeOK, ShutdownTypeOK,
       OthersTypeOK DEF Next

(* Type correctness of the transport's state.                              *)
THEOREM TypeCorrect == Spec => []TypeOK
  BY InitTypeOK, TypeOKNext, PTL DEF Spec

-----------------------------------------------------------------------------
(* What a step leaves alone.                                               *)

(* The writer may leave the states in which the request in its hand counts. *)
LEMMA OnePlaceFrame ==
  ASSUME OnePlace,
         UNCHANGED <<writes, pending, toDevice, rx, result>>,
         \/ UNCHANGED <<inHand, writer>>
         \/ writer' \notin {"register", "write"} /\ inHand' \in {inHand, NoCall}
  PROVE  OnePlace'
  <1> USE CallsAssumption
      DEF InWrites, InPending, WithDevice, Answered, IsAnswer
  <1>1. \A i, j \in 1..Len(writes') :
          writes'[i] \in Calls /\ writes'[i] = writes'[j] => i = j
    BY DEF OnePlace
  <1>2. \A i, j \in 1..Len(pending') : pending'[i] = pending'[j] => i = j
    BY DEF OnePlace
  <1>3. \A i \in 1..Len(rx') : rx'[i].of \in Calls => IsAnswer(rx'[i])
    BY DEF OnePlace
  <1>4. ASSUME NEW c \in Calls
        PROVE  /\ result'[c] = Idle => ~InWrites(c)' /\ inHand' # c
               /\ result'[c] = Idle \/ InWrites(c)'
                     \/ (inHand' = c /\ writer' = "register")
                    => ~InPending(c)' /\ ~WithDevice(c)' /\ ~Answered(c)'
               /\ InWrites(c)' => inHand' # c
               /\ inHand' = c /\ writer' = "write"
                    => ~WithDevice(c)' /\ ~Answered(c)'
    BY DEF OnePlace
  <1> QED
    BY <1>1, <1>2, <1>3, <1>4 DEF OnePlace

LEMMA FifoFrame ==
  ASSUME Fifo,
         UNCHANGED <<pending, toDevice, rx>>,
         writer = "failing" => writer' = "failing",
         writer = "write" => \/ writer' = "failing"
                             \/ writer' = "write" /\ inHand' = inHand,
         inHand' \in Calls /\ writer' = "write" =>
            inHand' = inHand /\ writer = "write"
  PROVE  Fifo'
  <1>1. SlotsForTheWire'
    BY DEF Fifo, SlotsForTheWire, InPending, WithDevice, Answered
  <1>2. SlotsAreOnTheirWay'
    BY DEF Fifo, SlotsAreOnTheirWay, WithDevice, Answered
  <1>3. LastSlotInHand'
    BY DEF Fifo, LastSlotInHand
  <1>4. LinesInOrder' /\ LinesBeforeDevice' /\ DeviceInOrder'
    BY DEF Fifo, LinesInOrder, LinesBeforeDevice, DeviceInOrder
  <1> QED
    BY <1>1, <1>2, <1>3, <1>4 DEF Fifo

LEMMA StaleFrame ==
  ASSUME StaleLinesFirst, UNCHANGED <<rx, initialized>>
  PROVE  StaleLinesFirst'
  BY DEF StaleLinesFirst, IsAnswer

LEMMA AppendFacts ==
  ASSUME NEW S, NEW s \in Seq(S), NEW x \in S
  PROVE  /\ Len(Append(s, x)) = Len(s) + 1
         /\ Len(s) \in Nat
         /\ \A i \in 1..Len(s) : Append(s, x)[i] = s[i]
         /\ Append(s, x)[Len(s) + 1] = x
  OBVIOUS

LEMMA TailFacts ==
  ASSUME NEW S, NEW s \in Seq(S), s # <<>>
  PROVE  /\ Head(s) = s[1] /\ Head(s) \in S
         /\ Len(s) \in Nat /\ Len(s) >= 1
         /\ Len(Tail(s)) = Len(s) - 1
         /\ \A i \in 1..(Len(s) - 1) : Tail(s)[i] = s[i + 1]
  BY HeadTailProperties

-----------------------------------------------------------------------------
(* The steps that move a call.                                             *)

(* pending.send: the call takes the last slot, before it is on the wire.   *)
LEMMA RegisterInv ==
  ASSUME IInv, WriterRegister
  PROVE  OnePlace' /\ (owner = "none" => Fifo')
  <1>1. inHand \in Calls /\ pending \in Seq(Calls)
    BY DEF IInv, TypeOK, WriterRegister
  <1>2. ~InPending(inHand) /\ ~WithDevice(inHand) /\ ~Answered(inHand)
    BY <1>1 DEF IInv, OnePlace, WriterRegister
  <1>3. /\ Len(pending') = Len(pending) + 1
        /\ Len(pending) \in Nat
        /\ \A i \in 1..Len(pending) : pending'[i] = pending[i]
        /\ pending'[Len(pending) + 1] = inHand
    BY <1>1, AppendFacts DEF WriterRegister
  <1>4. /\ UNCHANGED <<writes, toDevice, rx, result, inHand>>
        /\ writer = "register" /\ writer' = "write"
    BY DEF WriterRegister, portVars
  <1>5. OnePlace'
    <2> USE DEF OnePlace, InPending, InWrites, WithDevice, Answered, IsAnswer
    <2>1. \A i, j \in 1..Len(pending') : pending'[i] = pending'[j] => i = j
      BY <1>2, <1>3 DEF IInv
    <2>2. ASSUME NEW c \in Calls
          PROVE  /\ result'[c] = Idle \/ InWrites(c)' => c # inHand
                 /\ c # inHand => (InPending(c)' => InPending(c))
      BY <1>1, <1>3, <1>4 DEF IInv
    <2> QED
      BY <1>1, <1>2, <1>4, <2>1, <2>2 DEF IInv
  <1>6. ASSUME owner = "none" PROVE Fifo'
    <2> USE DEF InPending, WithDevice, Answered
    <2>0. Fifo
      BY <1>6 DEF IInv
    <2>1. SlotsForTheWire'
      BY <2>0, <1>3, <1>4 DEF Fifo, SlotsForTheWire
    <2>2. SlotsAreOnTheirWay'
      <3>1. ASSUME NEW p \in 1..Len(pending)
            PROVE  Answered(pending[p])' \/ WithDevice(pending[p])'
        BY <2>0, <1>3, <1>4 DEF Fifo, SlotsAreOnTheirWay
      <3>2. \A p \in 1..Len(pending') :
              p \in 1..Len(pending) \/ p = Len(pending')
        BY <1>3
      <3>3. inHand' = pending'[Len(pending')] /\ writer' = "write"
        BY <1>3, <1>4
      <3> HIDE DEF Answered, WithDevice
      <3> QED
        BY <3>1, <3>2, <3>3 DEF SlotsAreOnTheirWay
    <2>3. LastSlotInHand'
      BY <1>3, <1>4, <1>1 DEF LastSlotInHand, WriterRegister
    <2>4. \A p \in 1..Len(pending') :
             WithDevice(pending'[p]) \/ Answered(pending'[p]) =>
                p \in 1..Len(pending) /\ pending'[p] = pending[p]
      BY <1>2, <1>3
    <2>5. LinesInOrder'
      BY <2>0, <2>4, <1>4 DEF Fifo, LinesInOrder
    <2>6. LinesBeforeDevice'
      BY <2>0, <2>4, <1>4 DEF Fifo, LinesBeforeDevice
    <2>7. DeviceInOrder'
      BY <2>0, <2>4, <1>4 DEF Fifo, DeviceInOrder
    <2> QED
      BY <2>1, <2>2, <2>3, <2>5, <2>6, <2>7 DEF Fifo
  <1> QED
    BY <1>5, <1>6

(* writeBytes: the call goes to the device, behind all that went before.   *)
LEMMA WriteInv ==
  ASSUME IInv, WriterWrite
  PROVE  OnePlace' /\ (owner = "none" => Fifo')
  <1>1. inHand \in Requests /\ toDevice \in Seq(Requests)
    BY DEF IInv, TypeOK, WriterWrite
  <1>2. inHand \in Calls => ~WithDevice(inHand) /\ ~Answered(inHand)
    BY DEF IInv, OnePlace, WriterWrite
  <1>3. /\ Len(toDevice') = Len(toDevice) + 1
        /\ Len(toDevice) \in Nat
        /\ \A i \in 1..Len(toDevice) : toDevice'[i] = toDevice[i]
        /\ toDevice'[Len(toDevice) + 1] = inHand
    BY <1>1, AppendFacts DEF WriterWrite
  <1>4. /\ UNCHANGED <<writes, pending, rx, result, inHand>>
        /\ writer = "write" /\ writer' = "wrote"
    BY DEF WriterWrite, clientVars
  <1>5. OnePlace'
    <2> USE DEF OnePlace, InPending, InWrites, WithDevice, Answered, IsAnswer
    <2>1. ASSUME NEW c \in Calls
          PROVE  /\ result'[c] = Idle \/ InWrites(c)' => c # inHand
                 /\ c # inHand => (WithDevice(c)' => WithDevice(c))
      BY <1>1, <1>3, <1>4 DEF IInv
    <2> QED
      BY <1>4, <2>1 DEF IInv
  <1>6. ASSUME owner = "none" PROVE Fifo'
    <2> USE DEF InPending, WithDevice, Answered
    <2>0. Fifo /\ pending \in Seq(Calls)
      BY <1>6 DEF IInv, TypeOK
    <2>1. inHand \in Calls => pending # <<>> /\ pending[Len(pending)] = inHand
      BY <2>0, <1>4 DEF Fifo, LastSlotInHand
    <2>2. SlotsForTheWire'
      <3>1. inHand \in Calls => InPending(inHand)
        BY <2>0, <2>1
      <3>2. ASSUME NEW c \in Calls, WithDevice(c)'
            PROVE  WithDevice(c) \/ c = inHand
        BY <3>2, <1>3
      <3>3. ASSUME NEW c \in Calls PROVE UNCHANGED <<Answered(c), InPending(c)>>
        BY <1>4
      <3> HIDE DEF InPending, WithDevice, Answered
      <3> QED
        BY <2>0, <3>1, <3>2, <3>3 DEF Fifo, SlotsForTheWire
    <2>3. \A c \in Calls : WithDevice(c) \/ c = inHand => WithDevice(c)'
      BY <1>3, <1>4
    <2>4. SlotsAreOnTheirWay'
      <3>1. ASSUME NEW p \in 1..Len(pending)
            PROVE  Answered(pending[p])' \/ WithDevice(pending[p])'
        <4>1. pending[p] \in Calls
          BY <2>0
        <4>2. Answered(pending[p]) \/ WithDevice(pending[p]) \/ pending[p] = inHand
          <5> HIDE DEF WithDevice, Answered
          <5> QED
            BY <2>0, <1>4 DEF Fifo, SlotsAreOnTheirWay
        <4> QED
          BY <4>1, <4>2, <2>3, <1>4
      <3> QED
        BY <3>1, <1>4 DEF SlotsAreOnTheirWay
    <2>5. LastSlotInHand'
      BY <1>4 DEF LastSlotInHand
    <2>6. LinesInOrder'
      BY <2>0, <1>4 DEF Fifo, LinesInOrder
    <2>7. \A q \in 1..Len(pending) : pending[q] = inHand => q = Len(pending)
      BY <2>0, <2>1 DEF IInv, OnePlace
    <2>8. LinesBeforeDevice'
      <3> SUFFICES ASSUME NEW p \in 1..Len(pending), NEW q \in 1..Len(pending),
                          NEW i \in 1..Len(rx), NEW j \in 1..Len(toDevice'),
                          rx[i].of = pending[p], toDevice'[j] = pending[q]
                   PROVE  p < q
        BY <1>4 DEF LinesBeforeDevice
      <3>1. CASE j \in 1..Len(toDevice)
        BY <3>1, <2>0, <1>3 DEF Fifo, LinesBeforeDevice
      <3>2. CASE j = Len(toDevice) + 1
        <4>1. q = Len(pending) /\ pending[q] = inHand /\ inHand \in Calls
          BY <3>2, <1>3, <2>7, <2>0
        <4>2. pending[p] # inHand
          BY <4>1, <1>2
        <4> QED
          BY <4>1, <4>2
      <3> QED
        BY <3>1, <3>2, <1>3
    <2>9. DeviceInOrder'
      <3> SUFFICES ASSUME NEW p \in 1..Len(pending), NEW q \in 1..Len(pending),
                          NEW i \in 1..Len(toDevice'), NEW j \in 1..Len(toDevice'),
                          i < j,
                          toDevice'[i] = pending[p], toDevice'[j] = pending[q]
                   PROVE  p < q
        BY <1>4 DEF DeviceInOrder
      <3>1. CASE j \in 1..Len(toDevice)
        BY <3>1, <2>0, <1>3 DEF Fifo, DeviceInOrder
      <3>2. CASE j = Len(toDevice) + 1
        <4>1. q = Len(pending) /\ pending[q] = inHand /\ inHand \in Calls
          BY <3>2, <1>3, <2>7, <2>0
        <4>2. i \in 1..Len(toDevice) /\ toDevice[i] = pending[p]
          BY <3>2, <1>3
        <4>3. pending[p] # inHand
          BY <4>1, <4>2, <1>2
        <4> QED
          BY <4>1, <4>3
      <3> QED
        BY <3>1, <3>2, <1>3
    <2> QED
      BY <2>2, <2>4, <2>5, <2>6, <2>8, <2>9 DEF Fifo
  <1> QED
    BY <1>5, <1>6

(* A line that answers nobody arrives.                                     *)
LEMMA NoiseInv ==
  ASSUME IInv, DeviceSpeaks
  PROVE  OnePlace' /\ (owner = "none" => StaleLinesFirst' /\ Fifo')
  <1>1. /\ UNCHANGED <<writes, pending, toDevice, result, inHand, writer>>
        /\ UNCHANGED initialized
    BY DEF DeviceSpeaks, clientVars, loopVars
  <1>2. CASE UNCHANGED rx
    BY <1>1, <1>2, OnePlaceFrame, FifoFrame, StaleFrame DEF IInv
  <1>3. ASSUME NEW kind \in Noise,
               rx' = Append(rx, [kind |-> kind, of |-> NoCall])
        PROVE  OnePlace' /\ (owner = "none" => StaleLinesFirst' /\ Fifo')
    <2> DEFINE n == Len(rx)
    <2>0. /\ n \in Nat /\ Len(rx') = n + 1
          /\ \A i \in 1..n : rx'[i] = rx[i]
          /\ rx'[n + 1] = [kind |-> kind, of |-> NoCall]
      <3>1. rx \in Seq(Lines) /\ [kind |-> kind, of |-> NoCall] \in Lines
        BY LineTypes DEF IInv, TypeOK
      <3> QED
        BY <3>1, <1>3, AppendFacts
    <2>1. /\ n \in Nat /\ Len(rx') = n + 1
          /\ \A i \in 1..n : rx'[i] = rx[i]
          /\ rx'[n + 1].of = NoCall
          /\ ~IsAnswer(rx'[n + 1])
      BY <2>0, NoiseAssumption DEF IsAnswer
    <2> HIDE DEF n
    <2>2. ASSUME NEW c \in Calls
          PROVE  UNCHANGED <<InWrites(c), InPending(c), WithDevice(c), Answered(c)>>
      BY <2>1, <1>1, CallsAssumption DEF InWrites, InPending, WithDevice, Answered, n
    <2>3. OnePlace'
      <3>1. \A i \in 1..Len(rx') : rx'[i].of \in Calls => IsAnswer(rx'[i])
        BY <2>1, CallsAssumption DEF IInv, OnePlace, IsAnswer, n
      <3> QED
        BY <3>1, <2>2, <1>1 DEF IInv, OnePlace
    <2>4. ASSUME owner = "none" PROVE StaleLinesFirst'
      BY <2>4, <2>1, <1>1 DEF IInv, StaleLinesFirst, IsAnswer, n
    <2>5. ASSUME owner = "none" PROVE Fifo'
      <3>0. Fifo /\ pending \in Seq(Calls)
        BY <2>5 DEF IInv, TypeOK
      <3>1. SlotsForTheWire' /\ LastSlotInHand'
        BY <3>0, <2>2, <1>1 DEF Fifo, SlotsForTheWire, LastSlotInHand
      <3>2. SlotsAreOnTheirWay'
        BY <3>0, <2>2, <1>1 DEF Fifo, SlotsAreOnTheirWay
      <3>3. \A i \in 1..Len(rx') : \A p \in 1..Len(pending) :
              rx'[i].of = pending[p] => i \in 1..n /\ rx'[i] = rx[i]
        BY <3>0, <2>1, CallsAssumption
      <3>4. LinesInOrder'
        BY <3>0, <3>3, <1>1 DEF Fifo, LinesInOrder, n
      <3>5. LinesBeforeDevice' /\ DeviceInOrder'
        BY <3>0, <3>3, <1>1, SMTT(30) DEF Fifo, LinesBeforeDevice, DeviceInOrder, n
      <3> QED
        BY <3>1, <3>2, <3>4, <3>5 DEF Fifo
    <2> QED
      BY <2>3, <2>4, <2>5
  <1> QED
    BY <1>2, <1>3 DEF DeviceSpeaks, Receives

(* No call exists where there is no slot for it to exist from.             *)
LEMMA NoSlotBeforeReady ==
  ASSUME IInv, boot # "ready"
  PROVE  /\ pending = <<>>
         /\ \A c \in Calls : ~WithDevice(c) /\ ~Answered(c)
  <1>1. \A c \in Calls : ~InPending(c) /\ ~WithDevice(c) /\ ~Answered(c)
    BY DEF IInv, Handshake, OnePlace
  <1>2. pending \in Seq(Calls)
    BY DEF IInv, TypeOK
  <1>3. ASSUME pending # <<>> PROVE FALSE
    <2>1. pending[1] \in Calls /\ 1 \in 1..Len(pending)
      BY <1>2, <1>3
    <2> QED
      BY <2>1, <1>1 DEF InPending
  <1> QED
    BY <1>1, <1>3

(* The device takes the next request and answers it: a command's line is   *)
(* the last one received and the first of those still to come.             *)
LEMMA AnswersInv ==
  ASSUME IInv, DeviceAnswers
  PROVE  OnePlace' /\ (owner = "none" => StaleLinesFirst' /\ Fifo')
  <1> DEFINE n == Len(rx)
             m == Len(toDevice)
             request == Head(toDevice)
  <1>1. /\ UNCHANGED <<writes, pending, result, inHand, writer>>
        /\ UNCHANGED initialized
    BY DEF DeviceAnswers, clientVars, loopVars
  <1>2. /\ rx \in Seq(Lines) /\ toDevice \in Seq(Requests)
        /\ toDevice # <<>> /\ toDevice' = Tail(toDevice)
    BY DEF IInv, TypeOK, DeviceAnswers
  <1>3. /\ m \in Nat /\ m >= 1 /\ Len(toDevice') = m - 1
        /\ request = toDevice[1]
        /\ \A j \in 1..(m - 1) : toDevice'[j] = toDevice[j + 1]
    BY <1>2, TailFacts
  <1>4. ASSUME NEW line \in Lines, Receives(line)
        PROVE  /\ n \in Nat
               /\ port = "closed" => rx' = rx
               /\ port = "open" => Len(rx') = n + 1 /\ rx'[n + 1] = line
               /\ \A i \in 1..n : rx'[i] = rx[i]
    BY <1>2, <1>4, AppendFacts DEF Receives, IInv, TypeOK
  <1> HIDE DEF n, m, request
  <1>5. /\ n \in Nat
        /\ Len(rx') \in {n, n + 1}
        /\ \A i \in 1..n : rx'[i] = rx[i]
    <2>1. CASE rx' = rx
      BY <2>1, <1>2 DEF n
    <2>2. ASSUME NEW line \in Lines, Receives(line)
          PROVE  Len(rx') \in {n, n + 1}
      BY <2>2, <1>4, <1>2 DEF n, IInv, TypeOK
    <2> QED
      BY <2>1, <2>2, <1>4, LineTypes DEF DeviceAnswers
  <1>6. CASE request \in Calls
    <2>1. WithDevice(request)
      BY <1>3 DEF WithDevice, m
    <2>2. boot = "ready" /\ (owner = "none" => port = "open")
      BY <2>1, <1>6, NoSlotBeforeReady DEF IInv, Handshake, TypeOK
    <2>3. Receives(AnswerTo(request)) /\ AnswerTo(request) \in Lines
      BY <1>6, LineTypes, CallsAssumption DEF DeviceAnswers, request, Raws
    <2>4. Len(rx') = n + 1 => rx'[n + 1].of = request /\ IsAnswer(rx'[n + 1])
      BY <2>3, <1>4, <1>2, <1>5 DEF AnswerTo, IsAnswer, IInv, TypeOK, n
    <2>5. port = "open" => Len(rx') = n + 1
      BY <2>3, <1>4
    <2>6. ASSUME NEW c \in Calls
          PROVE  /\ UNCHANGED <<InWrites(c), InPending(c)>>
                 /\ WithDevice(c)' => WithDevice(c)
                 /\ Answered(c)' => Answered(c) \/ c = request
                 /\ Answered(c) => Answered(c)'
                 /\ WithDevice(c) => WithDevice(c)' \/ c = request
                 /\ port = "open" /\ c = request => Answered(c)'
      <3>1. UNCHANGED <<InWrites(c), InPending(c)>>
        BY <1>1 DEF InWrites, InPending
      <3>2. WithDevice(c)' => WithDevice(c)
        BY <1>3 DEF WithDevice, m
      <3>3. Answered(c)' => Answered(c) \/ c = request
        BY <1>5, <2>4 DEF Answered, n
      <3>4. Answered(c) => Answered(c)'
        BY <1>5 DEF Answered, n
      <3>5. WithDevice(c) => WithDevice(c)' \/ c = request
        <4> SUFFICES ASSUME NEW j \in 1..m, toDevice[j] = c, c # request
                     PROVE  WithDevice(c)'
          BY DEF WithDevice, m
        <4>1. j - 1 \in 1..(m - 1) /\ toDevice'[j - 1] = c
          BY <1>3
        <4> QED
          BY <4>1, <1>3 DEF WithDevice
      <3>6. port = "open" /\ c = request => Answered(c)'
        BY <1>5, <2>4, <2>5 DEF Answered
      <3> QED
        BY <3>1, <3>2, <3>3, <3>4, <3>5, <3>6
    <2>7. OnePlace'
      <3>1. \A i \in 1..Len(rx') : rx'[i].of \in Calls => IsAnswer(rx'[i])
        BY <1>5, <2>4 DEF IInv, OnePlace, IsAnswer, n
      <3> QED
        BY <3>1, <2>1, <2>6, <1>1, <1>6 DEF IInv, OnePlace
    <2>8. ASSUME owner = "none" PROVE StaleLinesFirst'
      <3>1. StaleLinesFirst
        BY <2>8 DEF IInv
      <3> QED
        BY <3>1, <1>5, <2>4, <1>1, <1>6, CallsAssumption
        DEF StaleLinesFirst, IsAnswer, n
    <2>9. ASSUME owner = "none" PROVE Fifo'
      <3>0. Fifo /\ pending \in Seq(Calls) /\ port = "open"
        BY <2>9, <2>2 DEF IInv, TypeOK
      <3>1. SlotsForTheWire' /\ LastSlotInHand'
        BY <3>0, <2>6, <2>1, <1>6, <1>1 DEF Fifo, SlotsForTheWire, LastSlotInHand
      <3>2. SlotsAreOnTheirWay'
        BY <3>0, <2>6, <1>1 DEF Fifo, SlotsAreOnTheirWay
      <3>3. LinesInOrder'
        <4> SUFFICES ASSUME NEW p \in 1..Len(pending), NEW q \in 1..Len(pending),
                            NEW i \in 1..Len(rx'), NEW j \in 1..Len(rx'), i < j,
                            rx'[i].of = pending[p], rx'[j].of = pending[q]
                     PROVE  p < q
          BY <1>1 DEF LinesInOrder
        <4>1. CASE j \in 1..n
          BY <4>1, <3>0, <1>5, SMTT(30) DEF Fifo, LinesInOrder, n
        <4>2. CASE j = n + 1
          <5>1. i \in 1..n /\ rx[i].of = pending[p]
            BY <4>2, <1>5
          <5>2. toDevice[1] = pending[q] /\ 1 \in 1..m
            BY <4>2, <2>4, <1>3, <1>5
          <5> QED
            BY <5>1, <5>2, <3>0 DEF Fifo, LinesBeforeDevice, n, m
        <4> QED
          BY <4>1, <4>2, <1>5
      <3>4. LinesBeforeDevice'
        <4> SUFFICES ASSUME NEW p \in 1..Len(pending), NEW q \in 1..Len(pending),
                            NEW i \in 1..Len(rx'), NEW j \in 1..Len(toDevice'),
                            rx'[i].of = pending[p], toDevice'[j] = pending[q]
                     PROVE  p < q
          BY <1>1 DEF LinesBeforeDevice
        <4>1. j + 1 \in 1..m /\ toDevice[j + 1] = pending[q] /\ 1 < j + 1
          BY <1>3
        <4>2. CASE i \in 1..n
          BY <4>1, <4>2, <3>0, <1>5 DEF Fifo, LinesBeforeDevice, n, m
        <4>3. CASE i = n + 1
          <5>1. toDevice[1] = pending[p] /\ 1 \in 1..m
            BY <4>3, <2>4, <1>3, <1>5
          <5> QED
            BY <5>1, <4>1, <3>0 DEF Fifo, DeviceInOrder, m
        <4> QED
          BY <4>2, <4>3, <1>5
      <3>5. DeviceInOrder'
        <4> SUFFICES ASSUME NEW p \in 1..Len(pending), NEW q \in 1..Len(pending),
                            NEW i \in 1..Len(toDevice'), NEW j \in 1..Len(toDevice'),
                            i < j,
                            toDevice'[i] = pending[p], toDevice'[j] = pending[q]
                     PROVE  p < q
          BY <1>1 DEF DeviceInOrder
        <4>1. /\ i + 1 \in 1..m /\ j + 1 \in 1..m /\ i + 1 < j + 1
              /\ toDevice[i + 1] = pending[p] /\ toDevice[j + 1] = pending[q]
          BY <1>3
        <4> QED
          BY <4>1, <3>0 DEF Fifo, DeviceInOrder, m
      <3> QED
        BY <3>1, <3>2, <3>3, <3>4, <3>5 DEF Fifo
    <2> QED
      BY <2>7, <2>8, <2>9
  <1>7. CASE request \notin Calls
    <2>1. Len(rx') = n + 1 => rx'[n + 1].of = NoCall /\ ~IsAnswer(rx'[n + 1])
      <3>1. rx' = rx \/ Receives(Marker)
        BY <1>7 DEF DeviceAnswers, request
      <3> QED
        BY <3>1, <1>2, <1>4, <1>5, LineTypes DEF Marker, IsAnswer, IInv, TypeOK, n
    <2>2. ASSUME NEW c \in Calls
          PROVE  UNCHANGED <<InWrites(c), InPending(c), WithDevice(c), Answered(c)>>
      <3>1. UNCHANGED <<InWrites(c), InPending(c)>>
        BY <1>1 DEF InWrites, InPending
      <3>2. UNCHANGED Answered(c)
        BY <1>5, <2>1, CallsAssumption DEF Answered, n
      <3>3. WithDevice(c)' => WithDevice(c)
        BY <1>3 DEF WithDevice, m
      <3>4. WithDevice(c) => WithDevice(c)'
        <4> SUFFICES ASSUME NEW j \in 1..m, toDevice[j] = c
                     PROVE  WithDevice(c)'
          BY DEF WithDevice, m
        <4>1. j - 1 \in 1..(m - 1) /\ toDevice'[j - 1] = c
          BY <1>3, <1>7
        <4> QED
          BY <4>1, <1>3 DEF WithDevice
      <3> QED
        BY <3>1, <3>2, <3>3, <3>4 DEF WithDevice
    <2>3. OnePlace'
      <3>1. \A i \in 1..Len(rx') : rx'[i].of \in Calls => IsAnswer(rx'[i])
        BY <1>5, <2>1, CallsAssumption DEF IInv, OnePlace, IsAnswer, n
      <3> QED
        BY <3>1, <2>2, <1>1 DEF IInv, OnePlace
    <2>4. ASSUME owner = "none" PROVE StaleLinesFirst'
      <3>1. StaleLinesFirst
        BY <2>4 DEF IInv
      <3> QED
        BY <3>1, <1>5, <2>1, <1>1 DEF StaleLinesFirst, IsAnswer, n
    <2>5. ASSUME owner = "none" PROVE Fifo'
      <3>0. Fifo /\ pending \in Seq(Calls)
        BY <2>5 DEF IInv, TypeOK
      <3>1. SlotsForTheWire' /\ LastSlotInHand'
        BY <3>0, <2>2, <1>1 DEF Fifo, SlotsForTheWire, LastSlotInHand
      <3>2. SlotsAreOnTheirWay'
        BY <3>0, <2>2, <1>1 DEF Fifo, SlotsAreOnTheirWay
      <3>3. \A i \in 1..Len(rx') : \A p \in 1..Len(pending) :
              rx'[i].of = pending[p] => i \in 1..n /\ rx'[i] = rx[i]
        BY <3>0, <1>5, <2>1, CallsAssumption
      <3>4. LinesInOrder'
        BY <3>0, <3>3, <1>1 DEF Fifo, LinesInOrder, n
      <3>5. \A j \in 1..Len(toDevice') :
              j + 1 \in 1..m /\ toDevice'[j] = toDevice[j + 1]
        BY <1>3
      <3>6. LinesBeforeDevice'
        <4> SUFFICES ASSUME NEW p \in 1..Len(pending), NEW q \in 1..Len(pending),
                            NEW i \in 1..Len(rx'), NEW j \in 1..Len(toDevice'),
                            rx'[i].of = pending[p], toDevice'[j] = pending[q]
                     PROVE  p < q
          BY <1>1 DEF LinesBeforeDevice
        <4>1. i \in 1..Len(rx) /\ rx[i].of = pending[p]
          BY <3>3 DEF n
        <4>2. j + 1 \in 1..Len(toDevice) /\ toDevice[j + 1] = pending[q]
          BY <3>5 DEF m
        <4>3. LinesBeforeDevice
          BY <3>0 DEF Fifo
        <4> QED
          BY <4>1, <4>2, <4>3 DEF LinesBeforeDevice
      <3>7. DeviceInOrder'
        <4> SUFFICES ASSUME NEW p \in 1..Len(pending), NEW q \in 1..Len(pending),
                            NEW i \in 1..Len(toDevice'), NEW j \in 1..Len(toDevice'),
                            i < j,
                            toDevice'[i] = pending[p], toDevice'[j] = pending[q]
                     PROVE  p < q
          BY <1>1 DEF DeviceInOrder
        <4>1. i + 1 < j + 1
          BY <1>3
        <4> QED
          BY <4>1, <3>0, <3>5 DEF Fifo, DeviceInOrder, m
      <3> QED
        BY <3>1, <3>2, <3>4, <3>6, <3>7 DEF Fifo
    <2> QED
      BY <2>3, <2>4, <2>5
  <1> QED
    BY <1>6, <1>7

(* enqueueCommand: a new call queues behind the others.                    *)
LEMMA EnqueueInv ==
  ASSUME IInv, NEW c0 \in Calls, Enqueue(c0)
  PROVE  OnePlace' /\ (owner = "none" => StaleLinesFirst' /\ Fifo')
  <1>1. /\ UNCHANGED <<pending, toDevice, rx, inHand, writer, initialized>>
        /\ result[c0] = Idle
    BY DEF Enqueue, loopVars, portVars
  <1>2. owner = "none" => StaleLinesFirst' /\ Fifo'
    BY <1>1, FifoFrame, StaleFrame DEF IInv
  <1>3. \A c \in Calls : result'[c] = Idle => c # c0 /\ result[c] = Idle
    <2>1. result \in [Calls -> Results]
      BY DEF IInv, TypeOK
    <2>2. Open # Idle /\ Failed # Idle
      BY DEF Open, Idle, Failed
    <2>3. \E r \in {Open, Failed} : result' = [result EXCEPT ![c0] = r]
      BY DEF Enqueue
    <2> QED
      BY <2>1, <2>2, <2>3
  <1>4. /\ \A c \in Calls : InWrites(c)' => InWrites(c) \/ c = c0
        /\ \A i, j \in 1..Len(writes') :
             writes'[i] \in Calls /\ writes'[i] = writes'[j] => i = j
    <2>1. CASE UNCHANGED writes
      BY <2>1 DEF InWrites, IInv, OnePlace
    <2>2. CASE writes' = Append(writes, c0)
      <3>1. writes \in Seq(Requests) /\ c0 \in Requests
        BY DEF IInv, TypeOK, Requests
      <3>2. /\ Len(writes) \in Nat /\ Len(writes') = Len(writes) + 1
            /\ \A i \in 1..Len(writes) : writes'[i] = writes[i]
            /\ writes'[Len(writes) + 1] = c0
        BY <3>1, <2>2, AppendFacts
      <3>3. ~InWrites(c0)
        BY <1>1 DEF IInv, OnePlace
      <3>4. \A i, j \in 1..Len(writes) :
             writes[i] \in Calls /\ writes[i] = writes[j] => i = j
        BY DEF IInv, OnePlace
      <3>5. \A c \in Calls : InWrites(c)' => InWrites(c) \/ c = c0
        BY <3>2 DEF InWrites
      <3>6. \A i, j \in 1..Len(writes') :
              writes'[i] \in Calls /\ writes'[i] = writes'[j] => i = j
        BY <3>2, <3>3, <3>4 DEF InWrites
      <3> QED
        BY <3>5, <3>6
    <2> QED
      BY <2>1, <2>2 DEF Enqueue
  <1>5. \A c \in Calls :
          UNCHANGED <<InPending(c), WithDevice(c), Answered(c)>>
    BY <1>1 DEF InPending, WithDevice, Answered
  <1>6. OnePlace'
    <2>1. inHand # c0 /\ ~InPending(c0) /\ ~WithDevice(c0) /\ ~Answered(c0)
      BY <1>1 DEF IInv, OnePlace
    <2>2. \A i \in 1..Len(rx) : rx[i].of \in Calls => IsAnswer(rx[i])
      BY DEF IInv, OnePlace
    <2>3. \A i \in 1..Len(rx') : rx'[i].of \in Calls => IsAnswer(rx'[i])
      BY <2>2, <1>1 DEF IsAnswer
    <2>4. \A i, j \in 1..Len(pending') : pending'[i] = pending'[j] => i = j
      BY <1>1 DEF IInv, OnePlace
    <2> QED
      BY <1>1, <1>3, <1>4, <1>5, <2>1, <2>3, <2>4 DEF IInv, OnePlace
  <1> QED
    BY <1>2, <1>6

(* writeRaw: a Raw is no call.                                             *)
LEMMA WriteRawInv ==
  ASSUME IInv, NEW here, NEW raw \in Raws, NEW there, WriteRaw(here, raw, there)
  PROVE  OnePlace' /\ (owner = "none" => StaleLinesFirst' /\ Fifo')
  <1>1. /\ UNCHANGED <<pending, toDevice, rx, result, inHand, writer>>
        /\ UNCHANGED initialized
    BY DEF WriteRaw, loopVars, portVars
  <1>2. owner = "none" => StaleLinesFirst' /\ Fifo'
    BY <1>1, FifoFrame, StaleFrame DEF IInv
  <1>3. writes \in Seq(Requests) /\ raw \in Requests /\ raw \notin Calls
    BY CallsAssumption DEF IInv, TypeOK, Requests
  <1>4. /\ Len(writes) \in Nat /\ Len(writes') = Len(writes) + 1
        /\ \A i \in 1..Len(writes) : writes'[i] = writes[i]
        /\ writes'[Len(writes) + 1] = raw
    BY <1>3, AppendFacts DEF WriteRaw
  <1>5. \A c \in Calls :
          UNCHANGED <<InWrites(c), InPending(c), WithDevice(c), Answered(c)>>
    BY <1>1, <1>3, <1>4 DEF InWrites, InPending, WithDevice, Answered
  <1>6. \A i, j \in 1..Len(writes) :
             writes[i] \in Calls /\ writes[i] = writes[j] => i = j
    BY DEF IInv, OnePlace
  <1>7. \A i, j \in 1..Len(writes') :
             writes'[i] \in Calls /\ writes'[i] = writes'[j] => i = j
    BY <1>3, <1>4, <1>6
  <1>8. OnePlace'
    BY <1>1, <1>5, <1>7 DEF IInv, OnePlace, IsAnswer
  <1> QED
    BY <1>2, <1>8

(* for (request in writes): the call moves into the writer's hand.         *)
LEMMA ReceiveInv ==
  ASSUME IInv, WriterReceive
  PROVE  OnePlace' /\ (owner = "none" => StaleLinesFirst' /\ Fifo')
  <1>1. /\ UNCHANGED <<pending, toDevice, rx, result, initialized>>
        /\ writer = "idle"
        /\ inHand' = Head(writes)
        /\ writer' = "write" => inHand' \notin Calls
        /\ writer' \in {"register", "write"}
    BY DEF WriterReceive, portVars
  <1>2. owner = "none" => StaleLinesFirst' /\ Fifo'
    BY <1>1, FifoFrame, StaleFrame DEF IInv
  <1>3. writes \in Seq(Requests) /\ writes # <<>> /\ writes' = Tail(writes)
    BY DEF IInv, TypeOK, WriterReceive
  <1>4. /\ Head(writes) = writes[1]
        /\ Len(writes) \in Nat /\ Len(writes) >= 1
        /\ Len(writes') = Len(writes) - 1
        /\ \A i \in 1..(Len(writes) - 1) : writes'[i] = writes[i + 1]
    BY <1>3, TailFacts
  <1>5. \A i, j \in 1..Len(writes) :
             writes[i] \in Calls /\ writes[i] = writes[j] => i = j
    BY DEF IInv, OnePlace
  <1>6. \A c \in Calls :
          /\ UNCHANGED <<InPending(c), WithDevice(c), Answered(c)>>
          /\ InWrites(c)' => InWrites(c) /\ c # inHand'
          /\ c = inHand' => InWrites(c)
    <2> TAKE c \in Calls
    <2>1. UNCHANGED <<InPending(c), WithDevice(c), Answered(c)>>
      BY <1>1 DEF InPending, WithDevice, Answered
    <2>2. InWrites(c)' => InWrites(c)
      BY <1>4 DEF InWrites
    <2>3. c = inHand' => InWrites(c)
      BY <1>1, <1>4 DEF InWrites
    <2>4. InWrites(c)' => c # inHand'
      <3> SUFFICES ASSUME NEW i \in 1..Len(writes'), writes'[i] = c, c = inHand'
                   PROVE  FALSE
        BY DEF InWrites
      <3>1. i + 1 \in 1..Len(writes) /\ writes[i + 1] = writes[1] /\ 1 \in 1..Len(writes)
        BY <1>1, <1>4
      <3> QED
        BY <3>1, <1>1, <1>4, <1>5
    <2> QED
      BY <2>1, <2>2, <2>3, <2>4
  <1>7. \A i, j \in 1..Len(writes') :
             writes'[i] \in Calls /\ writes'[i] = writes'[j] => i = j
    <2> SUFFICES ASSUME NEW i \in 1..Len(writes'), NEW j \in 1..Len(writes'),
                        writes'[i] \in Calls, writes'[i] = writes'[j]
                 PROVE  i = j
      OBVIOUS
    <2>1. /\ i + 1 \in 1..Len(writes) /\ j + 1 \in 1..Len(writes)
          /\ writes[i + 1] = writes'[i] /\ writes[j + 1] = writes'[j]
      BY <1>4
    <2>2. i + 1 = j + 1
      BY <2>1, <1>5
    <2> QED
      BY <2>2, <1>4
  <1>8. OnePlace'
    <2>1. \A i \in 1..Len(rx') : rx'[i].of \in Calls => IsAnswer(rx'[i])
      BY <1>1 DEF IInv, OnePlace, IsAnswer
    <2>2. \A i, j \in 1..Len(pending') : pending'[i] = pending'[j] => i = j
      BY <1>1 DEF IInv, OnePlace
    <2> QED
      BY <1>1, <1>6, <1>7, <2>1, <2>2 DEF IInv, OnePlace
  <1> QED
    BY <1>2, <1>8

(* Taking the oldest slot away leaves every call in one place.             *)
LEMMA PopOnePlace ==
  ASSUME TypeOK, OnePlace, pending # <<>>, pending' = Tail(pending),
         UNCHANGED <<writes, inHand, writer, toDevice>>,
         \A c \in Calls : Answered(c)' => Answered(c),
         \A c \in Calls : result'[c] = Idle => result[c] = Idle,
         \A i \in 1..Len(rx') : rx'[i].of \in Calls => IsAnswer(rx'[i])
  PROVE  OnePlace'
  <1>1. pending \in Seq(Calls)
    BY DEF TypeOK
  <1>2. /\ Len(pending) \in Nat /\ Len(pending) >= 1
        /\ Len(pending') = Len(pending) - 1
        /\ \A i \in 1..(Len(pending) - 1) : pending'[i] = pending[i + 1]
    BY <1>1, TailFacts
  <1>3. \A c \in Calls : /\ InPending(c)' => InPending(c)
                         /\ UNCHANGED <<InWrites(c), WithDevice(c)>>
    BY <1>2 DEF InPending, InWrites, WithDevice
  <1>4. \A i, j \in 1..Len(pending) : pending[i] = pending[j] => i = j
    BY DEF OnePlace
  <1>5. \A i, j \in 1..Len(pending') : pending'[i] = pending'[j] => i = j
    <2> SUFFICES ASSUME NEW i \in 1..Len(pending'), NEW j \in 1..Len(pending'),
                        pending'[i] = pending'[j]
                 PROVE  i = j
      OBVIOUS
    <2>1. /\ i + 1 \in 1..Len(pending) /\ j + 1 \in 1..Len(pending)
          /\ pending[i + 1] = pending[j + 1]
      BY <1>2
    <2>2. i + 1 = j + 1
      BY <2>1, <1>4
    <2> QED
      BY <2>2, <1>2
  <1>6. \A i, j \in 1..Len(writes') :
             writes'[i] \in Calls /\ writes'[i] = writes'[j] => i = j
    BY DEF OnePlace
  <1> QED
    BY <1>3, <1>5, <1>6 DEF OnePlace

-----------------------------------------------------------------------------
(* The heart of the matter: the oldest line answers the oldest slot.       *)

LEMMA OldestLineAnswersOldestSlot ==
  ASSUME IInv, owner = "none", rx # <<>>, IsAnswer(Head(rx)), isInitialized
  PROVE  /\ Head(rx).of \in Calls
         /\ pending # <<>>
         /\ Head(pending) = Head(rx).of
  <1>1. rx \in Seq(Lines) /\ pending \in Seq(Calls)
    BY DEF IInv, TypeOK
  <1>2. Head(rx) = rx[1] /\ Len(rx) \in Nat /\ Len(rx) >= 1 /\ rx[1] \in Lines
    BY <1>1, TailFacts
  <1>3. Fifo /\ StaleLinesFirst
    BY DEF IInv
  <1>4. rx[1].of \in Calls
    <2>1. rx[1].of # NoCall
      BY <1>2, <1>3 DEF StaleLinesFirst, isInitialized
    <2> QED
      BY <2>1, <1>2 DEF Lines
  <1>5. PICK p \in 1..Len(pending) : pending[p] = rx[1].of
    <2>1. Answered(rx[1].of)
      BY <1>2 DEF Answered
    <2> QED
      BY <2>1, <1>3, <1>4 DEF Fifo, SlotsForTheWire, InPending
  <1>6. pending # <<>> /\ Head(pending) = pending[1] /\ 1 \in 1..Len(pending)
        /\ Len(pending) \in Nat
    <2>1. pending # <<>>
      BY <1>5, <1>1
    <2> QED
      BY <2>1, <1>1, TailFacts
  <1>7. p = 1
    <2>1. CASE Answered(pending[1])
      <3>1. PICK j \in 1..Len(rx) : rx[j].of = pending[1]
        BY <2>1 DEF Answered
      <3>2. CASE j = 1
        BY <3>1, <3>2, <1>5, <1>6 DEF IInv, OnePlace
      <3>3. CASE 1 < j
        <4>1. p < 1
          BY <3>1, <3>3, <1>2, <1>3, <1>5, <1>6 DEF Fifo, LinesInOrder
        <4> QED
          BY <4>1, <1>6
      <3> QED
        BY <3>2, <3>3, <1>2
    <2>2. CASE WithDevice(pending[1])
      <3>1. PICK j \in 1..Len(toDevice) : toDevice[j] = pending[1]
        BY <2>2 DEF WithDevice
      <3>2. p < 1
        BY <3>1, <1>2, <1>3, <1>5, <1>6 DEF Fifo, LinesBeforeDevice
      <3> QED
        BY <3>2, <1>6
    <2>3. CASE 1 = Len(pending)
      <3>1. p \in 1..1
        BY <2>3, <1>5
      <3> QED
        BY <3>1
    <2> QED
      BY <2>1, <2>2, <2>3, <1>3, <1>6 DEF Fifo, SlotsAreOnTheirWay
  <1> QED
    BY <1>2, <1>4, <1>5, <1>6, <1>7

(* A line that takes no slot, or that finds none.                          *)
LEMMA LineWithoutSlotInv ==
  ASSUME IInv, ReaderLine, UNCHANGED <<pending, result>>,
         ~isInitialized \/ ~IsAnswer(Head(rx)) \/ pending = <<>>
  PROVE  OnePlace' /\ (owner = "none" => StaleLinesFirst' /\ Fifo')
  <1>1. UNCHANGED <<writes, toDevice, inHand, writer>>
    BY DEF ReaderLine, loopVars
  <1>2. /\ rx \in Seq(Lines) /\ rx # <<>> /\ rx' = Tail(rx)
        /\ pending \in Seq(Calls)
    BY DEF IInv, TypeOK, ReaderLine
  <1>3. /\ Head(rx) = rx[1] /\ rx[1] \in Lines
        /\ Len(rx) \in Nat /\ Len(rx) >= 1
        /\ Len(rx') = Len(rx) - 1
        /\ \A i \in 1..(Len(rx) - 1) : rx'[i] = rx[i + 1]
    BY <1>2, TailFacts
  <1>4. \A c \in Calls :
          /\ UNCHANGED <<InWrites(c), InPending(c), WithDevice(c)>>
          /\ Answered(c)' => Answered(c)
    BY <1>1, <1>3, SMTT(30) DEF InWrites, InPending, WithDevice, Answered
  <1>5. OnePlace'
    <2>1. \A i \in 1..Len(rx) : rx[i].of \in Calls => IsAnswer(rx[i])
      BY DEF IInv, OnePlace
    <2>2. \A i \in 1..Len(rx') : rx'[i].of \in Calls => IsAnswer(rx'[i])
      BY <2>1, <1>3 DEF IsAnswer
    <2> QED
      BY <2>2, <1>1, <1>4 DEF IInv, OnePlace
  <1>6. ASSUME owner = "none" PROVE StaleLinesFirst'
    <2> SUFFICES ASSUME NEW i \in 1..Len(rx'), IsAnswer(rx'[i]), rx'[i].of = NoCall
                 PROVE  /\ initialized' = "pending"
                        /\ \A j \in 1..i : rx'[j].kind # "@@@"
      BY DEF StaleLinesFirst, IsAnswer
    <2>1. i + 1 \in 1..Len(rx) /\ IsAnswer(rx[i + 1]) /\ rx[i + 1].of = NoCall
      BY <1>3
    <2>2. initialized = "pending" /\ \A j \in 1..(i + 1) : rx[j].kind # "@@@"
      BY <2>1, <1>6 DEF IInv, StaleLinesFirst
    <2>3. Head(rx).kind # "@@@"
      BY <2>2, <2>1, <1>3
    <2>4. initialized' = "pending"
      BY <2>2, <2>3 DEF ReaderLine, handleLine, isInitialized
    <2>5. \A j \in 1..i : rx'[j].kind # "@@@"
      BY <2>2, <1>3
    <2> QED
      BY <2>4, <2>5
  <1>7. ASSUME owner = "none" PROVE Fifo'
    <2>0. Fifo
      BY <1>7 DEF IInv
    <2>1. \A p \in 1..Len(pending) : rx[1].of # pending[p]
      <3>1. CASE pending = <<>>
        BY <3>1
      <3>2. CASE ~isInitialized
        BY <3>2, NoSlotBeforeReady DEF IInv, Handshake, isInitialized
      <3>3. CASE ~IsAnswer(Head(rx))
        BY <3>3, <1>2, <1>3 DEF IInv, OnePlace
      <3> QED
        BY <3>1, <3>2, <3>3
    <2>2. \A p \in 1..Len(pending) : Answered(pending[p]) => Answered(pending[p])'
      <3> SUFFICES ASSUME NEW p \in 1..Len(pending), NEW i \in 1..Len(rx),
                          rx[i].of = pending[p]
                   PROVE  Answered(pending[p])'
        BY DEF Answered
      <3>1. i - 1 \in 1..Len(rx') /\ rx'[i - 1] = rx[i]
        BY <2>1, <1>3
      <3> QED
        BY <3>1 DEF ReaderLine, Answered
    <2>3. SlotsForTheWire' /\ LastSlotInHand'
      BY <2>0, <1>1, <1>4 DEF Fifo, SlotsForTheWire, LastSlotInHand
    <2>4. SlotsAreOnTheirWay'
      BY <2>0, <2>2, <1>1, <1>2, <1>4 DEF Fifo, SlotsAreOnTheirWay
    <2>5. LinesInOrder'
      <3> SUFFICES ASSUME NEW p \in 1..Len(pending), NEW q \in 1..Len(pending),
                          NEW i \in 1..Len(rx'), NEW j \in 1..Len(rx'), i < j,
                          rx'[i].of = pending[p], rx'[j].of = pending[q]
                   PROVE  p < q
        BY DEF LinesInOrder
      <3>1. i + 1 \in 1..Len(rx) /\ rx[i + 1] = rx'[i]
        BY <1>3
      <3>2. j + 1 \in 1..Len(rx) /\ rx[j + 1] = rx'[j]
        BY <1>3
      <3>3. i + 1 < j + 1
        BY <1>3
      <3> QED
        BY <3>1, <3>2, <3>3, <2>0 DEF Fifo, LinesInOrder
    <2>6. LinesBeforeDevice'
      <3> SUFFICES ASSUME NEW p \in 1..Len(pending), NEW q \in 1..Len(pending),
                          NEW i \in 1..Len(rx'), NEW j \in 1..Len(toDevice),
                          rx'[i].of = pending[p], toDevice[j] = pending[q]
                   PROVE  p < q
        BY <1>1 DEF LinesBeforeDevice
      <3>1. i + 1 \in 1..Len(rx) /\ rx[i + 1].of = pending[p]
        BY <1>3
      <3> QED
        BY <3>1, <2>0 DEF Fifo, LinesBeforeDevice
    <2>7. DeviceInOrder'
      BY <2>0, <1>1 DEF Fifo, DeviceInOrder
    <2> QED
      BY <2>3, <2>4, <2>5, <2>6, <2>7 DEF Fifo
  <1> QED
    BY <1>5, <1>6, <1>7

(* completeNext with a slot to take.                                       *)
LEMMA LineWithSlotInv ==
  ASSUME IInv, ReaderLine, completeNext(Head(rx)), pending # <<>>,
         isInitialized, IsAnswer(Head(rx))
  PROVE  /\ OnePlace'
         /\ owner = "none" => StaleLinesFirst' /\ Fifo'
         /\ CorrelatedUnlessTornDown'
  <1>1. /\ UNCHANGED <<writes, toDevice, inHand, writer, owner>>
        /\ initialized' = initialized /\ reader = "poll"
    BY DEF ReaderLine, loopVars, closeVars, handleLine
  <1>2. /\ rx \in Seq(Lines) /\ rx # <<>> /\ rx' = Tail(rx)
        /\ pending \in Seq(Calls) /\ pending' = Tail(pending)
        /\ result \in [Calls -> Results]
    BY DEF IInv, TypeOK, ReaderLine, completeNext
  <1>3. /\ Head(rx) = rx[1] /\ rx[1] \in Lines
        /\ Len(rx) \in Nat /\ Len(rx) >= 1
        /\ Len(rx') = Len(rx) - 1
        /\ \A i \in 1..(Len(rx) - 1) : rx'[i] = rx[i + 1]
    BY <1>2, TailFacts
  <1>4. /\ Head(pending) = pending[1] /\ pending[1] \in Calls
        /\ Len(pending) \in Nat /\ Len(pending) >= 1
        /\ Len(pending') = Len(pending) - 1
        /\ \A i \in 1..(Len(pending) - 1) : pending'[i] = pending[i + 1]
    BY <1>2, TailFacts
  <1>5. PICK r \in [tag : {"success", "error"}, of : {Head(rx).of}] :
           Complete(Head(pending), r)
    BY DEF completeNext
  <1>6. \A c \in Calls : \/ result'[c] = result[c]
                         \/ c = Head(pending) /\ result'[c] = r
    BY <1>2, <1>5 DEF Complete
  <1>7. OnePlace'
    <2>1. \A i \in 1..Len(rx) : rx[i].of \in Calls => IsAnswer(rx[i])
      BY DEF IInv, OnePlace
    <2>2. \A i \in 1..Len(rx') : rx'[i].of \in Calls => IsAnswer(rx'[i])
      BY <2>1, <1>3 DEF IsAnswer
    <2>3. \A c \in Calls : Answered(c)' => Answered(c)
      BY <1>3 DEF Answered
    <2>4. \A c \in Calls : result'[c] = Idle => result[c] = Idle
      BY <1>6 DEF Idle
    <2> QED
      BY <2>2, <2>3, <2>4, <1>1, <1>2, PopOnePlace DEF IInv
  <1>8. CorrelatedUnlessTornDown'
    <2>1. CASE owner = "none"
      <3>1. Head(pending) = Head(rx).of
        BY <2>1, <1>2, OldestLineAnswersOldestSlot
      <3>2. \A c \in Calls :
              result[c].tag \in {"success", "error"} => result[c].of = c
        BY <2>1 DEF IInv, CorrelatedUnlessTornDown, Correlated
      <3> QED
        BY <3>1, <3>2, <1>5, <1>6 DEF CorrelatedUnlessTornDown, Correlated
    <2>2. CASE owner # "none"
      BY <2>2, <1>1 DEF IInv, CorrelatedUnlessTornDown
    <2> QED
      BY <2>1, <2>2
  <1>9. ASSUME owner = "none" PROVE StaleLinesFirst' /\ Fifo'
    <2>0. /\ Fifo /\ StaleLinesFirst
          /\ pending[1] = rx[1].of
          /\ \A p, q \in 1..Len(pending) : pending[p] = pending[q] => p = q
      BY <1>9, <1>2, <1>3, <1>4, OldestLineAnswersOldestSlot DEF IInv, OnePlace
    <2>1. StaleLinesFirst'
      BY <2>0, <1>1, <1>3 DEF StaleLinesFirst, isInitialized, IsAnswer
    <2>2. \A p \in 1..Len(pending') :
             /\ p + 1 \in 1..Len(pending) /\ pending'[p] = pending[p + 1]
             /\ p + 1 # 1
      BY <1>4
    <2>3. \A i \in 1..Len(rx') : i + 1 \in 1..Len(rx) /\ rx'[i] = rx[i + 1]
      BY <1>3
    <2>4. ASSUME NEW c \in Calls, Answered(c)' \/ WithDevice(c)
          PROVE  c # pending[1]
      <3>1. CASE Answered(c)'
        <4>1. PICK i \in 1..Len(rx') : rx'[i].of = c
          BY <3>1 DEF Answered
        <4>2. i + 1 \in 1..Len(rx) /\ rx[i + 1].of = c /\ 1 < i + 1 /\ 1 \in 1..Len(rx)
          BY <4>1, <2>3, <1>3
        <4>3. CASE c = pending[1]
          <5>1. 1 < 1
            BY <4>2, <4>3, <2>0, <1>4 DEF Fifo, LinesInOrder
          <5> QED
            BY <5>1
        <4> QED
          BY <4>3
      <3>2. CASE WithDevice(c)
        <4>1. PICK j \in 1..Len(toDevice) : toDevice[j] = c
          BY <3>2 DEF WithDevice
        <4>2. 1 \in 1..Len(rx)
          BY <1>3
        <4>3. CASE c = pending[1]
          <5>1. 1 < 1
            BY <4>1, <4>2, <4>3, <2>0, <1>4 DEF Fifo, LinesBeforeDevice
          <5> QED
            BY <5>1
        <4> QED
          BY <4>3
      <3> QED
        BY <2>4, <3>1, <3>2
    <2>5. SlotsForTheWire'
      <3> SUFFICES ASSUME NEW c \in Calls, WithDevice(c)' \/ Answered(c)'
                   PROVE  InPending(c)'
        BY DEF SlotsForTheWire
      <3>1. WithDevice(c) \/ Answered(c)
        BY <1>1, <2>3 DEF WithDevice, Answered
      <3>2. c # pending[1]
        BY <2>4, <1>1 DEF WithDevice
      <3>3. PICK p \in 1..Len(pending) : pending[p] = c
        BY <3>1, <2>0 DEF Fifo, SlotsForTheWire, InPending
      <3>4. p - 1 \in 1..Len(pending') /\ pending'[p - 1] = c
        BY <3>2, <3>3, <1>4
      <3> QED
        BY <3>4 DEF InPending
    <2>6. SlotsAreOnTheirWay'
      <3> SUFFICES ASSUME NEW p \in 1..Len(pending')
                   PROVE  \/ Answered(pending[p])'
                          \/ WithDevice(pending[p])'
                          \/ /\ p = Len(pending')
                             /\ \/ writer' = "write" /\ inHand' = pending'[p]
                                \/ writer' = "failing"
        BY DEF SlotsAreOnTheirWay
      <3>1. pending[p + 1] # rx[1].of
        BY <2>0, <2>2, <1>4
      <3>2. CASE Answered(pending[p + 1])
        <4>1. PICK i \in 1..Len(rx) : rx[i].of = pending[p + 1]
          BY <3>2 DEF Answered
        <4>2. i - 1 \in 1..Len(rx') /\ rx'[i - 1].of = pending[p + 1]
          BY <3>1, <4>1, <1>3
        <4> QED
          BY <4>2, <2>2 DEF Answered
      <3>3. CASE WithDevice(pending[p + 1])
        BY <3>3, <2>2, <1>1 DEF WithDevice
      <3>4. CASE /\ p + 1 = Len(pending)
                 /\ \/ writer = "write" /\ inHand = pending[p + 1]
                    \/ writer = "failing"
        BY <3>4, <2>2, <1>1, <1>4
      <3> QED
        BY <3>2, <3>3, <3>4, <2>0, <2>2 DEF Fifo, SlotsAreOnTheirWay
    <2>7. LastSlotInHand'
      <3> SUFFICES ASSUME inHand \in Calls, writer = "write"
                   PROVE  pending' # <<>> /\ pending'[Len(pending')] = inHand
        BY <1>1 DEF LastSlotInHand
      <3>1. pending[Len(pending)] = inHand
        BY <2>0 DEF Fifo, LastSlotInHand
      <3>2. ~Answered(inHand)
        BY DEF IInv, OnePlace
      <3>3. Len(pending) # 1
        BY <3>1, <3>2, <2>0, <1>3 DEF Answered
      <3>4. Len(pending') \in 1..Len(pending') /\ Len(pending') + 1 = Len(pending)
        BY <3>3, <1>4
      <3>5. pending'[Len(pending')] = inHand
        BY <3>1, <3>4, <2>2
      <3>6. pending' # <<>>
        BY <3>4
      <3> QED
        BY <3>5, <3>6
    <2>8. LinesInOrder'
      <3> SUFFICES ASSUME NEW p \in 1..Len(pending'), NEW q \in 1..Len(pending'),
                          NEW i \in 1..Len(rx'), NEW j \in 1..Len(rx'), i < j,
                          rx'[i].of = pending'[p], rx'[j].of = pending'[q]
                   PROVE  p < q
        BY DEF LinesInOrder
      <3>0. i + 1 < j + 1
        BY <1>3
      <3>1. rx[i + 1].of = pending[p + 1] /\ rx[j + 1].of = pending[q + 1]
        BY <2>2, <2>3
      <3>2. p + 1 < q + 1
        BY <3>0, <3>1, <2>0, <2>2, <2>3 DEF Fifo, LinesInOrder
      <3> QED
        BY <3>2, <1>4
    <2>9. LinesBeforeDevice'
      <3> SUFFICES ASSUME NEW p \in 1..Len(pending'), NEW q \in 1..Len(pending'),
                          NEW i \in 1..Len(rx'), NEW j \in 1..Len(toDevice),
                          rx'[i].of = pending'[p], toDevice[j] = pending'[q]
                   PROVE  p < q
        BY <1>1 DEF LinesBeforeDevice
      <3>1. rx[i + 1].of = pending[p + 1] /\ toDevice[j] = pending[q + 1]
        BY <2>2, <2>3
      <3>2. p + 1 < q + 1
        BY <3>1, <2>0, <2>2, <2>3 DEF Fifo, LinesBeforeDevice
      <3> QED
        BY <3>2, <1>4
    <2>10. DeviceInOrder'
      <3> SUFFICES ASSUME NEW p \in 1..Len(pending'), NEW q \in 1..Len(pending'),
                          NEW i \in 1..Len(toDevice), NEW j \in 1..Len(toDevice),
                          i < j,
                          toDevice[i] = pending'[p], toDevice[j] = pending'[q]
                   PROVE  p < q
        BY <1>1 DEF DeviceInOrder
      <3>1. p + 1 < q + 1
        BY <2>0, <2>2 DEF Fifo, DeviceInOrder
      <3> QED
        BY <3>1, <1>4
    <2> QED
      BY <2>1, <2>5, <2>6, <2>7, <2>8, <2>9, <2>10 DEF Fifo
  <1> QED
    BY <1>7, <1>8, <1>9

-----------------------------------------------------------------------------
(* IInv is inductive.                                                      *)

LEMMA HandshakeFrame ==
  ASSUME Handshake, UNCHANGED <<boot, initialized, result>>,
         owner' = "none" => owner = "none" /\ port' = port
  PROVE  Handshake'
  BY DEF Handshake

LEMMA CorrelatedFrame ==
  ASSUME CorrelatedUnlessTornDown, UNCHANGED result,
         owner' \in {"none", "reader"} => owner \in {"none", "reader"}
  PROVE  CorrelatedUnlessTornDown'
  BY DEF CorrelatedUnlessTornDown, Correlated

(* A call that fails is not answered at all.                               *)
LEMMA FailedIsNoAnswer ==
  ASSUME TypeOK, CorrelatedUnlessTornDown, NEW c0 \in Calls,
         Complete(c0, Failed), owner' = owner
  PROVE  /\ CorrelatedUnlessTornDown'
         /\ \A c \in Calls : result'[c] = Idle <=> result[c] = Idle
  <1>1. \A c \in Calls : \/ result'[c] = result[c]
                         \/ result[c] = Open /\ result'[c] = Failed
    <2>1. result \in [Calls -> Results]
      BY DEF TypeOK
    <2>2. result' = [result EXCEPT ![c0] =
                       IF result[c0] = Open THEN Failed ELSE result[c0]]
      BY DEF Complete
    <2> QED
      BY <2>1, <2>2
  <1> QED
    BY <1>1 DEF CorrelatedUnlessTornDown, Correlated, Failed, Idle, Open

(* Steps that leave the path of the calls alone, but for the writer's      *)
(* letting go of a request.                                                *)
LEMMA QuietStep ==
  ASSUME IInv, TypeOK', Handshake',
         UNCHANGED <<writes, pending, toDevice, rx, result, initialized>>,
         \/ UNCHANGED <<inHand, writer>>
         \/ writer' \notin {"register", "write"} /\ inHand' \in {inHand, NoCall},
         owner' = "none" => /\ owner = "none"
                            /\ writer = "failing" => writer' = "failing"
                            /\ writer = "write" => writer' \in {"write", "failing"},
         owner' \in {"none", "reader"} => owner \in {"none", "reader"},
         owner' = "reader" => reader' # "poll"
  PROVE  IInv'
  <1>1. OnePlace'
    BY OnePlaceFrame DEF IInv
  <1>2. ASSUME owner' = "none" PROVE StaleLinesFirst' /\ Fifo'
    <2>1. StaleLinesFirst /\ Fifo
      BY <1>2 DEF IInv
    <2>2. writer' = "write" => UNCHANGED <<inHand, writer>>
      OBVIOUS
    <2> QED
      BY <1>2, <2>1, <2>2, StaleFrame, FifoFrame
  <1>3. CorrelatedUnlessTornDown'
    BY CorrelatedFrame DEF IInv
  <1> QED
    BY <1>1, <1>2, <1>3 DEF IInv

LEMMA BootInv == IInv /\ TypeOK' /\ Boot => IInv'
  <1> SUFFICES ASSUME IInv, TypeOK', Boot PROVE IInv'
    OBVIOUS
  <1> USE DEF loopVars, portVars, closeVars
  <1>1. CASE BootCrlf \/ BootStartCLI
    <2>1. PICK here \in {"crlf", "crlfSent"}, raw \in Raws,
               there \in {"crlfSent", "startSent"} : WriteRaw(here, raw, there)
      BY <1>1 DEF BootCrlf, BootStartCLI, Raws
    <2>2. OnePlace' /\ (owner = "none" => StaleLinesFirst' /\ Fifo')
      BY <2>1, WriteRawInv
    <2>3. Handshake'
      BY <2>1 DEF WriteRaw, IInv, Handshake
    <2>4. UNCHANGED <<owner, reader, result>>
      BY <2>1 DEF WriteRaw
    <2>5. CorrelatedUnlessTornDown'
      BY <2>4, CorrelatedFrame DEF IInv
    <2> QED
      BY <2>2, <2>3, <2>4, <2>5 DEF IInv
  <1>2. ASSUME NEW here, NEW there, BootMoves(here, there), here # "ready",
               here # "failed", there = "ready" => initialized = "done"
        PROVE  IInv'
    <2>1. Handshake'
      BY <1>2 DEF BootMoves, IInv, Handshake
    <2> QED
      BY <1>2, <2>1, QuietStep DEF BootMoves, IInv
  <1>3. CASE BootAwaits \/ BootReady \/ BootFails \/ BootTimeout \/ BootCancelled
    BY <1>3, <1>2
    DEF BootAwaits, BootReady, BootFails, BootTimeout, BootCancelled
  <1>4. CASE BootClosePort
    <2>1. Handshake'
      BY <1>4 DEF BootClosePort, IInv, Handshake
    <2> QED
      BY <1>4, <2>1, QuietStep DEF BootClosePort, IInv
  <1> QED
    BY <1>1, <1>3, <1>4 DEF Boot

LEMMA WriterInv == IInv /\ TypeOK' /\ Writer => IInv'
  <1> SUFFICES ASSUME IInv, TypeOK', Writer PROVE IInv'
    OBVIOUS
  <1> USE DEF clientVars, portVars, closeVars
  <1>1. CASE WriterReceive \/ WriterRegister \/ WriterWrite
    <2>1. /\ UNCHANGED <<boot, initialized, result, owner, port, reader>>
          /\ owner = "none" => StaleLinesFirst
      BY <1>1 DEF WriterReceive, WriterRegister, WriterWrite, IInv
    <2>2. Handshake' /\ CorrelatedUnlessTornDown'
      BY <2>1, HandshakeFrame, CorrelatedFrame DEF IInv
    <2>3. OnePlace' /\ (owner = "none" => Fifo')
      BY <1>1, ReceiveInv, RegisterInv, WriteInv
    <2>4. UNCHANGED rx
      BY <1>1 DEF WriterReceive, WriterRegister, WriterWrite
    <2> QED
      BY <2>1, <2>2, <2>3, <2>4, StaleFrame DEF IInv
  <1>2. CASE WriterEnds \/ WriterDropsRequest
    <2>1. owner # "none"
      BY <1>2 DEF WriterEnds, WriterDropsRequest, WritesClosed, PendingClosed,
                  Cancelled, IInv, TypeOK
    <2>2. UNCHANGED <<boot, initialized, result, owner, port, reader>>
      BY <1>2 DEF WriterEnds, WriterDropsRequest
    <2>3. Handshake'
      BY <2>2, HandshakeFrame DEF IInv
    <2> QED
      BY <1>2, <2>1, <2>2, <2>3, QuietStep DEF WriterEnds, WriterDropsRequest, IInv
  <1>3. CASE WriterWriteFails \/ WriterCancelledAfterWrite
    <2>1. /\ WriteThrows
          /\ writer \in {"write", "wrote"}
      BY <1>3 DEF WriterWriteFails, WriterCancelledAfterWrite
    <2>2. /\ UNCHANGED <<writes, pending, toDevice, rx, initialized>>
          /\ UNCHANGED <<boot, owner, port, reader>>
          /\ writer' = "failing" /\ inHand' = NoCall
      BY <2>1 DEF WriteThrows
    <2>3. /\ CorrelatedUnlessTornDown'
          /\ \A c \in Calls : result'[c] = Idle <=> result[c] = Idle
      <3>1. CASE inHand \in Calls
        BY <2>1, <2>2, <3>1, FailedIsNoAnswer DEF WriteThrows, IInv
      <3>2. CASE inHand \notin Calls
        BY <2>1, <2>2, <3>2, CorrelatedFrame DEF WriteThrows, IInv
      <3> QED
        BY <3>1, <3>2
    <2>4. Handshake'
      BY <2>2, <2>3 DEF IInv, Handshake
    <2>5. OnePlace'
      <3>1. \A c \in Calls : /\ UNCHANGED <<InWrites(c), InPending(c)>>
                             /\ UNCHANGED <<WithDevice(c), Answered(c)>>
                             /\ c # NoCall
        BY <2>2, CallsAssumption DEF InWrites, InPending, WithDevice, Answered
      <3> QED
        BY <2>2, <2>3, <3>1 DEF IInv, OnePlace, IsAnswer
    <2>6. ASSUME owner = "none" PROVE StaleLinesFirst' /\ Fifo'
      <3>1. Fifo /\ StaleLinesFirst
        BY <2>6 DEF IInv
      <3> QED
        BY <3>1, <2>1, <2>2, StaleFrame, FifoFrame
    <2> QED
      BY <2>2, <2>3, <2>4, <2>5, <2>6 DEF IInv
  <1>4. CASE WriterWrote
    <2>1. Handshake'
      BY <1>4, HandshakeFrame DEF WriterWrote, IInv
    <2> QED
      BY <1>4, <2>1, QuietStep DEF WriterWrote, IInv
  <1>5. CASE WriterFailsTransport
    <2>1. /\ owner' = "writer"
          /\ UNCHANGED <<boot, initialized, result, writes, pending, toDevice, rx>>
          /\ UNCHANGED <<inHand, writer>>
      BY <1>5 DEF WriterFailsTransport, Begin, loopVars
    <2>2. Handshake'
      BY <2>1, HandshakeFrame DEF IInv
    <2> QED
      BY <2>1, <2>2, QuietStep
  <1>6. CASE WriterStops
    <2>1. Handshake'
      BY <1>6, HandshakeFrame DEF WriterStops, IInv
    <2> QED
      BY <1>6, <2>1, QuietStep DEF WriterStops, IInv
  <1> QED
    BY <1>1, <1>2, <1>3, <1>4, <1>5, <1>6 DEF Writer

LEMMA ReaderInv == IInv /\ TypeOK' /\ Reader => IInv'
  <1> SUFFICES ASSUME IInv, TypeOK', Reader PROVE IInv'
    OBVIOUS
  <1>1. CASE ReaderLine
    <2>1. /\ UNCHANGED <<boot, owner, port, reader>>
          /\ reader = "poll"
          /\ initialized' = initialized \/ initialized = "pending"
      BY <1>1 DEF ReaderLine, loopVars, closeVars, handleLine, isInitialized
    <2>2. CASE UNCHANGED <<pending, result>>
               /\ (~isInitialized \/ ~IsAnswer(Head(rx)) \/ pending = <<>>)
      <3>1. OnePlace' /\ (owner = "none" => StaleLinesFirst' /\ Fifo')
        BY <1>1, <2>2, LineWithoutSlotInv
      <3>2. Handshake'
        BY <2>1, <2>2 DEF IInv, Handshake
      <3>3. CorrelatedUnlessTornDown'
        BY <2>1, <2>2, CorrelatedFrame DEF IInv
      <3> QED
        BY <2>1, <3>1, <3>2, <3>3 DEF IInv
    <2>3. CASE /\ completeNext(Head(rx)) /\ pending # <<>>
               /\ isInitialized /\ IsAnswer(Head(rx))
      <3>1. /\ OnePlace' /\ CorrelatedUnlessTornDown'
            /\ owner = "none" => StaleLinesFirst' /\ Fifo'
        BY <1>1, <2>3, LineWithSlotInv
      <3>2. Head(pending) \in Calls /\ boot = "ready"
        <4>1. pending \in Seq(Calls)
          BY DEF IInv, TypeOK
        <4> QED
          BY <4>1, <2>3, TailFacts, NoSlotBeforeReady
      <3>3. Handshake'
        BY <2>1, <2>3, <3>2 DEF IInv, Handshake, isInitialized
      <3> QED
        BY <2>1, <3>1, <3>3 DEF IInv
    <2> QED
      BY <1>1, <2>2, <2>3 DEF ReaderLine, handleLine, completeNext, IsAnswer
  <1>2. CASE ReaderFails \/ ReaderStops \/ ReaderStopsFailing
    <2>1. UNCHANGED <<clientVars, writer, inHand, portVars, closeVars>>
          /\ reader' # "poll"
      BY <1>2 DEF ReaderFails, ReaderStops, ReaderStopsFailing
    <2>2. Handshake'
      BY <2>1, HandshakeFrame DEF IInv, clientVars, portVars, closeVars
    <2> QED
      BY <2>1, <2>2, QuietStep DEF clientVars, portVars, closeVars
  <1>3. CASE ReaderFailsTransport
    <2>1. /\ owner = "none" /\ owner' = "reader" /\ reader' # "poll"
          /\ UNCHANGED <<boot, initialized, result, writes, pending, toDevice, rx>>
          /\ UNCHANGED <<inHand, writer>>
      BY <1>3 DEF ReaderFailsTransport, Begin, loopVars, clientVars, portVars
    <2>2. Handshake'
      BY <2>1, HandshakeFrame DEF IInv
    <2> QED
      BY <2>1, <2>2, QuietStep
  <1> QED
    BY <1>1, <1>2, <1>3 DEF Reader

LEMMA ShutdownInv == IInv /\ TypeOK' /\ Shutdown => IInv'
  <1> SUFFICES ASSUME IInv, TypeOK', Shutdown PROVE IInv'
    OBVIOUS
  <1> USE DEF Teardown, clientVars, loopVars, portVars
  <1>1. owner # "none" /\ owner' = owner
    BY DEF Shutdown, CloseWrites, ClosePending, FailInitialized, Drain, Drained,
           CancelScope, ClosePort, IInv, TypeOK
  <1>2. CASE CloseWrites \/ ClosePending \/ Drained \/ CancelScope
    <2>1. Handshake'
      BY <1>1, <1>2, HandshakeFrame
      DEF IInv, CloseWrites, ClosePending, Drained, CancelScope
    <2> QED
      BY <1>1, <1>2, <2>1, QuietStep
      DEF IInv, CloseWrites, ClosePending, Drained, CancelScope
  <1>3. CASE FailInitialized
    <2>1. UNCHANGED <<boot, result, writes, pending, toDevice, rx, inHand, writer, reader>>
          /\ (initialized = "done" => initialized' = "done")
      BY <1>3 DEF FailInitialized, isInitialized
    <2>2. Handshake'
      BY <1>1, <2>1 DEF IInv, Handshake
    <2>3. OnePlace' /\ CorrelatedUnlessTornDown'
      BY <1>1, <2>1, OnePlaceFrame, CorrelatedFrame DEF IInv
    <2> QED
      BY <1>1, <2>1, <2>2, <2>3 DEF IInv
  <1>4. CASE Drain
    <2>1. /\ pending # <<>> /\ pending' = Tail(pending)
          /\ Complete(Head(pending), Failed)
          /\ UNCHANGED <<boot, initialized, writes, inHand, writer, reader, toDevice, rx>>
      BY <1>4 DEF Drain
    <2>2. Head(pending) \in Calls
      <3>1. pending \in Seq(Calls)
        BY DEF IInv, TypeOK
      <3> QED
        BY <3>1, <2>1, TailFacts
    <2>3. /\ CorrelatedUnlessTornDown'
          /\ \A c \in Calls : result'[c] = Idle <=> result[c] = Idle
      BY <1>1, <2>1, <2>2, FailedIsNoAnswer DEF IInv
    <2>4. Handshake'
      BY <1>1, <2>1, <2>3 DEF IInv, Handshake
    <2>5. \A i \in 1..Len(rx') : rx'[i].of \in Calls => IsAnswer(rx'[i])
      BY <2>1 DEF IInv, OnePlace, IsAnswer
    <2>6. \A c \in Calls : Answered(c)' => Answered(c)
      BY <2>1 DEF Answered
    <2>7. OnePlace'
      BY <2>1, <2>3, <2>5, <2>6, PopOnePlace DEF IInv
    <2> QED
      BY <1>1, <2>1, <2>3, <2>4, <2>7 DEF IInv
  <1>5. CASE ClosePort
    <2>1. UNCHANGED <<boot, initialized, result, writes, pending, toDevice, rx, inHand>>
          /\ writer' \in {writer, "stopped"}
          /\ reader' \in {reader, "stopped"}
      BY <1>5 DEF ClosePort
    <2>2. Handshake'
      BY <1>1, <2>1, HandshakeFrame DEF IInv
    <2> QED
      BY <1>1, <2>1, <2>2, QuietStep DEF IInv
  <1> QED
    BY <1>2, <1>3, <1>4, <1>5 DEF Shutdown

LEMMA OthersInv ==
  ASSUME IInv, TypeOK', \/ \E c \in Calls : Enqueue(c)
                        \/ Close \/ DeviceAnswers \/ DeviceSpeaks
  PROVE  IInv'
  <1>1. ASSUME NEW c \in Calls, Enqueue(c) PROVE IInv'
    <2>1. UNCHANGED <<boot, initialized, owner, port, reader>> /\ boot = "ready"
      BY <1>1 DEF Enqueue, loopVars, portVars, closeVars
    <2>2. OnePlace' /\ (owner = "none" => StaleLinesFirst' /\ Fifo')
      BY <1>1, EnqueueInv
    <2>3. Handshake'
      BY <2>1 DEF IInv, Handshake
    <2>4. CorrelatedUnlessTornDown'
      <3>1. result \in [Calls -> Results]
        BY DEF IInv, TypeOK
      <3>2. \E r \in {Open, Failed} : result' = [result EXCEPT ![c] = r]
        BY <1>1 DEF Enqueue
      <3> QED
        BY <2>1, <3>1, <3>2
        DEF IInv, CorrelatedUnlessTornDown, Correlated, Open, Failed
    <2> QED
      BY <2>1, <2>2, <2>3, <2>4 DEF IInv
  <1>2. CASE Close
    <2>1. /\ owner' = "closer"
          /\ UNCHANGED <<boot, initialized, result, writes, pending, toDevice, rx>>
          /\ UNCHANGED <<inHand, writer>>
      BY <1>2 DEF Close, Begin, loopVars, clientVars, portVars
    <2>2. Handshake'
      BY <2>1, HandshakeFrame DEF IInv
    <2> QED
      BY <2>1, <2>2, QuietStep
  <1>3. CASE DeviceAnswers \/ DeviceSpeaks
    <2>1. UNCHANGED <<boot, initialized, result, owner, port, reader>>
      BY <1>3 DEF DeviceAnswers, DeviceSpeaks, clientVars, loopVars, closeVars
    <2>2. OnePlace' /\ (owner = "none" => StaleLinesFirst' /\ Fifo')
      BY <1>3, AnswersInv, NoiseInv
    <2>3. Handshake' /\ CorrelatedUnlessTornDown'
      BY <2>1, HandshakeFrame, CorrelatedFrame DEF IInv
    <2> QED
      BY <2>1, <2>2, <2>3 DEF IInv
  <1> QED
    BY <1>1, <1>2, <1>3

LEMMA InitIInv == Init => IInv
  <1> SUFFICES ASSUME Init PROVE IInv
    OBVIOUS
  <1>1. TypeOK
    BY InitTypeOK
  <1>2. \A i \in 1..Len(rx) : rx[i].kind # "@@@" /\ rx[i].of = NoCall
    <2>1. rx \in Seq(Lines) /\ \A i \in DOMAIN rx : rx[i].kind # "@@@" /\ rx[i].of = NoCall
      BY LeftoversAssumption DEF Init
    <2> QED
      BY <2>1
  <1>3. Handshake
    BY DEF Init, Handshake
  <1>4. OnePlace
    BY <1>2, CallsAssumption
    DEF Init, OnePlace, InWrites, InPending, WithDevice, Answered
  <1>5. StaleLinesFirst
    BY <1>2 DEF Init, StaleLinesFirst
  <1>6. Fifo
    BY <1>2, CallsAssumption
    DEF Init, Fifo, SlotsForTheWire, SlotsAreOnTheirWay, LastSlotInHand,
        LinesInOrder, LinesBeforeDevice, DeviceInOrder, WithDevice, Answered
  <1>7. CorrelatedUnlessTornDown
    BY DEF Init, CorrelatedUnlessTornDown, Correlated, Idle
  <1> QED
    BY <1>1, <1>3, <1>4, <1>5, <1>6, <1>7 DEF IInv, Init

LEMMA IInvNext == IInv /\ [Next]_vars => IInv'
  <1> SUFFICES ASSUME IInv, [Next]_vars PROVE IInv'
    OBVIOUS
  <1>1. TypeOK'
    BY TypeOKNext DEF IInv
  <1>2. CASE UNCHANGED vars
    <2>1. Handshake'
      BY <1>2, HandshakeFrame DEF IInv, vars, clientVars, portVars, closeVars
    <2> QED
      BY <1>1, <1>2, <2>1, QuietStep
      DEF IInv, vars, clientVars, loopVars, portVars, closeVars
  <1>3. CASE Next
    BY <1>1, <1>3, BootInv, WriterInv, ReaderInv, ShutdownInv, OthersInv DEF Next
  <1> QED
    BY <1>2, <1>3

(* The path of the calls is in order in every reachable state.             *)
THEOREM InvariantHolds == Spec => []IInv
  BY InitIInv, IInvNext, PTL DEF Spec

(* However many calls, lines and failures there are: until the transport   *)
(* is torn down by close() or by its writer, completeNext never gives a    *)
(* call the line of another one, of an earlier session or of nobody.       *)
THEOREM Correlation == Spec => []CorrelatedUnlessTornDown
  <1>1. IInv => CorrelatedUnlessTornDown
    BY DEF IInv
  <1> QED
    BY <1>1, InvariantHolds, PTL

-----------------------------------------------------------------------------
(* Register first: a call has its slot before its bytes are written.       *)

LEMMA DueFrame ==
  ASSUME SlotsForDue,
         \A c \in Calls : /\ Due(c)' => Due(c)
                          /\ IsOpen(c)' => IsOpen(c)
                          /\ InPending(c) /\ IsOpen(c)' => InPending(c)'
  PROVE  SlotsForDue'
  BY DEF SlotsForDue

(* A slot that is taken out of `pending` leaves a deferred that is done.   *)
LEMMA PopCompletes ==
  ASSUME TypeOK, pending # <<>>, pending' = Tail(pending),
         NEW r, r # Open, Complete(Head(pending), r)
  PROVE  /\ \A c \in Calls : /\ IsOpen(c)' => IsOpen(c)
                             /\ InPending(c) /\ IsOpen(c)' => InPending(c)'
         /\ \A c \in Calls : \/ result'[c] = result[c]
                             \/ result[c] = Open /\ result'[c] = r /\ c = Head(pending)
  <1>1. /\ pending \in Seq(Calls) /\ result \in [Calls -> Results]
    BY DEF TypeOK
  <1>2. /\ Head(pending) = pending[1] /\ Head(pending) \in Calls
        /\ Len(pending) \in Nat /\ Len(pending) >= 1
        /\ Len(pending') = Len(pending) - 1
        /\ \A i \in 1..(Len(pending) - 1) : pending'[i] = pending[i + 1]
    BY <1>1, TailFacts
  <1>3. \A c \in Calls : \/ result'[c] = result[c]
                         \/ result[c] = Open /\ result'[c] = r /\ c = Head(pending)
    BY <1>1, <1>2 DEF Complete
  <1>4. result'[Head(pending)] # Open
    BY <1>1, <1>2 DEF Complete
  <1>5. \A c \in Calls : IsOpen(c)' => IsOpen(c) /\ c # Head(pending)
    <2> SUFFICES ASSUME NEW c \in Calls, result'[c] = Open
                 PROVE  result[c] = Open /\ c # Head(pending)
      BY DEF IsOpen, Open
    <2> QED
      BY <1>3, <1>4
  <1>6. ASSUME NEW c \in Calls, InPending(c), c # Head(pending)
        PROVE  InPending(c)'
    <2>1. PICK i \in 1..Len(pending) : pending[i] = c
      BY <1>6 DEF InPending
    <2>2. i - 1 \in 1..(Len(pending) - 1) /\ i - 1 + 1 = i
      BY <1>2, <1>6, <2>1
    <2>3. pending'[i - 1] = c
      BY <1>2, <2>1, <2>2
    <2> QED
      BY <1>2, <2>2, <2>3 DEF InPending
  <1> QED
    BY <1>3, <1>5, <1>6

LEMMA DueQuiet ==
  ASSUME SlotsForDue, UNCHANGED <<pending, toDevice, rx, result>>,
         UNCHANGED <<writer, inHand>> \/ writer' # "write"
  PROVE  SlotsForDue'
  BY DueFrame DEF Due, WithDevice, Answered, IsOpen, InPending

LEMMA WriteThrowsDue ==
  ASSUME IInv, SlotsForDue, WriteThrows
  PROVE  SlotsForDue'
  <1>1. \A c \in Calls : result'[c] = result[c] \/ result'[c] = Failed
    <2>1. result \in [Calls -> Results]
      BY DEF IInv, TypeOK
    <2> QED
      BY <2>1 DEF WriteThrows, Complete
  <1>2. \A c \in Calls : IsOpen(c)' => IsOpen(c)
    BY <1>1 DEF IsOpen, Open, Failed
  <1>3. UNCHANGED <<pending, toDevice, rx>> /\ writer' = "failing"
    BY DEF WriteThrows, portVars
  <1>4. \A c \in Calls : Due(c)' => Due(c)
    BY <1>3 DEF Due, WithDevice, Answered
  <1>5. \A c \in Calls : InPending(c)' <=> InPending(c)
    BY <1>3 DEF InPending
  <1> QED
    BY <1>2, <1>4, <1>5, DueFrame

LEMMA WriterDue == IInv /\ SlotsForDue /\ Writer => SlotsForDue'
  <1> SUFFICES ASSUME IInv, SlotsForDue, Writer PROVE SlotsForDue'
    OBVIOUS
  <1> USE DEF clientVars, portVars
  <1>1. CASE WriterReceive
    <2>1. /\ UNCHANGED <<pending, toDevice, rx, result>>
          /\ inHand' \in Calls => writer' = "register"
      BY <1>1 DEF WriterReceive
    <2>2. \A c \in Calls : Due(c)' => Due(c)
      BY <2>1 DEF Due, WithDevice, Answered
    <2>3. \A c \in Calls : /\ IsOpen(c)' => IsOpen(c)
                           /\ InPending(c) => InPending(c)'
      BY <2>1 DEF IsOpen, InPending
    <2> QED
      BY <2>2, <2>3, DueFrame
  <1>2. CASE WriterRegister
    <2>1. /\ UNCHANGED <<toDevice, rx, result, inHand>> /\ writer' = "write"
          /\ pending' = Append(pending, inHand)
          /\ pending \in Seq(Calls) /\ inHand \in Calls
      BY <1>2 DEF WriterRegister, IInv, TypeOK
    <2>2. /\ Len(pending') = Len(pending) + 1 /\ Len(pending) \in Nat
          /\ \A i \in 1..Len(pending) : pending'[i] = pending[i]
          /\ pending'[Len(pending) + 1] = inHand
      BY <2>1, AppendFacts
    <2>3. \A c \in Calls : InPending(c) \/ c = inHand => InPending(c)'
      BY <2>2 DEF InPending
    <2>4. \A c \in Calls : Due(c)' => Due(c) \/ c = inHand
      BY <2>1 DEF Due, WithDevice, Answered
    <2>5. \A c \in Calls : IsOpen(c)' => IsOpen(c)
      BY <2>1 DEF IsOpen
    <2> QED
      BY <2>3, <2>4, <2>5 DEF SlotsForDue
  <1>3. CASE WriterWrite
    <2>1. /\ UNCHANGED <<pending, rx, result, inHand>>
          /\ writer = "write" /\ writer' = "wrote"
          /\ toDevice' = Append(toDevice, inHand)
          /\ toDevice \in Seq(Requests) /\ inHand \in Requests
      BY <1>3 DEF WriterWrite, IInv, TypeOK
    <2>2. /\ Len(toDevice') = Len(toDevice) + 1 /\ Len(toDevice) \in Nat
          /\ \A i \in 1..Len(toDevice) : toDevice'[i] = toDevice[i]
          /\ toDevice'[Len(toDevice) + 1] = inHand
      BY <2>1, AppendFacts
    <2>3. \A c \in Calls : WithDevice(c)' => WithDevice(c) \/ c = inHand
      BY <2>2 DEF WithDevice
    <2>4. \A c \in Calls : Answered(c)' => Answered(c)
      BY <2>1 DEF Answered
    <2>5. \A c \in Calls : Due(c)' => Due(c)
      BY <2>1, <2>3, <2>4 DEF Due
    <2>6. \A c \in Calls : /\ IsOpen(c)' => IsOpen(c)
                           /\ InPending(c) => InPending(c)'
      BY <2>1 DEF IsOpen, InPending
    <2> QED
      BY <2>5, <2>6, DueFrame
  <1>4. CASE WriterEnds \/ WriterDropsRequest \/ WriterWrote \/ WriterStops
    BY <1>4, DueQuiet DEF WriterEnds, WriterDropsRequest, WriterWrote, WriterStops
  <1>5. CASE WriterWriteFails \/ WriterCancelledAfterWrite
    BY <1>5, WriteThrowsDue DEF WriterWriteFails, WriterCancelledAfterWrite
  <1>6. CASE WriterFailsTransport
    BY <1>6, DueQuiet DEF WriterFailsTransport, Begin, loopVars
  <1> QED
    BY <1>1, <1>2, <1>3, <1>4, <1>5, <1>6 DEF Writer

(* What a line does to the state, in one of two ways.                      *)
LEMMA LineMoves ==
  ASSUME ReaderLine
  PROVE  \/ UNCHANGED <<pending, result>>
         \/ /\ pending # <<>> /\ pending' = Tail(pending)
            /\ isInitialized /\ IsAnswer(Head(rx))
            /\ Complete(Head(pending),
                  [tag |-> IF Head(rx).kind = "R" THEN "success" ELSE "error",
                   of |-> Head(rx).of])
  BY DEF ReaderLine, handleLine, completeNext, IsAnswer

LEMMA ReaderDue == IInv /\ SlotsForDue /\ Reader => SlotsForDue'
  <1> SUFFICES ASSUME IInv, SlotsForDue, Reader PROVE SlotsForDue'
    OBVIOUS
  <1> USE DEF clientVars, portVars, loopVars
  <1>1. CASE ReaderLine
    <2>1. /\ UNCHANGED <<writer, inHand, toDevice>>
          /\ rx' = Tail(rx) /\ rx # <<>> /\ rx \in Seq(Lines)
      BY <1>1 DEF ReaderLine, IInv, TypeOK
    <2>2. /\ Len(rx) \in Nat /\ Len(rx') = Len(rx) - 1
          /\ \A i \in 1..(Len(rx) - 1) : rx'[i] = rx[i + 1]
      BY <2>1, TailFacts
    <2>3. \A c \in Calls : Answered(c)' => Answered(c)
      <3> SUFFICES ASSUME NEW c \in Calls, NEW i \in 1..(Len(rx) - 1), rx[i + 1].of = c
                   PROVE  \E j \in 1..Len(rx) : rx[j].of = c
        BY <2>2 DEF Answered
      <3>1. i + 1 \in 1..Len(rx)
        BY <2>2
      <3> QED
        BY <3>1
    <2>4. \A c \in Calls : Due(c)' => Due(c)
      BY <2>1, <2>3 DEF Due, WithDevice
    <2>5. CASE UNCHANGED <<pending, result>>
      <3>1. \A c \in Calls : /\ IsOpen(c)' => IsOpen(c)
                             /\ InPending(c) => InPending(c)'
        BY <2>5 DEF IsOpen, InPending
      <3> QED
        BY <2>4, <3>1, DueFrame
    <2>6. ASSUME NEW r, r # Open, pending # <<>>, pending' = Tail(pending),
                 Complete(Head(pending), r)
          PROVE  SlotsForDue'
      <3>1. \A c \in Calls : /\ IsOpen(c)' => IsOpen(c)
                             /\ InPending(c) /\ IsOpen(c)' => InPending(c)'
        BY <2>6, PopCompletes DEF IInv
      <3> QED
        BY <2>4, <3>1, DueFrame
    <2>7. [tag |-> IF Head(rx).kind = "R" THEN "success" ELSE "error",
           of |-> Head(rx).of] # Open
      BY DEF Open
    <2> QED
      BY <1>1, <2>5, <2>6, <2>7, LineMoves
  <1>2. CASE ReaderFails \/ ReaderStops \/ ReaderStopsFailing
    BY <1>2, DueQuiet DEF ReaderFails, ReaderStops, ReaderStopsFailing
  <1>3. CASE ReaderFailsTransport
    BY <1>3, DueQuiet DEF ReaderFailsTransport, Begin
  <1> QED
    BY <1>1, <1>2, <1>3 DEF Reader

LEMMA ShutdownDue == IInv /\ SlotsForDue /\ Shutdown => SlotsForDue'
  <1> SUFFICES ASSUME IInv, SlotsForDue, Shutdown PROVE SlotsForDue'
    OBVIOUS
  <1> USE DEF clientVars, portVars, loopVars
  <1>1. CASE CloseWrites \/ ClosePending \/ Drained \/ CancelScope
    BY <1>1, DueQuiet DEF CloseWrites, ClosePending, Drained, CancelScope
  <1>2. CASE FailInitialized \/ ClosePort
    BY <1>2, DueQuiet DEF FailInitialized, ClosePort
  <1>3. CASE Drain
    <2>1. /\ UNCHANGED <<writer, inHand, toDevice, rx>>
          /\ pending # <<>> /\ pending' = Tail(pending)
          /\ Complete(Head(pending), Failed) /\ Failed # Open
      BY <1>3 DEF Drain, Failed, Open
    <2>2. \A c \in Calls : Due(c)' => Due(c)
      BY <2>1 DEF Due, WithDevice, Answered
    <2>3. \A c \in Calls : /\ IsOpen(c)' => IsOpen(c)
                           /\ InPending(c) /\ IsOpen(c)' => InPending(c)'
      BY <2>1, PopCompletes DEF IInv
    <2> QED
      BY <2>2, <2>3, DueFrame
  <1> QED
    BY <1>1, <1>2, <1>3 DEF Shutdown

LEMMA EnqueueDue ==
  ASSUME IInv, SlotsForDue, NEW c \in Calls, Enqueue(c)
  PROVE  SlotsForDue'
  <1>1. UNCHANGED <<writer, inHand, toDevice, rx, pending>>
    BY DEF Enqueue, loopVars, portVars
  <1>2. result[c] = Idle /\ \A d \in Calls \ {c} : result'[d] = result[d]
    <2>1. result \in [Calls -> Results]
      BY DEF IInv, TypeOK
    <2> QED
      BY <2>1 DEF Enqueue
  <1>3. ~Due(c)
    BY <1>2 DEF IInv, OnePlace, Due
  <1>4. \A d \in Calls : /\ Due(d)' <=> Due(d)
                         /\ InPending(d)' <=> InPending(d)
    BY <1>1 DEF Due, WithDevice, Answered, InPending
  <1>5. \A d \in Calls \ {c} : IsOpen(d)' <=> IsOpen(d)
    BY <1>2 DEF IsOpen
  <1> QED
    BY <1>3, <1>4, <1>5 DEF SlotsForDue

LEMMA DeviceDue ==
  ASSUME IInv, SlotsForDue, DeviceAnswers \/ DeviceSpeaks
  PROVE  SlotsForDue'
  <1>1. UNCHANGED <<writer, inHand, result, pending>> /\ rx \in Seq(Lines)
    BY DEF DeviceAnswers, DeviceSpeaks, clientVars, loopVars, IInv, TypeOK
  <1>2. ASSUME NEW line \in Lines, Receives(line), NEW c \in Calls, Answered(c)'
        PROVE  Answered(c) \/ line.of = c
    <2>1. CASE rx' = rx
      BY <1>2, <2>1 DEF Answered
    <2>2. CASE rx' = Append(rx, line)
      <3>1. /\ Len(rx') = Len(rx) + 1 /\ Len(rx) \in Nat
            /\ \A i \in 1..Len(rx) : rx'[i] = rx[i]
            /\ rx'[Len(rx) + 1] = line
        BY <1>1, <2>2, AppendFacts
      <3> QED
        BY <1>2, <3>1 DEF Answered
    <2> QED
      BY <1>2, <2>1, <2>2 DEF Receives
  <1>3. \A c \in Calls : Due(c)' => Due(c)
    <2>1. CASE DeviceSpeaks
      <3>1. PICK kind \in Noise : Receives([kind |-> kind, of |-> NoCall])
        BY <2>1 DEF DeviceSpeaks
      <3>2. \A c \in Calls : Answered(c)' => Answered(c)
        BY <3>1, <1>2, LineTypes, CallsAssumption
      <3>3. UNCHANGED toDevice
        BY <2>1 DEF DeviceSpeaks
      <3> QED
        BY <1>1, <3>2, <3>3 DEF Due, WithDevice
    <2>2. CASE DeviceAnswers
      <3>1. toDevice # <<>> /\ toDevice' = Tail(toDevice) /\ toDevice \in Seq(Requests)
        BY <2>2 DEF DeviceAnswers, IInv, TypeOK
      <3>2. /\ Head(toDevice) = toDevice[1] /\ Len(toDevice) \in Nat /\ Len(toDevice) >= 1
            /\ Len(toDevice') = Len(toDevice) - 1
            /\ \A i \in 1..(Len(toDevice) - 1) : toDevice'[i] = toDevice[i + 1]
        BY <3>1, TailFacts
      <3>3. \A c \in Calls : WithDevice(c)' => WithDevice(c)
        <4> SUFFICES ASSUME NEW c \in Calls, NEW i \in 1..(Len(toDevice) - 1),
                            toDevice[i + 1] = c
                     PROVE  \E j \in 1..Len(toDevice) : toDevice[j] = c
          BY <3>2 DEF WithDevice
        <4>1. i + 1 \in 1..Len(toDevice)
          BY <3>2
        <4> QED
          BY <4>1
      <3>4. \A c \in Calls : Answered(c)' => Answered(c) \/ c = Head(toDevice)
        <4>1. CASE UNCHANGED rx
          BY <4>1 DEF Answered
        <4>2. CASE Receives(Marker)
          BY <4>2, <1>2, LineTypes, CallsAssumption DEF Marker
        <4>3. CASE Head(toDevice) \in Calls /\ Receives(AnswerTo(Head(toDevice)))
          <5>1. AnswerTo(Head(toDevice)) \in Lines
                /\ AnswerTo(Head(toDevice)).of = Head(toDevice)
            BY <4>3, LineTypes DEF AnswerTo
          <5> QED
            BY <4>3, <5>1, <1>2
        <4> QED
          BY <2>2, <4>1, <4>2, <4>3 DEF DeviceAnswers
      <3>5. \A c \in Calls : c = Head(toDevice) => WithDevice(c)
        BY <3>2 DEF WithDevice
      <3> QED
        BY <1>1, <3>3, <3>4, <3>5 DEF Due
    <2> QED
      BY <2>1, <2>2
  <1>4. \A c \in Calls : /\ IsOpen(c)' => IsOpen(c)
                         /\ InPending(c) => InPending(c)'
    BY <1>1 DEF IsOpen, InPending
  <1> QED
    BY <1>3, <1>4, DueFrame

LEMMA DueNext == IInv /\ SlotsForDue /\ [Next]_vars => SlotsForDue'
  <1> SUFFICES ASSUME IInv, SlotsForDue, [Next]_vars PROVE SlotsForDue'
    OBVIOUS
  <1> USE DEF clientVars, loopVars, portVars, closeVars
  <1>1. CASE UNCHANGED vars
    BY <1>1, DueQuiet DEF vars
  <1>2. CASE Boot
    <2>1. UNCHANGED <<pending, toDevice, rx, result, writer, inHand>>
      BY <1>2 DEF Boot, BootCrlf, BootStartCLI, WriteRaw, BootAwaits, BootReady,
                  BootFails, BootTimeout, BootCancelled, BootMoves, BootClosePort
    <2> QED
      BY <2>1, DueQuiet
  <1>3. CASE Close
    BY <1>3, DueQuiet DEF Close, Begin
  <1> QED
    BY <1>1, <1>2, <1>3, WriterDue, ReaderDue, ShutdownDue, EnqueueDue, DeviceDue
    DEF Next

LEMMA InitDue == Init => SlotsForDue
  BY DEF Init, SlotsForDue, IsOpen, Open, Idle

(* close() empties `pending` for good.                                     *)
LEMMA GoneNext == IInv /\ SlotsGone /\ [Next]_vars => SlotsGone'
  <1> SUFFICES ASSUME IInv, SlotsGone, [Next]_vars,
                      owner' = "closer", teardown' \in {"cancel", "port", "done"}
               PROVE  pending' = <<>>
    BY DEF SlotsGone
  <1> USE DEF clientVars, loopVars, portVars, closeVars
  <1>1. CASE /\ owner = "closer" /\ teardown \in {"cancel", "port", "done"}
             /\ pending' = pending
    BY <1>1 DEF SlotsGone
  <1>2. CASE Drained
    BY <1>2 DEF Drained, Teardown
  <1>3. CASE WriterRegister
    <2>1. UNCHANGED <<owner, teardown>> /\ ~PendingClosed
      BY <1>3 DEF WriterRegister
    <2> QED
      BY <2>1 DEF PendingClosed, WritesClosed
  <1>4. CASE ReaderLine
    <2>1. UNCHANGED <<owner, teardown>>
      BY <1>4 DEF ReaderLine
    <2>2. pending = <<>>
      BY <2>1 DEF SlotsGone
    <2> QED
      BY <1>4, <2>2, LineMoves
  <1>5. CASE CancelScope \/ ClosePort
    <2>1. /\ owner' = owner /\ teardown \in {"cancel", "port"} /\ pending' = pending
      BY <1>5 DEF CancelScope, ClosePort, Teardown
    <2> QED
      BY <1>1, <2>1
  <1>6. CASE CloseWrites \/ ClosePending \/ FailInitialized \/ Drain
    BY <1>6 DEF CloseWrites, ClosePending, FailInitialized, Drain, Teardown
  <1>7. CASE Close \/ WriterFailsTransport \/ ReaderFailsTransport
    BY <1>7 DEF Close, WriterFailsTransport, ReaderFailsTransport, Begin
  <1>8. CASE UNCHANGED <<pending, owner, teardown>>
    BY <1>8, <1>1
  <1>9. CASE UNCHANGED vars
    BY <1>9, <1>8 DEF vars
  <1>10. CASE Boot
    <2>1. UNCHANGED <<pending, owner, teardown>>
      BY <1>10 DEF Boot, BootCrlf, BootStartCLI, WriteRaw, BootAwaits, BootReady,
                   BootFails, BootTimeout, BootCancelled, BootMoves, BootClosePort
    <2> QED
      BY <2>1, <1>8
  <1>11. CASE Writer
    <2>1. CASE WriterReceive \/ WriterEnds \/ WriterDropsRequest \/ WriterWrite
               \/ WriterWriteFails \/ WriterCancelledAfterWrite
               \/ WriterWrote \/ WriterStops
      <3>1. UNCHANGED <<pending, owner, teardown>>
        BY <2>1 DEF WriterReceive, WriterEnds, WriterDropsRequest, WriterWrite,
                    WriterWriteFails, WriterCancelledAfterWrite, WriteThrows,
                    WriterWrote, WriterStops
      <3> QED
        BY <3>1, <1>8
    <2> QED
      BY <1>11, <2>1, <1>3, <1>7 DEF Writer
  <1>12. CASE Reader
    <2>1. CASE ReaderFails \/ ReaderStops \/ ReaderStopsFailing
      BY <2>1, <1>8 DEF ReaderFails, ReaderStops, ReaderStopsFailing
    <2> QED
      BY <1>12, <2>1, <1>4, <1>7 DEF Reader
  <1>13. CASE (\E c \in Calls : Enqueue(c)) \/ DeviceAnswers \/ DeviceSpeaks
    BY <1>13, <1>8 DEF Enqueue, DeviceAnswers, DeviceSpeaks
  <1> QED
    BY <1>2, <1>5, <1>6, <1>7, <1>9, <1>10, <1>11, <1>12, <1>13 DEF Next, Shutdown

LEMMA InitGone == Init => SlotsGone
  BY DEF Init, SlotsGone

LEMMA SlotsHold == Spec => [](IInv /\ SlotsForDue /\ SlotsGone)
  <1>1. Init => SlotsForDue /\ SlotsGone
    BY InitDue, InitGone
  <1>2. IInv /\ SlotsForDue /\ SlotsGone /\ [Next]_vars => SlotsForDue' /\ SlotsGone'
    BY DueNext, GoneNext
  <1> QED
    BY <1>1, <1>2, InvariantHolds, PTL DEF Spec

(* "Register first so a fast response cannot overtake us": whoever closes  *)
(* or fails the transport and whenever, a command that the device has or   *)
(* has answered is in `pending` until its deferred is complete.            *)
THEOREM RegisterFirst == Spec => []SlotBeforeWire
  <1>1. IInv /\ SlotsForDue => SlotBeforeWire
    <2> SUFFICES ASSUME IInv, SlotsForDue PROVE SlotBeforeWire
      OBVIOUS
    <2>1. rx \in Seq(Lines) /\ toDevice \in Seq(Requests) /\ pending \in Seq(Calls)
      BY DEF IInv, TypeOK
    <2>2. ASSUME NEW c \in Calls,
                 \/ \E i \in DOMAIN toDevice : toDevice[i] = c
                 \/ \E i \in DOMAIN rx : rx[i].of = c
          PROVE  Due(c)
      BY <2>1, <2>2 DEF Due, WithDevice, Answered
    <2>3. \A c \in Calls : InPending(c) => \E i \in DOMAIN pending : pending[i] = c
      BY <2>1 DEF InPending
    <2> QED
      BY <2>2, <2>3 DEF SlotBeforeWire, SlotsForDue
  <1> QED
    BY <1>1, SlotsHold, PTL

(* close() closes `pending` before it drains it: once it has drained it,   *)
(* nobody that the writer has put on the wire waits for an answer, and the *)
(* writer puts nobody there any more.                                      *)
THEOREM CloseLeavesNoSlot == Spec => []ClosedTransportHoldsNoSlot
  <1>1. IInv /\ SlotsForDue /\ SlotsGone => ClosedTransportHoldsNoSlot
    <2> SUFFICES ASSUME IInv, SlotsForDue, SlotsGone,
                        owner = "closer", teardown \in {"cancel", "port", "done"}
                 PROVE  /\ pending = <<>>
                        /\ \A i \in DOMAIN toDevice :
                              toDevice[i] \in Calls => ~IsOpen(toDevice[i])
      BY DEF ClosedTransportHoldsNoSlot
    <2>1. pending = <<>> /\ toDevice \in Seq(Requests)
      BY DEF SlotsGone, IInv, TypeOK
    <2>2. \A c \in Calls : ~InPending(c)
      BY <2>1 DEF InPending
    <2>3. \A i \in DOMAIN toDevice : toDevice[i] \in Calls => Due(toDevice[i])
      BY <2>1 DEF Due, WithDevice
    <2> QED
      BY <2>1, <2>2, <2>3 DEF SlotsForDue
  <1> QED
    BY <1>1, SlotsHold, PTL

-----------------------------------------------------------------------------
(* Sequences that are put together.                                        *)

LEMMA AppendToConcat ==
  ASSUME NEW S, NEW s \in Seq(S), NEW t \in Seq(S), NEW x \in S
  PROVE  s \o Append(t, x) = Append(s \o t, x)
  <1>1. s \o (t \o <<x>>) = (s \o t) \o <<x>> /\ s \o t \in Seq(S)
    BY ConcatAssociative, ConcatProperties
  <1> QED
    BY <1>1, AppendIsConcat

LEMMA HeadThenTail ==
  ASSUME NEW S, NEW t \in Seq(S), t # <<>>
  PROVE  <<Head(t)>> \o Tail(t) = t
  <1>1. /\ Head(t) = t[1] /\ Head(t) \in S /\ Len(t) \in Nat /\ Len(t) >= 1
        /\ Len(Tail(t)) = Len(t) - 1 /\ Tail(t) \in Seq(S)
        /\ \A i \in 1..(Len(t) - 1) : Tail(t)[i] = t[i + 1]
    BY TailFacts, HeadTailProperties
  <1>2. <<Head(t)>> \in Seq(S) /\ Len(<<Head(t)>>) = 1 /\ <<Head(t)>>[1] = Head(t)
    BY <1>1
  <1>3. /\ <<Head(t)>> \o Tail(t) \in Seq(S)
        /\ Len(<<Head(t)>> \o Tail(t)) = 1 + Len(Tail(t))
        /\ \A i \in 1..(1 + Len(Tail(t))) : (<<Head(t)>> \o Tail(t))[i] =
             IF i <= 1 THEN <<Head(t)>>[i] ELSE Tail(t)[i - 1]
    BY <1>1, <1>2, ConcatProperties
  <1>4. ASSUME NEW i \in 1..Len(t) PROVE (<<Head(t)>> \o Tail(t))[i] = t[i]
    <2>1. i \in 1..(1 + Len(Tail(t)))
      BY <1>1
    <2>2. CASE i = 1
      BY <1>1, <1>2, <1>3, <2>1, <2>2
    <2>3. CASE i > 1
      <3>1. i - 1 \in 1..(Len(t) - 1) /\ ~(i <= 1) /\ i - 1 + 1 = i
        BY <1>1, <2>3
      <3> QED
        BY <1>1, <1>3, <2>1, <3>1
    <2> QED
      BY <2>2, <2>3
  <1> QED
    BY <1>1, <1>3, <1>4, SeqEqual

LEMMA TailOfConcat ==
  ASSUME NEW S, NEW s \in Seq(S), NEW t \in Seq(S), s # <<>>
  PROVE  /\ s \o t # <<>>
         /\ Head(s \o t) = Head(s)
         /\ Tail(s \o t) = Tail(s) \o t
  <1>1. /\ Head(s) = s[1] /\ Len(s) \in Nat /\ Len(s) >= 1
        /\ Len(Tail(s)) = Len(s) - 1 /\ Tail(s) \in Seq(S)
        /\ \A i \in 1..(Len(s) - 1) : Tail(s)[i] = s[i + 1]
    BY TailFacts, HeadTailProperties
  <1>2. /\ s \o t \in Seq(S) /\ Len(s \o t) = Len(s) + Len(t) /\ Len(t) \in Nat
        /\ \A i \in 1..(Len(s) + Len(t)) : (s \o t)[i] =
             IF i <= Len(s) THEN s[i] ELSE t[i - Len(s)]
    BY ConcatProperties
  <1>3. s \o t # <<>>
    BY <1>1, <1>2
  <1>4. /\ Head(s \o t) = (s \o t)[1]
        /\ Len(Tail(s \o t)) = Len(s) + Len(t) - 1 /\ Tail(s \o t) \in Seq(S)
        /\ \A i \in 1..(Len(s) + Len(t) - 1) : Tail(s \o t)[i] = (s \o t)[i + 1]
    BY <1>2, <1>3, TailFacts, HeadTailProperties
  <1>5. Head(s \o t) = Head(s)
    <2>1. 1 \in 1..(Len(s) + Len(t)) /\ 1 <= Len(s)
      BY <1>1, <1>2
    <2> QED
      BY <1>1, <1>2, <1>4, <2>1
  <1>6. /\ Tail(s) \o t \in Seq(S) /\ Len(Tail(s) \o t) = Len(s) - 1 + Len(t)
        /\ \A i \in 1..(Len(s) - 1 + Len(t)) : (Tail(s) \o t)[i] =
             IF i <= Len(s) - 1 THEN Tail(s)[i] ELSE t[i - (Len(s) - 1)]
    BY <1>1, ConcatProperties
  <1>7. ASSUME NEW i \in 1..(Len(s) + Len(t) - 1)
        PROVE  Tail(s \o t)[i] = (Tail(s) \o t)[i]
    <2>1. i + 1 \in 1..(Len(s) + Len(t)) /\ i \in 1..(Len(s) - 1 + Len(t))
      BY <1>1, <1>2
    <2>2. CASE i <= Len(s) - 1
      <3>1. i \in 1..(Len(s) - 1) /\ i + 1 <= Len(s)
        BY <1>1, <1>2, <2>2
      <3> QED
        BY <1>1, <1>2, <1>4, <1>6, <2>1, <3>1
    <2>3. CASE ~(i <= Len(s) - 1)
      <3>1. ~(i + 1 <= Len(s)) /\ i + 1 - Len(s) = i - (Len(s) - 1)
        BY <1>1, <1>2, <2>3
      <3> QED
        BY <1>1, <1>2, <1>4, <1>6, <2>1, <2>3, <3>1
    <2> QED
      BY <2>2, <2>3
  <1>8. Len(Tail(s \o t)) = Len(Tail(s) \o t) /\ Len(s) - 1 + Len(t) = Len(s) + Len(t) - 1
    BY <1>1, <1>2, <1>4, <1>6
  <1>9. Tail(s \o t) = Tail(s) \o t
    BY <1>4, <1>6, <1>7, <1>8, SeqEqual
  <1> QED
    BY <1>3, <1>5, <1>9

-----------------------------------------------------------------------------
(* The Raw requests are gone when commands come.                           *)

LEMMA RawPathFrame ==
  ASSUME RawPath, UNCHANGED <<boot, completed, writes>>, inHand' \in {inHand, NoCall}
  PROVE  RawPath'
  BY CallsAssumption DEF RawPath, NoRequest

LEMMA BootRawPath ==
  ASSUME IInv, RawPath, Boot
  PROVE  RawPath'
  <1> USE DEF loopVars
  <1>0. writes \in Seq(Requests) /\ completed \in {"pending", "done"}
    BY DEF IInv, TypeOK
  <1>1. CASE BootCrlf \/ BootStartCLI
    <2>1. PICK raw \in Raws : /\ writes' = Append(writes, raw)
                              /\ boot' \in {"crlfSent", "startSent"}
                              /\ completed' = "pending" /\ inHand' = inHand
                              /\ NoRequest
      BY <1>1 DEF BootCrlf, BootStartCLI, WriteRaw, RawPath, Raws, NoRequest
    <2>2. Len(writes') = 1
      <3>1. writes = <<>> /\ Len(writes) = 0 /\ raw \in Requests
        BY <2>1 DEF NoRequest, Requests
      <3> QED
        BY <1>0, <2>1, <3>1, AppendFacts
    <2> QED
      BY <2>1, <2>2 DEF RawPath, NoRequest
  <1>2. CASE BootAwaits
    BY <1>2 DEF BootAwaits, BootMoves, RawPath, NoRequest
  <1>3. CASE BootReady
    <2>1. NoRequest /\ UNCHANGED <<writes, inHand>> /\ boot' = "ready"
      BY <1>3 DEF BootReady, BootMoves, RawPath
    <2>2. inHand' \notin Raws /\ \A i \in 1..Len(writes') : writes'[i] \in Calls
      BY <2>1, CallsAssumption DEF NoRequest
    <2> QED
      BY <2>1, <2>2 DEF RawPath
  <1>4. CASE BootFails \/ BootTimeout \/ BootCancelled \/ BootClosePort
    <2>1. boot' \in {"closing", "failed"}
      BY <1>4 DEF BootFails, BootTimeout, BootCancelled, BootMoves, BootClosePort
    <2> QED
      BY <2>1 DEF RawPath
  <1> QED
    BY <1>1, <1>2, <1>3, <1>4 DEF Boot

LEMMA WriterRawPath ==
  ASSUME IInv, RawPath, Writer
  PROVE  RawPath'
  <1> USE DEF clientVars
  <1>1. CASE WriterReceive
    <2>1. /\ writes \in Seq(Requests) /\ writes # <<>>
          /\ inHand' = Head(writes) /\ writes' = Tail(writes)
          /\ UNCHANGED <<boot, completed>>
      BY <1>1 DEF WriterReceive, IInv, TypeOK
    <2>2. /\ Head(writes) = writes[1] /\ Len(writes) \in Nat /\ Len(writes) >= 1
          /\ Len(writes') = Len(writes) - 1 /\ writes' \in Seq(Requests)
          /\ \A i \in 1..(Len(writes) - 1) : writes'[i] = writes[i + 1]
      BY <2>1, TailFacts, HeadTailProperties
    <2>3. CASE boot = "ready"
      <3>1. inHand' \in Calls
        <4>1. 1 \in 1..Len(writes)
          BY <2>2
        <4> QED
          BY <2>1, <2>2, <2>3, <4>1 DEF RawPath
      <3>2. ASSUME NEW i \in 1..Len(writes') PROVE writes'[i] \in Calls
        <4>1. i \in 1..(Len(writes) - 1) /\ i + 1 \in 1..Len(writes)
          BY <2>2
        <4> QED
          BY <2>2, <2>3, <4>1 DEF RawPath
      <3> QED
        BY <2>1, <2>3, <3>1, <3>2, CallsAssumption DEF RawPath
    <2>4. CASE boot \in {"crlf", "awaitInit"}
      BY <2>1, <2>4 DEF RawPath, NoRequest
    <2>5. CASE boot \in {"crlfSent", "startSent"}
      <3>1. completed = "pending" /\ Len(writes) = 1
        BY <2>1, <2>5 DEF RawPath, NoRequest
      <3>2. writes' = <<>>
        <4>1. Len(writes') = 0
          BY <2>2, <3>1
        <4> QED
          BY <2>2, <4>1
      <3> QED
        BY <2>1, <2>5, <3>1, <3>2 DEF RawPath
    <2>6. CASE boot \in {"closing", "failed"}
      BY <2>1, <2>6 DEF RawPath
    <2> QED
      BY <2>3, <2>4, <2>5, <2>6 DEF IInv, TypeOK
  <1>2. CASE WriterWrote
    <2>1. /\ UNCHANGED <<boot, writes>> /\ inHand \in Requests /\ inHand' = NoCall
          /\ completed' = IF inHand \in Raws THEN "done" ELSE completed
      BY <1>2 DEF WriterWrote, IInv, TypeOK
    <2>2. inHand # NoCall
      BY <2>1, CallsAssumption DEF Requests
    <2>3. boot \in {"crlfSent", "startSent"} => writes = <<>>
      BY <2>2 DEF RawPath, NoRequest
    <2> QED
      BY <2>1, <2>2, <2>3, CallsAssumption DEF RawPath, NoRequest
  <1>3. CASE WriterEnds \/ WriterRegister \/ WriterDropsRequest \/ WriterWrite
             \/ WriterWriteFails \/ WriterCancelledAfterWrite
             \/ WriterFailsTransport \/ WriterStops
    <2>1. UNCHANGED <<boot, completed, writes>> /\ inHand' \in {inHand, NoCall}
      BY <1>3 DEF WriterEnds, WriterRegister, WriterDropsRequest, WriterWrite,
                  WriterWriteFails, WriterCancelledAfterWrite, WriteThrows,
                  WriterFailsTransport, Begin, WriterStops, loopVars
    <2> QED
      BY <2>1, RawPathFrame
  <1> QED
    BY <1>1, <1>2, <1>3 DEF Writer

LEMMA RawPathNext == IInv /\ RawPath /\ [Next]_vars => RawPath'
  <1> SUFFICES ASSUME IInv, RawPath, [Next]_vars PROVE RawPath'
    OBVIOUS
  <1> USE DEF clientVars, loopVars
  <1>1. ASSUME NEW c \in Calls, Enqueue(c) PROVE RawPath'
    <2>1. /\ UNCHANGED <<completed, inHand>> /\ boot = "ready" /\ boot' = "ready"
          /\ writes' = writes \/ writes' = Append(writes, c)
          /\ writes \in Seq(Requests) /\ c \in Requests
      BY <1>1 DEF Enqueue, IInv, TypeOK, Requests
    <2>2. \A i \in 1..Len(writes') : writes'[i] \in Calls
      <3>1. CASE writes' = writes
        BY <2>1, <3>1 DEF RawPath
      <3>2. CASE writes' = Append(writes, c)
        <4>1. /\ Len(writes') = Len(writes) + 1 /\ Len(writes) \in Nat
              /\ \A i \in 1..Len(writes) : writes'[i] = writes[i]
              /\ writes'[Len(writes) + 1] = c
          BY <2>1, <3>2, AppendFacts
        <4>2. \A i \in 1..Len(writes) : writes[i] \in Calls
          BY <2>1 DEF RawPath
        <4> QED
          BY <4>1, <4>2
      <3> QED
        BY <2>1, <3>1, <3>2
    <2> QED
      BY <2>1, <2>2 DEF RawPath
  <1>2. CASE Reader \/ Shutdown \/ Close \/ DeviceAnswers \/ DeviceSpeaks \/ UNCHANGED vars
    <2>1. UNCHANGED <<boot, completed, writes, inHand>>
      BY <1>2
      DEF Reader, ReaderLine, ReaderFails, ReaderStops, ReaderFailsTransport, Begin,
          ReaderStopsFailing, Shutdown, CloseWrites, ClosePending, FailInitialized,
          Drain, Drained, CancelScope, ClosePort, Close, DeviceAnswers, DeviceSpeaks,
          vars
    <2> QED
      BY <2>1, RawPathFrame
  <1> QED
    BY <1>1, <1>2, BootRawPath, WriterRawPath DEF Next

LEMMA InitRawPath == Init => RawPath
  BY DEF Init, RawPath, NoRequest

-----------------------------------------------------------------------------
(* While the transport is up, whoever has a place is open.                 *)

HasPlace(c) == InPending(c) \/ InWrites(c) \/ (writer = "register" /\ inHand = c)

LEMMA PlacesFrame ==
  ASSUME SlotsAreOpen, IsUp' => IsUp,
         IsUp' => \A c \in Calls : /\ HasPlace(c)' => HasPlace(c)
                                   /\ IsOpen(c) => IsOpen(c)'
  PROVE  SlotsAreOpen'
  BY DEF SlotsAreOpen, HasPlace

LEMMA PlacesQuiet ==
  ASSUME SlotsAreOpen, IsUp' => IsUp,
         IsUp' => /\ UNCHANGED <<pending, writes, result>>
                  /\ \/ UNCHANGED <<writer, inHand>>
                     \/ writer' # "register"
  PROVE  SlotsAreOpen'
  <1>1. IsUp' => \A c \in Calls : /\ HasPlace(c)' => HasPlace(c)
                                  /\ IsOpen(c) => IsOpen(c)'
    BY DEF HasPlace, InPending, InWrites, IsOpen
  <1> QED
    BY <1>1, PlacesFrame

(* The transport does not come up again, and who tears it down is not up.  *)
LEMMA UpFacts ==
  ASSUME IInv
  PROVE  /\ WritesClosed \/ PendingClosed \/ Cancelled => ~IsUp
         /\ Shutdown => ~IsUp /\ ~IsUp'
         /\ WriteThrows => ~IsUp'
  <1>1. owner = "none" <=> teardown = "no"
    BY DEF IInv, TypeOK
  <1>2. WritesClosed \/ PendingClosed \/ Cancelled => ~IsUp
    BY <1>1 DEF WritesClosed, PendingClosed, Cancelled, IsUp
  <1>3. Shutdown => owner # "none" /\ owner' = owner
    BY <1>1 DEF Shutdown, CloseWrites, ClosePending, FailInitialized, Drain, Drained,
                CancelScope, ClosePort, Teardown
  <1>4. WriteThrows => ~IsUp'
    BY DEF WriteThrows, IsUp
  <1> QED
    BY <1>2, <1>3, <1>4 DEF IsUp

LEMMA WriterPlaces == IInv /\ SlotsAreOpen /\ Writer => SlotsAreOpen'
  <1> SUFFICES ASSUME IInv, SlotsAreOpen, Writer PROVE SlotsAreOpen'
    OBVIOUS
  <1> USE DEF clientVars, closeVars
  <1>1. CASE WriterReceive
    <2>1. /\ UNCHANGED <<pending, result, owner>> /\ writer = "idle"
          /\ writes # <<>> /\ writes \in Seq(Requests) /\ writes' = Tail(writes)
          /\ inHand' = Head(writes) /\ writer' # "failing"
      BY <1>1 DEF WriterReceive, IInv, TypeOK
    <2>2. /\ Head(writes) = writes[1] /\ Len(writes) \in Nat /\ Len(writes) >= 1
          /\ Len(writes') = Len(writes) - 1
          /\ \A i \in 1..(Len(writes) - 1) : writes'[i] = writes[i + 1]
      BY <2>1, TailFacts
    <2>3. \A c \in Calls : InWrites(c)' => InWrites(c)
      <3> SUFFICES ASSUME NEW c \in Calls, NEW i \in 1..(Len(writes) - 1),
                          writes[i + 1] = c
                   PROVE  \E j \in 1..Len(writes) : writes[j] = c
        BY <2>2 DEF InWrites
      <3>1. i + 1 \in 1..Len(writes)
        BY <2>2
      <3> QED
        BY <3>1
    <2>4. \A c \in Calls : c = inHand' => InWrites(c)
      <3>1. 1 \in 1..Len(writes)
        BY <2>2
      <3> QED
        BY <2>1, <2>2, <3>1 DEF InWrites
    <2>5. \A c \in Calls : /\ InPending(c)' => InPending(c)
                           /\ IsOpen(c) => IsOpen(c)'
      BY <2>1 DEF InPending, IsOpen
    <2>6. \A c \in Calls : HasPlace(c)' => HasPlace(c)
      BY <2>3, <2>4, <2>5 DEF HasPlace
    <2>7. IsUp' => IsUp
      BY <2>1 DEF IsUp
    <2> QED
      BY <2>5, <2>6, <2>7, PlacesFrame
  <1>2. CASE WriterRegister
    <2>1. /\ UNCHANGED <<writes, result, owner, inHand>>
          /\ writer = "register" /\ writer' = "write"
          /\ pending' = Append(pending, inHand)
          /\ pending \in Seq(Calls) /\ inHand \in Calls
      BY <1>2 DEF WriterRegister, IInv, TypeOK
    <2>2. /\ Len(pending') = Len(pending) + 1 /\ Len(pending) \in Nat
          /\ \A i \in 1..Len(pending) : pending'[i] = pending[i]
          /\ pending'[Len(pending) + 1] = inHand
      BY <2>1, AppendFacts
    <2>3. \A c \in Calls : InPending(c)' => InPending(c) \/ c = inHand
      BY <2>2 DEF InPending
    <2>4. \A c \in Calls : /\ InWrites(c)' => InWrites(c)
                           /\ IsOpen(c) => IsOpen(c)'
      BY <2>1 DEF InWrites, IsOpen
    <2>5. \A c \in Calls : HasPlace(c)' => HasPlace(c)
      BY <2>1, <2>3, <2>4 DEF HasPlace
    <2>6. IsUp' => IsUp
      BY <2>1 DEF IsUp
    <2> QED
      BY <2>4, <2>5, <2>6, PlacesFrame
  <1>3. CASE WriterWrite \/ WriterWrote
    <2>1. /\ UNCHANGED <<pending, writes, result, owner>>
          /\ writer \in {"write", "wrote"} /\ writer' \in {"wrote", "idle"}
      BY <1>3 DEF WriterWrite, WriterWrote
    <2> QED
      BY <2>1, PlacesQuiet DEF IsUp
  <1>4. CASE WriterEnds \/ WriterDropsRequest \/ WriterWriteFails
             \/ WriterCancelledAfterWrite \/ WriterFailsTransport
    <2>1. ~IsUp'
      BY <1>4 DEF WriterEnds, WriterDropsRequest, WriterWriteFails,
                  WriterCancelledAfterWrite, WriteThrows, WriterFailsTransport,
                  Begin, IsUp
    <2> QED
      BY <2>1 DEF SlotsAreOpen
  <1>5. CASE WriterStops
    <2>1. ~IsUp'
      BY <1>5 DEF WriterStops, IsUp
    <2> QED
      BY <2>1 DEF SlotsAreOpen
  <1> QED
    BY <1>1, <1>2, <1>3, <1>4, <1>5 DEF Writer

LEMMA ReaderPlaces == IInv /\ SlotsAreOpen /\ Reader => SlotsAreOpen'
  <1> SUFFICES ASSUME IInv, SlotsAreOpen, Reader PROVE SlotsAreOpen'
    OBVIOUS
  <1> USE DEF clientVars, loopVars, closeVars
  <1>1. CASE ReaderLine
    <2>1. UNCHANGED <<writes, writer, inHand, owner>>
      BY <1>1 DEF ReaderLine
    <2>2. CASE UNCHANGED <<pending, result>>
      BY <2>1, <2>2, PlacesQuiet DEF IsUp
    <2>3. ASSUME NEW r, r # Open, pending # <<>>, pending' = Tail(pending),
                 Complete(Head(pending), r), IsUp'
          PROVE  \A c \in Calls : HasPlace(c)' => IsOpen(c)'
      <3>1. IsUp /\ pending \in Seq(Calls)
        BY <2>1, <2>3 DEF IsUp, IInv, TypeOK
      <3>2. /\ Head(pending) = pending[1] /\ Len(pending) \in Nat /\ Len(pending) >= 1
            /\ Len(pending') = Len(pending) - 1
            /\ \A i \in 1..(Len(pending) - 1) : pending'[i] = pending[i + 1]
        BY <2>3, <3>1, TailFacts
      <3>3. 1 \in 1..Len(pending)
        BY <3>2
      <3>4. \A i, j \in 1..Len(pending) : pending[i] = pending[j] => i = j
        BY DEF IInv, OnePlace
      <3>5. ASSUME NEW c \in Calls, InPending(c)'
            PROVE  InPending(c) /\ c # Head(pending)
        <4>1. PICK i \in 1..(Len(pending) - 1) : pending[i + 1] = c
          BY <3>2, <3>5 DEF InPending
        <4>2. i + 1 \in 1..Len(pending) /\ i + 1 # 1
          BY <3>2
        <4>3. pending[i + 1] # pending[1]
          BY <3>3, <3>4, <4>2
        <4> QED
          BY <3>2, <4>1, <4>2, <4>3 DEF InPending
      <3>6. \A c \in Calls : c = Head(pending) => InPending(c)
        BY <3>2, <3>3 DEF InPending
      <3>7. \A c \in Calls : InWrites(c) \/ (writer = "register" /\ inHand = c)
                                => c # Head(pending)
        BY <3>6 DEF IInv, OnePlace
      <3>8. \A c \in Calls : HasPlace(c)' => HasPlace(c) /\ c # Head(pending)
        BY <2>1, <3>5, <3>7 DEF HasPlace, InWrites
      <3>9. \A c \in Calls : c # Head(pending) => result'[c] = result[c]
        BY <2>3, PopCompletes DEF IInv
      <3>10. \A c \in Calls : HasPlace(c) => IsOpen(c)
        BY <3>1 DEF SlotsAreOpen, HasPlace
      <3> QED
        BY <3>8, <3>9, <3>10 DEF IsOpen
    <2>4. [tag |-> IF Head(rx).kind = "R" THEN "success" ELSE "error",
           of |-> Head(rx).of] # Open
      BY DEF Open
    <2>5. CASE pending' # pending \/ result' # result
      <3>1. IsUp' => \A c \in Calls : HasPlace(c)' => IsOpen(c)'
        BY <1>1, <2>3, <2>4, <2>5, LineMoves
      <3> QED
        BY <3>1 DEF SlotsAreOpen, HasPlace
    <2> QED
      BY <2>2, <2>5
  <1>2. CASE ReaderFails \/ ReaderStops \/ ReaderStopsFailing
    BY <1>2, PlacesQuiet DEF ReaderFails, ReaderStops, ReaderStopsFailing, IsUp
  <1>3. CASE ReaderFailsTransport
    <2>1. ~IsUp'
      BY <1>3 DEF ReaderFailsTransport, Begin, IsUp
    <2> QED
      BY <2>1 DEF SlotsAreOpen
  <1> QED
    BY <1>1, <1>2, <1>3 DEF Reader

LEMMA EnqueuePlaces ==
  ASSUME IInv, SlotsAreOpen, NEW c \in Calls, Enqueue(c)
  PROVE  SlotsAreOpen'
  <1>1. UNCHANGED <<pending, writer, inHand, owner>> /\ writes \in Seq(Requests)
        /\ c \in Requests
    BY DEF Enqueue, loopVars, closeVars, IInv, TypeOK, Requests
  <1>2. SUFFICES ASSUME IsUp' PROVE \A d \in Calls : HasPlace(d)' => IsOpen(d)'
    BY DEF SlotsAreOpen, HasPlace
  <1>3. IsUp /\ ~WritesClosed
    BY <1>1, <1>2, UpFacts DEF IsUp
  <1>4. /\ writes' = Append(writes, c)
        /\ \A d \in Calls : result'[d] = IF d = c THEN Open ELSE result[d]
    <2>1. result \in [Calls -> Results]
      BY DEF IInv, TypeOK
    <2> QED
      BY <1>3, <2>1 DEF Enqueue
  <1>5. /\ Len(writes') = Len(writes) + 1 /\ Len(writes) \in Nat
        /\ \A i \in 1..Len(writes) : writes'[i] = writes[i]
        /\ writes'[Len(writes) + 1] = c
    BY <1>1, <1>4, AppendFacts
  <1>6. \A d \in Calls : InWrites(d)' => InWrites(d) \/ d = c
    BY <1>5 DEF InWrites
  <1>7. \A d \in Calls : HasPlace(d)' => HasPlace(d) \/ d = c
    BY <1>1, <1>6 DEF HasPlace, InPending
  <1>8. \A d \in Calls : HasPlace(d) => IsOpen(d)
    BY <1>3 DEF SlotsAreOpen, HasPlace
  <1> QED
    BY <1>4, <1>7, <1>8 DEF IsOpen

LEMMA PlacesNext == IInv /\ SlotsAreOpen /\ [Next]_vars => SlotsAreOpen'
  <1> SUFFICES ASSUME IInv, SlotsAreOpen, [Next]_vars PROVE SlotsAreOpen'
    OBVIOUS
  <1> USE DEF clientVars, loopVars, closeVars
  <1>1. CASE BootCrlf \/ BootStartCLI
    <2>1. PICK raw \in Raws : /\ writes' = Append(writes, raw)
                              /\ UNCHANGED <<pending, result, writer, inHand, owner>>
      BY <1>1 DEF BootCrlf, BootStartCLI, WriteRaw, Raws
    <2>2. writes \in Seq(Requests) /\ raw \in Requests /\ raw \notin Calls
      BY CallsAssumption DEF IInv, TypeOK, Requests
    <2>3. /\ Len(writes') = Len(writes) + 1 /\ Len(writes) \in Nat
          /\ \A i \in 1..Len(writes) : writes'[i] = writes[i]
          /\ writes'[Len(writes) + 1] = raw
      BY <2>1, <2>2, AppendFacts
    <2>4. \A c \in Calls : InWrites(c)' => InWrites(c)
      BY <2>2, <2>3 DEF InWrites
    <2>5. \A c \in Calls : HasPlace(c)' => HasPlace(c)
      BY <2>1, <2>4 DEF HasPlace, InPending
    <2>6. \A c \in Calls : IsOpen(c) => IsOpen(c)'
      BY <2>1 DEF IsOpen
    <2>7. IsUp' => IsUp
      BY <2>1 DEF IsUp
    <2> QED
      BY <2>5, <2>6, <2>7, PlacesFrame
  <1>2. CASE BootAwaits \/ BootReady \/ BootFails \/ BootTimeout \/ BootCancelled
             \/ BootClosePort \/ DeviceAnswers \/ DeviceSpeaks \/ UNCHANGED vars
    <2>1. UNCHANGED <<pending, writes, result, writer, inHand, owner>>
      BY <1>2 DEF BootAwaits, BootReady, BootFails, BootTimeout, BootCancelled,
                  BootMoves, BootClosePort, DeviceAnswers, DeviceSpeaks, vars
    <2> QED
      BY <2>1, PlacesQuiet DEF IsUp
  <1>3. CASE Close
    <2>1. ~IsUp'
      BY <1>3 DEF Close, Begin, IsUp
    <2> QED
      BY <2>1 DEF SlotsAreOpen
  <1>4. CASE Shutdown
    <2>1. ~IsUp'
      BY <1>4, UpFacts
    <2> QED
      BY <2>1 DEF SlotsAreOpen
  <1> QED
    BY <1>1, <1>2, <1>3, <1>4, WriterPlaces, ReaderPlaces, EnqueuePlaces DEF Next, Boot

LEMMA InitPlaces == Init => SlotsAreOpen
  BY CallsAssumption DEF Init, SlotsAreOpen, InPending, InWrites

(* What the order, the slots and the handshake look like in every state.   *)
THEOREM ChannelInvariant == Spec => []ChannelIInv
  <1>1. Init => RawPath /\ SlotsAreOpen
    BY InitRawPath, InitPlaces
  <1>2. IInv /\ RawPath /\ SlotsAreOpen /\ [Next]_vars => RawPath' /\ SlotsAreOpen'
    BY RawPathNext, PlacesNext
  <1>3. IInv /\ SlotsForDue /\ SlotsGone /\ RawPath /\ SlotsAreOpen => ChannelIInv
    BY DEF ChannelIInv
  <1> QED
    BY <1>1, <1>2, <1>3, SlotsHold, InvariantHolds, PTL DEF Spec

-----------------------------------------------------------------------------
(* Every step is a step of CommandChannel, or leaves it alone.             *)

(* The outcomes, without the CASE.                                         *)
LEMMA OutcomeFacts ==
  ASSUME TypeOK, NEW c \in Calls
  PROVE  /\ result[c] = Idle => OutcomeOf(c) = "idle"
         /\ IsOpen(c) => OutcomeOf(c) = "waiting"
         /\ result[c] = Failed => OutcomeOf(c) = "failed"
  BY DEF OutcomeOf, Idle, Open, Failed, IsOpen

LEMMA NextOutcomeFacts ==
  ASSUME TypeOK', NEW c \in Calls
  PROVE  /\ result'[c] = Open => OutcomeOf(c)' = "waiting"
         /\ result'[c] = Failed => OutcomeOf(c)' = "failed"
         /\ result'[c].tag \in {"success", "error"} =>
              OutcomeOf(c)' = IF result'[c].of = c THEN "own" ELSE "foreign"
  BY DEF OutcomeOf, Open, Failed

LEMMA SameOutcome ==
  ASSUME NEW c \in Calls, result'[c] = result[c]
  PROVE  OutcomeOf(c)' = OutcomeOf(c)
  BY DEF OutcomeOf

LEMMA ToStutter ==
  ASSUME UNCHANGED result, IsUp' <=> IsUp, InOrder' = InOrder
  PROVE  UNCHANGED Channel!vars
  <1>1. \A c \in Calls : OutcomeOf(c)' = OutcomeOf(c)
    BY SameOutcome
  <1>2. IsUp' = IsUp
    BY DEF IsUp
  <1> QED
    BY <1>1, <1>2 DEF Channel!vars

LEMMA DownHasNoOrder ==
  /\ ~IsUp => InOrder = <<>>
  /\ ~IsUp' => InOrder' = <<>>
  BY DEF InOrder

LEMMA ToSubmit ==
  ASSUME NEW c \in Calls, IsUp, IsUp',
         OutcomeOf(c) = "idle", OutcomeOf(c)' = "waiting",
         \A d \in Calls \ {c} : OutcomeOf(d)' = OutcomeOf(d),
         InOrder' = Append(InOrder, c)
  PROVE  Channel!Next
  <1>1. Channel!Submit(c)
    BY DEF Channel!Submit, IsUp
  <1> QED
    BY <1>1 DEF Channel!Next

LEMMA ToSubmitLate ==
  ASSUME NEW c \in Calls, ~IsUp, ~IsUp',
         OutcomeOf(c) = "idle", OutcomeOf(c)' \in {"waiting", "failed"},
         \A d \in Calls \ {c} : OutcomeOf(d)' = OutcomeOf(d)
  PROVE  Channel!Next
  <1>1. Channel!SubmitLate(c)
    BY DownHasNoOrder DEF Channel!SubmitLate, IsUp
  <1> QED
    BY <1>1 DEF Channel!Next

LEMMA ToAnswer ==
  ASSUME NEW c \in Calls, IsUp, IsUp',
         InOrder # <<>>, Head(InOrder) = c, InOrder' = Tail(InOrder),
         OutcomeOf(c)' = "own",
         \A d \in Calls \ {c} : OutcomeOf(d)' = OutcomeOf(d)
  PROVE  Channel!Next
  <1>1. Channel!Answer
    BY DEF Channel!Answer, IsUp
  <1> QED
    BY <1>1 DEF Channel!Next

LEMMA ToShut ==
  ASSUME IsUp, ~IsUp',
         \/ \A c \in Calls : OutcomeOf(c)' = OutcomeOf(c)
         \/ \E c \in Calls : /\ OutcomeOf(c) = "waiting" /\ OutcomeOf(c)' = "failed"
                             /\ \A d \in Calls \ {c} : OutcomeOf(d)' = OutcomeOf(d)
  PROVE  Channel!Next
  <1>1. InOrder' = <<>> /\ IsUp' = FALSE
    BY DownHasNoOrder DEF IsUp
  <1>2. CASE \A c \in Calls : OutcomeOf(c)' = OutcomeOf(c)
    <2>1. Channel!Shut
      BY <1>1, <1>2 DEF Channel!Shut
    <2> QED
      BY <2>1 DEF Channel!Next
  <1>3. ASSUME NEW c \in Calls, OutcomeOf(c) = "waiting", OutcomeOf(c)' = "failed",
               \A d \in Calls \ {c} : OutcomeOf(d)' = OutcomeOf(d)
        PROVE  Channel!Next
    <2>1. Channel!Shut
      BY <1>1, <1>3 DEF Channel!Shut, Channel!Waiting
    <2> QED
      BY <2>1 DEF Channel!Next
  <1> QED
    BY <1>2, <1>3

LEMMA ToSettle ==
  ASSUME ~IsUp, ~IsUp',
         \A c \in Calls :
            \/ OutcomeOf(c)' = OutcomeOf(c)
            \/ /\ OutcomeOf(c) = "waiting"
               /\ OutcomeOf(c)' \in {"own", "foreign", "failed"}
  PROVE  Channel!Next
  <1> DEFINE S == {c \in Calls : OutcomeOf(c)' # OutcomeOf(c)}
             o == [c \in S |-> OutcomeOf(c)']
  <1>1. S \in SUBSET Channel!Waiting /\ o \in [S -> {"own", "foreign", "failed"}]
    BY DEF Channel!Waiting
  <1>2. [c \in Calls |-> OutcomeOf(c)'] =
           [c \in Calls |-> IF c \in S THEN o[c] ELSE [d \in Calls |-> OutcomeOf(d)][c]]
    OBVIOUS
  <1>3. IsUp' = IsUp /\ InOrder' = InOrder
    BY DownHasNoOrder DEF IsUp
  <1>4. Channel!Settle
    BY <1>1, <1>2, <1>3 DEF Channel!Settle
  <1> QED
    BY <1>4 DEF Channel!Next

(* A deferred completed with r, by completeNext, by a write that throws or *)
(* by the drain, once the transport is down.                               *)
LEMMA CompletionSettles ==
  ASSUME IInv, TypeOK', ~IsUp, ~IsUp', NEW c \in Calls, Complete(c, Failed)
           \/ \E tag \in {"success", "error"} :
                 \E of \in Calls \cup {NoCall} : Complete(c, [tag |-> tag, of |-> of])
  PROVE  Channel!Next
  <1>1. /\ TypeOK /\ result \in [Calls -> Results]
        /\ \A d \in Calls \ {c} : result'[d] = result[d]
    BY DEF IInv, TypeOK, Complete
  <1>2. \A d \in Calls \ {c} : OutcomeOf(d)' = OutcomeOf(d)
    BY <1>1, SameOutcome
  <1>3. CASE ~IsOpen(c)
    <2>1. result'[c] = result[c]
      BY <1>1, <1>3 DEF Complete, IsOpen
    <2> QED
      BY <1>2, <2>1, SameOutcome, ToSettle
  <1>4. CASE IsOpen(c)
    <2>1. OutcomeOf(c) = "waiting"
      BY <1>1, <1>4, OutcomeFacts
    <2>2. \/ result'[c] = Failed
          \/ result'[c].tag \in {"success", "error"}
      BY <1>1, <1>4 DEF Complete, IsOpen
    <2>3. OutcomeOf(c)' \in {"own", "foreign", "failed"}
      BY <2>2, NextOutcomeFacts
    <2> QED
      BY <1>2, <2>1, <2>3, ToSettle
  <1> QED
    BY <1>3, <1>4

LEMMA BootImplements ==
  ASSUME IInv, RawPath, Boot
  PROVE  UNCHANGED Channel!vars
  <1> USE DEF loopVars, closeVars
  <1>1. /\ UNCHANGED <<result, owner, writer, inHand, pending>>
        /\ boot # "ready"
        /\ boot' = "ready" => boot = "awaitInit" /\ UNCHANGED writes
    BY DEF Boot, BootCrlf, BootStartCLI, WriteRaw, BootAwaits, BootReady,
           BootFails, BootTimeout, BootCancelled, BootMoves, BootClosePort
  <1>2. InOrder = <<>> /\ (boot' # "ready" => InOrder' = <<>>)
    BY <1>1 DEF InOrder
  <1>3. ASSUME boot' = "ready" PROVE InOrder' = <<>>
    <2>1. writes' = <<>> /\ inHand = NoCall /\ pending' = <<>>
      BY <1>1, <1>3, NoSlotBeforeReady DEF RawPath, NoRequest
    <2>2. writer' # "register"
      BY <1>1, <2>1, CallsAssumption DEF IInv, TypeOK
    <2>3. <<>> \o <<>> = <<>>
      BY ConcatEmptySeq, EmptySeq
    <2> QED
      BY <2>1, <2>2, <2>3 DEF InOrder
  <1> QED
    BY <1>1, <1>2, <1>3, ToStutter DEF IsUp

(* What the order consists of while commands are accepted.                 *)
LEMMA OrderFacts ==
  ASSUME TypeOK
  PROVE  /\ pending \in Seq(Requests) /\ writes \in Seq(Requests)
         /\ writer = "register" => <<inHand>> \in Seq(Requests) /\ inHand \in Requests
         /\ IsUp /\ boot = "ready" =>
              InOrder = IF writer = "register" THEN (pending \o <<inHand>>) \o writes
                                               ELSE pending \o writes
  <1>1. /\ pending \in Seq(Requests) /\ writes \in Seq(Requests)
        /\ writer = "register" => inHand \in Requests
    BY DEF TypeOK, Requests
  <1>2. pending \o <<>> = pending
    BY <1>1, ConcatEmptySeq
  <1>3. IsUp /\ boot = "ready" =>
          InOrder = IF writer = "register" THEN (pending \o <<inHand>>) \o writes
                                           ELSE pending \o writes
    BY <1>2 DEF InOrder
  <1>4. writer = "register" => <<inHand>> \in Seq(Requests)
    BY <1>1
  <1> QED
    BY <1>1, <1>3, <1>4

LEMMA NextOrderFacts ==
  ASSUME TypeOK'
  PROVE  IsUp' /\ boot' = "ready" =>
            InOrder' = IF writer' = "register" THEN (pending' \o <<inHand'>>) \o writes'
                                               ELSE pending' \o writes'
  <1>1. pending' \in Seq(Calls)
    BY DEF TypeOK
  <1>2. pending' \o <<>> = pending'
    BY <1>1, ConcatEmptySeq
  <1> QED
    BY <1>2 DEF InOrder

LEMMA WriterImplements ==
  ASSUME IInv, RawPath, TypeOK', Writer
  PROVE  Channel!Next \/ UNCHANGED Channel!vars
  <1> USE DEF clientVars, closeVars
  <1>0. TypeOK
    BY DEF IInv
  <1>1. ASSUME UNCHANGED <<boot, result>>, IsUp' <=> IsUp,
               IsUp /\ boot = "ready" => InOrder' = InOrder
        PROVE  UNCHANGED Channel!vars
    <2>1. ~(IsUp /\ boot = "ready") => InOrder = <<>> /\ InOrder' = <<>>
      BY <1>1 DEF InOrder
    <2> QED
      BY <1>1, <2>1, ToStutter
  <1>2. CASE WriterReceive
    <2>1. /\ UNCHANGED <<boot, result, pending, owner>> /\ writer = "idle"
          /\ writes # <<>> /\ writes \in Seq(Requests)
          /\ writes' = Tail(writes) /\ inHand' = Head(writes)
          /\ writer' = IF Head(writes) \in Calls THEN "register" ELSE "write"
      BY <1>2, <1>0 DEF WriterReceive, TypeOK
    <2>2. IsUp' <=> IsUp
      BY <2>1 DEF IsUp
    <2>3. ASSUME IsUp, boot = "ready" PROVE InOrder' = InOrder
      <3>1. /\ Head(writes) = writes[1] /\ Head(writes) \in Requests
            /\ Len(writes) \in Nat /\ Len(writes) >= 1 /\ writes' \in Seq(Requests)
        BY <2>1, TailFacts, HeadTailProperties
      <3>2. Head(writes) \in Calls
        <4>1. 1 \in 1..Len(writes)
          BY <3>1
        <4> QED
          BY <3>1, <2>3, <4>1 DEF RawPath
      <3>3. InOrder' = (pending \o <<Head(writes)>>) \o Tail(writes)
        BY <2>1, <2>2, <2>3, <3>2, NextOrderFacts
      <3>4. InOrder = pending \o writes /\ pending \in Seq(Requests)
        BY <1>0, <2>1, <2>3, OrderFacts
      <3>5. <<Head(writes)>> \in Seq(Requests) /\ Tail(writes) \in Seq(Requests)
        BY <2>1, <3>1
      <3>6. InOrder' = pending \o (<<Head(writes)>> \o Tail(writes))
        BY <3>3, <3>4, <3>5, ConcatAssociative
      <3> QED
        BY <2>1, <3>4, <3>6, HeadThenTail
    <2> QED
      BY <1>1, <2>1, <2>2, <2>3
  <1>3. CASE WriterRegister
    <2>1. /\ UNCHANGED <<boot, result, writes, owner>>
          /\ writer = "register" /\ writer' = "write"
          /\ pending' = Append(pending, inHand)
      BY <1>3 DEF WriterRegister
    <2>2. IsUp' <=> IsUp
      BY <2>1 DEF IsUp
    <2>3. ASSUME IsUp, boot = "ready" PROVE InOrder' = InOrder
      <3>1. InOrder' = Append(pending, inHand) \o writes
        BY <2>1, <2>2, <2>3, NextOrderFacts
      <3>2. InOrder = (pending \o <<inHand>>) \o writes
            /\ pending \in Seq(Requests) /\ inHand \in Requests
        BY <1>0, <2>1, <2>3, OrderFacts
      <3> QED
        BY <3>1, <3>2, AppendIsConcat
    <2> QED
      BY <1>1, <2>1, <2>2, <2>3
  <1>4. CASE WriterWrite \/ WriterWrote
    <2>1. /\ UNCHANGED <<boot, result, writes, pending, owner>>
          /\ writer \in {"write", "wrote"} /\ writer' \in {"wrote", "idle"}
      BY <1>4 DEF WriterWrite, WriterWrote
    <2>2. IsUp' <=> IsUp
      BY <2>1 DEF IsUp
    <2>3. InOrder' = InOrder
      BY <2>1, <2>2 DEF InOrder
    <2> QED
      BY <1>1, <2>1, <2>2, <2>3
  <1>5. CASE WriterEnds \/ WriterDropsRequest \/ WriterFailsTransport \/ WriterStops
    <2>1. UNCHANGED <<boot, result>>
      BY <1>5 DEF WriterEnds, WriterDropsRequest, WriterFailsTransport, WriterStops,
                  Begin
    <2>2. ~IsUp /\ ~IsUp'
      <3>1. CASE WriterEnds \/ WriterDropsRequest
        <4>1. ~IsUp
          <5>1. WritesClosed \/ PendingClosed \/ Cancelled
            BY <3>1 DEF WriterEnds, WriterDropsRequest
          <5> QED
            BY <5>1, UpFacts
        <4>2. writer' = "failing"
          BY <3>1 DEF WriterEnds, WriterDropsRequest
        <4> QED
          BY <4>1, <4>2 DEF IsUp
      <3>2. CASE WriterFailsTransport \/ WriterStops
        BY <3>2 DEF WriterFailsTransport, WriterStops, Begin, IsUp
      <3> QED
        BY <1>5, <3>1, <3>2
    <2> QED
      BY <1>1, <2>1, <2>2
  <1>6. CASE WriterWriteFails \/ WriterCancelledAfterWrite
    <2>1. /\ WriteThrows /\ ~IsUp'
          /\ writer \in {"write", "wrote"}
      BY <1>6 DEF WriterWriteFails, WriterCancelledAfterWrite, WriteThrows, IsUp
    <2>2. CASE inHand \notin Calls
      <3>1. UNCHANGED <<boot, result>>
        BY <2>1, <2>2 DEF WriteThrows
      <3>2. CASE IsUp
        <4>1. \A c \in Calls : OutcomeOf(c)' = OutcomeOf(c)
          BY <3>1, SameOutcome
        <4> QED
          BY <2>1, <3>2, <4>1, ToShut
      <3>3. CASE ~IsUp
        BY <1>1, <2>1, <3>1, <3>3
      <3> QED
        BY <3>2, <3>3
    <2>3. CASE inHand \in Calls
      <3>1. Complete(inHand, Failed)
        BY <2>1, <2>3 DEF WriteThrows
      <3>2. CASE ~IsUp
        BY <2>1, <2>3, <3>1, <3>2, CompletionSettles
      <3>3. CASE IsUp
        <4>1. PICK h \in Calls : h = inHand
          BY <2>3
        <4>2. /\ result \in [Calls -> Results]
              /\ result' = [result EXCEPT ![h] = IF @ = Open THEN Failed ELSE @]
          BY <1>0, <3>1, <4>1 DEF TypeOK, Complete
        <4>3. \A d \in Calls \ {h} : result'[d] = result[d]
          BY <4>2
        <4>4. \A d \in Calls \ {h} : OutcomeOf(d)' = OutcomeOf(d)
          BY <4>3, SameOutcome
        <4>5. CASE IsOpen(h)
          <5>1. result'[h] = Failed
            BY <4>2, <4>5 DEF IsOpen
          <5>2. OutcomeOf(h) = "waiting" /\ OutcomeOf(h)' = "failed"
            BY <1>0, <4>5, <5>1, OutcomeFacts, NextOutcomeFacts
          <5> QED
            BY <2>1, <3>3, <4>4, <5>2, ToShut
        <4>6. CASE ~IsOpen(h)
          <5>1. result'[h] = result[h]
            BY <4>2, <4>6 DEF IsOpen
          <5>2. \A d \in Calls : OutcomeOf(d)' = OutcomeOf(d)
            BY <4>4, <5>1, SameOutcome
          <5> QED
            BY <2>1, <3>3, <5>2, ToShut
        <4> QED
          BY <4>5, <4>6
      <3> QED
        BY <3>2, <3>3
    <2> QED
      BY <2>2, <2>3
  <1> QED
    BY <1>2, <1>3, <1>4, <1>5, <1>6 DEF Writer

LEMMA ReaderImplements ==
  ASSUME IInv, RawPath, SlotsAreOpen, TypeOK', Reader
  PROVE  Channel!Next \/ UNCHANGED Channel!vars
  <1> USE DEF clientVars, loopVars, closeVars
  <1>0. TypeOK
    BY DEF IInv
  <1>1. CASE ReaderLine
    <2>1. UNCHANGED <<boot, writes, writer, inHand, owner>>
      BY <1>1 DEF ReaderLine
    <2>2. IsUp' <=> IsUp
      BY <2>1 DEF IsUp
    <2>3. CASE UNCHANGED <<pending, result>>
      <3>1. InOrder' = InOrder
        BY <2>1, <2>2, <2>3 DEF InOrder
      <3> QED
        BY <2>2, <2>3, <3>1, ToStutter
    <2>4. ASSUME pending # <<>>, pending' = Tail(pending),
                 isInitialized, IsAnswer(Head(rx)),
                 NEW r, r.tag \in {"success", "error"}, r.of = Head(rx).of,
                 r = [tag |-> r.tag, of |-> r.of],
                 Complete(Head(pending), r)
          PROVE  Channel!Next
      <3>1. /\ pending \in Seq(Calls) /\ Head(pending) = pending[1]
            /\ Head(pending) \in Calls /\ Len(pending) \in Nat /\ Len(pending) >= 1
        BY <1>0, <2>4, TailFacts DEF TypeOK
      <3>2. rx \in Seq(Lines) /\ rx # <<>>
        BY <1>0, <1>1 DEF TypeOK, ReaderLine
      <3>3. r.of \in Calls \cup {NoCall}
        <4>1. Head(rx) \in Lines
          BY <3>2, TailFacts
        <4> QED
          BY <2>4, <4>1 DEF Lines
      <3>4. CASE ~IsUp
        <4>1. \E tag \in {"success", "error"} : \E of \in Calls \cup {NoCall} :
                 Complete(Head(pending), [tag |-> tag, of |-> of])
          BY <2>4, <3>3
        <4> QED
          BY <2>2, <3>1, <3>4, <4>1, CompletionSettles
      <3>5. CASE IsUp
        <4>1. PICK h \in Calls : h = Head(pending)
          BY <3>1
        <4>2. Head(rx).of = h
          BY <2>4, <3>2, <3>5, <4>1, OldestLineAnswersOldestSlot DEF IsUp
        <4>3. boot = "ready"
          BY <2>4, NoSlotBeforeReady
        <4>4. InPending(h)
          <5>1. 1 \in 1..Len(pending)
            BY <3>1
          <5> QED
            BY <3>1, <4>1, <5>1 DEF InPending
        <4>5. IsOpen(h)
          BY <3>5, <4>4 DEF SlotsAreOpen
        <4>6. /\ result \in [Calls -> Results]
              /\ result' = [result EXCEPT ![h] = IF @ = Open THEN r ELSE @]
          BY <1>0, <2>4, <4>1 DEF TypeOK, Complete
        <4>7. result'[h] = r /\ \A d \in Calls \ {h} : result'[d] = result[d]
          BY <4>5, <4>6 DEF IsOpen
        <4>8. OutcomeOf(h)' = "own"
          BY <2>4, <4>2, <4>7, NextOutcomeFacts
        <4>9. \A d \in Calls \ {h} : OutcomeOf(d)' = OutcomeOf(d)
          BY <4>7, SameOutcome
        <4>10. pending \in Seq(Requests) /\ writes \in Seq(Requests)
          BY <1>0, OrderFacts
        <4>11. /\ InOrder # <<>> /\ Head(InOrder) = h
               /\ InOrder' = Tail(InOrder)
          <5>1. CASE writer = "register"
            <6>1. <<inHand>> \in Seq(Requests) /\ Tail(pending) \in Seq(Requests)
              BY <1>0, <2>4, <4>10, <5>1, OrderFacts, HeadTailProperties
            <6>2. <<inHand>> \o writes \in Seq(Requests)
              BY <4>10, <6>1, ConcatProperties
            <6>3. InOrder = pending \o (<<inHand>> \o writes)
              <7>1. InOrder = (pending \o <<inHand>>) \o writes
                BY <1>0, <3>5, <4>3, <5>1, OrderFacts
              <7> QED
                BY <4>10, <6>1, <7>1, ConcatAssociative
            <6>4. InOrder' = (Tail(pending) \o <<inHand>>) \o writes
              BY <2>1, <2>2, <2>4, <3>5, <4>3, <5>1, NextOrderFacts
            <6>5. InOrder' = Tail(pending) \o (<<inHand>> \o writes)
              BY <4>10, <6>1, <6>4, ConcatAssociative
            <6> QED
              BY <2>4, <4>1, <4>10, <6>2, <6>3, <6>5, TailOfConcat
          <5>2. CASE writer # "register"
            <6>1. InOrder = pending \o writes
              BY <1>0, <3>5, <4>3, <5>2, OrderFacts
            <6>2. InOrder' = Tail(pending) \o writes
              BY <2>1, <2>2, <2>4, <3>5, <4>3, <5>2, NextOrderFacts
            <6> QED
              BY <2>4, <4>1, <4>10, <6>1, <6>2, TailOfConcat
          <5> QED
            BY <5>1, <5>2
        <4> QED
          BY <2>2, <3>5, <4>8, <4>9, <4>11, ToAnswer
      <3> QED
        BY <3>4, <3>5
    <2>5. PICK r : r = [tag |-> IF Head(rx).kind = "R" THEN "success" ELSE "error",
                        of |-> Head(rx).of]
      OBVIOUS
    <2>6. /\ r.tag \in {"success", "error"} /\ r.of = Head(rx).of
          /\ r = [tag |-> r.tag, of |-> r.of]
      BY <2>5
    <2> QED
      BY <1>1, <2>3, <2>4, <2>5, <2>6, LineMoves
  <1>2. CASE ReaderFails \/ ReaderStops \/ ReaderStopsFailing
    <2>1. UNCHANGED <<boot, writes, pending, result, writer, inHand, owner>>
      BY <1>2 DEF ReaderFails, ReaderStops, ReaderStopsFailing
    <2>2. (IsUp' <=> IsUp) /\ InOrder' = InOrder
      BY <2>1 DEF IsUp, InOrder
    <2> QED
      BY <2>1, <2>2, ToStutter
  <1>3. CASE ReaderFailsTransport
    <2>1. UNCHANGED <<result, writer>> /\ owner = "none" /\ ~IsUp'
      BY <1>3 DEF ReaderFailsTransport, Begin, IsUp
    <2>2. CASE IsUp
      <3>1. \A c \in Calls : OutcomeOf(c)' = OutcomeOf(c)
        BY <2>1, SameOutcome
      <3> QED
        BY <2>1, <2>2, <3>1, ToShut
    <2>3. CASE ~IsUp
      BY <2>1, <2>3, DownHasNoOrder, ToStutter
    <2> QED
      BY <2>2, <2>3
  <1> QED
    BY <1>1, <1>2, <1>3 DEF Reader

LEMMA EnqueueImplements ==
  ASSUME IInv, TypeOK', NEW c \in Calls, Enqueue(c)
  PROVE  Channel!Next
  <1>1. /\ TypeOK /\ UNCHANGED <<pending, writer, inHand, owner>>
        /\ boot = "ready" /\ boot' = "ready" /\ c \in Requests
    BY DEF Enqueue, loopVars, closeVars, IInv, Requests
  <1>2. IsUp' <=> IsUp
    BY <1>1 DEF IsUp
  <1>3. /\ result \in [Calls -> Results] /\ result[c] = Idle
        /\ \/ result' = [result EXCEPT ![c] = Failed] /\ WritesClosed
           \/ result' = [result EXCEPT ![c] = Open] /\ writes' = Append(writes, c)
    BY <1>1 DEF Enqueue, TypeOK
  <1>4. /\ result'[c] = Open \/ result'[c] = Failed
        /\ \A d \in Calls \ {c} : result'[d] = result[d]
    BY <1>3
  <1>5. \A d \in Calls \ {c} : OutcomeOf(d)' = OutcomeOf(d)
    BY <1>4, SameOutcome
  <1>6. OutcomeOf(c) = "idle" /\ OutcomeOf(c)' \in {"waiting", "failed"}
    BY <1>1, <1>3, <1>4, OutcomeFacts, NextOutcomeFacts
  <1>7. CASE ~IsUp
    BY <1>2, <1>5, <1>6, <1>7, ToSubmitLate
  <1>8. CASE IsUp
    <2>1. ~WritesClosed
      BY <1>8, UpFacts
    <2>2. result'[c] = Open /\ writes' = Append(writes, c)
      BY <1>3, <2>1
    <2>3. OutcomeOf(c)' = "waiting"
      BY <2>2, NextOutcomeFacts
    <2>4. pending \in Seq(Requests) /\ writes \in Seq(Requests)
      BY <1>1, OrderFacts
    <2>5. InOrder' = Append(InOrder, c)
      <3>1. CASE writer = "register"
        <4>1. pending \o <<inHand>> \in Seq(Requests)
          BY <1>1, <2>4, <3>1, OrderFacts, ConcatProperties
        <4>2. InOrder = (pending \o <<inHand>>) \o writes
          BY <1>1, <1>8, <3>1, OrderFacts
        <4>3. InOrder' = (pending \o <<inHand>>) \o Append(writes, c)
          BY <1>1, <1>2, <1>8, <2>2, <3>1, NextOrderFacts
        <4> QED
          BY <1>1, <2>4, <4>1, <4>2, <4>3, AppendToConcat
      <3>2. CASE writer # "register"
        <4>1. InOrder = pending \o writes
          BY <1>1, <1>8, <3>2, OrderFacts
        <4>2. InOrder' = pending \o Append(writes, c)
          BY <1>1, <1>2, <1>8, <2>2, <3>2, NextOrderFacts
        <4> QED
          BY <1>1, <2>4, <4>1, <4>2, AppendToConcat
      <3> QED
        BY <3>1, <3>2
    <2> QED
      BY <1>2, <1>5, <1>6, <1>8, <2>3, <2>5, ToSubmit
  <1> QED
    BY <1>7, <1>8

LEMMA ShutdownImplements ==
  ASSUME IInv, TypeOK', Shutdown
  PROVE  Channel!Next \/ UNCHANGED Channel!vars
  <1>1. ~IsUp /\ ~IsUp'
    BY UpFacts
  <1>2. CASE Drain
    <2>1. pending \in Seq(Calls) /\ pending # <<>> /\ Complete(Head(pending), Failed)
      BY <1>2 DEF Drain, IInv, TypeOK
    <2>2. Head(pending) \in Calls
      BY <2>1, TailFacts
    <2> QED
      BY <1>1, <2>1, <2>2, CompletionSettles
  <1>3. CASE CloseWrites \/ ClosePending \/ FailInitialized \/ Drained \/ CancelScope
             \/ ClosePort
    <2>1. UNCHANGED result
      BY <1>3 DEF CloseWrites, ClosePending, FailInitialized, Drained, CancelScope,
                  ClosePort, clientVars
    <2> QED
      BY <1>1, <2>1, DownHasNoOrder, ToStutter
  <1> QED
    BY <1>2, <1>3 DEF Shutdown

LEMMA InitImplements == Init => Channel!Init
  <1> SUFFICES ASSUME Init PROVE Channel!Init
    OBVIOUS
  <1>1. IsUp = TRUE
    BY DEF Init, IsUp
  <1>2. InOrder = <<>>
    BY DEF Init, InOrder
  <1>3. \A c \in Calls : OutcomeOf(c) = "idle"
    BY DEF Init, OutcomeOf, Idle
  <1> QED
    BY <1>1, <1>2, <1>3 DEF Channel!Init

LEMMA NextImplements ==
  ASSUME ChannelIInv, [Next]_vars
  PROVE  [Channel!Next]_Channel!vars
  <1>1. IInv /\ RawPath /\ SlotsAreOpen /\ TypeOK'
    BY TypeOKNext DEF ChannelIInv, IInv
  <1>2. CASE DeviceAnswers \/ DeviceSpeaks \/ UNCHANGED vars
    <2>1. UNCHANGED <<boot, writes, pending, result, writer, inHand, owner>>
      BY <1>2 DEF DeviceAnswers, DeviceSpeaks, vars, clientVars, loopVars, closeVars
    <2>2. (IsUp' <=> IsUp) /\ InOrder' = InOrder
      BY <2>1 DEF IsUp, InOrder
    <2> QED
      BY <2>1, <2>2, ToStutter
  <1>3. CASE Close
    <2>1. UNCHANGED <<result, writer>> /\ owner = "none" /\ ~IsUp'
      BY <1>3 DEF Close, Begin, IsUp, clientVars, loopVars
    <2>2. CASE IsUp
      <3>1. \A c \in Calls : OutcomeOf(c)' = OutcomeOf(c)
        BY <2>1, SameOutcome
      <3> QED
        BY <2>1, <2>2, <3>1, ToShut
    <2>3. CASE ~IsUp
      BY <2>1, <2>3, DownHasNoOrder, ToStutter
    <2> QED
      BY <2>2, <2>3
  <1> QED
    BY <1>1, <1>2, <1>3, BootImplements, WriterImplements, ReaderImplements,
       EnqueueImplements, ShutdownImplements DEF Next

(* What CommandChannel promises, FtSwarmSerialTransport keeps: its callers *)
(* take the next place in the order, its reader gives the oldest call its  *)
(* own answer, and close() and failTransport() only settle calls of a      *)
(* channel that is down.                                                   *)
THEOREM Refinement == Spec => ImplementsChannel
  BY InitImplements, NextImplements, ChannelInvariant, PTL
  DEF Spec, ImplementsChannel, Channel!Spec
-----------------------------------------------------------------------------
(* What CommandChannel promises of a channel that is up.                   *)

(* Nobody has another call's answer, and each call that waits has exactly  *)
(* one place in the order.                                                 *)
Promises ==
    IsUp =>
        /\ InOrder \in Seq(Calls)
        /\ \A c \in Calls : OutcomeOf(c) \notin {"foreign", "failed"}
        /\ \A c \in Calls :
              OutcomeOf(c) = "waiting" <=> \E i \in 1..Len(InOrder) : InOrder[i] = c
        /\ \A i, j \in 1..Len(InOrder) : InOrder[i] = InOrder[j] => i = j

(* A step of the channel after which it is up, told by the outcomes.       *)
LEMMA StepsWhileUp ==
  ASSUME [Channel!Next]_Channel!vars, IsUp'
  PROVE  /\ IsUp
         /\ \/ \E c \in Calls :
                  /\ OutcomeOf(c) = "idle" /\ OutcomeOf(c)' = "waiting"
                  /\ InOrder' = Append(InOrder, c)
                  /\ \A d \in Calls \ {c} : OutcomeOf(d)' = OutcomeOf(d)
            \/ /\ InOrder # <<>> /\ InOrder' = Tail(InOrder)
               /\ \A d \in Calls : OutcomeOf(d)' = IF d = Head(InOrder) THEN "own" ELSE OutcomeOf(d)
            \/ InOrder' = InOrder /\ \A d \in Calls : OutcomeOf(d)' = OutcomeOf(d)
  <1> DEFINE out == [c \in Calls |-> OutcomeOf(c)]
  <1>1. \A d \in Calls : out[d] = OutcomeOf(d) /\ out'[d] = OutcomeOf(d)'
    OBVIOUS
  <1> HIDE DEF out
  <1>2. ASSUME NEW c \in Calls, Channel!Submit(c)
        PROVE  /\ IsUp
               /\ OutcomeOf(c) = "idle" /\ OutcomeOf(c)' = "waiting"
               /\ InOrder' = Append(InOrder, c)
               /\ \A d \in Calls \ {c} : OutcomeOf(d)' = OutcomeOf(d)
    <2>1. out[c] = "idle" /\ out' = [out EXCEPT ![c] = "waiting"] /\ IsUp /\ InOrder' = Append(InOrder, c)
      BY <1>2 DEF Channel!Submit, out
    <2>2. out'[c] = "waiting" /\ \A d \in Calls \ {c} : out'[d] = out[d]
      <3>1. DOMAIN out = Calls
        BY DEF out
      <3> QED
        BY <2>1, <3>1
    <2> QED
      BY <1>1, <2>1, <2>2
  <1>3. ASSUME Channel!Answer
        PROVE  /\ IsUp
               /\ InOrder # <<>> /\ InOrder' = Tail(InOrder)
               /\ \A d \in Calls : OutcomeOf(d)' = IF d = Head(InOrder) THEN "own" ELSE OutcomeOf(d)
    <2>1. /\ out' = [out EXCEPT ![Head(InOrder)] = "own"] /\ IsUp
          /\ InOrder # <<>> /\ InOrder' = Tail(InOrder)
      BY <1>3 DEF Channel!Answer, out
    <2>2. \A d \in Calls : out'[d] = IF d = Head(InOrder) THEN "own" ELSE out[d]
      <3>1. DOMAIN out = Calls
        BY DEF out
      <3> QED
        BY <2>1, <3>1
    <2> QED
      BY <1>1, <2>1, <2>2
  <1>4. ASSUME UNCHANGED Channel!vars
        PROVE  IsUp /\ InOrder' = InOrder /\ \A d \in Calls : OutcomeOf(d)' = OutcomeOf(d)
    <2>1. IsUp /\ out' = out /\ InOrder' = InOrder
      BY <1>4 DEF Channel!vars, out
    <2> QED
      BY <1>1, <2>1
  <1>5. ~Channel!Shut /\ ~Channel!Settle /\ \A c \in Calls : ~Channel!SubmitLate(c)
    BY DEF Channel!Shut, Channel!Settle, Channel!SubmitLate
  <1>6. \/ \E c \in Calls : Channel!Submit(c)
        \/ Channel!Answer
        \/ UNCHANGED Channel!vars
    BY <1>5 DEF Channel!Next
  <1> QED
    BY <1>2, <1>3, <1>4, <1>6

LEMMA PromisesHold == Promises /\ [Channel!Next]_Channel!vars => Promises'
  <1> SUFFICES ASSUME Promises, [Channel!Next]_Channel!vars, IsUp'
               PROVE  Promises'
    BY DEF Promises
  <1>1. /\ IsUp
        /\ InOrder \in Seq(Calls)
        /\ \A c \in Calls : OutcomeOf(c) \notin {"foreign", "failed"}
        /\ \A c \in Calls :
              OutcomeOf(c) = "waiting" <=> \E i \in 1..Len(InOrder) : InOrder[i] = c
        /\ \A i, j \in 1..Len(InOrder) : InOrder[i] = InOrder[j] => i = j
    BY StepsWhileUp DEF Promises
  <1>2. ASSUME NEW c \in Calls, OutcomeOf(c) = "idle", OutcomeOf(c)' = "waiting",
               InOrder' = Append(InOrder, c), \A d \in Calls \ {c} : OutcomeOf(d)' = OutcomeOf(d)
        PROVE  Promises'
    <2>1. /\ InOrder' \in Seq(Calls) /\ Len(InOrder) \in Nat /\ Len(InOrder') = Len(InOrder) + 1
          /\ InOrder'[Len(InOrder) + 1] = c
          /\ \A i \in 1..Len(InOrder) : InOrder'[i] = InOrder[i] /\ InOrder[i] # c
      BY <1>1, <1>2
    <2>2. \A d \in Calls : OutcomeOf(d)' \notin {"foreign", "failed"}
      BY <1>1, <1>2
    <2>3. ASSUME NEW d \in Calls
          PROVE  OutcomeOf(d)' = "waiting" <=> \E i \in 1..Len(InOrder') : InOrder'[i] = d
      <3>1. (\E i \in 1..Len(InOrder') : InOrder'[i] = d) <=> (d = c \/ \E i \in 1..Len(InOrder) : InOrder[i] = d)
        BY <2>1
      <3> QED
        BY <1>1, <1>2, <3>1
    <2>4. \A i, j \in 1..Len(InOrder') : InOrder'[i] = InOrder'[j] => i = j
      BY <1>1, <2>1
    <2> QED
      BY <2>1, <2>2, <2>3, <2>4 DEF Promises
  <1>3. ASSUME InOrder # <<>>, InOrder' = Tail(InOrder),
               \A d \in Calls : OutcomeOf(d)' = IF d = Head(InOrder) THEN "own" ELSE OutcomeOf(d)
        PROVE  Promises'
    <2>1. /\ InOrder' \in Seq(Calls) /\ Len(InOrder) \in Nat /\ Len(InOrder') = Len(InOrder) - 1
          /\ Head(InOrder) = InOrder[1] /\ 1 \in 1..Len(InOrder)
          /\ \A i \in 1..Len(InOrder') : i + 1 \in 1..Len(InOrder) /\ InOrder'[i] = InOrder[i + 1]
      BY <1>1, <1>3
    <2>2. \A d \in Calls : OutcomeOf(d)' \notin {"foreign", "failed"}
      BY <1>1, <1>3
    <2>3. ASSUME NEW d \in Calls
          PROVE  OutcomeOf(d)' = "waiting" <=> \E i \in 1..Len(InOrder') : InOrder'[i] = d
      <3>1. ASSUME NEW i \in 1..Len(InOrder), InOrder[i] = d, d # InOrder[1]
            PROVE  i - 1 \in 1..Len(InOrder') /\ InOrder'[i - 1] = d
        BY <2>1, <3>1
      <3>2. ASSUME NEW i \in 1..Len(InOrder'), InOrder'[i] = d
            PROVE  i + 1 \in 1..Len(InOrder) /\ InOrder[i + 1] = d /\ d # InOrder[1]
        BY <1>1, <2>1, <3>2
      <3>3. OutcomeOf(d)' = "waiting" <=> OutcomeOf(d) = "waiting" /\ d # InOrder[1]
        BY <1>3, <2>1
      <3>4. OutcomeOf(d) = "waiting" <=> \E i \in 1..Len(InOrder) : InOrder[i] = d
        BY <1>1
      <3> QED
        BY <3>1, <3>2, <3>3, <3>4
    <2>4. \A i, j \in 1..Len(InOrder') : InOrder'[i] = InOrder'[j] => i = j
      BY <1>1, <2>1
    <2> QED
      BY <2>1, <2>2, <2>3, <2>4 DEF Promises
  <1>4. ASSUME InOrder' = InOrder, \A d \in Calls : OutcomeOf(d)' = OutcomeOf(d)
        PROVE  Promises'
    BY <1>1, <1>4 DEF Promises
  <1> QED
    BY <1>2, <1>3, <1>4, StepsWhileUp

LEMMA InitPromises == Init => Promises
  <1> SUFFICES ASSUME Init PROVE Promises
    OBVIOUS
  <1>1. InOrder = <<>>
    BY DEF Init, InOrder
  <1>2. \A c \in Calls : OutcomeOf(c) = "idle"
    BY DEF Init, OutcomeOf, Idle
  <1> QED
    BY <1>1, <1>2 DEF Promises

LEMMA PromisesInvariant == Spec => []Promises
  BY InitPromises, PromisesHold, NextImplements, ChannelInvariant, PTL DEF Spec

(* As long as the transport is up no call has been given another call's    *)
(* answer, and none has failed: CommandChannel's promise, kept by the code. *)
THEOREM ChannelCorrelates == Spec => []Channel!UpMeansCorrelated
  <1>1. Promises => Channel!UpMeansCorrelated
    BY DEF Promises, Channel!UpMeansCorrelated
  <1> QED
    BY <1>1, PromisesInvariant, PTL

(* As long as the transport is up every call that waits will be reached:   *)
(* it has one place in the order of answers, which nobody else has.        *)
THEOREM ChannelForgetsNobody == Spec => []Channel!QueueHoldsTheWaiting
  <1>1. Promises => Channel!QueueHoldsTheWaiting
    BY DEF Promises, Channel!QueueHoldsTheWaiting, Channel!Waiting
  <1> QED
    BY <1>1, PromisesInvariant, PTL
=============================================================================
