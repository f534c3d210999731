------------------------ MODULE PythonTransportProofs ------------------------
(***************************************************************************)
(* What holds of PythonTransport for every set of calls and of closers,    *)
(* every content of the port at the start and any amount of noise.         *)
(***************************************************************************)
EXTENDS PythonTransport, SequenceTheorems, TLAPS

-----------------------------------------------------------------------------
(* The inductive invariant.                                                *)

(* The wire is what the host has received and not read, and behind it what *)
(* the device will answer next.                                            *)
Places == 1..(Len(rx) + Len(toDevice))
CallAt(k) == IF k <= Len(rx) THEN rx[k].of ELSE toDevice[k - Len(rx)]
OnWire(c) == \E k \in Places : CallAt(k) = c
Answered(c) == \E i \in 1..Len(rx) : rx[i].of = c

IsAnswer(line) == line.kind \in {"R", "ERR"}

(* The marker, or the Raw that it answers.                                 *)
MarkerAt(k) == IF k <= Len(rx) THEN rx[k].kind = "@@@"
                               ELSE toDevice[k - Len(rx)] = "startCLI"

(* Anything that belongs before the first command: the handshake, and the  *)
(* replies of an earlier session.                                          *)
EarlyAt(k) ==
    IF k <= Len(rx)
    THEN rx[k].kind = "@@@" \/ (IsAnswer(rx[k]) /\ rx[k].of = NoCall)
    ELSE toDevice[k - Len(rx)] \in Raws

(* The marker comes last in the handshake; until a failure sets the Event  *)
(* too, only the marker does, and only then are there calls.               *)
Handshake ==
    /\ \A k, l \in Places : MarkerAt(k) /\ EarlyAt(l) => l <= k
    /\ boot \in {"crlf", "start"} =>
         /\ \A k \in Places : ~MarkerAt(k)
         /\ failure = "none" => ~initialized
    /\ (failure = "none" /\ initialized) \/ boot = "ready" =>
         \A k \in Places : ~EarlyAt(k)
    /\ boot = "ready" => initialized
    /\ boot # "ready" => \A c \in Calls : call[c] = "idle"

(* A call is appended once, and then written once or not at all.           *)
OnePlace ==
    /\ \A c \in Calls : call[c] \in {"idle", "checked"} => ~InPending(c)
    /\ \A c \in Calls : OnWire(c) => Returned(c)
    /\ \A i, j \in 1..Len(pending) : pending[i] = pending[j] => i = j
    /\ \A k, l \in Places :
         CallAt(k) = CallAt(l) /\ CallAt(k) \in Calls => k = l
    /\ \A i \in 1..Len(rx) : rx[i].of \in Calls => IsAnswer(rx[i])

(* The deque holds the futures that are not done, and all of those that a  *)
(* caller has or is about to get.                                          *)
DequeHoldsOpen ==
    \A c \in Calls :
        /\ InPending(c) \/ call[c] \in {"idle", "checked"} => IsOpen(c)
        /\ IsOpen(c) /\ call[c] \in {"appended", "returned"} => InPending(c)

(* What the first error tells about the threads and the port.              *)
FailureIsSet ==
    /\ failure = "closed" => port = "closed"
    /\ failure = "read" => reader # "poll"
    /\ reader = "failing" => failure # "none"
    /\ \A c \in Calls : call[c] \in {"failing", "raised"} => failure # "none"
    /\ \A t \in Threads :
         /\ closer[t] \in {"fail", "drain", "join", "done"} => port = "closed"
         /\ closer[t] \in {"drain", "join", "done"} => failure # "none"

(* `pending` lists the calls on the wire in the order of their answers,    *)
(* and last the one that holds the write lock.  A device whose port was    *)
(* closed loses its answers, but none before one that was received.        *)
SlotsForTheWire == \A c \in Calls : OnWire(c) => InPending(c)
LastSlotHoldsLock ==
    writeLock \in Calls => pending # <<>> /\ pending[Len(pending)] = writeLock
LinesInOrder ==
    \A p, q \in 1..Len(pending) : \A l \in 1..Len(rx) :
        q < p /\ rx[l].of = pending[p] =>
            \E k \in 1..Len(rx) : k < l /\ rx[k].of = pending[q]
DeviceInOrder ==
    \A p, q \in 1..Len(pending) : \A l \in 1..Len(toDevice) :
        q < p /\ toDevice[l] = pending[p] =>
            \/ Answered(pending[q])
            \/ \E k \in 1..Len(toDevice) : k < l /\ toDevice[k] = pending[q]
SlotsAreOnTheirWay ==
    \A p \in 1..Len(pending) : OnWire(pending[p]) \/ pending[p] = writeLock

Fifo ==
    /\ SlotsForTheWire
    /\ LastSlotHoldsLock
    /\ LinesInOrder
    /\ port = "open" => DeviceInOrder /\ SlotsAreOnTheirWay

(* Until the first failure, and after close() until the deque was drained. *)
Ordered ==
    \/ failure = "none"
    \/ failure = "closed" /\ \E c \in Calls : Returned(c) /\ InPending(c)

(* What a call that cannot return any more may have been given.            *)
CorrelatedOrLost ==
    failure # "write" => \A c \in Calls :
        future[c].tag \in {"success", "error"} =>
            future[c].of = c \/ (failure = "closed" /\ ~Returned(c))

IInv ==
    /\ TypeOK
    /\ Handshake
    /\ OnePlace
    /\ DequeHoldsOpen
    /\ FailureIsSet
    /\ Ordered => Fifo
    /\ CorrelatedOrLost
    /\ CloseResolvesFutures

-----------------------------------------------------------------------------
(* Sequences                                                               *)

(* What Append does to the length and to the elements.                     *)
LEMMA AppendFacts ==
  ASSUME NEW S, NEW s \in Seq(S), NEW x \in S
  PROVE  /\ Append(s, x) \in Seq(S)
         /\ Len(s) \in Nat
         /\ Len(Append(s, x)) = Len(s) + 1
         /\ \A i \in 1..Len(s) : Append(s, x)[i] = s[i]
         /\ Append(s, x)[Len(s) + 1] = x
  OBVIOUS

(* What Head and Tail are of a sequence that is not empty.                 *)
LEMMA TailFacts ==
  ASSUME NEW S, NEW s \in Seq(S), s # <<>>
  PROVE  /\ Head(s) = s[1] /\ Head(s) \in S
         /\ Len(s) \in Nat /\ Len(s) >= 1
         /\ Tail(s) \in Seq(S)
         /\ Len(Tail(s)) = Len(s) - 1
         /\ \A i \in 1..(Len(s) - 1) : Tail(s)[i] = s[i + 1]
  BY HeadTailProperties

-----------------------------------------------------------------------------
(* Types                                                                   *)

LEMMA InitTypeOK == Init => TypeOK
  <1> SUFFICES ASSUME Init PROVE TypeOK
    OBVIOUS
  <1>1. rx \in Seq(Lines)
    BY LeftoversAssumption DEF Init
  <1>2. future \in [Calls -> Futures]
    BY DEF Init, Futures, Open
  <1>3. noise \in 0..MaxNoise
    BY NoiseAssumption DEF Init
  <1>4. \A c \in Calls : writeLock = c <=> call[c] \in {"appended", "failing"}
    BY CallsAssumption DEF Init
  <1>5. pending \in Seq(Calls) /\ toDevice \in Seq(Calls \cup Raws)
    BY DEF Init
  <1>6. /\ call \in [Calls -> {"idle", "checked", "appended", "returned",
                              "failing", "raised"}]
        /\ closer \in [Threads -> {"idle", "skipped", "set", "serial", "fail",
                                  "drain", "join", "done"}]
    BY DEF Init
  <1> QED
    BY <1>1, <1>2, <1>3, <1>4, <1>5, <1>6 DEF Init, TypeOK

(* What the parts of a step that several actions share do to the types.    *)
LEMMA DrainType ==
  ASSUME TypeOK, DrainPending
  PROVE  pending' \in Seq(Calls) /\ future' \in [Calls -> Futures]
  BY DEF TypeOK, DrainPending, Failed, Futures

LEMMA WriteType ==
  ASSUME TypeOK, NEW data \in Calls \cup Raws, WriteSucceeds(data)
  PROVE  /\ rx' \in Seq(Lines) /\ toDevice' \in Seq(Calls \cup Raws)
         /\ port' \in {"open", "closed"} /\ noise' \in 0..MaxNoise
  <1>1. Append(toDevice, data) \in Seq(Calls \cup Raws)
    <2>1. toDevice \in Seq(Calls \cup Raws)
      BY DEF TypeOK
    <2> QED
      BY <2>1, AppendFacts
  <1> QED
    BY <1>1 DEF TypeOK, WriteSucceeds

LEMMA FailureType ==
  ASSUME TypeOK, NEW error \in {"write", "read", "closed"}, SetFailure(error)
  PROVE  /\ failure' \in {"none", "write", "read", "closed"}
         /\ initialized' \in BOOLEAN /\ closed' \in BOOLEAN
  BY DEF TypeOK, SetFailure

LEMMA BootTypeOK == TypeOK /\ Boot => TypeOK'
  <1> SUFFICES ASSUME TypeOK, Boot PROVE TypeOK'
    OBVIOUS
  <1>1. ASSUME NEW here, NEW raw \in Raws, NEW there \in {"start", "wait"},
               BootWrite(here, raw, there)
        PROVE  TypeOK'
    <2>1. /\ rx' \in Seq(Lines) /\ toDevice' \in Seq(Calls \cup Raws)
          /\ port' \in {"open", "closed"} /\ noise' \in 0..MaxNoise
      BY <1>1, WriteType DEF BootWrite, WriteFails, portVars, TypeOK
    <2>2. boot' \in {"crlf", "start", "wait", "ready", "closing", "failed"}
      BY <1>1 DEF BootWrite
    <2> QED
      BY <1>1, <2>1, <2>2 DEF BootWrite, TypeOK, eventVars, callVars
  <1>2. CASE BootReady \/ BootTimeout \/ BootRaises
    BY <1>2 DEF BootReady, BootTimeout, BootRaises, TypeOK, eventVars, callVars, portVars
  <1> QED
    BY <1>1, <1>2 DEF Boot, BootCrlf, BootStartCLI, Raws

LEMMA CallTypeOK ==
  ASSUME TypeOK, NEW c \in Calls, CheckFailure(c) \/ CallStep(c)
  PROVE  TypeOK'
  <1> USE CallsAssumption
  <1>1. CASE CheckFailure(c)
    BY <1>1 DEF CheckFailure, Moves, TypeOK, eventVars, portVars
  <1>2. CASE AppendPending(c)
    <2>1. pending' \in Seq(Calls)
      BY <1>2, AppendFacts DEF AppendPending, TypeOK
    <2> QED
      BY <1>2, <2>1 DEF AppendPending, Moves, TypeOK, eventVars, portVars
  <1>3. CASE WriteCommand(c)
    <2>1. /\ rx' \in Seq(Lines) /\ toDevice' \in Seq(Calls \cup Raws)
          /\ port' \in {"open", "closed"} /\ noise' \in 0..MaxNoise
      BY <1>3, WriteType DEF WriteCommand
    <2> QED
      BY <1>3, <2>1 DEF WriteCommand, Moves, TypeOK, eventVars
  <1>4. CASE WriteCommandFails(c)
    <2>1. /\ failure' \in {"none", "write", "read", "closed"}
          /\ initialized' \in BOOLEAN /\ closed' \in BOOLEAN
      BY <1>4, FailureType DEF WriteCommandFails
    <2> QED
      BY <1>4, <2>1 DEF WriteCommandFails, WriteFails, Moves, TypeOK, portVars
  <1>5. CASE CommandRaises(c)
    BY <1>5, DrainType DEF CommandRaises, Moves, TypeOK, eventVars, portVars
  <1> QED
    BY <1>1, <1>2, <1>3, <1>4, <1>5 DEF CallStep

LEMMA CompleteType ==
  ASSUME TypeOK, NEW line \in Lines, complete(line)
  PROVE  pending' \in Seq(Calls) /\ future' \in [Calls -> Futures]
  <1>1. CASE pending = <<>>
    BY <1>1 DEF complete, TypeOK
  <1>2. CASE pending # <<>>
    <2>1. Head(pending) \in Calls /\ Tail(pending) \in Seq(Calls)
      BY <1>2, TailFacts DEF TypeOK
    <2>2. [tag |-> IF line.kind = "R" THEN "success" ELSE "error",
           of |-> line.of] \in Futures
      BY DEF Futures, Lines
    <2> QED
      BY <1>2, <2>1, <2>2 DEF complete, TypeOK
  <1> QED
    BY <1>1, <1>2

LEMMA ReaderTypeOK == TypeOK /\ Reader => TypeOK'
  <1> SUFFICES ASSUME TypeOK, Reader PROVE TypeOK'
    OBVIOUS
  <1>1. CASE ReaderLine
    <2>1. Head(rx) \in Lines /\ rx' \in Seq(Lines)
      BY <1>1, TailFacts DEF ReaderLine, TypeOK
    <2>2. pending' \in Seq(Calls) /\ future' \in [Calls -> Futures]
      BY <1>1, <2>1, CompleteType DEF ReaderLine, handleLine, TypeOK
    <2>3. initialized' \in BOOLEAN
      BY <1>1 DEF ReaderLine, handleLine, TypeOK
    <2> QED
      BY <1>1, <2>1, <2>2, <2>3 DEF ReaderLine, TypeOK
  <1>2. CASE ReaderStops
    BY <1>2 DEF ReaderStops, TypeOK, eventVars, callVars, portVars
  <1>3. CASE ReaderFails
    BY <1>3, FailureType DEF ReaderFails, TypeOK, callVars, portVars
  <1>4. CASE ReaderEnds
    BY <1>4, DrainType DEF ReaderEnds, TypeOK, eventVars, portVars
  <1> QED
    BY <1>1, <1>2, <1>3, <1>4 DEF Reader

LEMMA CloserTypeOK ==
  ASSUME TypeOK, NEW t \in Threads, CloseChecks(t) \/ CloseStep(t)
  PROVE  TypeOK'
  <1> USE DEF CloserMoves, TypeOK, eventVars, callVars, portVars
  <1>1. CASE CloseChecks(t)
    BY <1>1 DEF CloseChecks
  <1>2. CASE CloseSets(t) \/ ClosePort(t) \/ CloseJoins(t)
    BY <1>2, ZenonT(30) DEF CloseSets, ClosePort, CloseJoins
  <1>3. CASE CloseFails(t)
    BY <1>3, FailureType DEF CloseFails
  <1>4. CASE CloseDrains(t)
    BY <1>4, DrainType DEF CloseDrains
  <1> QED
    BY <1>1, <1>2, <1>3, <1>4 DEF CloseStep

LEMMA LineTypes ==
  /\ Marker \in Lines
  /\ \A c \in Calls : AnswerTo(c) \in Lines
  /\ \A kind \in Noise : [kind |-> kind, of |-> NoCall] \in Lines
  BY NoiseAssumption DEF Marker, AnswerTo, Lines, Kinds

LEMMA ReceivesType ==
  ASSUME TypeOK, NEW line \in Lines, Receives(line)
  PROVE  rx' \in Seq(Lines)
  BY AppendFacts DEF TypeOK, Receives

LEMMA DeviceTypeOK == TypeOK /\ (DeviceAnswers \/ DeviceSpeaks) => TypeOK'
  <1> SUFFICES ASSUME TypeOK, DeviceAnswers \/ DeviceSpeaks PROVE TypeOK'
    OBVIOUS
  <1>1. CASE DeviceAnswers
    <2>1. Head(toDevice) \in Calls \cup Raws /\ toDevice' \in Seq(Calls \cup Raws)
      BY <1>1, TailFacts DEF DeviceAnswers, TypeOK
    <2>2. rx' \in Seq(Lines)
      BY <1>1, ReceivesType, LineTypes DEF DeviceAnswers, TypeOK
    <2> QED
      BY <1>1, <2>1, <2>2 DEF DeviceAnswers, TypeOK, eventVars, callVars
  <1>2. CASE DeviceSpeaks
    <2>1. rx' \in Seq(Lines)
      BY <1>2, ReceivesType, LineTypes DEF DeviceSpeaks
    <2> QED
      BY <1>2, <2>1, NoiseAssumption DEF DeviceSpeaks, TypeOK, eventVars, callVars
  <1> QED
    BY <1>1, <1>2

LEMMA TypeOKNext == TypeOK /\ [Next]_vars => TypeOK'
  <1> SUFFICES ASSUME TypeOK, [Next]_vars PROVE TypeOK'
    OBVIOUS
  <1>1. CASE UNCHANGED vars
    BY <1>1 DEF TypeOK, vars, eventVars, callVars, portVars
  <1> QED
    BY <1>1, BootTypeOK, CallTypeOK, ReaderTypeOK, CloserTypeOK, DeviceTypeOK DEF Next

(* Type correctness, and that a call is between its append and its result  *)
(* exactly while it holds the write lock: the lock is always given back.   *)
THEOREM TypeCorrect == Spec => []TypeOK
  BY InitTypeOK, TypeOKNext, PTL DEF Spec

-----------------------------------------------------------------------------
(* How the wire moves.                                                     *)

Takes(k) == CallAt(k) \in Calls \/ EarlyAt(k)

(* What is in place k after a step was in place f[k] before it, in the     *)
(* same order; some of it may be gone, and lines of no interest are new.   *)
ShiftedBy(f) ==
    /\ \A k \in Places' :
         /\ CallAt(k)' \in Calls => f[k] \in Places /\ CallAt(f[k]) = CallAt(k)'
         /\ EarlyAt(k)' => f[k] \in Places /\ EarlyAt(f[k])
         /\ MarkerAt(k)' => EarlyAt(k)' /\ MarkerAt(f[k])
    /\ \A k, l \in Places' : Takes(k)' /\ Takes(l)' /\ f[k] <= f[l] => k <= l

LEMMA WireFacts ==
  ASSUME TypeOK
  PROVE  /\ Len(rx) \in Nat /\ Len(toDevice) \in Nat
         /\ rx \in Seq(Lines) /\ toDevice \in Seq(Calls \cup Raws)
         /\ pending \in Seq(Calls) /\ Len(pending) \in Nat
         /\ \A i \in 1..Len(rx) : rx[i] \in Lines
         /\ \A i \in 1..Len(toDevice) : toDevice[i] \in Calls \cup Raws
         /\ \A i \in 1..Len(pending) : pending[i] \in Calls
  BY DEF TypeOK

LEMMA WireLengths ==
  ASSUME TypeOK'
  PROVE  Len(rx') \in Nat /\ Len(toDevice') \in Nat
  BY DEF TypeOK

(* The reader takes the first line.                                        *)
LEMMA ReaderLineMoves ==
  ASSUME TypeOK, ReaderLine
  PROVE  /\ rx # <<>> /\ Head(rx) = rx[1] /\ rx[1] \in Lines
         /\ Len(rx) \in Nat \ {0} /\ Len(rx') = Len(rx) - 1
         /\ \A i \in 1..Len(rx') : rx'[i] = rx[i + 1] /\ i + 1 \in 1..Len(rx)
         /\ 1 \in Places /\ CallAt(1) = rx[1].of
         /\ Places' = 1..(Len(rx) - 1 + Len(toDevice))
         /\ \A k \in Places' : /\ k + 1 \in Places
                               /\ CallAt(k)' = CallAt(k + 1)
                               /\ EarlyAt(k)' <=> EarlyAt(k + 1)
                               /\ MarkerAt(k)' <=> MarkerAt(k + 1)
  <1> PICK n \in Nat, m \in Nat : n = Len(rx) /\ m = Len(toDevice)
    BY WireFacts
  <1>1. /\ rx # <<>> /\ n >= 1 /\ Len(rx') = n - 1 /\ toDevice' = toDevice
        /\ \A i \in 1..(n - 1) : rx'[i] = rx[i + 1]
        /\ Head(rx) = rx[1] /\ rx[1] \in Lines
    BY WireFacts, TailFacts DEF ReaderLine
  <1>2. Places = 1..(n + m) /\ Places' = 1..(n - 1 + m)
    BY <1>1 DEF Places
  <1>3. ASSUME NEW k \in Places'
        PROVE  /\ k + 1 \in Places
               /\ CallAt(k)' = CallAt(k + 1)
               /\ EarlyAt(k)' <=> EarlyAt(k + 1)
               /\ MarkerAt(k)' <=> MarkerAt(k + 1)
    <2>1. k + 1 \in Places /\ k \in Nat
      BY <1>1, <1>2
    <2>2. CASE k <= n - 1
      BY <2>1, <2>2, <1>1, <1>2 DEF CallAt, EarlyAt, MarkerAt
    <2>3. CASE ~(k <= n - 1)
      <3>1. ~(k + 1 <= n) /\ k - (n - 1) = k + 1 - n
        BY <2>3, <2>1, <1>1
      <3> QED
        BY <2>1, <2>3, <3>1, <1>1, <1>2 DEF CallAt, EarlyAt, MarkerAt
    <2> QED
      BY <2>1, <2>2, <2>3
  <1>4. 1 \in Places /\ CallAt(1) = rx[1].of
    BY <1>1, <1>2 DEF CallAt
  <1> QED
    BY <1>1, <1>2, <1>3, <1>4

LEMMA ReaderLineShifts ==
  ASSUME TypeOK, ReaderLine
  PROVE  \E f : ShiftedBy(f)
  <1> DEFINE f == [k \in Places' |-> k + 1]
  <1>1. \A k \in Places' :
          /\ f[k] = k + 1 /\ f[k] \in Places /\ k \in Int
          /\ CallAt(k)' = CallAt(f[k])
          /\ EarlyAt(k)' <=> EarlyAt(f[k])
          /\ MarkerAt(k)' <=> MarkerAt(f[k])
    BY ReaderLineMoves, WireFacts
  <1>2. \A k \in Places : MarkerAt(k) => EarlyAt(k)
    BY DEF MarkerAt, EarlyAt, Raws
  <1> HIDE DEF f
  <1>3. \A k, l \in Places' : f[k] <= f[l] => k <= l
    BY <1>1
  <1>4. ShiftedBy(f)
    BY <1>1, <1>2, <1>3 DEF ShiftedBy
  <1> QED
    BY <1>4

(* A line of no interest arrives, or is lost.                              *)
LEMMA NoiseShifts ==
  ASSUME TypeOK, DeviceSpeaks
  PROVE  \E f : ShiftedBy(f)
  <1> PICK n \in Nat, m \in Nat : n = Len(rx) /\ m = Len(toDevice)
    BY WireFacts
  <1> DEFINE f == [k \in Places' |-> IF k <= n THEN k ELSE k - 1]
             g == [k \in Places' |-> k]
  <1>0. \A k \in Places : MarkerAt(k) => EarlyAt(k)
    BY DEF MarkerAt, EarlyAt, Raws
  <1>1. CASE rx' = rx
    <2>1. toDevice' = toDevice
      BY DEF DeviceSpeaks
    <2>2. /\ Places' = Places
          /\ \A k \in Places : CallAt(k)' = CallAt(k) /\ (EarlyAt(k)' <=> EarlyAt(k))
                                /\ (MarkerAt(k)' <=> MarkerAt(k)) /\ g[k] = k
      BY <2>1, <1>1 DEF Places, CallAt, EarlyAt, MarkerAt
    <2> HIDE DEF g
    <2>3. ShiftedBy(g)
      BY <1>0, <2>2 DEF ShiftedBy
    <2> QED
      BY <2>3
  <1>2. ASSUME NEW kind \in Noise, rx' = Append(rx, [kind |-> kind, of |-> NoCall])
        PROVE  \E h : ShiftedBy(h)
    <2>1. /\ n \in Nat /\ m \in Nat /\ Len(rx') = n + 1 /\ toDevice' = toDevice
          /\ \A i \in 1..n : rx'[i] = rx[i]
          /\ rx'[n + 1] = [kind |-> kind, of |-> NoCall]
      BY <1>2, WireFacts, AppendFacts, LineTypes DEF DeviceSpeaks
    <2>2. Places = 1..(n + m) /\ Places' = 1..(n + 1 + m)
      BY <2>1 DEF Places
    <2>3. /\ CallAt(n + 1)' \notin Calls
          /\ ~EarlyAt(n + 1)'
          /\ ~MarkerAt(n + 1)'
      <3>1. n + 1 <= Len(rx') /\ rx'[n + 1].of = NoCall /\ rx'[n + 1].kind \in {"S", "LOG"}
        BY <2>1, NoiseAssumption
      <3>2. CallAt(n + 1)' = NoCall
        BY <3>1 DEF CallAt
      <3>3. ~EarlyAt(n + 1)' /\ ~MarkerAt(n + 1)'
        BY <3>1 DEF EarlyAt, MarkerAt, IsAnswer
      <3> QED
        BY <3>2, <3>3, CallsAssumption
    <2>4. ASSUME NEW k \in Places', k # n + 1
          PROVE  /\ f[k] \in Places
                 /\ CallAt(k)' = CallAt(f[k])
                 /\ (EarlyAt(k)' <=> EarlyAt(f[k]))
                 /\ (MarkerAt(k)' <=> MarkerAt(f[k]))
      <3>1. CASE k <= n
        BY <2>1, <2>2, <3>1 DEF CallAt, EarlyAt, MarkerAt
      <3>2. CASE ~(k <= n)
        <4>1. f[k] = k - 1 /\ ~(k - 1 <= n) /\ ~(k <= n + 1) /\ k - (n + 1) = k - 1 - n
          BY <2>1, <2>2, <2>4, <3>2
        <4>2. k - 1 \in Places
          BY <2>1, <2>2, <3>2, <4>1
        <4> QED
          BY <2>1, <4>1, <4>2 DEF CallAt, EarlyAt, MarkerAt
      <3> QED
        BY <3>1, <3>2
    <2>5. \A k, l \in Places' : k # n + 1 /\ l # n + 1 /\ f[k] <= f[l] => k <= l
      BY <2>1, <2>2
    <2> HIDE DEF f
    <2>6. \A k \in Places' :
            /\ CallAt(k)' \in Calls => f[k] \in Places /\ CallAt(f[k]) = CallAt(k)'
            /\ EarlyAt(k)' => f[k] \in Places /\ EarlyAt(f[k])
            /\ MarkerAt(k)' => EarlyAt(k)' /\ MarkerAt(f[k])
      BY <1>0, <2>3, <2>4
    <2>7. \A k \in Places' : Takes(k)' => k # n + 1
      BY <2>3 DEF Takes
    <2>8. ShiftedBy(f)
      BY <2>5, <2>6, <2>7 DEF ShiftedBy
    <2> QED
      BY <2>8
  <1> QED
    BY <1>1, <1>2 DEF DeviceSpeaks, Receives

(* The device takes the first request: its line, if it has one and is not  *)
(* lost, is in the very place where the request was.                       *)
LEMMA AnswerShifts ==
  ASSUME TypeOK, DeviceAnswers
  PROVE  \E f : ShiftedBy(f)
  <1> PICK n \in Nat, m \in Nat : n = Len(rx) /\ m = Len(toDevice)
    BY WireFacts
  <1> DEFINE f == [k \in Places' |-> IF k <= n THEN k ELSE k + 1]
             g == [k \in Places' |-> k]
  <1>0. \A k \in Places : MarkerAt(k) => EarlyAt(k)
    BY DEF MarkerAt, EarlyAt, Raws
  <1>1. /\ m >= 1 /\ Len(toDevice') = m - 1 /\ Head(toDevice) = toDevice[1]
        /\ \A i \in 1..(m - 1) : toDevice'[i] = toDevice[i + 1]
    BY WireFacts, TailFacts DEF DeviceAnswers
  <1>2. CASE rx' = rx
    <2>1. Places = 1..(n + m) /\ Places' = 1..(n + m - 1)
      BY <1>1, <1>2 DEF Places
    <2>2. ASSUME NEW k \in Places'
          PROVE  /\ f[k] \in Places
                 /\ CallAt(k)' = CallAt(f[k])
                 /\ (EarlyAt(k)' <=> EarlyAt(f[k]))
                 /\ (MarkerAt(k)' <=> MarkerAt(f[k]))
      <3>1. CASE k <= n
        BY <1>1, <1>2, <2>1, <3>1 DEF CallAt, EarlyAt, MarkerAt
      <3>2. CASE ~(k <= n)
        <4>1. /\ f[k] = k + 1 /\ ~(k + 1 <= Len(rx)) /\ ~(k <= Len(rx'))
              /\ k - n \in 1..(m - 1) /\ k + 1 - Len(rx) = k - n + 1
              /\ k - Len(rx') = k - n
              /\ k \in Nat /\ Len(rx) \in Nat /\ Len(rx') = Len(rx)
          BY <1>2, <2>1, <3>2
        <4>2. k + 1 \in Places
          BY <2>1, <4>1
        <4>3. toDevice'[k - Len(rx')] = toDevice[k + 1 - Len(rx)]
          BY <1>1, <4>1
        <4> HIDE DEF f
        <4>4. /\ CallAt(k)' = CallAt(k + 1)
              /\ EarlyAt(k)' <=> EarlyAt(k + 1)
              /\ MarkerAt(k)' <=> MarkerAt(k + 1)
          <5>1. CallAt(k)' = CallAt(k + 1)
            BY <4>1, <4>3 DEF CallAt
          <5>2. EarlyAt(k)' <=> EarlyAt(k + 1)
            BY <4>1, <4>3 DEF EarlyAt
          <5>3. MarkerAt(k)' <=> MarkerAt(k + 1)
            BY <4>1, <4>3 DEF MarkerAt
          <5> QED
            BY <5>1, <5>2, <5>3
        <4> QED
          BY <4>1, <4>2, <4>4
      <3> QED
        BY <3>1, <3>2
    <2>3. \A k, l \in Places' : f[k] <= f[l] => k <= l
      BY <2>1
    <2> HIDE DEF f
    <2>4. ShiftedBy(f)
      BY <1>0, <2>2, <2>3 DEF ShiftedBy
    <2> QED
      BY <2>4
  <1>3. ASSUME NEW line \in Lines, rx' = Append(rx, line),
               line.of \in Calls => line.of = toDevice[1],
               line.kind = "@@@" => toDevice[1] = "startCLI",
               line.of = NoCall => ~IsAnswer(line)
        PROVE  \E h : ShiftedBy(h)
    <2>1. /\ Len(rx') = n + 1 /\ \A i \in 1..n : rx'[i] = rx[i]
          /\ rx'[n + 1] = line
      BY <1>3, WireFacts, AppendFacts
    <2>2. Places = 1..(n + m) /\ Places' = 1..(n + m)
      BY <1>1, <2>1 DEF Places
    <2>3. ASSUME NEW k \in Places', k # n + 1
          PROVE  /\ CallAt(k)' = CallAt(k)
                 /\ (EarlyAt(k)' <=> EarlyAt(k))
                 /\ (MarkerAt(k)' <=> MarkerAt(k))
      <3>1. CASE k <= n
        BY <2>1, <2>2, <3>1 DEF CallAt, EarlyAt, MarkerAt
      <3>2. CASE ~(k <= n)
        <4>1. ~(k <= n + 1) /\ k - (n + 1) \in 1..(m - 1) /\ k - n = k - (n + 1) + 1
          BY <2>2, <2>3, <3>2
        <4> QED
          BY <1>1, <2>1, <3>2, <4>1 DEF CallAt, EarlyAt, MarkerAt
      <3> QED
        BY <3>1, <3>2
    <2>4. n + 1 <= Len(rx') /\ ~(n + 1 <= Len(rx)) /\ n + 1 - Len(rx) = 1
      BY <2>1
    <2>5. ASSUME NEW k \in Places', k = n + 1
          PROVE  /\ CallAt(k)' \in Calls => CallAt(k) = CallAt(k)'
                 /\ EarlyAt(k)' => EarlyAt(k)
                 /\ MarkerAt(k)' => MarkerAt(k)
      <3>1. CallAt(k)' = line.of /\ CallAt(k) = toDevice[1]
        BY <2>1, <2>4, <2>5 DEF CallAt
      <3>2. MarkerAt(k)' => MarkerAt(k)
        BY <1>3, <2>1, <2>4, <2>5 DEF MarkerAt
      <3>3. EarlyAt(k)' => EarlyAt(k)
        BY <1>3, <2>1, <2>4, <2>5 DEF EarlyAt, Raws, IsAnswer
      <3> QED
        BY <1>3, <3>1, <3>2, <3>3
    <2>6. \A k \in Places' : MarkerAt(k)' => EarlyAt(k)'
      BY DEF MarkerAt, EarlyAt, Raws
    <2>7. \A k \in Places' : g[k] = k /\ k \in Places
      BY <2>2
    <2> HIDE DEF g
    <2>8. ShiftedBy(g)
      BY <2>3, <2>5, <2>6, <2>7 DEF ShiftedBy
    <2> QED
      BY <2>8
  <1>4. ASSUME Head(toDevice) = "startCLI", Receives(Marker)
        PROVE  \E h : ShiftedBy(h)
    <2>1. Marker.of = NoCall /\ ~IsAnswer(Marker) /\ Marker.of \notin Calls
      BY CallsAssumption DEF Marker, IsAnswer
    <2> QED
      BY <1>1, <1>2, <1>3, <1>4, <2>1, LineTypes DEF Receives
  <1>5. ASSUME Head(toDevice) \in Calls, Receives(AnswerTo(Head(toDevice)))
        PROVE  \E h : ShiftedBy(h)
    <2>1. /\ AnswerTo(Head(toDevice)).of = toDevice[1]
          /\ AnswerTo(Head(toDevice)).kind # "@@@"
          /\ toDevice[1] # NoCall
      BY <1>1, <1>5, CallsAssumption DEF AnswerTo
    <2> QED
      BY <1>2, <1>3, <1>5, <2>1, LineTypes DEF Receives
  <1> QED
    BY <1>2, <1>4, <1>5 DEF DeviceAnswers

(* What keeps its place keeps what the invariant says of it.               *)
LEMMA ShiftKeeps ==
  ASSUME TypeOK, TypeOK', \E f : ShiftedBy(f)
  PROVE  /\ (\A k, l \in Places : MarkerAt(k) /\ EarlyAt(l) => l <= k)
               => (\A k, l \in Places : MarkerAt(k) /\ EarlyAt(l) => l <= k)'
         /\ (\A k \in Places : ~MarkerAt(k)) => (\A k \in Places : ~MarkerAt(k))'
         /\ (\A k \in Places : ~EarlyAt(k)) => (\A k \in Places : ~EarlyAt(k))'
         /\ \A c \in Calls : OnWire(c)' => OnWire(c)
         /\ (\A k, l \in Places :
                CallAt(k) = CallAt(l) /\ CallAt(k) \in Calls => k = l)
               => (\A k, l \in Places :
                     CallAt(k) = CallAt(l) /\ CallAt(k) \in Calls => k = l)'
  <1>1. PICK f : ShiftedBy(f)
    OBVIOUS
  <1>2. \A k \in Places' :
          /\ CallAt(k)' \in Calls => f[k] \in Places /\ CallAt(f[k]) = CallAt(k)'
          /\ EarlyAt(k)' => f[k] \in Places /\ EarlyAt(f[k])
          /\ MarkerAt(k)' => EarlyAt(k)' /\ MarkerAt(f[k])
    BY <1>1 DEF ShiftedBy
  <1>3. \A k, l \in Places' : Takes(k)' /\ Takes(l)' /\ f[k] <= f[l] => k <= l
    BY <1>1 DEF ShiftedBy
  <1>4. Places \subseteq Nat /\ Places' \subseteq Nat
    BY WireFacts DEF Places
  <1>5. ASSUME \A k, l \in Places : MarkerAt(k) /\ EarlyAt(l) => l <= k,
               NEW k \in Places', NEW l \in Places', MarkerAt(k)', EarlyAt(l)'
        PROVE  l <= k
    <2>1. f[l] <= f[k] /\ Takes(k)' /\ Takes(l)'
      BY <1>2, <1>5 DEF Takes
    <2> QED
      BY <1>3, <2>1
  <1>6. ASSUME NEW c \in Calls, OnWire(c)' PROVE OnWire(c)
    BY <1>2, <1>6 DEF OnWire
  <1>7. ASSUME \A k, l \in Places :
                 CallAt(k) = CallAt(l) /\ CallAt(k) \in Calls => k = l,
               NEW k \in Places', NEW l \in Places',
               CallAt(k)' = CallAt(l)', CallAt(k)' \in Calls
        PROVE  k = l
    <2>1. f[k] = f[l] /\ f[k] \in Nat /\ Takes(k)' /\ Takes(l)'
      BY <1>2, <1>4, <1>7 DEF Takes
    <2>2. f[k] <= f[l] /\ f[l] <= f[k]
      BY <2>1
    <2>3. k <= l /\ l <= k
      BY <1>3, <2>1, <2>2
    <2> QED
      BY <1>4, <2>3
  <1> QED
    BY <1>2, <1>5, <1>6, <1>7

(* What is written comes last on the wire.                                 *)
LEMMA WritePuts ==
  ASSUME TypeOK, NEW data \in Calls \cup Raws, WriteSucceeds(data)
  PROVE  \E e \in Places' :
           /\ Places' = Places \cup {e} /\ \A k \in Places : k < e
           /\ \A k \in Places : /\ CallAt(k)' = CallAt(k)
                                /\ EarlyAt(k)' <=> EarlyAt(k)
                                /\ MarkerAt(k)' <=> MarkerAt(k)
           /\ CallAt(e)' = data
           /\ EarlyAt(e)' <=> data \in Raws
           /\ MarkerAt(e)' <=> data = "startCLI"
  <1> PICK n \in Nat, m \in Nat : n = Len(rx) /\ m = Len(toDevice)
    BY WireFacts
  <1>1. /\ rx' = rx /\ Len(toDevice') = m + 1
        /\ \A i \in 1..m : toDevice'[i] = toDevice[i]
        /\ toDevice'[m + 1] = data
    BY WireFacts, AppendFacts DEF WriteSucceeds
  <1>2. Places = 1..(n + m) /\ Places' = 1..(n + m + 1)
    BY <1>1 DEF Places
  <1>3. ASSUME NEW k \in Places
        PROVE  /\ CallAt(k)' = CallAt(k)
               /\ EarlyAt(k)' <=> EarlyAt(k)
               /\ MarkerAt(k)' <=> MarkerAt(k)
    <2>1. CASE k <= n
      BY <1>1, <2>1 DEF CallAt, EarlyAt, MarkerAt
    <2>2. CASE ~(k <= n)
      <3>1. /\ toDevice'[k - n] = toDevice[k - n] /\ k \in Nat
            /\ ~(k <= Len(rx)) /\ ~(k <= Len(rx')) /\ Len(rx') = n
        BY <1>1, <1>2, <2>2
      <3> QED
        BY <3>1 DEF CallAt, EarlyAt, MarkerAt
    <2> QED
      BY <2>1, <2>2
  <1>4. ASSUME NEW e, e = n + m + 1
        PROVE  /\ CallAt(e)' = data
               /\ EarlyAt(e)' <=> data \in Raws
               /\ MarkerAt(e)' <=> data = "startCLI"
    <2>1. e \in Nat /\ ~(e <= Len(rx')) /\ e - Len(rx') = m + 1 /\ Len(rx') = n
      BY <1>1, <1>4
    <2> QED
      BY <1>1, <2>1 DEF CallAt, EarlyAt, MarkerAt
  <1>5. PICK e \in Places' : e = n + m + 1
    BY <1>2
  <1>6. Places' = Places \cup {e} /\ \A k \in Places : k < e
    BY <1>2, <1>5
  <1>7. /\ CallAt(e)' = data
        /\ EarlyAt(e)' <=> data \in Raws
        /\ MarkerAt(e)' <=> data = "startCLI"
    BY <1>4, <1>5
  <1> QED
    BY <1>3, <1>6, <1>7

LEMMA WireFrame ==
  ASSUME UNCHANGED <<rx, toDevice>>
  PROVE  /\ Places' = Places
         /\ \A k \in Places : /\ CallAt(k)' = CallAt(k)
                              /\ EarlyAt(k)' <=> EarlyAt(k)
                              /\ MarkerAt(k)' <=> MarkerAt(k)
         /\ \A c \in Calls : /\ OnWire(c)' <=> OnWire(c)
                             /\ Answered(c)' <=> Answered(c)
  <1>1. Places' = Places
    BY DEF Places
  <1>2. \A k \in Places : /\ CallAt(k)' = CallAt(k)
                          /\ EarlyAt(k)' <=> EarlyAt(k)
                          /\ MarkerAt(k)' <=> MarkerAt(k)
    BY DEF CallAt, EarlyAt, MarkerAt, IsAnswer
  <1>3. \A c \in Calls : OnWire(c)' <=> OnWire(c)
    BY <1>1, <1>2 DEF OnWire
  <1>4. \A c \in Calls : Answered(c)' <=> Answered(c)
    BY DEF Answered
  <1> QED
    BY <1>1, <1>2, <1>3, <1>4

-----------------------------------------------------------------------------
(* Steps that leave the calls and the wire alone.                          *)

LEMMA HandshakeFrame ==
  ASSUME Handshake, UNCHANGED <<rx, toDevice, boot>>,
         failure' = "none" => failure = "none" /\ initialized' = initialized,
         initialized => initialized',
         boot = "ready" \/ UNCHANGED call
  PROVE  Handshake'
  <1>1. /\ Places' = Places
        /\ \A k \in Places : (EarlyAt(k)' <=> EarlyAt(k)) /\ (MarkerAt(k)' <=> MarkerAt(k))
    BY WireFrame
  <1> QED
    BY <1>1 DEF Handshake

LEMMA OnePlaceFrame ==
  ASSUME OnePlace, UNCHANGED <<rx, toDevice, pending, call>>
  PROVE  OnePlace'
  <1>1. /\ Places' = Places
        /\ \A k \in Places : CallAt(k)' = CallAt(k)
        /\ \A c \in Calls : OnWire(c)' <=> OnWire(c)
    BY WireFrame
  <1>2. \A i \in 1..Len(rx') : rx'[i].of \in Calls => IsAnswer(rx'[i])
    BY DEF OnePlace, IsAnswer
  <1> QED
    BY <1>1, <1>2 DEF OnePlace, InPending, Returned

LEMMA FifoFrame ==
  ASSUME Fifo, UNCHANGED <<rx, toDevice, pending, writeLock>>,
         port' = "open" => port = "open", pending \in Seq(Calls)
  PROVE  Fifo'
  <1>1. SlotsForTheWire' /\ LastSlotHoldsLock' /\ LinesInOrder'
    <2>1. \A c \in Calls : OnWire(c)' <=> OnWire(c)
      BY WireFrame
    <2>2. SlotsForTheWire'
      BY <2>1 DEF Fifo, SlotsForTheWire, InPending
    <2> QED
      BY <2>2 DEF Fifo, LastSlotHoldsLock, LinesInOrder
  <1>2. ASSUME port' = "open" PROVE DeviceInOrder' /\ SlotsAreOnTheirWay'
    <2>1. DeviceInOrder'
      BY <1>2 DEF Fifo, DeviceInOrder, Answered
    <2>2. SlotsAreOnTheirWay'
      <3>1. \A c \in Calls : OnWire(c)' <=> OnWire(c)
        BY WireFrame
      <3> QED
        BY <1>2, <3>1 DEF Fifo, SlotsAreOnTheirWay
    <2> QED
      BY <2>1, <2>2
  <1> QED
    BY <1>1, <1>2 DEF Fifo

LEMMA QuietStep ==
  ASSUME IInv, TypeOK', Handshake', FailureIsSet', CloseResolvesFutures',
         UNCHANGED <<rx, toDevice, pending, future, call, writeLock>>,
         port' = "open" => port = "open",
         failure' = failure \/ failure = "none"
  PROVE  IInv'
  <1>1. OnePlace'
    BY OnePlaceFrame DEF IInv
  <1>2. DequeHoldsOpen'
    BY DEF IInv, DequeHoldsOpen, InPending, IsOpen
  <1>3. ASSUME Ordered' PROVE Fifo'
    <2>1. Ordered
      BY <1>3 DEF Ordered, InPending, Returned
    <2> QED
      BY <2>1, FifoFrame DEF IInv, TypeOK
  <1>4. CorrelatedOrLost'
    BY DEF IInv, CorrelatedOrLost, Returned
  <1> QED
    BY <1>1, <1>2, <1>3, <1>4 DEF IInv

(* Nothing has happened yet.                                               *)
LEMMA BeforeReady ==
  ASSUME IInv, boot # "ready"
  PROVE  /\ pending = <<>>
         /\ \A c \in Calls : call[c] = "idle" /\ ~InPending(c) /\ ~OnWire(c)
         /\ \A k \in Places : CallAt(k) \notin Calls
         /\ writeLock \notin Calls
  <1>1. \A c \in Calls : call[c] = "idle" /\ ~InPending(c) /\ ~OnWire(c)
    BY DEF IInv, Handshake, OnePlace, Returned
  <1>2. pending = <<>>
    <2>1. ASSUME pending # <<>> PROVE FALSE
      <3>1. pending[1] \in Calls /\ 1 \in 1..Len(pending)
        BY <2>1 DEF IInv, TypeOK
      <3> QED
        BY <3>1, <1>1 DEF InPending
    <2> QED
      BY <2>1
  <1>3. writeLock \notin Calls
    BY <1>1 DEF IInv, TypeOK
  <1> QED
    BY <1>1, <1>2, <1>3 DEF OnWire

(* CloseResolvesFutures goes on: what is resolved stays so, and a closed   *)
(* port lets no further call return.                                       *)
LEMMA ResolvedFrame ==
  ASSUME IInv, port = "closed" => \A c \in Calls : Returned(c)' => Returned(c),
         \A c \in Calls : IsOpen(c)' => IsOpen(c),
         \A t \in Threads : closer'[t] \in {"join", "done"} => closer[t] \in {"join", "done"}
  PROVE  CloseResolvesFutures'
  <1> SUFFICES ASSUME NEW t \in Threads, closer'[t] \in {"join", "done"},
                      NEW c \in Calls, Returned(c)'
               PROVE  ~IsOpen(c)'
    BY DEF CloseResolvesFutures
  <1>1. closer[t] \in {"join", "done"}
    OBVIOUS
  <1>2. port = "closed"
    BY <1>1 DEF IInv, FailureIsSet
  <1> QED
    BY <1>1, <1>2 DEF IInv, CloseResolvesFutures

-----------------------------------------------------------------------------
(* open() and initialize()                                                 *)

LEMMA BootWriteInv ==
  ASSUME IInv, TypeOK', boot = "crlf" \/ boot = "start",
         BootWrite(boot, IF boot = "crlf" THEN "crlf" ELSE "startCLI",
                   IF boot = "crlf" THEN "start" ELSE "wait")
  PROVE  IInv'
  <1> DEFINE raw == IF boot = "crlf" THEN "crlf" ELSE "startCLI"
  <1>1. /\ UNCHANGED <<initialized, failure, closed, pending, future, call, writeLock>>
        /\ UNCHANGED <<reader, closer>>
        /\ boot' \in {"start", "wait", "closing"}
        /\ boot = "start" => boot' # "start"
    BY DEF BootWrite, eventVars, callVars
  <1>2. CloseResolvesFutures'
    BY <1>1, ResolvedFrame DEF Returned, IsOpen
  <1>3. CASE WriteFails
    <2>1. UNCHANGED <<rx, toDevice, port>> /\ boot' = "closing"
      BY <1>3 DEF BootWrite, WriteFails, WriteSucceeds, portVars
    <2>2. Handshake'
      <3>1. /\ Places' = Places
            /\ \A k \in Places :
                 (EarlyAt(k)' <=> EarlyAt(k)) /\ (MarkerAt(k)' <=> MarkerAt(k))
        BY <2>1, WireFrame
      <3> QED
        BY <1>1, <2>1, <3>1 DEF IInv, Handshake
    <2>3. FailureIsSet'
      BY <1>1, <2>1 DEF IInv, FailureIsSet
    <2> QED
      BY <1>1, <1>2, <2>1, <2>2, <2>3, QuietStep
  <1>4. CASE WriteSucceeds(raw)
    <2>0. raw \in Calls \cup Raws /\ raw \in Raws /\ TypeOK
      BY DEF Raws, IInv
    <2>1. PICK e \in Places' :
           /\ Places' = Places \cup {e} /\ \A k \in Places : k < e
           /\ \A k \in Places :
                /\ CallAt(k)' = CallAt(k)
                /\ EarlyAt(k)' <=> EarlyAt(k)
                /\ MarkerAt(k)' <=> MarkerAt(k)
           /\ CallAt(e)' = raw
           /\ EarlyAt(e)' <=> raw \in Raws
           /\ MarkerAt(e)' <=> raw = "startCLI"
      <3> HIDE DEF raw
      <3> QED
        BY <1>4, <2>0, WritePuts
    <2>2. UNCHANGED <<rx, port>> /\ port = "open"
      BY <1>4 DEF WriteSucceeds
    <2>3. /\ pending = <<>>
          /\ \A c \in Calls : call[c] = "idle" /\ ~InPending(c) /\ ~OnWire(c)
          /\ \A k \in Places : CallAt(k) \notin Calls
          /\ writeLock \notin Calls
      BY BeforeReady
    <2>4. \A k \in Places' : CallAt(k)' \notin Calls
      BY <2>0, <2>1, <2>3, CallsAssumption
    <2>5. \A c \in Calls : ~OnWire(c)'
      BY <2>4 DEF OnWire
    <2>6. Handshake'
      <3>1. \A k \in Places : ~MarkerAt(k)
        BY DEF IInv, Handshake
      <3>2. e \in Int /\ \A k \in Places : k \in Int
        BY <2>1, WireFacts DEF Places
      <3>3. \A k, l \in Places' : MarkerAt(k)' /\ EarlyAt(l)' => l <= k
        BY <2>1, <3>1, <3>2
      <3>4. boot' = "start" => \A k \in Places' : ~MarkerAt(k)'
        BY <1>1, <2>1, <3>1
      <3>5. failure = "none" => ~initialized
        BY DEF IInv, Handshake
      <3> QED
        BY <1>1, <2>3, <3>3, <3>4, <3>5 DEF Handshake
    <2>7. OnePlace'
      <3>1. \A i \in 1..Len(rx') : rx'[i].of \in Calls => IsAnswer(rx'[i])
        BY <2>2 DEF IInv, OnePlace, IsAnswer
      <3> QED
        BY <1>1, <2>3, <2>4, <2>5, <3>1 DEF OnePlace, InPending
    <2>8. DequeHoldsOpen' /\ FailureIsSet' /\ CorrelatedOrLost'
      BY <1>1, <2>2
      DEF IInv, DequeHoldsOpen, FailureIsSet, CorrelatedOrLost, InPending, IsOpen, Returned
    <2>9. Fifo'
      BY <1>1, <2>3, <2>5
      DEF Fifo, SlotsForTheWire, LastSlotHoldsLock, LinesInOrder, DeviceInOrder,
          SlotsAreOnTheirWay
    <2> QED
      BY <1>2, <2>6, <2>7, <2>8, <2>9 DEF IInv
  <1> QED
    BY <1>3, <1>4 DEF BootWrite

LEMMA BootInv == IInv /\ TypeOK' /\ Boot => IInv'
  <1> SUFFICES ASSUME IInv, TypeOK', Boot PROVE IInv'
    OBVIOUS
  <1>1. CASE BootCrlf \/ BootStartCLI
    <2>1. /\ boot = "crlf" \/ boot = "start"
          /\ BootWrite(boot, IF boot = "crlf" THEN "crlf" ELSE "startCLI",
                       IF boot = "crlf" THEN "start" ELSE "wait")
      BY <1>1 DEF BootCrlf, BootStartCLI, BootWrite
    <2> QED
      BY <2>1, BootWriteInv
  <1>2. CASE BootReady \/ BootTimeout \/ BootRaises
    <2>1. /\ UNCHANGED <<eventVars, callVars, reader, closer, portVars>>
          /\ boot \in {"wait", "closing"} /\ boot' \in {"ready", "closing", "failed"}
          /\ boot' = "ready" => initialized /\ failure = "none"
      BY <1>2 DEF BootReady, BootTimeout, BootRaises
    <2>2. UNCHANGED <<initialized, failure, rx, toDevice, port, pending, future, call,
                      writeLock, reader, closer>>
      BY <2>1 DEF eventVars, callVars, portVars
    <2>3. Handshake'
      <3>1. /\ Places' = Places
            /\ \A k \in Places :
                 (EarlyAt(k)' <=> EarlyAt(k)) /\ (MarkerAt(k)' <=> MarkerAt(k))
        BY <2>2, WireFrame
      <3> QED
        BY <2>1, <2>2, <3>1 DEF IInv, Handshake
    <2>4. FailureIsSet' /\ CloseResolvesFutures'
      BY <2>2 DEF IInv, FailureIsSet, CloseResolvesFutures, Returned, IsOpen
    <2> QED
      BY <2>2, <2>3, <2>4, QuietStep
  <1> QED
    BY <1>1, <1>2 DEF Boot

-----------------------------------------------------------------------------
(* command()                                                               *)

(* Once a call has begun, open() is through.                               *)
LEMMA BegunIsReady ==
  ASSUME IInv, NEW c \in Calls, call[c] # "idle" PROVE boot = "ready" /\ initialized
  BY DEF IInv, Handshake

LEMMA CheckFailureInv ==
  ASSUME IInv, TypeOK', NEW c \in Calls, CheckFailure(c)
  PROVE  IInv'
  <1>1. /\ UNCHANGED <<boot, initialized, failure, closed, pending, future, writeLock>>
        /\ UNCHANGED <<reader, closer, rx, toDevice, port, noise>>
        /\ boot = "ready" /\ call[c] = "idle"
        /\ \A d \in Calls \ {c} : call'[d] = call[d]
        /\ call'[c] \in {"checked", "raised"}
        /\ call'[c] = "raised" => failure # "none"
    BY DEF CheckFailure, Moves, eventVars, portVars, IInv, TypeOK
  <1>2. \A d \in Calls : Returned(d)' <=> Returned(d)
    BY <1>1 DEF Returned
  <1>3. \A d \in Calls : (InPending(d)' <=> InPending(d)) /\ (IsOpen(d)' <=> IsOpen(d))
    BY <1>1 DEF InPending, IsOpen
  <1>4. Handshake'
    BY <1>1, HandshakeFrame DEF IInv
  <1>5. OnePlace'
    <2>1. /\ Places' = Places
          /\ \A k \in Places : CallAt(k)' = CallAt(k)
          /\ \A d \in Calls : OnWire(d)' <=> OnWire(d)
      BY <1>1, WireFrame
    <2>2. \A i \in 1..Len(rx') : rx'[i].of \in Calls => IsAnswer(rx'[i])
      BY <1>1 DEF IInv, OnePlace, IsAnswer
    <2>3. \A d \in Calls : call'[d] \in {"idle", "checked"} => call[d] \in {"idle", "checked"}
      BY <1>1
    <2> QED
      BY <1>1, <1>2, <1>3, <2>1, <2>2, <2>3 DEF IInv, OnePlace
  <1>6. DequeHoldsOpen'
    <2>1. \A d \in Calls : /\ call'[d] \in {"idle", "checked"} => call[d] \in {"idle", "checked"}
                           /\ call'[d] \in {"appended", "returned"} => call'[d] = call[d]
      BY <1>1
    <2> QED
      BY <1>3, <2>1 DEF IInv, DequeHoldsOpen
  <1>7. FailureIsSet'
    BY <1>1 DEF IInv, FailureIsSet
  <1>8. ASSUME Ordered' PROVE Fifo'
    <2>1. Ordered
      BY <1>1, <1>2, <1>3, <1>8 DEF Ordered
    <2> QED
      BY <1>1, <2>1, FifoFrame DEF IInv, TypeOK
  <1>9. CorrelatedOrLost'
    BY <1>1, <1>2 DEF IInv, CorrelatedOrLost
  <1>10. CloseResolvesFutures'
    BY <1>1, <1>2, <1>3, ResolvedFrame
  <1> QED
    BY <1>4, <1>5, <1>6, <1>7, <1>8, <1>9, <1>10 DEF IInv

LEMMA AppendPendingInv ==
  ASSUME IInv, TypeOK', NEW c \in Calls, AppendPending(c)
  PROVE  IInv'
  <1>1. /\ UNCHANGED <<boot, initialized, failure, closed, future>>
        /\ UNCHANGED <<reader, closer, rx, toDevice, port, noise>>
        /\ call[c] = "checked" /\ call'[c] = "appended"
        /\ \A d \in Calls \ {c} : call'[d] = call[d]
        /\ writeLock = NoCall /\ writeLock' = c
        /\ pending' = Append(pending, c)
    BY DEF AppendPending, Moves, eventVars, portVars, IInv, TypeOK
  <1>2. /\ Len(pending) \in Nat /\ Len(pending') = Len(pending) + 1
        /\ \A i \in 1..Len(pending) : pending'[i] = pending[i] /\ pending[i] \in Calls
        /\ pending'[Len(pending) + 1] = c
    BY <1>1, WireFacts, AppendFacts DEF IInv
  <1>3. /\ \A d \in Calls : Returned(d)' <=> Returned(d)
        /\ \A d \in Calls : IsOpen(d)' <=> IsOpen(d)
    BY <1>1 DEF Returned, IsOpen
  <1>4. \A d \in Calls : InPending(d)' <=> InPending(d) \/ d = c
    BY <1>2 DEF InPending
  <1>5. ~InPending(c) /\ ~OnWire(c) /\ IsOpen(c)
    BY <1>1 DEF IInv, OnePlace, DequeHoldsOpen, Returned
  <1>6. Handshake'
    BY <1>1, HandshakeFrame, BegunIsReady DEF IInv
  <1>7. /\ Places' = Places
        /\ \A k \in Places : CallAt(k)' = CallAt(k)
        /\ \A d \in Calls : OnWire(d)' <=> OnWire(d)
    BY <1>1, WireFrame
  <1>8. OnePlace'
    <2>1. \A i \in 1..Len(rx') : rx'[i].of \in Calls => IsAnswer(rx'[i])
      BY <1>1 DEF IInv, OnePlace, IsAnswer
    <2>2. \A i, j \in 1..Len(pending') : pending'[i] = pending'[j] => i = j
      BY <1>2, <1>5 DEF IInv, OnePlace, InPending
    <2>3. \A d \in Calls : call'[d] \in {"idle", "checked"} => ~InPending(d)'
      BY <1>1, <1>4 DEF IInv, OnePlace
    <2> QED
      BY <1>3, <1>7, <2>1, <2>2, <2>3 DEF IInv, OnePlace
  <1>9. DequeHoldsOpen'
    BY <1>1, <1>3, <1>4, <1>5 DEF IInv, DequeHoldsOpen
  <1>10. FailureIsSet'
    BY <1>1 DEF IInv, FailureIsSet
  <1>11. ASSUME Ordered' PROVE Fifo'
    <2>1. Ordered /\ Fifo
      BY <1>1, <1>3, <1>4, <1>5, <1>11 DEF IInv, Ordered, Returned
    <2>2. SlotsForTheWire' /\ LastSlotHoldsLock'
      BY <1>1, <1>2, <1>4, <1>7, <2>1 DEF Fifo, SlotsForTheWire, LastSlotHoldsLock
    <2>3. ASSUME NEW p \in 1..Len(pending'), OnWire(pending'[p])
          PROVE  p \in 1..Len(pending) /\ pending'[p] = pending[p]
      BY <1>2, <1>5, <2>3
    <2>4. LinesInOrder'
      <3> SUFFICES ASSUME NEW p \in 1..Len(pending'), NEW q \in 1..Len(pending'),
                          NEW l \in 1..Len(rx), q < p, rx[l].of = pending'[p]
                   PROVE  \E k \in 1..Len(rx) : k < l /\ rx[k].of = pending'[q]
        BY <1>1 DEF LinesInOrder
      <3>1. OnWire(pending'[p])
        BY WireFacts DEF OnWire, Places, CallAt, IInv
      <3>2. /\ p \in 1..Len(pending) /\ pending'[p] = pending[p]
            /\ q \in 1..Len(pending) /\ pending'[q] = pending[q]
        BY <3>1, <2>3, <1>2
      <3> QED
        BY <3>2, <2>1, SMTT(30) DEF Fifo, LinesInOrder
    <2>5. ASSUME port' = "open" PROVE DeviceInOrder'
      <3> SUFFICES ASSUME NEW p \in 1..Len(pending'), NEW q \in 1..Len(pending'),
                          NEW l \in 1..Len(toDevice), q < p, toDevice[l] = pending'[p]
                   PROVE  \/ Answered(pending'[q])
                          \/ \E k \in 1..Len(toDevice) : k < l /\ toDevice[k] = pending'[q]
        BY <1>1 DEF DeviceInOrder, Answered
      <3>1. OnWire(pending'[p])
        <4>1. Len(rx) \in Nat /\ Len(toDevice) \in Nat
          BY WireFacts DEF IInv
        <4>2. Len(rx) + l \in Places /\ ~(Len(rx) + l <= Len(rx)) /\ Len(rx) + l - Len(rx) = l
          BY <4>1 DEF Places
        <4> QED
          BY <4>2 DEF OnWire, CallAt
      <3>2. /\ p \in 1..Len(pending) /\ pending'[p] = pending[p]
            /\ q \in 1..Len(pending) /\ pending'[q] = pending[q]
        BY <3>1, <2>3, <1>2
      <3> QED
        BY <3>2, <2>1, <2>5, <1>1 DEF Fifo, DeviceInOrder
    <2>6. ASSUME port' = "open" PROVE SlotsAreOnTheirWay'
      <3> SUFFICES ASSUME NEW p \in 1..Len(pending')
                   PROVE  OnWire(pending[p])' \/ pending'[p] = c
        BY <1>1 DEF SlotsAreOnTheirWay
      <3>1. CASE p \in 1..Len(pending)
        <4>1. OnWire(pending[p]) \/ pending[p] = writeLock
          BY <3>1, <2>1, <2>6, <1>1 DEF Fifo, SlotsAreOnTheirWay
        <4> QED
          BY <4>1, <3>1, <1>1, <1>2, <1>7, CallsAssumption DEF OnWire
      <3>2. CASE p = Len(pending) + 1
        BY <3>2, <1>2
      <3> QED
        BY <3>1, <3>2, <1>2
    <2> QED
      BY <2>2, <2>4, <2>5, <2>6 DEF Fifo
  <1>12. CorrelatedOrLost'
    BY <1>1, <1>3 DEF IInv, CorrelatedOrLost
  <1>13. CloseResolvesFutures'
    BY <1>1, <1>3, ResolvedFrame
  <1> QED
    BY <1>6, <1>8, <1>9, <1>10, <1>11, <1>12, <1>13 DEF IInv

(* The call goes to the device, behind all that went before.               *)
LEMMA WriteCommandInv ==
  ASSUME IInv, TypeOK', NEW c \in Calls, WriteCommand(c)
  PROVE  IInv'
  <1>1. /\ UNCHANGED <<boot, initialized, failure, closed, pending, future>>
        /\ UNCHANGED <<reader, closer, rx, port>>
        /\ call[c] = "appended" /\ call'[c] = "returned"
        /\ \A d \in Calls \ {c} : call'[d] = call[d]
        /\ writeLock' = NoCall /\ port = "open"
        /\ toDevice' = Append(toDevice, c)
        /\ WriteSucceeds(c)
    BY DEF WriteCommand, WriteSucceeds, Moves, eventVars, IInv, TypeOK
  <1>2. writeLock = c /\ c \notin Raws /\ TypeOK
    BY <1>1, CallsAssumption DEF IInv, TypeOK
  <1>3. PICK e \in Places' :
           /\ Places' = Places \cup {e} /\ \A k \in Places : k < e
           /\ \A k \in Places :
                /\ CallAt(k)' = CallAt(k)
                /\ EarlyAt(k)' <=> EarlyAt(k)
                /\ MarkerAt(k)' <=> MarkerAt(k)
           /\ CallAt(e)' = c
           /\ EarlyAt(e)' <=> c \in Raws
           /\ MarkerAt(e)' <=> c = "startCLI"
    BY <1>1, <1>2, WritePuts
  <1>4. /\ Len(toDevice) \in Nat /\ Len(toDevice') = Len(toDevice) + 1
        /\ \A i \in 1..Len(toDevice) : toDevice'[i] = toDevice[i]
        /\ toDevice'[Len(toDevice) + 1] = c
    BY <1>1, <1>2, WireFacts, AppendFacts
  <1>5. /\ \A d \in Calls : Returned(d)' <=> Returned(d) \/ d = c
        /\ \A d \in Calls : IsOpen(d)' <=> IsOpen(d)
        /\ \A d \in Calls : InPending(d)' <=> InPending(d)
        /\ \A d \in Calls : Answered(d)' <=> Answered(d)
    BY <1>1 DEF Returned, IsOpen, InPending, Answered
  <1>6. \A d \in Calls : OnWire(d)' <=> OnWire(d) \/ d = c
    BY <1>3 DEF OnWire
  <1>7. ~OnWire(c)
    BY <1>1 DEF IInv, OnePlace, Returned
  <1>8. Handshake'
    <2>1. boot = "ready" /\ initialized
      BY <1>1, BegunIsReady
    <2>2. \A k \in Places : ~EarlyAt(k)
      BY <2>1 DEF IInv, Handshake
    <2>3. \A k \in Places' : ~EarlyAt(k)'
      BY <1>2, <1>3, <2>2
    <2> QED
      BY <1>1, <2>1, <2>3 DEF Handshake
  <1>9. OnePlace'
    <2>1. \A i \in 1..Len(rx') : rx'[i].of \in Calls => IsAnswer(rx'[i])
      BY <1>1 DEF IInv, OnePlace, IsAnswer
    <2>2. \A k \in Places : CallAt(k) # c
      BY <1>7 DEF OnWire
    <2>3. \A k, l \in Places' : CallAt(k)' = CallAt(l)' /\ CallAt(k)' \in Calls => k = l
      BY <1>3, <2>2 DEF IInv, OnePlace
    <2> QED
      BY <1>1, <1>5, <1>6, <2>1, <2>3 DEF IInv, OnePlace
  <1>10. DequeHoldsOpen'
    BY <1>1, <1>5 DEF IInv, DequeHoldsOpen
  <1>11. FailureIsSet'
    BY <1>1 DEF IInv, FailureIsSet
  <1>12. failure # "closed"
    BY <1>1 DEF IInv, FailureIsSet
  <1>13. ASSUME Ordered' PROVE Fifo'
    <2>1. Fifo /\ pending \in Seq(Calls)
      BY <1>1, <1>12, <1>13 DEF IInv, Ordered, TypeOK
    <2>2. /\ pending # <<>> /\ pending[Len(pending)] = c
          /\ Len(pending) \in 1..Len(pending)
      <3>1. pending # <<>> /\ pending[Len(pending)] = c
        BY <1>2, <2>1 DEF Fifo, LastSlotHoldsLock
      <3> QED
        BY <2>1, <3>1
    <2>3. InPending(c)
      BY <2>2 DEF InPending
    <2>4. SlotsForTheWire' /\ LastSlotHoldsLock'
      BY <1>1, <1>5, <1>6, <2>1, <2>3, CallsAssumption
      DEF Fifo, SlotsForTheWire, LastSlotHoldsLock
    <2>5. LinesInOrder'
      BY <1>1, <2>1 DEF Fifo, LinesInOrder
    <2>6. SlotsAreOnTheirWay
      BY <1>1, <2>1 DEF Fifo
    <2>7. DeviceInOrder'
      <3> SUFFICES ASSUME NEW p \in 1..Len(pending), NEW q \in 1..Len(pending),
                          NEW l \in 1..Len(toDevice'), q < p, toDevice'[l] = pending[p]
                   PROVE  \/ Answered(pending[q])
                          \/ \E k \in 1..Len(toDevice') : k < l /\ toDevice'[k] = pending[q]
        BY <1>1 DEF DeviceInOrder, Answered
      <3>1. CASE l \in 1..Len(toDevice)
        <4>1. \/ Answered(pending[q])
              \/ \E k \in 1..Len(toDevice) : k < l /\ toDevice[k] = pending[q]
          BY <3>1, <1>1, <1>4, <2>1 DEF Fifo, DeviceInOrder
        <4> QED
          BY <4>1, <1>4
      <3>2. CASE l = Len(toDevice) + 1
        <4>1. q # Len(pending) /\ pending[q] # c
          <5>1. q # Len(pending)
            BY <2>1
          <5> QED
            BY <5>1, <2>2 DEF IInv, OnePlace
        <4>2. PICK k \in Places : CallAt(k) = pending[q]
          BY <4>1, <2>6, <1>2 DEF SlotsAreOnTheirWay, OnWire
        <4>3. CASE k <= Len(rx)
          <5>1. k \in 1..Len(rx) /\ rx[k].of = pending[q]
            BY <4>2, <4>3, <1>2, WireFacts DEF Places, CallAt
          <5> QED
            BY <5>1 DEF Answered
        <4>4. CASE ~(k <= Len(rx))
          <5>1. k - Len(rx) \in 1..Len(toDevice) /\ toDevice[k - Len(rx)] = pending[q]
            BY <4>2, <4>4, <1>2, WireFacts DEF Places, CallAt
          <5> QED
            BY <5>1, <3>2, <1>4
        <4> QED
          BY <4>3, <4>4
      <3> QED
        BY <3>1, <3>2, <1>4
    <2>8. SlotsAreOnTheirWay'
      <3> SUFFICES ASSUME NEW p \in 1..Len(pending)
                   PROVE  OnWire(pending[p])'
        BY <1>1 DEF SlotsAreOnTheirWay
      <3>1. OnWire(pending[p]) \/ pending[p] = c
        BY <2>6, <1>2 DEF SlotsAreOnTheirWay
      <3>2. pending[p] \in Calls /\ pending'[p] = pending[p]
        BY <1>1, <2>1
      <3>3. \E k \in Places' : CallAt(k)' = pending[p]
        BY <3>1, <1>3 DEF OnWire
      <3> QED
        BY <3>2, <3>3 DEF OnWire
    <2> QED
      BY <2>4, <2>5, <2>7, <2>8 DEF Fifo
  <1>14. CorrelatedOrLost'
    BY <1>1, <1>12 DEF IInv, CorrelatedOrLost
  <1>15. CloseResolvesFutures'
    BY <1>1, <1>5, ResolvedFrame
  <1> QED
    BY <1>8, <1>9, <1>10, <1>11, <1>13, <1>14, <1>15 DEF IInv

LEMMA WriteCommandFailsInv ==
  ASSUME IInv, TypeOK', NEW c \in Calls, WriteCommandFails(c)
  PROVE  IInv'
  <1>1. /\ UNCHANGED <<boot, closed, pending, future, writeLock>>
        /\ UNCHANGED <<reader, closer, rx, toDevice, port>>
        /\ call[c] = "appended" /\ call'[c] = "failing"
        /\ \A d \in Calls \ {c} : call'[d] = call[d]
        /\ failure' = IF failure = "none" THEN "write" ELSE failure
        /\ initialized'
    BY DEF WriteCommandFails, WriteFails, SetFailure, Moves, portVars, IInv, TypeOK
  <1>2. /\ \A d \in Calls : Returned(d)' <=> Returned(d)
        /\ \A d \in Calls : (IsOpen(d)' <=> IsOpen(d)) /\ (InPending(d)' <=> InPending(d))
    BY <1>1 DEF Returned, IsOpen, InPending
  <1>3. Handshake'
    BY <1>1, HandshakeFrame, BegunIsReady DEF IInv
  <1>4. OnePlace'
    <2>1. /\ Places' = Places
          /\ \A k \in Places : CallAt(k)' = CallAt(k)
          /\ \A d \in Calls : OnWire(d)' <=> OnWire(d)
      BY <1>1, WireFrame
    <2>2. \A i \in 1..Len(rx') : rx'[i].of \in Calls => IsAnswer(rx'[i])
      BY <1>1 DEF IInv, OnePlace, IsAnswer
    <2>3. \A d \in Calls : call'[d] \in {"idle", "checked"} => call[d] \in {"idle", "checked"}
      BY <1>1
    <2> QED
      BY <1>1, <1>2, <2>1, <2>2, <2>3 DEF IInv, OnePlace
  <1>5. DequeHoldsOpen'
    <2>1. \A d \in Calls : call'[d] \in {"idle", "checked", "appended", "returned"} =>
                              call'[d] = call[d]
      BY <1>1
    <2> QED
      BY <1>2, <2>1 DEF IInv, DequeHoldsOpen
  <1>6. FailureIsSet'
    BY <1>1 DEF IInv, FailureIsSet
  <1>7. ASSUME Ordered' PROVE Fifo'
    <2>1. Ordered
      BY <1>1, <1>2, <1>7 DEF Ordered
    <2> QED
      BY <1>1, <2>1, FifoFrame DEF IInv, TypeOK
  <1>8. CorrelatedOrLost'
    BY <1>1, <1>2 DEF IInv, CorrelatedOrLost
  <1>9. CloseResolvesFutures'
    BY <1>1, <1>2, ResolvedFrame
  <1> QED
    BY <1>3, <1>4, <1>5, <1>6, <1>7, <1>8, <1>9 DEF IInv

(* _fail takes the whole deque, and every future that waits is done.       *)
LEMMA DrainInv ==
  ASSUME IInv, TypeOK', DrainPending,
         UNCHANGED <<boot, initialized, failure, rx, toDevice, port>>,
         failure # "none", FailureIsSet',
         \A c \in Calls : \/ call'[c] = call[c]
                          \/ call[c] = "failing" /\ call'[c] = "raised"
  PROVE  IInv'
  <1>1. /\ pending' = <<>>
        /\ \A c \in Calls : ~InPending(c)'
        /\ \A c \in Calls : future'[c] = IF InPending(c) /\ IsOpen(c) THEN Failed ELSE future[c]
    BY DEF DrainPending, InPending
  <1>2. /\ \A c \in Calls : Returned(c)' <=> Returned(c)
        /\ Failed # Open
    BY DEF Returned, Failed, Open
  <1>3. Handshake'
    <2>1. boot = "ready" \/ \A c \in Calls : call'[c] = call[c]
      BY DEF IInv, Handshake
    <2>2. /\ Places' = Places
          /\ \A k \in Places : (EarlyAt(k)' <=> EarlyAt(k)) /\ (MarkerAt(k)' <=> MarkerAt(k))
      BY WireFrame
    <2> QED
      BY <2>1, <2>2 DEF IInv, Handshake
  <1>4. OnePlace'
    <2>1. /\ Places' = Places
          /\ \A k \in Places : CallAt(k)' = CallAt(k)
          /\ \A d \in Calls : OnWire(d)' <=> OnWire(d)
      BY WireFrame
    <2>2. \A i \in 1..Len(rx') : rx'[i].of \in Calls => IsAnswer(rx'[i])
      BY DEF IInv, OnePlace, IsAnswer
    <2> QED
      BY <1>1, <1>2, <2>1, <2>2 DEF IInv, OnePlace
  <1>5. DequeHoldsOpen'
    <2>1. \A c \in Calls : IsOpen(c)' => IsOpen(c) /\ ~InPending(c)
      BY <1>1, <1>2 DEF IsOpen
    <2>2. \A c \in Calls : call'[c] \in {"idle", "checked", "appended", "returned"} =>
                              call'[c] = call[c]
      OBVIOUS
    <2>3. \A c \in Calls : call[c] \in {"idle", "checked"} => IsOpen(c)'
      BY <1>1 DEF IInv, OnePlace, DequeHoldsOpen, IsOpen
    <2> QED
      BY <1>1, <2>1, <2>2, <2>3 DEF IInv, DequeHoldsOpen
  <1>6. ~Ordered'
    BY <1>1 DEF Ordered
  <1>7. CorrelatedOrLost'
    BY <1>1, <1>2 DEF IInv, CorrelatedOrLost, Failed
  <1>8. CloseResolvesFutures'
    BY <1>1, <1>5 DEF CloseResolvesFutures, DequeHoldsOpen, Returned
  <1> QED
    BY <1>3, <1>4, <1>5, <1>6, <1>7, <1>8 DEF IInv

LEMMA CallInv ==
  ASSUME IInv, TypeOK', NEW c \in Calls, CheckFailure(c) \/ CallStep(c)
  PROVE  IInv'
  <1>1. CASE CommandRaises(c)
    <2>1. /\ DrainPending
          /\ UNCHANGED <<boot, initialized, failure, rx, toDevice, port, reader, closer>>
          /\ call[c] = "failing" /\ call' = [call EXCEPT ![c] = "raised"]
      BY <1>1 DEF CommandRaises, Moves, eventVars, portVars
    <2>2. /\ failure # "none"
          /\ \A d \in Calls : \/ call'[d] = call[d]
                              \/ call[d] = "failing" /\ call'[d] = "raised"
      <3>1. failure # "none"
        BY <2>1 DEF IInv, FailureIsSet
      <3>2. call \in [Calls -> {"idle", "checked", "appended", "returned",
                               "failing", "raised"}]
        BY DEF IInv, TypeOK
      <3>3. \A d \in Calls \ {c} : call'[d] = call[d]
        BY <2>1, <3>2
      <3>4. call[c] = "failing" /\ call'[c] = "raised"
        BY <2>1, <3>2
      <3> QED
        BY <3>1, <3>3, <3>4
    <2>3. FailureIsSet'
      BY <2>1, <2>2 DEF IInv, FailureIsSet
    <2>4. UNCHANGED <<boot, initialized, failure, rx, toDevice, port>>
      BY <2>1
    <2> QED
      BY <2>1, <2>2, <2>3, <2>4, DrainInv
  <1> QED
    BY <1>1, CheckFailureInv, AppendPendingInv, WriteCommandInv, WriteCommandFailsInv
    DEF CallStep

-----------------------------------------------------------------------------
(* _reader_loop                                                            *)

(* The handshake ends when the marker is read.                             *)
LEMMA ReaderHandshake ==
  ASSUME IInv, TypeOK', ReaderLine
  PROVE  Handshake'
  <1>1. /\ UNCHANGED <<boot, failure, call>>
        /\ initialized' = (initialized \/ rx[1].kind = "@@@")
    BY ReaderLineMoves DEF ReaderLine, handleLine, IInv, TypeOK
  <1>2. MarkerAt(1) <=> rx[1].kind = "@@@"
    BY ReaderLineMoves DEF MarkerAt, IInv
  <1>3. /\ (\A k, l \in Places : MarkerAt(k) /\ EarlyAt(l) => l <= k)'
        /\ (\A k \in Places : ~MarkerAt(k)) => (\A k \in Places : ~MarkerAt(k))'
        /\ (\A k \in Places : ~EarlyAt(k)) => (\A k \in Places : ~EarlyAt(k))'
    BY ReaderLineShifts, ShiftKeeps DEF IInv, Handshake
  <1>4. boot \in {"crlf", "start"} => ~MarkerAt(1)
    BY ReaderLineMoves DEF IInv, Handshake
  <1>5. ASSUME MarkerAt(1) PROVE \A k \in Places' : ~EarlyAt(k)'
    <2> SUFFICES ASSUME NEW k \in Places', EarlyAt(k)' PROVE FALSE
      OBVIOUS
    <2>1. k + 1 \in Places /\ EarlyAt(k + 1) /\ 1 \in Places /\ k >= 1 /\ k \in Int
      BY ReaderLineMoves, WireFacts DEF IInv
    <2>2. k + 1 <= 1
      BY <2>1, <1>5 DEF IInv, Handshake
    <2> QED
      BY <2>1, <2>2
  <1> QED
    BY <1>1, <1>2, <1>3, <1>4, <1>5 DEF IInv, Handshake

(* The first line and, unless it is of no interest, the first slot are     *)
(* taken together: `taken` is how many slots are.                          *)
LEMMA TakeFifo ==
  ASSUME IInv, TypeOK', ReaderLine, Fifo, NEW taken \in {0, 1},
         Len(pending') = Len(pending) - taken,
         \A p \in 1..Len(pending') : pending'[p] = pending[p + taken],
         taken = 0 => rx[1].of \notin Calls,
         taken = 1 => pending # <<>> /\ pending[1] = rx[1].of
  PROVE  Fifo'
  <1> PICK n \in Nat, m \in Nat : n = Len(pending) /\ m = Len(pending')
    BY WireFacts DEF IInv, TypeOK
  <1>1. /\ \A p \in 1..n : pending[p] \in Calls
        /\ m = n - taken
        /\ taken = 1 => n >= 1
    BY WireFacts DEF IInv
  <1>2. \A p \in 1..m : /\ pending'[p] = pending[p + taken] /\ p + taken \in 1..n
                        /\ pending[p + taken] # rx[1].of
    <2> TAKE p \in 1..m
    <2>1. pending'[p] = pending[p + taken] /\ p + taken \in 1..n
      BY <1>1
    <2>2. ASSUME taken = 1 PROVE pending[p + taken] # pending[1]
      <3>1. p + taken # 1 /\ 1 \in 1..n
        BY <1>1, <2>2
      <3> QED
        BY <3>1, <2>1 DEF IInv, OnePlace
    <2> QED
      BY <1>1, <2>1, <2>2
  <1>12. \A p, q \in 1..m : q < p => q + taken < p + taken
    OBVIOUS
  <1>3. /\ UNCHANGED <<toDevice, call, writeLock, port>>
        /\ Len(rx) \in Nat \ {0} /\ Len(rx') = Len(rx) - 1
        /\ \A i \in 1..Len(rx') : rx'[i] = rx[i + 1] /\ i + 1 \in 1..Len(rx)
    BY ReaderLineMoves DEF ReaderLine, IInv
  <1>4. ASSUME NEW c \in Calls, OnWire(c)' PROVE OnWire(c) /\ c # rx[1].of
    <2>1. PICK k \in Places' : CallAt(k)' = c
      BY <1>4 DEF OnWire
    <2>2. /\ k + 1 \in Places /\ CallAt(k + 1) = c /\ 1 \in Places
          /\ CallAt(1) = rx[1].of /\ k + 1 # 1
      BY <2>1, ReaderLineMoves, WireFacts DEF IInv
    <2> QED
      BY <2>2 DEF OnWire, IInv, OnePlace
  <1>5. ASSUME NEW c \in Calls, OnWire(c), c # rx[1].of PROVE OnWire(c)'
    <2>1. PICK k \in Places : CallAt(k) = c
      BY <1>5 DEF OnWire
    <2>2. k # 1 /\ k \in Int
      BY <2>1, <1>5, ReaderLineMoves, WireFacts DEF IInv, Places
    <2>3. k - 1 \in Places' /\ k - 1 + 1 = k
      BY <2>1, <2>2, ReaderLineMoves, WireFacts DEF IInv, Places
    <2>4. CallAt(k - 1)' = c
      BY <2>1, <2>3, ReaderLineMoves DEF IInv
    <2> QED
      BY <2>3, <2>4 DEF OnWire
  <1>6. ASSUME NEW c, c # rx[1].of, NEW l \in 1..Len(rx), rx[l].of = c
        PROVE  l - 1 \in 1..Len(rx') /\ rx'[l - 1].of = c
    <2>1. l - 1 \in 1..Len(rx') /\ l - 1 + 1 = l
      BY <1>3, <1>6
    <2> QED
      BY <2>1, <1>3, <1>6
  <1>7. SlotsForTheWire'
    <2> SUFFICES ASSUME NEW c \in Calls, OnWire(c)' PROVE InPending(c)'
      BY DEF SlotsForTheWire
    <2>1. PICK p \in 1..n : pending[p] = c
      BY <1>4 DEF Fifo, SlotsForTheWire, InPending
    <2>2. taken = 1 => p # 1
      BY <2>1, <1>4
    <2>3. p - taken \in 1..m /\ p - taken + taken = p
      BY <2>2, <1>1
    <2>4. pending'[p - taken] = c
      BY <1>2, <2>1, <2>3
    <2> QED
      BY <2>3, <2>4 DEF InPending
  <1>8. LastSlotHoldsLock'
    <2> SUFFICES ASSUME writeLock \in Calls
                 PROVE  pending' # <<>> /\ pending'[m] = writeLock
      BY <1>3 DEF LastSlotHoldsLock
    <2>1. pending # <<>> /\ pending[n] = writeLock /\ n >= 1
      BY <1>1 DEF Fifo, LastSlotHoldsLock, IInv, TypeOK
    <2>2. call[writeLock] # "returned"
      BY DEF IInv, TypeOK
    <2>3. ~OnWire(writeLock)
      BY <2>2 DEF IInv, OnePlace, Returned
    <2>4. rx[1].of # writeLock
      BY <2>3, ReaderLineMoves DEF OnWire, IInv
    <2>5. m \in 1..m
      BY <2>1, <2>4, <1>1
    <2>6. m + taken = n /\ pending' # <<>>
      BY <1>1, <2>5
    <2> QED
      BY <1>2, <2>1, <2>5, <2>6
  <1>9. LinesInOrder'
    <2> SUFFICES ASSUME NEW p \in 1..Len(pending'), NEW q \in 1..Len(pending'),
                        NEW l \in 1..Len(rx'), q < p,
                        rx'[l].of = pending'[p]
                 PROVE  \E k \in 1..Len(rx') : k < l /\ rx'[k].of = pending'[q]
      BY DEF LinesInOrder
    <2>1. /\ pending'[p] = pending[p + taken] /\ p + taken \in 1..n
          /\ pending'[q] = pending[q + taken] /\ q + taken \in 1..n
          /\ q + taken < p + taken /\ pending[q + taken] # rx[1].of
      BY <1>2, <1>12
    <2>2. l + 1 \in 1..Len(rx) /\ rx[l + 1].of = pending[p + taken]
      BY <1>3, <2>1
    <2>3. PICK k \in 1..Len(rx) : k < l + 1 /\ rx[k].of = pending[q + taken]
      BY <2>1, <2>2 DEF Fifo, LinesInOrder
    <2>4. k - 1 \in 1..Len(rx') /\ rx'[k - 1].of = pending[q + taken]
      BY <2>1, <2>3, <1>6
    <2> QED
      BY <2>1, <2>3, <2>4, SMTT(30)
  <1>10. ASSUME port = "open" PROVE DeviceInOrder'
    <2> SUFFICES ASSUME NEW p \in 1..Len(pending'), NEW q \in 1..Len(pending'),
                        NEW l \in 1..Len(toDevice), q < p,
                        toDevice[l] = pending'[p]
                 PROVE  \/ Answered(pending[q])'
                        \/ \E k \in 1..Len(toDevice) : k < l /\ toDevice[k] = pending'[q]
      BY <1>3, ZenonT(30) DEF DeviceInOrder, Answered
    <2>1. /\ pending'[p] = pending[p + taken] /\ p + taken \in 1..n
          /\ pending'[q] = pending[q + taken] /\ q + taken \in 1..n
          /\ q + taken < p + taken /\ pending[q + taken] # rx[1].of
      BY <1>2, <1>12
    <2>2. \/ Answered(pending[q + taken])
          \/ \E k \in 1..Len(toDevice) : k < l /\ toDevice[k] = pending[q + taken]
      <3>1. DeviceInOrder /\ toDevice[l] = pending[p + taken]
        BY <1>10, <2>1 DEF Fifo
      <3> QED
        BY <2>1, <3>1 DEF DeviceInOrder
    <2>3. CASE Answered(pending[q + taken])
      <3>1. PICK i \in 1..Len(rx) : rx[i].of = pending[q + taken]
        BY <2>3 DEF Answered
      <3>2. i - 1 \in 1..Len(rx') /\ rx'[i - 1].of = pending[q + taken]
        BY <2>1, <3>1, <1>6
      <3> QED
        BY <2>1, <3>2 DEF Answered
    <2> QED
      BY <2>1, <2>2, <2>3
  <1>11. ASSUME port = "open" PROVE SlotsAreOnTheirWay'
    <2> SUFFICES ASSUME NEW p \in 1..m
                 PROVE  OnWire(pending[p])' \/ pending'[p] = writeLock
      BY <1>3 DEF SlotsAreOnTheirWay
    <2>1. PICK c \in Calls : c = pending[p + taken] /\ c = pending'[p] /\ c # rx[1].of
      BY <1>1, <1>2
    <2>2. OnWire(c) \/ c = writeLock
      BY <1>2, <1>11, <2>1 DEF Fifo, SlotsAreOnTheirWay
    <2>3. OnWire(c) => OnWire(c)'
      BY <1>5, <2>1
    <2> QED
      BY <2>1, <2>2, <2>3 DEF OnWire
  <1> QED
    BY <1>3, <1>7, <1>8, <1>9, <1>10, <1>11 DEF Fifo

(* A line of no interest; or an answer, which takes the oldest slot.       *)
LEMMA ReaderTakes ==
  ASSUME IInv, ReaderLine
  PROVE  \/ /\ UNCHANGED <<pending, future>>
            /\ pending # <<>> => rx[1].of \notin Calls
         \/ /\ pending # <<>> /\ pending' = Tail(pending)
            /\ boot = "ready" /\ rx[1].of \in Calls
            /\ \E tag \in {"success", "error"} :
                 future' = [future EXCEPT ![pending[1]] = [tag |-> tag, of |-> rx[1].of]]
  <1>1. TypeOK /\ Head(rx) = rx[1] /\ 1 \in Places /\ CallAt(1) = rx[1].of
    BY ReaderLineMoves DEF IInv
  <1>2. CASE ~initialized
    <2>1. rx[1].of \notin Calls
      BY <1>1, <1>2, BeforeReady DEF IInv, Handshake
    <2> QED
      BY <1>2, <2>1 DEF ReaderLine, handleLine
  <1>3. CASE initialized /\ ~IsAnswer(rx[1])
    <2>1. rx[1].of \notin Calls
      BY <1>1, <1>3, ReaderLineMoves DEF IInv, OnePlace
    <2> QED
      BY <1>1, <1>3, <2>1 DEF ReaderLine, handleLine, IsAnswer
  <1>4. CASE initialized /\ IsAnswer(rx[1]) /\ pending = <<>>
    BY <1>1, <1>4 DEF ReaderLine, handleLine, IsAnswer, complete
  <1>5. CASE initialized /\ IsAnswer(rx[1]) /\ pending # <<>>
    <2>1. boot = "ready"
      BY <1>5, BeforeReady
    <2>2. ~EarlyAt(1)
      BY <1>1, <2>1 DEF IInv, Handshake
    <2>3. rx[1] \in Lines /\ rx[1].of # NoCall
      BY <1>1, <1>5, <2>2, ReaderLineMoves DEF EarlyAt
    <2>4. rx[1].of \in Calls
      BY <2>3 DEF Lines
    <2>5. Head(pending) = pending[1]
      BY <1>1, <1>5, TailFacts DEF TypeOK
    <2>6. /\ pending' = Tail(pending)
          /\ future' = [future EXCEPT ![Head(pending)] =
                          [tag |-> IF rx[1].kind = "R" THEN "success" ELSE "error",
                           of |-> rx[1].of]]
      BY <1>1, <1>5 DEF ReaderLine, handleLine, IsAnswer, complete
    <2>7. (IF rx[1].kind = "R" THEN "success" ELSE "error") \in {"success", "error"}
      OBVIOUS
    <2> QED
      BY <1>5, <2>1, <2>4, <2>5, <2>6, <2>7
  <1> QED
    BY <1>2, <1>3, <1>4, <1>5

(* The oldest slot is that of the call the line answers.                   *)
LEMMA OldestIsAnswered ==
  ASSUME TypeOK, Fifo, rx # <<>>, rx[1].of \in Calls
  PROVE  pending # <<>> /\ pending[1] = rx[1].of
  <1>1. 1 \in 1..Len(rx) /\ 1 \in Places /\ CallAt(1) = rx[1].of
    BY WireFacts DEF Places, CallAt
  <1>2. PICK p \in 1..Len(pending) : pending[p] = rx[1].of
    BY <1>1 DEF Fifo, SlotsForTheWire, OnWire, InPending
  <1>3. Len(pending) \in Nat /\ 1 \in 1..Len(pending) /\ pending # <<>>
    BY <1>2, WireFacts
  <1>4. ASSUME p # 1 PROVE FALSE
    <2>1. 1 < p
      BY <1>3, <1>4
    <2>2. PICK k \in 1..Len(rx) : k < 1
      BY <1>1, <1>2, <1>3, <2>1 DEF Fifo, LinesInOrder
    <2> QED
      BY <2>2, WireFacts
  <1> QED
    BY <1>2, <1>3, <1>4

LEMMA ReaderLineInv ==
  ASSUME IInv, TypeOK', ReaderLine
  PROVE  IInv'
  <1>1. /\ UNCHANGED <<boot, failure, closed, call, writeLock, reader, closer, port>>
        /\ reader = "poll" /\ rx # <<>> /\ TypeOK
    BY DEF ReaderLine, IInv
  <1>2. Handshake'
    BY ReaderHandshake
  <1>3. FailureIsSet'
    BY <1>1 DEF IInv, FailureIsSet
  <1>4. \A c \in Calls : Returned(c)' <=> Returned(c)
    BY <1>1 DEF Returned
  <1>5. /\ \A c \in Calls : OnWire(c)' => Returned(c)
        /\ (\A k, l \in Places : CallAt(k) = CallAt(l) /\ CallAt(k) \in Calls => k = l)'
    BY <1>1, ReaderLineShifts, ShiftKeeps DEF IInv, OnePlace
  <1>6. \A i \in 1..Len(rx') : rx'[i].of \in Calls => IsAnswer(rx'[i])
    BY <1>1, ReaderLineMoves DEF IInv, OnePlace
  <1>7. CASE /\ UNCHANGED <<pending, future>>
             /\ pending # <<>> => rx[1].of \notin Calls
    <2>1. \A c \in Calls : (InPending(c)' <=> InPending(c)) /\ (IsOpen(c)' <=> IsOpen(c))
      BY <1>7 DEF InPending, IsOpen
    <2>2. OnePlace'
      <3>1. \A i, j \in 1..Len(pending') : pending'[i] = pending'[j] => i = j
        BY <1>7 DEF IInv, OnePlace
      <3> QED
        BY <1>1, <1>4, <1>5, <1>6, <2>1, <3>1 DEF IInv, OnePlace
    <2>3. DequeHoldsOpen' /\ CorrelatedOrLost'
      BY <1>1, <1>4, <1>7, <2>1 DEF IInv, DequeHoldsOpen, CorrelatedOrLost
    <2>4. ASSUME Ordered' PROVE Fifo'
      <3>1. Fifo
        BY <1>1, <1>4, <2>1, <2>4 DEF IInv, Ordered
      <3>2. rx[1].of \notin Calls
        BY <1>1, <1>7, <3>1, OldestIsAnswered
      <3>3. /\ Len(pending') = Len(pending) - 0
            /\ \A p \in 1..Len(pending') : pending'[p] = pending[p + 0]
        BY <1>1, <1>7, WireFacts
      <3> QED
        BY <3>1, <3>2, <3>3, TakeFifo
    <2>5. CloseResolvesFutures'
      BY <1>1, <1>4, <2>1, ResolvedFrame
    <2> QED
      BY <1>2, <1>3, <2>2, <2>3, <2>4, <2>5 DEF IInv
  <1>8. ASSUME pending # <<>>, pending' = Tail(pending), rx[1].of \in Calls,
               NEW tag \in {"success", "error"},
               future' = [future EXCEPT ![pending[1]] = [tag |-> tag, of |-> rx[1].of]]
        PROVE  IInv'
    <2>1. PICK n \in Nat : n = Len(pending)
      BY <1>1, WireFacts
    <2>2. /\ n >= 1 /\ Len(pending') = n - 1 /\ pending[1] \in Calls
          /\ \A p \in 1..(n - 1) : pending'[p] = pending[p + 1]
      BY <1>1, <1>8, <2>1, TailFacts DEF TypeOK
    <2>3. PICK h \in Calls : h = pending[1]
      BY <2>2
    <2>4. /\ future'[h] = [tag |-> tag, of |-> rx[1].of]
          /\ \A c \in Calls \ {h} : future'[c] = future[c]
      BY <1>1, <1>8, <2>3 DEF TypeOK
    <2>5. \A i, j \in 1..n : pending[i] = pending[j] => i = j
      BY <2>1 DEF IInv, OnePlace
    <2>6. ASSUME NEW c \in Calls
          PROVE  InPending(c)' <=> InPending(c) /\ c # h
      <3>1. ASSUME InPending(c)' PROVE InPending(c) /\ c # h
        <4>1. PICK p \in 1..(n - 1) : pending'[p] = c
          BY <2>2, <3>1 DEF InPending
        <4>2. p + 1 \in 1..n /\ 1 \in 1..n /\ p + 1 # 1 /\ pending[p + 1] = c
          BY <2>2, <4>1
        <4> QED
          BY <2>1, <2>3, <2>5, <4>2 DEF InPending
      <3>2. ASSUME InPending(c), c # h PROVE InPending(c)'
        <4>1. PICK p \in 1..n : pending[p] = c
          BY <2>1, <3>2 DEF InPending
        <4>2. p # 1
          BY <2>3, <3>2, <4>1
        <4>3. p - 1 \in 1..(n - 1) /\ p - 1 + 1 = p
          BY <4>2
        <4>4. pending'[p - 1] = c
          BY <2>2, <4>1, <4>3
        <4> QED
          BY <2>2, <4>3, <4>4 DEF InPending
      <3> QED
        BY <3>1, <3>2
    <2>7. InPending(h)
      BY <2>1, <2>2, <2>3 DEF InPending
    <2>8. \A c \in Calls : IsOpen(c)' <=> IsOpen(c) /\ c # h
      BY <2>4 DEF IsOpen, Open
    <2>9. OnePlace'
      <3>1. \A i, j \in 1..Len(pending') : pending'[i] = pending'[j] => i = j
        <4> SUFFICES ASSUME NEW i \in 1..(n - 1), NEW j \in 1..(n - 1), pending'[i] = pending'[j]
                     PROVE  i = j
          BY <2>2
        <4>1. i + 1 \in 1..n /\ j + 1 \in 1..n /\ pending[i + 1] = pending[j + 1]
          BY <2>2
        <4>2. i + 1 = j + 1
          BY <2>5, <4>1
        <4> QED
          BY <4>2
      <3> QED
        BY <1>1, <1>4, <1>5, <1>6, <2>6, <3>1 DEF IInv, OnePlace
    <2>10. DequeHoldsOpen'
      <3>1. \A c \in Calls : call[c] \in {"idle", "checked"} => c # h
        BY <2>7 DEF IInv, OnePlace
      <3> QED
        BY <1>1, <2>6, <2>8, <3>1 DEF IInv, DequeHoldsOpen
    <2>11. ASSUME Ordered PROVE Fifo /\ h = rx[1].of
      <3>1. Fifo
        BY <2>11 DEF IInv
      <3> QED
        BY <1>1, <1>8, <2>3, <3>1, OldestIsAnswered
    <2>12. ASSUME Ordered' PROVE Fifo'
      <3>1. Ordered
        BY <1>1, <1>4, <2>6, <2>12 DEF Ordered
      <3>2. /\ Len(pending') = Len(pending) - 1
            /\ \A p \in 1..Len(pending') : pending'[p] = pending[p + 1]
        BY <2>1, <2>2
      <3> QED
        BY <1>8, <2>3, <2>11, <3>1, <3>2, TakeFifo
    <2>13. CorrelatedOrLost'
      <3> SUFFICES ASSUME failure # "write", NEW c \in Calls,
                          future'[c].tag \in {"success", "error"}
                   PROVE  \/ future'[c].of = c
                          \/ failure = "closed" /\ ~Returned(c)
        BY <1>1, <1>4 DEF CorrelatedOrLost
      <3>1. CASE c # h
        BY <2>4, <3>1 DEF IInv, CorrelatedOrLost
      <3>2. CASE c = h /\ Ordered
        BY <2>4, <2>11, <3>2
      <3>3. CASE c = h /\ ~Ordered
        <4>1. failure \in {"write", "read", "closed"}
          BY <1>1, <3>3 DEF Ordered, TypeOK
        <4>2. failure = "closed"
          BY <1>1, <4>1 DEF IInv, FailureIsSet
        <4> QED
          BY <2>7, <3>3, <4>2 DEF Ordered
      <3> QED
        BY <3>1, <3>2, <3>3
    <2>14. CloseResolvesFutures'
      BY <1>1, <1>4, <2>8, ResolvedFrame
    <2> QED
      BY <1>2, <1>3, <2>9, <2>10, <2>12, <2>13, <2>14 DEF IInv
  <1> QED
    BY <1>7, <1>8, ReaderTakes

LEMMA ReaderInv == IInv /\ TypeOK' /\ Reader => IInv'
  <1> SUFFICES ASSUME IInv, TypeOK', Reader PROVE IInv'
    OBVIOUS
  <1>1. CASE ReaderStops \/ ReaderFails
    <2>1. /\ UNCHANGED <<boot, pending, future, call, writeLock, closer, rx, toDevice, port>>
          /\ reader = "poll" /\ reader' \in {"stopped", "failing"}
          /\ initialized => initialized'
          /\ failure' = failure \/ (failure = "none" /\ failure' = "read")
          /\ failure' = "none" => failure = "none" /\ initialized' = initialized
          /\ reader' = "failing" => failure' # "none"
      BY <1>1
      DEF ReaderStops, ReaderFails, SetFailure, eventVars, callVars, portVars, IInv, TypeOK
    <2>2. Handshake'
      BY <2>1, HandshakeFrame DEF IInv
    <2>3. FailureIsSet'
      BY <2>1 DEF IInv, FailureIsSet
    <2>4. CloseResolvesFutures'
      BY <2>1 DEF IInv, CloseResolvesFutures, Returned, IsOpen
    <2> QED
      BY <2>1, <2>2, <2>3, <2>4, QuietStep
  <1>2. CASE ReaderEnds
    <2>1. /\ UNCHANGED <<boot, initialized, failure, rx, toDevice, port>>
          /\ UNCHANGED <<call, closer>>
          /\ DrainPending /\ failure # "none" /\ reader' = "stopped"
      BY <1>2 DEF ReaderEnds, eventVars, portVars, IInv, FailureIsSet
    <2>2. FailureIsSet'
      BY <2>1 DEF IInv, FailureIsSet
    <2>3. \A c \in Calls : \/ call'[c] = call[c]
                           \/ call[c] = "failing" /\ call'[c] = "raised"
      BY <2>1
    <2> QED
      BY <2>1, <2>2, <2>3, DrainInv
  <1> QED
    BY <1>1, <1>2, ReaderLineInv DEF Reader

-----------------------------------------------------------------------------
(* close()                                                                 *)

LEMMA CloserInv ==
  ASSUME IInv, TypeOK', NEW t \in Threads, CloseChecks(t) \/ CloseStep(t)
  PROVE  IInv'
  <1>1. closer \in [Threads -> {"idle", "skipped", "set", "serial", "fail",
                               "drain", "join", "done"}]
    BY DEF IInv, TypeOK
  <1>2. CASE CloseDrains(t)
    <2>1. /\ UNCHANGED <<boot, initialized, failure, rx, toDevice, port>>
          /\ UNCHANGED <<call, reader>>
          /\ DrainPending
          /\ closer[t] = "drain" /\ closer' = [closer EXCEPT ![t] = "join"]
      BY <1>2 DEF CloseDrains, CloserMoves, eventVars, portVars
    <2>2. failure # "none"
      BY <2>1 DEF IInv, FailureIsSet
    <2>3. \A u \in Threads :
            closer'[u] \in {"fail", "drain", "join", "done"} =>
               closer[u] \in {"fail", "drain", "join", "done"}
      BY <1>1, <2>1
    <2>4. FailureIsSet'
      BY <2>1, <2>2, <2>3 DEF IInv, FailureIsSet
    <2>5. \A c \in Calls : \/ call'[c] = call[c]
                           \/ call[c] = "failing" /\ call'[c] = "raised"
      BY <2>1
    <2> QED
      BY <2>1, <2>2, <2>4, <2>5, DrainInv
  <1>3. CASE CloseChecks(t) \/ CloseSets(t) \/ ClosePort(t) \/ CloseFails(t) \/ CloseJoins(t)
    <2>1. /\ UNCHANGED <<boot, pending, future, call, writeLock, reader, rx, toDevice>>
          /\ port' = "open" => port = "open"
          /\ initialized => initialized'
          /\ failure' = failure \/ (failure = "none" /\ failure' = "closed")
          /\ failure' = "none" => failure = "none" /\ initialized' = initialized
      BY <1>3
      DEF CloseChecks, CloseSets, ClosePort, CloseFails, CloseJoins, CloserMoves,
          SetFailure, eventVars, callVars, portVars, IInv, TypeOK
    <2>2. \A u \in Threads \ {t} : closer'[u] = closer[u]
      BY <1>1, <1>3
      DEF CloseChecks, CloseSets, ClosePort, CloseFails, CloseJoins, CloserMoves
    <2>3. /\ closer'[t] = "fail" => port' = "closed"
          /\ closer'[t] = "drain" => closer[t] = "fail" /\ failure' # "none" /\ port' = port
          /\ closer'[t] = "done" => closer[t] = "join" /\ failure' = failure /\ port' = port
          /\ closer'[t] # "join"
          /\ failure' = failure \/ closer[t] = "fail"
      BY <1>1, <1>3
      DEF CloseChecks, CloseSets, ClosePort, CloseFails, CloseJoins, CloserMoves,
          SetFailure, eventVars, portVars
    <2>4. Handshake'
      BY <2>1, HandshakeFrame DEF IInv
    <2>5. port = "closed" => port' = "closed"
      BY <2>1 DEF IInv, TypeOK
    <2>6. FailureIsSet'
      <3>1. /\ failure' = "closed" => port' = "closed"
            /\ failure' = "read" => reader' # "poll"
            /\ reader' = "failing" => failure' # "none"
            /\ \A c \in Calls : call'[c] \in {"failing", "raised"} => failure' # "none"
        BY <2>1, <2>3, <2>5 DEF IInv, FailureIsSet
      <3>2. ASSUME NEW u \in Threads
            PROVE  /\ closer'[u] \in {"fail", "drain", "join", "done"} => port' = "closed"
                   /\ closer'[u] \in {"drain", "join", "done"} => failure' # "none"
        <4>1. CASE u # t
          BY <2>1, <2>2, <2>5, <4>1 DEF IInv, FailureIsSet
        <4>2. CASE u = t
          BY <2>1, <2>3, <2>5, <4>2 DEF IInv, FailureIsSet
        <4> QED
          BY <4>1, <4>2
      <3> QED
        BY <3>1, <3>2 DEF FailureIsSet
    <2>7. CloseResolvesFutures'
      <3>1. /\ \A u \in Threads : closer'[u] \in {"join", "done"} => closer[u] \in {"join", "done"}
            /\ \A c \in Calls : (Returned(c)' => Returned(c)) /\ (IsOpen(c)' => IsOpen(c))
        BY <2>1, <2>2, <2>3 DEF Returned, IsOpen
      <3> QED
        BY <3>1, ResolvedFrame
    <2> QED
      BY <2>1, <2>4, <2>6, <2>7, QuietStep
  <1> QED
    BY <1>2, <1>3 DEF CloseStep

-----------------------------------------------------------------------------
(* The device                                                              *)

(* What is on the wire was received or is still to be seen by the device.  *)
LEMMA WireParts ==
  ASSUME TypeOK, TypeOK', NEW c
  PROVE  /\ OnWire(c) <=> \/ Answered(c)
                          \/ \E j \in 1..Len(toDevice) : toDevice[j] = c
         /\ OnWire(c)' <=> \/ Answered(c)'
                           \/ \E j \in 1..Len(toDevice') : toDevice'[j] = c
  <1> PICK n \in Nat, m \in Nat : n = Len(rx) /\ m = Len(toDevice)
    BY WireFacts
  <1> PICK n2 \in Nat, m2 \in Nat : n2 = Len(rx') /\ m2 = Len(toDevice')
    BY DEF TypeOK
  <1>1. OnWire(c) <=> \E k \in 1..(n + m) : CallAt(k) = c
    BY DEF OnWire, Places
  <1>2. OnWire(c)' <=> \E k \in 1..(n2 + m2) : CallAt(k)' = c
    BY DEF OnWire, Places
  <1>3. \A k \in 1..n : CallAt(k) = rx[k].of
    BY DEF CallAt
  <1>4. \A k \in 1..n2 : CallAt(k)' = rx'[k].of
    BY DEF CallAt
  <1>5. \A j \in 1..m : CallAt(n + j) = toDevice[j]
    BY DEF CallAt
  <1>6. \A j \in 1..m2 : CallAt(n2 + j)' = toDevice'[j]
    <2> TAKE j \in 1..m2
    <2>1. ~(n2 + j <= Len(rx')) /\ n2 + j - Len(rx') = j
      OBVIOUS
    <2> QED
      BY <2>1 DEF CallAt
  <1>7. /\ \A k \in 1..(n + m) : k \in 1..n \/ (k - n \in 1..m /\ n + (k - n) = k)
        /\ \A k \in 1..(n2 + m2) : k \in 1..n2 \/ (k - n2 \in 1..m2 /\ n2 + (k - n2) = k)
        /\ \A k \in 1..n : k \in 1..(n + m)
        /\ \A k \in 1..n2 : k \in 1..(n2 + m2)
        /\ \A j \in 1..m : n + j \in 1..(n + m)
        /\ \A j \in 1..m2 : n2 + j \in 1..(n2 + m2)
    OBVIOUS
  <1>8. ASSUME NEW k \in 1..(n + m), CallAt(k) = c
        PROVE  Answered(c) \/ \E j \in 1..Len(toDevice) : toDevice[j] = c
    <2>1. CASE k \in 1..n
      BY <1>3, <1>8, <2>1 DEF Answered
    <2>2. CASE k - n \in 1..m /\ n + (k - n) = k
      BY <1>5, <1>8, <2>2
    <2> QED
      BY <1>7, <2>1, <2>2
  <1>9. ASSUME NEW k \in 1..(n2 + m2), CallAt(k)' = c
        PROVE  Answered(c)' \/ \E j \in 1..Len(toDevice') : toDevice'[j] = c
    <2>1. CASE k \in 1..n2
      BY <1>4, <1>9, <2>1 DEF Answered
    <2>2. CASE k - n2 \in 1..m2 /\ n2 + (k - n2) = k
      BY <1>6, <1>9, <2>2
    <2> QED
      BY <1>7, <2>1, <2>2
  <1>10. ASSUME Answered(c) \/ \E j \in 1..Len(toDevice) : toDevice[j] = c
         PROVE  \E k \in 1..(n + m) : CallAt(k) = c
    <2>1. CASE Answered(c)
      BY <1>3, <1>7, <2>1 DEF Answered
    <2>2. ASSUME NEW j \in 1..m, toDevice[j] = c PROVE \E k \in 1..(n + m) : CallAt(k) = c
      BY <1>5, <1>7, <2>2
    <2> QED
      BY <1>10, <2>1, <2>2
  <1>11. ASSUME Answered(c)' \/ \E j \in 1..Len(toDevice') : toDevice'[j] = c
         PROVE  \E k \in 1..(n2 + m2) : CallAt(k)' = c
    <2>1. CASE Answered(c)'
      BY <1>4, <1>7, <2>1 DEF Answered
    <2>2. ASSUME NEW j \in 1..m2, toDevice'[j] = c
          PROVE  \E k \in 1..(n2 + m2) : CallAt(k)' = c
      BY <1>6, <1>7, <2>2
    <2> QED
      BY <1>11, <2>1, <2>2
  <1> QED
    BY <1>1, <1>2, <1>8, <1>9, <1>10, <1>11

(* The device takes a request or none, and answers a command it takes with *)
(* the last line received, if the port is open.                            *)
DeviceTakes(taken) ==
    /\ Len(rx) <= Len(rx') /\ \A i \in 1..Len(rx) : rx'[i] = rx[i]
    /\ taken = 1 => Len(toDevice) >= 1
    /\ Len(toDevice') = Len(toDevice) - taken
    /\ \A i \in 1..Len(toDevice') : toDevice'[i] = toDevice[i + taken]
    /\ \A i \in 1..Len(rx') : i > Len(rx) /\ rx'[i].of \in Calls =>
          /\ taken = 1 /\ port = "open" /\ rx'[i].of = toDevice[1]
          /\ IsAnswer(rx'[i])
    /\ \A c \in Calls : taken = 1 /\ port = "open" /\ toDevice[1] = c => Answered(c)'

LEMMA DeviceFifo ==
  ASSUME TypeOK, TypeOK', Fifo, UNCHANGED <<pending, writeLock, port>>,
         \A c \in Calls : OnWire(c)' => OnWire(c),
         NEW taken \in {0, 1}, DeviceTakes(taken)
  PROVE  Fifo'
  <1> PICK n \in Nat, m \in Nat : n = Len(rx) /\ m = Len(toDevice)
    BY WireFacts
  <1> PICK n2 \in Nat, m2 \in Nat : n2 = Len(rx') /\ m2 = Len(toDevice')
    BY WireLengths
  <1>1. Len(pending) \in Nat /\ \A p \in 1..Len(pending) : pending[p] \in Calls
    BY WireFacts
  <1>2. ASSUME NEW c, Answered(c) PROVE Answered(c)'
    <2>1. PICK i \in 1..n : rx[i].of = c
      BY <1>2 DEF Answered
    <2>2. i \in 1..n2 /\ rx'[i].of = c
      BY <2>1 DEF DeviceTakes
    <2> QED
      BY <2>2 DEF Answered
  <1>3. ASSUME port = "open", NEW c \in Calls, NEW j \in 1..m, toDevice[j] = c
        PROVE  Answered(c)' \/ (j - taken \in 1..m2 /\ toDevice'[j - taken] = c)
    <2>1. CASE taken = 1 /\ j = 1
      BY <1>3, <2>1 DEF DeviceTakes
    <2>2. CASE ~(taken = 1 /\ j = 1)
      <3>1. j - taken \in 1..m2 /\ j - taken + taken = j
        BY <2>2 DEF DeviceTakes
      <3> QED
        BY <1>3, <3>1 DEF DeviceTakes
    <2> QED
      BY <2>1, <2>2
  <1>4. SlotsForTheWire' /\ LastSlotHoldsLock'
    BY DEF Fifo, SlotsForTheWire, LastSlotHoldsLock, InPending
  <1>5. LinesInOrder'
    <2> SUFFICES ASSUME NEW p \in 1..Len(pending), NEW q \in 1..Len(pending),
                        NEW l \in 1..Len(rx'), q < p, rx'[l].of = pending[p]
                 PROVE  \E k \in 1..Len(rx') : k < l /\ rx'[k].of = pending[q]
      BY DEF LinesInOrder
    <2>1. CASE l <= n
      <3>1. PICK k \in 1..n : k < l /\ rx[k].of = pending[q]
        BY <2>1 DEF Fifo, LinesInOrder, DeviceTakes
      <3> QED
        BY <3>1 DEF DeviceTakes
    <2>2. CASE l > n
      <3>1. taken = 1 /\ port = "open" /\ pending[p] = toDevice[1]
        BY <1>1, <2>2 DEF DeviceTakes
      <3>2. 1 \in 1..m
        BY <3>1 DEF DeviceTakes
      <3>3. Answered(pending[q]) \/ \E k \in 1..m : k < 1 /\ toDevice[k] = pending[q]
        <4>1. DeviceInOrder
          BY <3>1 DEF Fifo
        <4> QED
          BY <3>1, <3>2, <4>1 DEF DeviceInOrder
      <3>4. PICK k \in 1..n : rx[k].of = pending[q]
        BY <3>3 DEF Answered
      <3>5. k \in 1..n2 /\ k < l /\ rx'[k].of = pending[q]
        BY <2>2, <3>4 DEF DeviceTakes
      <3> QED
        BY <3>5
    <2> QED
      BY <2>1, <2>2, SMTT(30)
  <1>6. ASSUME port = "open" PROVE DeviceInOrder'
    <2> SUFFICES ASSUME NEW p \in 1..Len(pending), NEW q \in 1..Len(pending),
                        NEW l \in 1..Len(toDevice'), q < p, toDevice'[l] = pending[p]
                 PROVE  \/ Answered(pending[q])'
                        \/ \E k \in 1..Len(toDevice') : k < l /\ toDevice'[k] = pending'[q]
      BY DEF DeviceInOrder
    <2>1. l + taken \in 1..m /\ toDevice[l + taken] = pending[p]
      BY DEF DeviceTakes
    <2>2. \/ Answered(pending[q])
          \/ \E k \in 1..m : k < l + taken /\ toDevice[k] = pending[q]
      <3>1. DeviceInOrder
        BY <1>6 DEF Fifo
      <3> QED
        BY <2>1, <3>1 DEF DeviceInOrder
    <2>3. \A d \in Calls : d = pending[q] /\ Answered(d)' => Answered(pending[q])'
      BY DEF Answered
    <2>4. CASE Answered(pending[q])
      BY <1>1, <1>2, <2>3, <2>4
    <2>5. ASSUME NEW k \in 1..m, k < l + taken, toDevice[k] = pending[q]
          PROVE  \/ Answered(pending[q])'
                 \/ \E j \in 1..m2 : j < l /\ toDevice'[j] = pending[q]
      <3>1. PICK d \in Calls : d = pending[q]
        BY <1>1
      <3>2. Answered(d)' \/ (k - taken \in 1..m2 /\ toDevice'[k - taken] = d)
        BY <1>3, <1>6, <2>5, <3>1
      <3>3. k - taken < l
        BY <2>5
      <3> QED
        BY <2>3, <3>1, <3>2, <3>3
    <2> QED
      BY <2>2, <2>4, <2>5
  <1>7. ASSUME port = "open" PROVE SlotsAreOnTheirWay'
    <2> SUFFICES ASSUME NEW p \in 1..Len(pending)
                 PROVE  OnWire(pending[p])' \/ pending[p] = writeLock
      BY DEF SlotsAreOnTheirWay
    <2>1. PICK c \in Calls : c = pending[p]
      BY <1>1
    <2>2. OnWire(c) \/ c = writeLock
      BY <1>7, <2>1 DEF Fifo, SlotsAreOnTheirWay
    <2>3. ASSUME OnWire(c) PROVE OnWire(c)'
      <3>1. Answered(c) \/ \E j \in 1..m : toDevice[j] = c
        BY <2>3, WireParts
      <3>2. Answered(c)' \/ \E j \in 1..m2 : toDevice'[j] = c
        BY <1>2, <1>3, <1>7, <3>1
      <3> QED
        BY <3>2, WireParts
    <2>4. OnWire(c)' => OnWire(pending[p])'
      BY <2>1 DEF OnWire
    <2> QED
      BY <2>1, <2>2, <2>3, <2>4
  <1> QED
    BY <1>4, <1>5, <1>6, <1>7 DEF Fifo

(* What the invariant says of the wire's moves.                            *)
LEMMA DeviceStep ==
  ASSUME IInv, TypeOK', \E f : ShiftedBy(f),
         UNCHANGED <<boot, initialized, failure, pending, future, call, writeLock>>,
         UNCHANGED <<reader, closer, port>>,
         NEW taken \in {0, 1}, DeviceTakes(taken)
  PROVE  IInv'
  <1>1. /\ (\A k, l \in Places : MarkerAt(k) /\ EarlyAt(l) => l <= k)'
        /\ (\A k \in Places : ~MarkerAt(k)) => (\A k \in Places : ~MarkerAt(k))'
        /\ (\A k \in Places : ~EarlyAt(k)) => (\A k \in Places : ~EarlyAt(k))'
        /\ \A c \in Calls : OnWire(c)' => OnWire(c)
        /\ (\A k, l \in Places : CallAt(k) = CallAt(l) /\ CallAt(k) \in Calls => k = l)'
    BY ShiftKeeps DEF IInv, Handshake, OnePlace
  <1>2. Handshake'
    BY <1>1 DEF IInv, Handshake
  <1>3. \A c \in Calls : /\ InPending(c)' <=> InPending(c)
                         /\ IsOpen(c)' <=> IsOpen(c)
                         /\ Returned(c)' <=> Returned(c)
    BY DEF InPending, IsOpen, Returned
  <1>4. OnePlace'
    <2>1. \A i, j \in 1..Len(pending') : pending'[i] = pending'[j] => i = j
      BY DEF IInv, OnePlace
    <2>2. \A i \in 1..Len(rx') : rx'[i].of \in Calls => IsAnswer(rx'[i])
      <3> SUFFICES ASSUME NEW i \in 1..Len(rx'), rx'[i].of \in Calls, ~(i > Len(rx))
                   PROVE  IsAnswer(rx'[i])
        BY DEF DeviceTakes
      <3>1. i \in 1..Len(rx) /\ rx'[i] = rx[i]
        BY WireFacts DEF IInv, DeviceTakes
      <3> QED
        BY <3>1 DEF IInv, OnePlace
    <2> QED
      BY <1>1, <1>3, <2>1, <2>2 DEF IInv, OnePlace
  <1>5. DequeHoldsOpen' /\ CorrelatedOrLost' /\ FailureIsSet' /\ CloseResolvesFutures'
    BY <1>3
    DEF IInv, DequeHoldsOpen, CorrelatedOrLost, FailureIsSet, CloseResolvesFutures
  <1>6. ASSUME Ordered' PROVE Fifo'
    <2>1. Ordered
      BY <1>3, <1>6 DEF Ordered
    <2>2. Fifo
      BY <2>1 DEF IInv
    <2> QED
      BY <1>1, <2>2, DeviceFifo DEF IInv
  <1> QED
    BY <1>2, <1>4, <1>5, <1>6 DEF IInv

LEMMA DeviceInv == IInv /\ TypeOK' /\ (DeviceAnswers \/ DeviceSpeaks) => IInv'
  <1> SUFFICES ASSUME IInv, TypeOK', DeviceAnswers \/ DeviceSpeaks PROVE IInv'
    OBVIOUS
  <1> PICK n \in Nat, m \in Nat : n = Len(rx) /\ m = Len(toDevice)
    BY WireFacts DEF IInv
  <1>1. /\ UNCHANGED <<boot, initialized, failure, pending, future, call, writeLock>>
        /\ UNCHANGED <<reader, closer, port>>
        /\ TypeOK
    BY DEF DeviceAnswers, DeviceSpeaks, eventVars, callVars, IInv
  <1>2. \E f : ShiftedBy(f)
    BY <1>1, AnswerShifts, NoiseShifts
  <1>3. ASSUME NEW line \in Lines, Receives(line)
        PROVE  /\ n <= Len(rx') /\ \A i \in 1..n : rx'[i] = rx[i]
               /\ \A i \in 1..Len(rx') : i > n => port = "open" /\ rx'[i] = line
               /\ port = "open" => n + 1 \in 1..Len(rx') /\ rx'[n + 1] = line
    <2>1. CASE port # "open"
      BY <1>3, <2>1 DEF Receives
    <2>2. CASE port = "open"
      <3>1. rx' = Append(rx, line) /\ rx \in Seq(Lines)
        BY <1>1, <1>3, <2>2 DEF Receives, TypeOK
      <3> QED
        BY <2>2, <3>1, AppendFacts
    <2> QED
      BY <2>1, <2>2
  <1>4. CASE DeviceSpeaks
    <2>1. PICK kind \in Noise : Receives([kind |-> kind, of |-> NoCall])
      BY <1>4 DEF DeviceSpeaks
    <2>2. PICK line \in Lines : line = [kind |-> kind, of |-> NoCall]
      BY LineTypes
    <2>3. Receives(line) /\ line.of \notin Calls
      BY <2>1, <2>2, CallsAssumption
    <2>4. toDevice' = toDevice
      BY <1>4 DEF DeviceSpeaks
    <2>5. /\ Len(toDevice') = Len(toDevice) - 0
          /\ \A i \in 1..Len(toDevice') : toDevice'[i] = toDevice[i + 0]
      BY <2>4
    <2>6. /\ Len(rx) <= Len(rx') /\ \A i \in 1..Len(rx) : rx'[i] = rx[i]
          /\ \A i \in 1..Len(rx') : ~(i > Len(rx) /\ rx'[i].of \in Calls)
      BY <1>3, <2>3
    <2>7. DeviceTakes(0)
      BY <2>5, <2>6 DEF DeviceTakes
    <2> QED
      BY <1>1, <1>2, <2>7, DeviceStep
  <1>5. CASE DeviceAnswers
    <2>1. /\ m >= 1 /\ Len(toDevice') = m - 1 /\ Head(toDevice) = toDevice[1]
          /\ \A i \in 1..(m - 1) : toDevice'[i] = toDevice[i + 1]
      BY <1>1, <1>5, WireFacts, TailFacts DEF DeviceAnswers
    <2>2. /\ Len(toDevice') = Len(toDevice) - 1 /\ Len(toDevice) >= 1
          /\ \A i \in 1..Len(toDevice') : toDevice'[i] = toDevice[i + 1]
      BY <2>1
    <2>3. CASE toDevice[1] \in Calls /\ Receives(AnswerTo(toDevice[1]))
      <3>1. PICK line \in Lines : line = AnswerTo(toDevice[1])
        BY <2>3, LineTypes
      <3>2. line.of = toDevice[1] /\ IsAnswer(line)
        BY <3>1 DEF AnswerTo, IsAnswer
      <3>3. Receives(line)
        BY <2>3, <3>1
      <3>4. /\ Len(rx) <= Len(rx') /\ \A i \in 1..Len(rx) : rx'[i] = rx[i]
            /\ \A i \in 1..Len(rx') : i > Len(rx) => port = "open" /\ rx'[i] = line
            /\ port = "open" => n + 1 \in 1..Len(rx') /\ rx'[n + 1] = line
        BY <1>3, <3>3
      <3>5. \A i \in 1..Len(rx') : i > Len(rx) /\ rx'[i].of \in Calls =>
               /\ port = "open" /\ rx'[i].of = toDevice[1]
               /\ IsAnswer(rx'[i])
        BY <3>2, <3>4
      <3>6. \A c \in Calls : port = "open" /\ toDevice[1] = c => Answered(c)'
        BY <3>2, <3>4 DEF Answered
      <3>7. DeviceTakes(1)
        BY <2>2, <3>4, <3>5, <3>6 DEF DeviceTakes
      <3> QED
        BY <1>1, <1>2, <3>7, DeviceStep
    <2>4. CASE toDevice[1] \notin Calls /\ (rx' = rx \/ Receives(Marker))
      <3>1. /\ Len(rx) <= Len(rx') /\ \A i \in 1..Len(rx) : rx'[i] = rx[i]
            /\ \A i \in 1..Len(rx') : ~(i > Len(rx) /\ rx'[i].of \in Calls)
        <4>1. CASE rx' = rx
          BY <4>1
        <4>2. CASE Receives(Marker)
          <5>1. Marker.of \notin Calls /\ Marker \in Lines
            BY CallsAssumption, LineTypes DEF Marker
          <5> QED
            BY <1>3, <4>2, <5>1
        <4> QED
          BY <2>4, <4>1, <4>2
      <3>2. DeviceTakes(1)
        BY <2>2, <2>4, <3>1 DEF DeviceTakes
      <3> QED
        BY <1>1, <1>2, <3>2, DeviceStep
    <2>5. "crlf" \notin Calls /\ "startCLI" \notin Calls
      BY CallsAssumption DEF Raws
    <2> QED
      BY <1>5, <2>1, <2>3, <2>4, <2>5 DEF DeviceAnswers
  <1> QED
    BY <1>4, <1>5

-----------------------------------------------------------------------------
(* The theorems.                                                           *)

LEMMA InitIInv == Init => IInv
  <1> SUFFICES ASSUME Init PROVE IInv
    OBVIOUS
  <1>1. TypeOK
    BY InitTypeOK
  <1>2. /\ Len(rx) \in Nat
        /\ \A i \in 1..Len(rx) : rx[i].kind # "@@@" /\ rx[i].of = NoCall
    BY <1>1, LeftoversAssumption DEF Init, TypeOK
  <1>3. /\ Places = 1..Len(rx)
        /\ \A k \in Places : ~MarkerAt(k) /\ CallAt(k) = NoCall
    <2>1. Places = 1..Len(rx)
      BY <1>2 DEF Init, Places
    <2> QED
      BY <1>2, <2>1 DEF MarkerAt, CallAt
  <1>4. \A c \in Calls : ~OnWire(c) /\ ~InPending(c) /\ call[c] = "idle" /\ IsOpen(c)
    BY <1>3, CallsAssumption DEF Init, OnWire, InPending, IsOpen
  <1>5. Handshake
    BY <1>3, <1>4 DEF Init, Handshake
  <1>6. OnePlace
    BY <1>2, <1>3, <1>4, CallsAssumption DEF Init, OnePlace
  <1>7. DequeHoldsOpen /\ FailureIsSet /\ CorrelatedOrLost /\ CloseResolvesFutures
    BY <1>4
    DEF Init, DequeHoldsOpen, FailureIsSet, CorrelatedOrLost, CloseResolvesFutures, Open
  <1>8. Fifo
    BY <1>4, CallsAssumption
    DEF Init, Fifo, SlotsForTheWire, LastSlotHoldsLock, LinesInOrder, DeviceInOrder,
        SlotsAreOnTheirWay
  <1> QED
    BY <1>1, <1>5, <1>6, <1>7, <1>8 DEF IInv

LEMMA IInvNext == IInv /\ [Next]_vars => IInv'
  <1> SUFFICES ASSUME IInv, [Next]_vars PROVE IInv'
    OBVIOUS
  <1>1. TypeOK'
    BY TypeOKNext DEF IInv
  <1>2. CASE UNCHANGED vars
    <2>1. UNCHANGED <<boot, initialized, failure, closed, pending, future, call, writeLock,
                      reader, closer, rx, toDevice, port, noise>>
      BY <1>2 DEF vars, eventVars, callVars, portVars
    <2>2. Handshake'
      BY <2>1, HandshakeFrame DEF IInv
    <2>3. FailureIsSet' /\ CloseResolvesFutures'
      BY <2>1 DEF IInv, FailureIsSet, CloseResolvesFutures, Returned, IsOpen
    <2> QED
      BY <1>1, <2>1, <2>2, <2>3, QuietStep
  <1> QED
    BY <1>1, <1>2, BootInv, CallInv, ReaderInv, CloserInv, DeviceInv DEF Next

(* The inductive invariant holds: the deque, the wire and the device keep  *)
(* the order of the calls as long as no write has failed.                  *)
THEOREM Invariance == Spec => []IInv
  BY InitIInv, IInvNext, PTL DEF Spec

(* "Correlation is strict FIFO" (docs/communication.md): whatever the       *)
(* threads do, and through close(), a future that command() returned never *)
(* holds the line of another call, unless a write failed.                  *)
THEOREM FuturesAreCorrelated == Spec => []CorrelatedFutures
  <1>1. IInv => CorrelatedFutures
    BY DEF IInv, CorrelatedOrLost, CorrelatedFutures
  <1> QED
    BY <1>1, Invariance, PTL

(* close() of SerialTransport: once a close() that did the work has failed *)
(* what was pending, no caller holds a future that is not done, whichever  *)
(* command() raced with it.                                                *)
THEOREM ClosedLeavesNobodyWaiting == Spec => []CloseResolvesFutures
  <1>1. IInv => CloseResolvesFutures
    BY DEF IInv
  <1> QED
    BY <1>1, Invariance, PTL

(* initialize() of SerialTransport: when a command is on the wire, every   *)
(* byte of the handshake and the marker have been read.                    *)
THEOREM MarkerComesFirst == Spec => []NoCommandBeforeMarker
  <1>1. ASSUME IInv, NEW c \in Calls,
               \/ \E i \in 1..Len(toDevice) : toDevice[i] = c
               \/ \E i \in 1..Len(rx) : rx[i].of = c
        PROVE  /\ \A i \in 1..Len(toDevice) : toDevice[i] \notin Raws
               /\ \A i \in 1..Len(rx) : rx[i].kind # "@@@"
    <2> PICK n \in Nat, m \in Nat : n = Len(rx) /\ m = Len(toDevice)
      BY WireFacts DEF IInv
    <2>1. Places = 1..(n + m)
      BY DEF Places
    <2>2. /\ \A i \in 1..n : i \in Places /\ CallAt(i) = rx[i].of
          /\ \A i \in 1..n : rx[i].kind = "@@@" => EarlyAt(i)
      BY <2>1 DEF CallAt, EarlyAt
    <2>3. ASSUME NEW i \in 1..m
          PROVE  /\ n + i \in Places /\ CallAt(n + i) = toDevice[i]
                 /\ EarlyAt(n + i) <=> toDevice[i] \in Raws
      <3>1. n + i \in Places /\ ~(n + i <= Len(rx)) /\ n + i - Len(rx) = i
        BY <2>1
      <3> QED
        BY <3>1 DEF CallAt, EarlyAt
    <2>4. OnWire(c)
      <3>1. ASSUME NEW i \in 1..m, toDevice[i] = c PROVE OnWire(c)
        BY <2>3, <3>1 DEF OnWire
      <3>2. ASSUME NEW i \in 1..n, rx[i].of = c PROVE OnWire(c)
        BY <2>2, <3>2 DEF OnWire
      <3> QED
        BY <1>1, <3>1, <3>2
    <2>5. \A k \in Places : ~EarlyAt(k)
      BY <1>1, <2>4 DEF IInv, OnePlace, Handshake, Returned
    <2> QED
      BY <2>2, <2>3, <2>5
  <1>2. IInv => NoCommandBeforeMarker
    BY <1>1 DEF NoCommandBeforeMarker
  <1> QED
    BY <1>2, Invariance, PTL

-----------------------------------------------------------------------------
(* Every step is a step of CommandChannel, or leaves it alone.             *)

(* The outcomes, without the CASE.                                         *)
LEMMA OutcomeFacts ==
  ASSUME TypeOK, NEW c \in Calls
  PROVE  /\ call[c] \in {"idle", "checked"} => OutcomeOf(c) = "idle"
         /\ call[c] \in {"failing", "raised"} => OutcomeOf(c) = "failed"
         /\ call[c] = "appended" => OutcomeOf(c) = "waiting"
         /\ call[c] = "returned" =>
              /\ IsOpen(c) => OutcomeOf(c) = "waiting"
              /\ ~IsOpen(c) => OutcomeOf(c) \in {"failed", "own", "foreign"}
              /\ future[c].tag \in {"success", "error"} /\ future[c].of = c =>
                   OutcomeOf(c) = "own"
  <1>1. future[c] \in Futures /\ call[c] \in {"idle", "checked", "appended", "returned",
                                            "failing", "raised"}
    BY DEF TypeOK
  <1>2. /\ IsOpen(c) <=> future[c].tag = "open"
        /\ future[c].tag \in {"open", "failed", "success", "error"}
    BY <1>1 DEF Futures, IsOpen, Open
  <1> QED
    BY <1>1, <1>2 DEF OutcomeOf, ResultOf

LEMMA NextOutcomeFacts ==
  ASSUME TypeOK', NEW c \in Calls
  PROVE  /\ call'[c] \in {"idle", "checked"} => OutcomeOf(c)' = "idle"
         /\ call'[c] \in {"failing", "raised"} => OutcomeOf(c)' = "failed"
         /\ call'[c] = "appended" => OutcomeOf(c)' = "waiting"
         /\ call'[c] = "returned" =>
              /\ IsOpen(c)' => OutcomeOf(c)' = "waiting"
              /\ ~IsOpen(c)' => OutcomeOf(c)' \in {"failed", "own", "foreign"}
              /\ future'[c].tag \in {"success", "error"} /\ future'[c].of = c =>
                   OutcomeOf(c)' = "own"
  <1>1. future'[c] \in Futures /\ call'[c] \in {"idle", "checked", "appended", "returned",
                                            "failing", "raised"}
    BY DEF TypeOK
  <1>2. /\ IsOpen(c)' <=> future'[c].tag = "open"
        /\ future'[c].tag \in {"open", "failed", "success", "error"}
    BY <1>1 DEF Futures, IsOpen, Open
  <1> QED
    BY <1>1, <1>2 DEF OutcomeOf, ResultOf

LEMMA SameOutcome ==
  ASSUME NEW c \in Calls, call'[c] = call[c], future'[c] = future[c]
  PROVE  OutcomeOf(c)' = OutcomeOf(c)
  BY DEF OutcomeOf, ResultOf

(* The steps of the channel, told by the outcomes.                         *)
LEMMA ToStutter ==
  ASSUME \A c \in Calls : OutcomeOf(c)' = OutcomeOf(c),
         failure' = "none" <=> failure = "none",
         failure = "none" => pending' = pending
  PROVE  UNCHANGED Channel!vars
  BY DEF Channel!vars

LEMMA ToSubmit ==
  ASSUME NEW c \in Calls, failure = "none", failure' = "none",
         OutcomeOf(c) = "idle", OutcomeOf(c)' = "waiting",
         \A d \in Calls \ {c} : OutcomeOf(d)' = OutcomeOf(d),
         pending' = Append(pending, c)
  PROVE  Channel!Next
  <1>1. Channel!Submit(c)
    BY DEF Channel!Submit
  <1> QED
    BY <1>1 DEF Channel!Next

LEMMA ToSubmitLate ==
  ASSUME NEW c \in Calls, failure # "none", failure' # "none",
         OutcomeOf(c) = "idle", OutcomeOf(c)' \in {"waiting", "failed"},
         \A d \in Calls \ {c} : OutcomeOf(d)' = OutcomeOf(d)
  PROVE  Channel!Next
  <1>1. Channel!SubmitLate(c)
    BY DEF Channel!SubmitLate
  <1> QED
    BY <1>1 DEF Channel!Next

LEMMA ToAnswer ==
  ASSUME NEW c \in Calls, failure = "none", failure' = "none",
         pending # <<>>, Head(pending) = c, pending' = Tail(pending),
         OutcomeOf(c)' = "own",
         \A d \in Calls \ {c} : OutcomeOf(d)' = OutcomeOf(d)
  PROVE  Channel!Next
  <1>1. Channel!Answer
    BY DEF Channel!Answer
  <1> QED
    BY <1>1 DEF Channel!Next

LEMMA ToShut ==
  ASSUME failure = "none", failure' # "none",
         \/ \A c \in Calls : OutcomeOf(c)' = OutcomeOf(c)
         \/ \E c \in Calls : /\ OutcomeOf(c) = "waiting" /\ OutcomeOf(c)' = "failed"
                             /\ \A d \in Calls \ {c} : OutcomeOf(d)' = OutcomeOf(d)
  PROVE  Channel!Next
  <1>1. Channel!Shut
    BY DEF Channel!Shut, Channel!Waiting
  <1> QED
    BY <1>1 DEF Channel!Next

LEMMA ToSettle ==
  ASSUME failure # "none", failure' # "none",
         \A c \in Calls :
            \/ OutcomeOf(c)' = OutcomeOf(c)
            \/ /\ OutcomeOf(c) = "waiting"
               /\ OutcomeOf(c)' \in {"own", "foreign", "failed"}
  PROVE  Channel!Next
  <1> DEFINE S == {c \in Calls : OutcomeOf(c)' # OutcomeOf(c)}
             o == [c \in S |-> OutcomeOf(c)']
  <1>1. S \in SUBSET Channel!Waiting /\ o \in [S -> {"own", "foreign", "failed"}]
    BY DEF Channel!Waiting
  <1>2. [c \in Calls |-> OutcomeOf(c)'] =
           [c \in Calls |-> IF c \in S THEN o[c] ELSE [d \in Calls |-> OutcomeOf(d)][c]]
    OBVIOUS
  <1>3. Channel!Settle
    BY <1>1, <1>2 DEF Channel!Settle
  <1> QED
    BY <1>3 DEF Channel!Next

(* _fail of any thread: what waits in the deque fails.                     *)
LEMMA DrainSettles ==
  ASSUME IInv, TypeOK', DrainPending, failure # "none", failure' = failure,
         \A c \in Calls : \/ call'[c] = call[c]
                          \/ call[c] = "failing" /\ call'[c] = "raised"
  PROVE  Channel!Next
  <1>1. ASSUME NEW c \in Calls
        PROVE  \/ OutcomeOf(c)' = OutcomeOf(c)
               \/ /\ OutcomeOf(c) = "waiting"
                  /\ OutcomeOf(c)' \in {"own", "foreign", "failed"}
    <2>1. TypeOK /\ future'[c] = IF InPending(c) /\ IsOpen(c) THEN Failed ELSE future[c]
      BY DEF IInv, DrainPending
    <2>2. CASE call[c] = "failing" /\ call'[c] = "raised"
      BY <2>1, <2>2, OutcomeFacts, NextOutcomeFacts
    <2>3. CASE call'[c] = call[c] /\ ~(InPending(c) /\ IsOpen(c))
      BY <2>1, <2>3, SameOutcome
    <2>4. CASE call'[c] = call[c] /\ InPending(c) /\ IsOpen(c)
      <3>1. ~IsOpen(c)'
        BY <2>1, <2>4 DEF IsOpen, Failed, Open
      <3>2. call[c] \in {"idle", "checked", "appended", "returned", "failing", "raised"}
        BY <2>1 DEF TypeOK
      <3> QED
        BY <2>1, <2>4, <3>1, <3>2, OutcomeFacts, NextOutcomeFacts
    <2> QED
      BY <2>2, <2>3, <2>4
  <1> QED
    BY <1>1, ToSettle

LEMMA CallImplements ==
  ASSUME IInv, TypeOK', NEW c \in Calls, CheckFailure(c) \/ CallStep(c)
  PROVE  Channel!Next \/ UNCHANGED Channel!vars
  <1>1. /\ TypeOK
        /\ call \in [Calls -> {"idle", "checked", "appended", "returned",
                              "failing", "raised"}]
    BY DEF IInv, TypeOK
  <1>2. ASSUME NEW here, NEW there, Moves(c, here, there), future' = future
        PROVE  /\ call[c] = here /\ call'[c] = there
               /\ \A d \in Calls \ {c} : OutcomeOf(d)' = OutcomeOf(d)
    <2>1. /\ call[c] = here /\ call'[c] = there
          /\ \A d \in Calls \ {c} : call'[d] = call[d]
      BY <1>1, <1>2 DEF Moves
    <2> QED
      BY <1>2, <2>1, SameOutcome
  <1>3. CASE CheckFailure(c)
    <2>1. /\ UNCHANGED <<failure, pending, future>>
          /\ Moves(c, "idle", IF failure = "none" THEN "checked" ELSE "raised")
      BY <1>3 DEF CheckFailure, eventVars
    <2>2. /\ call[c] = "idle" /\ call'[c] = IF failure = "none" THEN "checked" ELSE "raised"
          /\ \A d \in Calls \ {c} : OutcomeOf(d)' = OutcomeOf(d)
      BY <1>2, <2>1
    <2>3. CASE failure = "none"
      <3>1. OutcomeOf(c)' = OutcomeOf(c)
        BY <1>1, <2>2, <2>3, OutcomeFacts, NextOutcomeFacts
      <3> QED
        BY <2>1, <2>2, <3>1, ToStutter
    <2>4. CASE failure # "none"
      <3>1. OutcomeOf(c) = "idle" /\ OutcomeOf(c)' = "failed"
        BY <1>1, <2>2, <2>4, OutcomeFacts, NextOutcomeFacts
      <3> QED
        BY <2>1, <2>2, <2>4, <3>1, ToSubmitLate
    <2> QED
      BY <2>3, <2>4
  <1>4. CASE AppendPending(c)
    <2>1. /\ UNCHANGED <<failure, future>> /\ pending' = Append(pending, c)
          /\ Moves(c, "checked", "appended")
      BY <1>4 DEF AppendPending, eventVars
    <2>2. /\ call[c] = "checked" /\ call'[c] = "appended"
          /\ \A d \in Calls \ {c} : OutcomeOf(d)' = OutcomeOf(d)
      BY <1>2, <2>1
    <2>3. OutcomeOf(c) = "idle" /\ OutcomeOf(c)' = "waiting"
      BY <1>1, <2>2, OutcomeFacts, NextOutcomeFacts
    <2>4. CASE failure = "none"
      BY <2>1, <2>2, <2>3, <2>4, ToSubmit
    <2>5. CASE failure # "none"
      BY <2>1, <2>2, <2>3, <2>5, ToSubmitLate
    <2> QED
      BY <2>4, <2>5
  <1>5. CASE WriteCommand(c)
    <2>1. /\ UNCHANGED <<failure, future, pending>>
          /\ Moves(c, "appended", "returned")
      BY <1>5 DEF WriteCommand, eventVars
    <2>2. /\ call[c] = "appended" /\ call'[c] = "returned"
          /\ \A d \in Calls \ {c} : OutcomeOf(d)' = OutcomeOf(d)
      BY <1>2, <2>1
    <2>3. OutcomeOf(c) = "waiting"
      BY <1>1, <2>2, OutcomeFacts
    <2>4. CASE failure = "none"
      <3>1. writeLock = c /\ LastSlotHoldsLock
        BY <2>2, <2>4 DEF IInv, TypeOK, Ordered, Fifo
      <3>2. pending # <<>> /\ pending[Len(pending)] = c
        BY <3>1 DEF LastSlotHoldsLock
      <3>3. InPending(c)
        <4>1. Len(pending) \in 1..Len(pending)
          BY <1>1, <3>2 DEF TypeOK
        <4> QED
          BY <3>2, <4>1 DEF InPending
      <3>4. IsOpen(c)'
        BY <2>1, <3>3 DEF IInv, DequeHoldsOpen, IsOpen
      <3>5. OutcomeOf(c)' = OutcomeOf(c)
        BY <2>2, <2>3, <3>4, NextOutcomeFacts
      <3> QED
        BY <2>1, <2>2, <3>5, ToStutter
    <2>5. CASE failure # "none"
      <3>1. OutcomeOf(c)' \in {"waiting", "own", "foreign", "failed"}
        BY <2>2, NextOutcomeFacts
      <3> QED
        BY <2>1, <2>2, <2>3, <2>5, <3>1, ToSettle
    <2> QED
      BY <2>4, <2>5
  <1>6. CASE WriteCommandFails(c)
    <2>1. /\ UNCHANGED future /\ SetFailure("write")
          /\ Moves(c, "appended", "failing")
      BY <1>6 DEF WriteCommandFails
    <2>2. /\ call[c] = "appended" /\ call'[c] = "failing"
          /\ \A d \in Calls \ {c} : OutcomeOf(d)' = OutcomeOf(d)
      BY <1>2, <2>1
    <2>3. OutcomeOf(c) = "waiting" /\ OutcomeOf(c)' = "failed"
      BY <1>1, <2>2, OutcomeFacts, NextOutcomeFacts
    <2>4. failure' # "none"
      BY <2>1 DEF SetFailure
    <2>5. CASE failure = "none"
      BY <2>2, <2>3, <2>4, <2>5, ToShut
    <2>6. CASE failure # "none"
      BY <2>2, <2>3, <2>4, <2>6, ToSettle
    <2> QED
      BY <2>5, <2>6
  <1>7. CASE CommandRaises(c)
    <2>1. /\ DrainPending /\ failure' = failure /\ Moves(c, "failing", "raised")
      BY <1>7 DEF CommandRaises, eventVars
    <2>2. /\ call[c] = "failing" /\ call'[c] = "raised"
          /\ \A d \in Calls \ {c} : call'[d] = call[d]
      BY <1>1, <2>1 DEF Moves
    <2>3. failure # "none"
      BY <2>2 DEF IInv, FailureIsSet
    <2>4. \A d \in Calls : \/ call'[d] = call[d]
                           \/ call[d] = "failing" /\ call'[d] = "raised"
      BY <2>2
    <2> QED
      BY <2>1, <2>3, <2>4, DrainSettles
  <1> QED
    BY <1>3, <1>4, <1>5, <1>6, <1>7 DEF CallStep

LEMMA ReaderImplements ==
  ASSUME IInv, TypeOK', Reader
  PROVE  Channel!Next \/ UNCHANGED Channel!vars
  <1>1. TypeOK
    BY DEF IInv
  <1>2. CASE ReaderLine
    <2>1. UNCHANGED <<failure, call>> /\ rx # <<>>
      BY <1>2 DEF ReaderLine
    <2>2. CASE UNCHANGED <<pending, future>>
      <3>1. \A c \in Calls : OutcomeOf(c)' = OutcomeOf(c)
        BY <2>1, <2>2, SameOutcome
      <3> QED
        BY <2>1, <2>2, <3>1, ToStutter
    <2>3. ASSUME pending # <<>>, pending' = Tail(pending), rx[1].of \in Calls,
                 NEW tag \in {"success", "error"},
                 future' = [future EXCEPT ![pending[1]] = [tag |-> tag, of |-> rx[1].of]]
          PROVE  Channel!Next
      <3>1. /\ Head(pending) = pending[1] /\ pending[1] \in Calls
            /\ 1 \in 1..Len(pending)
        BY <1>1, <2>3, TailFacts DEF TypeOK
      <3>2. PICK h \in Calls : h = pending[1]
        BY <3>1
      <3>3. /\ future'[h] = [tag |-> tag, of |-> rx[1].of]
            /\ \A c \in Calls \ {h} : future'[c] = future[c]
        BY <1>1, <2>3, <3>2 DEF TypeOK
      <3>4. \A c \in Calls \ {h} : OutcomeOf(c)' = OutcomeOf(c)
        BY <2>1, <3>3, SameOutcome
      <3>5. InPending(h) /\ IsOpen(h)
        BY <3>1, <3>2 DEF InPending, IInv, DequeHoldsOpen
      <3>6. ~IsOpen(h)'
        BY <3>3 DEF IsOpen, Open
      <3>7. CASE failure = "none"
        <4>1. Fifo
          BY <3>7 DEF IInv, Ordered
        <4>2. rx[1].of = h
          BY <1>1, <2>1, <2>3, <3>2, <4>1, OldestIsAnswered
        <4>3. OnWire(h)
          BY <1>1, <1>2, <4>2, ReaderLineMoves DEF OnWire
        <4>4. call'[h] = "returned"
          BY <2>1, <4>3 DEF IInv, OnePlace, Returned
        <4>5. OutcomeOf(h)' = "own"
          BY <3>3, <4>2, <4>4, NextOutcomeFacts
        <4> QED
          BY <2>1, <2>3, <3>1, <3>2, <3>4, <3>7, <4>5, ToAnswer
      <3>8. CASE failure # "none"
        <4>1. call[h] \in {"idle", "checked", "appended", "returned", "failing", "raised"}
          BY <1>1 DEF TypeOK
        <4>2. \/ OutcomeOf(h)' = OutcomeOf(h)
              \/ /\ OutcomeOf(h) = "waiting"
                 /\ OutcomeOf(h)' \in {"own", "foreign", "failed"}
          BY <1>1, <2>1, <3>5, <3>6, <4>1, OutcomeFacts, NextOutcomeFacts
        <4> QED
          BY <2>1, <3>4, <3>8, <4>2, ToSettle
      <3> QED
        BY <3>7, <3>8
    <2> QED
      BY <1>2, <2>2, <2>3, ReaderTakes
  <1>3. CASE ReaderStops \/ ReaderFails
    <2>1. /\ UNCHANGED <<pending, future, call>>
          /\ failure' = failure \/ (failure = "none" /\ failure' # "none")
      BY <1>3 DEF ReaderStops, ReaderFails, SetFailure, eventVars, callVars
    <2>2. \A c \in Calls : OutcomeOf(c)' = OutcomeOf(c)
      BY <2>1, SameOutcome
    <2>3. CASE failure' = failure
      BY <2>1, <2>2, <2>3, ToStutter
    <2>4. CASE failure = "none" /\ failure' # "none"
      BY <2>2, <2>4, ToShut
    <2> QED
      BY <2>1, <2>3, <2>4
  <1>4. CASE ReaderEnds
    <2>1. DrainPending /\ UNCHANGED <<failure, call>> /\ failure # "none"
      BY <1>4 DEF ReaderEnds, eventVars, IInv, FailureIsSet
    <2>2. \A c \in Calls : \/ call'[c] = call[c]
                           \/ call[c] = "failing" /\ call'[c] = "raised"
      BY <2>1
    <2> QED
      BY <2>1, <2>2, DrainSettles
  <1> QED
    BY <1>2, <1>3, <1>4 DEF Reader

LEMMA CloserImplements ==
  ASSUME IInv, TypeOK', NEW t \in Threads, CloseChecks(t) \/ CloseStep(t)
  PROVE  Channel!Next \/ UNCHANGED Channel!vars
  <1>1. CASE CloseDrains(t)
    <2>1. /\ DrainPending /\ UNCHANGED <<failure, call>> /\ closer[t] = "drain"
      BY <1>1 DEF CloseDrains, CloserMoves, eventVars
    <2>2. failure # "none"
      BY <2>1 DEF IInv, FailureIsSet
    <2>3. \A c \in Calls : \/ call'[c] = call[c]
                           \/ call[c] = "failing" /\ call'[c] = "raised"
      BY <2>1
    <2> QED
      BY <2>1, <2>2, <2>3, DrainSettles
  <1>2. CASE CloseChecks(t) \/ CloseSets(t) \/ ClosePort(t) \/ CloseFails(t) \/ CloseJoins(t)
    <2>1. /\ UNCHANGED <<pending, future, call>>
          /\ failure' = failure \/ (failure = "none" /\ failure' # "none")
      BY <1>2
      DEF CloseChecks, CloseSets, ClosePort, CloseFails, CloseJoins, SetFailure,
          eventVars, callVars
    <2>2. \A c \in Calls : OutcomeOf(c)' = OutcomeOf(c)
      BY <2>1, SameOutcome
    <2>3. CASE failure' = failure
      BY <2>1, <2>2, <2>3, ToStutter
    <2>4. CASE failure = "none" /\ failure' # "none"
      BY <2>2, <2>4, ToShut
    <2> QED
      BY <2>1, <2>3, <2>4
  <1> QED
    BY <1>1, <1>2 DEF CloseStep

LEMMA InitImplements == Init => Channel!Init
  BY DEF Init, Channel!Init, OutcomeOf

LEMMA NextImplements ==
  ASSUME IInv, [Next]_vars
  PROVE  [Channel!Next]_Channel!vars
  <1>1. TypeOK'
    BY TypeOKNext DEF IInv
  <1>2. CASE UNCHANGED <<failure, pending, future, call>>
    <2>1. \A c \in Calls : OutcomeOf(c)' = OutcomeOf(c)
      BY <1>2, SameOutcome
    <2> QED
      BY <1>2, <2>1, ToStutter
  <1>3. CASE Boot \/ DeviceAnswers \/ DeviceSpeaks \/ UNCHANGED vars
    <2>1. UNCHANGED <<failure, pending, future, call>>
      BY <1>3
      DEF Boot, BootCrlf, BootStartCLI, BootWrite, BootReady, BootTimeout, BootRaises,
          DeviceAnswers, DeviceSpeaks, vars, eventVars, callVars
    <2> QED
      BY <1>2, <2>1
  <1> QED
    BY <1>1, <1>3, CallImplements, ReaderImplements, CloserImplements DEF Next

(* What CommandChannel promises, SerialTransport keeps: every step of its  *)
(* threads takes the next place in the order, gives the oldest call its    *)
(* own answer, takes the channel down, settles a call of a channel that is *)
(* down, or leaves the channel alone.                                      *)
THEOREM Refinement == Spec => ImplementsChannel
  BY InitImplements, NextImplements, Invariance, PTL DEF Spec, ImplementsChannel, Channel!Spec
-----------------------------------------------------------------------------
(* What CommandChannel promises of a channel that is up.                   *)

(* Nobody has another call's answer, and each call that waits has exactly  *)
(* one place in the order.                                                 *)
Promises ==
    failure = "none" =>
        /\ pending \in Seq(Calls)
        /\ \A c \in Calls : OutcomeOf(c) \notin {"foreign", "failed"}
        /\ \A c \in Calls :
              OutcomeOf(c) = "waiting" <=> \E i \in 1..Len(pending) : pending[i] = c
        /\ \A i, j \in 1..Len(pending) : pending[i] = pending[j] => i = j

(* A step of the channel after which it is up, told by the outcomes.       *)
LEMMA StepsWhileUp ==
  ASSUME [Channel!Next]_Channel!vars, failure' = "none"
  PROVE  /\ failure = "none"
         /\ \/ \E c \in Calls :
                  /\ OutcomeOf(c) = "idle" /\ OutcomeOf(c)' = "waiting"
                  /\ pending' = Append(pending, c)
                  /\ \A d \in Calls \ {c} : OutcomeOf(d)' = OutcomeOf(d)
            \/ /\ pending # <<>> /\ pending' = Tail(pending)
               /\ \A d \in Calls : OutcomeOf(d)' = IF d = Head(pending) THEN "own" ELSE OutcomeOf(d)
            \/ pending' = pending /\ \A d \in Calls : OutcomeOf(d)' = OutcomeOf(d)
  <1> DEFINE out == [c \in Calls |-> OutcomeOf(c)]
  <1>1. \A d \in Calls : out[d] = OutcomeOf(d) /\ out'[d] = OutcomeOf(d)'
    OBVIOUS
  <1> HIDE DEF out
  <1>2. ASSUME NEW c \in Calls, Channel!Submit(c)
        PROVE  /\ failure = "none"
               /\ OutcomeOf(c) = "idle" /\ OutcomeOf(c)' = "waiting"
               /\ pending' = Append(pending, c)
               /\ \A d \in Calls \ {c} : OutcomeOf(d)' = OutcomeOf(d)
    <2>1. out[c] = "idle" /\ out' = [out EXCEPT ![c] = "waiting"] /\ failure = "none" /\ pending' = Append(pending, c)
      BY <1>2 DEF Channel!Submit, out
    <2>2. out'[c] = "waiting" /\ \A d \in Calls \ {c} : out'[d] = out[d]
      <3>1. DOMAIN out = Calls
        BY DEF out
      <3> QED
        BY <2>1, <3>1
    <2> QED
      BY <1>1, <2>1, <2>2
  <1>3. ASSUME Channel!Answer
        PROVE  /\ failure = "none"
               /\ pending # <<>> /\ pending' = Tail(pending)
               /\ \A d \in Calls : OutcomeOf(d)' = IF d = Head(pending) THEN "own" ELSE OutcomeOf(d)
    <2>1. /\ out' = [out EXCEPT ![Head(pending)] = "own"] /\ failure = "none"
          /\ pending # <<>> /\ pending' = Tail(pending)
      BY <1>3 DEF Channel!Answer, out
    <2>2. \A d \in Calls : out'[d] = IF d = Head(pending) THEN "own" ELSE out[d]
      <3>1. DOMAIN out = Calls
        BY DEF out
      <3> QED
        BY <2>1, <3>1
    <2> QED
      BY <1>1, <2>1, <2>2
  <1>4. ASSUME UNCHANGED Channel!vars
        PROVE  failure = "none" /\ pending' = pending /\ \A d \in Calls : OutcomeOf(d)' = OutcomeOf(d)
    <2>1. failure = "none" /\ out' = out /\ pending' = pending
      BY <1>4 DEF Channel!vars, out
    <2> QED
      BY <1>1, <2>1
  <1>5. ~Channel!Shut /\ ~Channel!Settle /\ \A c \in Calls : ~Channel!SubmitLate(c)
    BY DEF Channel!Shut, Channel!Settle, Channel!SubmitLate
  <1>6. \/ \E c \in Calls : Channel!Submit(c)
        \/ Channel!Answer
        \/ UNCHANGED Channel!vars
    BY <1>5 DEF Channel!Next
  <1> QED
    BY <1>2, <1>3, <1>4, <1>6

LEMMA PromisesHold == Promises /\ [Channel!Next]_Channel!vars => Promises'
  <1> SUFFICES ASSUME Promises, [Channel!Next]_Channel!vars, failure' = "none"
               PROVE  Promises'
    BY DEF Promises
  <1>1. /\ failure = "none"
        /\ pending \in Seq(Calls)
        /\ \A c \in Calls : OutcomeOf(c) \notin {"foreign", "failed"}
        /\ \A c \in Calls :
              OutcomeOf(c) = "waiting" <=> \E i \in 1..Len(pending) : pending[i] = c
        /\ \A i, j \in 1..Len(pending) : pending[i] = pending[j] => i = j
    BY StepsWhileUp DEF Promises
  <1>2. ASSUME NEW c \in Calls, OutcomeOf(c) = "idle", OutcomeOf(c)' = "waiting",
               pending' = Append(pending, c), \A d \in Calls \ {c} : OutcomeOf(d)' = OutcomeOf(d)
        PROVE  Promises'
    <2>1. /\ pending' \in Seq(Calls) /\ Len(pending) \in Nat /\ Len(pending') = Len(pending) + 1
          /\ pending'[Len(pending) + 1] = c
          /\ \A i \in 1..Len(pending) : pending'[i] = pending[i] /\ pending[i] # c
      BY <1>1, <1>2
    <2>2. \A d \in Calls : OutcomeOf(d)' \notin {"foreign", "failed"}
      BY <1>1, <1>2
    <2>3. ASSUME NEW d \in Calls
          PROVE  OutcomeOf(d)' = "waiting" <=> \E i \in 1..Len(pending') : pending'[i] = d
      <3>1. (\E i \in 1..Len(pending') : pending'[i] = d) <=> (d = c \/ \E i \in 1..Len(pending) : pending[i] = d)
        BY <2>1
      <3> QED
        BY <1>1, <1>2, <3>1
    <2>4. \A i, j \in 1..Len(pending') : pending'[i] = pending'[j] => i = j
      BY <1>1, <2>1
    <2> QED
      BY <2>1, <2>2, <2>3, <2>4 DEF Promises
  <1>3. ASSUME pending # <<>>, pending' = Tail(pending),
               \A d \in Calls : OutcomeOf(d)' = IF d = Head(pending) THEN "own" ELSE OutcomeOf(d)
        PROVE  Promises'
    <2>1. /\ pending' \in Seq(Calls) /\ Len(pending) \in Nat /\ Len(pending') = Len(pending) - 1
          /\ Head(pending) = pending[1] /\ 1 \in 1..Len(pending)
          /\ \A i \in 1..Len(pending') : i + 1 \in 1..Len(pending) /\ pending'[i] = pending[i + 1]
      BY <1>1, <1>3
    <2>2. \A d \in Calls : OutcomeOf(d)' \notin {"foreign", "failed"}
      BY <1>1, <1>3
    <2>3. ASSUME NEW d \in Calls
          PROVE  OutcomeOf(d)' = "waiting" <=> \E i \in 1..Len(pending') : pending'[i] = d
      <3>1. ASSUME NEW i \in 1..Len(pending), pending[i] = d, d # pending[1]
            PROVE  i - 1 \in 1..Len(pending') /\ pending'[i - 1] = d
        BY <2>1, <3>1
      <3>2. ASSUME NEW i \in 1..Len(pending'), pending'[i] = d
            PROVE  i + 1 \in 1..Len(pending) /\ pending[i + 1] = d /\ d # pending[1]
        BY <1>1, <2>1, <3>2
      <3>3. OutcomeOf(d)' = "waiting" <=> OutcomeOf(d) = "waiting" /\ d # pending[1]
        BY <1>3, <2>1
      <3>4. OutcomeOf(d) = "waiting" <=> \E i \in 1..Len(pending) : pending[i] = d
        BY <1>1
      <3> QED
        BY <3>1, <3>2, <3>3, <3>4
    <2>4. \A i, j \in 1..Len(pending') : pending'[i] = pending'[j] => i = j
      BY <1>1, <2>1
    <2> QED
      BY <2>1, <2>2, <2>3, <2>4 DEF Promises
  <1>4. ASSUME pending' = pending, \A d \in Calls : OutcomeOf(d)' = OutcomeOf(d)
        PROVE  Promises'
    BY <1>1, <1>4 DEF Promises
  <1> QED
    BY <1>2, <1>3, <1>4, StepsWhileUp

LEMMA InitPromises == Init => Promises
  <1> SUFFICES ASSUME Init PROVE Promises
    OBVIOUS
  <1>1. pending = <<>>
    BY DEF Init
  <1>2. \A c \in Calls : OutcomeOf(c) = "idle"
    BY DEF Init, OutcomeOf
  <1> QED
    BY <1>1, <1>2 DEF Promises

LEMMA PromisesInvariant == Spec => []Promises
  BY InitPromises, PromisesHold, NextImplements, Invariance, PTL DEF Spec

(* As long as the transport is up no call has been given another call's    *)
(* answer, and none has failed: CommandChannel's promise, kept by the code. *)
THEOREM ChannelCorrelates == Spec => []Channel!UpMeansCorrelated
  <1>1. Promises => Channel!UpMeansCorrelated
    BY DEF Promises, Channel!UpMeansCorrelated
  <1> QED
    BY <1>1, PromisesInvariant, PTL

(* As long as the transport is up every call that waits will be reached:   *)
(* it has one place in the order of answers, which nobody else has.        *)
THEOREM ChannelForgetsNobody == Spec => []Channel!QueueHoldsTheWaiting
  <1>1. Promises => Channel!QueueHoldsTheWaiting
    BY DEF Promises, Channel!QueueHoldsTheWaiting, Channel!Waiting
  <1> QED
    BY <1>1, PromisesInvariant, PTL
=============================================================================
