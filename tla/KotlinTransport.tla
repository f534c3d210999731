--------------------------- MODULE KotlinTransport ---------------------------
(***************************************************************************)
(* FtSwarmSerialTransport of the Kotlin client: coroutines that call       *)
(* command(), one writer coroutine and one reader coroutine on             *)
(* Dispatchers.IO, two unlimited channels between them, and whoever runs   *)
(* close() or failTransport().  The serial port and the ftSwarm device are *)
(* modelled as the code in src/ uses them.                                 *)
(*                                                                         *)
(* A command is a model value: its text is never looked at by the          *)
(* transport.  A line the device sends carries the call it answers, which  *)
(* the transport cannot see (the protocol has no command ID); it is what   *)
(* the correctness properties speak about.                                 *)
(***************************************************************************)
EXTENDS Integers, Sequences, FiniteSets

CONSTANTS
    Calls,        \* the calls of enqueueCommand
    NoCall,       \* no call: an empty hand, a line that answers nobody
    Refused,      \* the calls the device answers with an error line
    Leftovers,    \* lines of an earlier session that may wait in the port
    Noise,        \* kinds of lines the device sends on its own
    MaxNoise,     \* bound: how many of them
    Disruptions   \* what may go wrong or be asked for beside commands

Raws == {"crlf", "startCLI"}
Requests == Calls \cup Raws
Kinds == {"R", "ERR", "S", "LOG", "@@@"}
Lines == [kind : Kinds, of : Calls \cup {NoCall}]

ASSUME CallsAssumption ==
    /\ NoCall \notin Calls
    /\ Raws \cap (Calls \cup {NoCall}) = {}
    /\ Refused \subseteq Calls
ASSUME LeftoversAssumption ==
    /\ Leftovers \subseteq Seq(Lines)
    /\ \A s \in Leftovers : \A i \in DOMAIN s : /\ s[i].kind # "@@@"
                                             /\ s[i].of = NoCall
ASSUME NoiseAssumption ==
    Noise \subseteq {"S", "LOG"} /\ MaxNoise \in Nat
ASSUME DisruptionsAssumption ==
    Disruptions \subseteq {"close", "cancelOpen", "readFails", "writeFails"}

VARIABLES
    boot,         \* where the factory and initialize() are
    completed,    \* the `completed` of the Raw request initialize() awaits
    initialized,  \* the deferred of the same name
    writes,       \* the channel of the same name
    pending,      \* the channel of the same name: deferreds awaiting a line
    result,       \* the deferred that enqueueCommand made for each call
    writer,       \* where writerLoop is
    inHand,       \* the request writerLoop took from `writes`
    reader,       \* where readerLoop is
    rx,           \* lines received, in the OS buffer or readerLoop's array
    toDevice,     \* requests written to the port, not yet seen by the device
    port,         \* the serial port: open or closed
    owner,        \* who won closed.compareAndSet(false, true)
    teardown,     \* how far its close() or failTransport() has come
    noise         \* how many lines the device sent on its own

clientVars == <<boot, completed, initialized, writes, pending, result>>
loopVars == <<writer, inHand, reader>>
portVars == <<rx, toDevice, port, noise>>
closeVars == <<owner, teardown>>
vars == <<clientVars, loopVars, portVars, closeVars>>

-----------------------------------------------------------------------------
(* What the code tests.                                                    *)

closed == owner # "none"

(* writes.close(cause), pending.close(cause): only close() does that.      *)
WritesClosed == owner = "closer" /\ teardown # "closeWrites"

(* Fault: close() forgets pending.close(cause).                            *)
PendingClosedNever == FALSE

PendingClosed == WritesClosed /\ teardown # "closePending"

(* scope.cancel has been called: isActive is false.                        *)
Cancelled == teardown \in {"port", "done"}

isInitialized == initialized # "pending"

Idle == [tag |-> "idle", of |-> NoCall]      \* enqueueCommand not called yet
Open == [tag |-> "open", of |-> NoCall]      \* the deferred is not complete
Failed == [tag |-> "failed", of |-> NoCall]  \* completed exceptionally

IsOpen(c) == result[c] = Open

(* CompletableDeferred.complete: only the first completion counts.         *)
Complete(c, r) ==
    result' = [result EXCEPT ![c] = IF @ = Open THEN r ELSE @]

Init ==
    /\ boot = "crlf"
    /\ completed = "pending"
    /\ initialized = "pending"
    /\ writes = <<>>
    /\ pending = <<>>
    /\ result = [c \in Calls |-> Idle]
    /\ writer = "idle"
    /\ inHand = NoCall
    /\ reader = "poll"
    /\ rx \in Leftovers
    /\ toDevice = <<>>
    /\ port = "open"
    /\ owner = "none"
    /\ teardown = "no"
    /\ noise = 0

-----------------------------------------------------------------------------
(* The factory FtSwarmSerialTransport(port) and initialize().              *)

(* writeRaw(text): queue a Raw request with a fresh `completed`.           *)
WriteRaw(here, raw, there) ==
    /\ boot = here
    /\ writes' = Append(writes, raw)
    /\ completed' = "pending"
    /\ boot' = there
    /\ UNCHANGED <<initialized, pending, result, loopVars, portVars, closeVars>>

BootCrlf == WriteRaw("crlf", "crlf", "crlfSent")

(* writeRaw returned, drainOutput() found the outbound buffer empty (the   *)
(* UART empties it whether or not the device is listening).                *)
BootStartCLI == completed = "done" /\ WriteRaw("crlfSent", "startCLI", "startSent")

BootMoves(here, there) ==
    /\ boot = here
    /\ boot' = there
    /\ UNCHANGED <<completed, initialized, writes, pending, result>>
    /\ UNCHANGED <<loopVars, portVars, closeVars>>

BootAwaits == completed = "done" /\ BootMoves("startSent", "awaitInit")

(* Fault: the factory does not await the CLI marker.                       *)
BootReadyUnawaited == BootMoves("awaitInit", "ready")

BootReady == initialized = "done" /\ BootMoves("awaitInit", "ready")

(* initialized.await() rethrows what failTransport completed it with.      *)
BootFails == initialized = "failed" /\ BootMoves("awaitInit", "closing")

(* withTimeout(5.seconds) covers startCLI only, not the first writeRaw.    *)
BootTimeout ==
    \/ BootMoves("startSent", "closing")
    \/ BootMoves("awaitInit", "closing")

(* The coroutine that opens the transport is cancelled while it awaits.    *)
BootCancelled ==
    /\ "cancelOpen" \in Disruptions
    /\ \E here \in {"crlfSent", "startSent", "awaitInit"} :
          BootMoves(here, "closing")

(* catch (t: Throwable) { serial.closePort(); throw t }                    *)
BootClosePort ==
    /\ boot = "closing"
    /\ boot' = "failed"
    /\ port' = "closed"
    /\ UNCHANGED <<completed, initialized, writes, pending, result, loopVars>>
    /\ UNCHANGED <<rx, toDevice, noise, closeVars>>

-----------------------------------------------------------------------------
(* Callers.  A caller that is cancelled while it awaits its deferred leaves *)
(* the deferred where it is, so that is no step of this state.              *)

(* enqueueCommand: the transport exists only once initialize() returned;   *)
(* writes.send throws the close cause when close() closed the channel, and  *)
(* accepts the request in every other case, a failed transport included.    *)
Enqueue(c) ==
    /\ boot = "ready"
    /\ result[c] = Idle
    /\ IF WritesClosed
       THEN /\ result' = [result EXCEPT ![c] = Failed]
            /\ UNCHANGED writes
       ELSE /\ result' = [result EXCEPT ![c] = Open]
            /\ writes' = Append(writes, c)
    /\ UNCHANGED <<boot, completed, initialized, pending>>
    /\ UNCHANGED <<loopVars, portVars, closeVars>>

-----------------------------------------------------------------------------
(* writerLoop                                                              *)

(* Fault: a Raw request is registered like a Command.                      *)
WriterReceiveAlike ==
    /\ writer = "idle"
    /\ writes # <<>>
    /\ inHand' = Head(writes)
    /\ writes' = Tail(writes)
    /\ writer' = "register"
    /\ UNCHANGED <<boot, completed, initialized, pending, result>>
    /\ UNCHANGED <<reader, portVars, closeVars>>

(* Fault: a Command is written without being registered.                   *)
WriterReceiveUnregistered ==
    /\ writer = "idle"
    /\ writes # <<>>
    /\ inHand' = Head(writes)
    /\ writes' = Tail(writes)
    /\ writer' = "write"
    /\ UNCHANGED <<boot, completed, initialized, pending, result>>
    /\ UNCHANGED <<reader, portVars, closeVars>>

(* for (request in writes)                                                 *)
WriterReceive ==
    /\ writer = "idle"
    /\ writes # <<>>
    /\ inHand' = Head(writes)
    /\ writes' = Tail(writes)
    /\ writer' = IF Head(writes) \in Calls THEN "register" ELSE "write"
    /\ UNCHANGED <<boot, completed, initialized, pending, result>>
    /\ UNCHANGED <<reader, portVars, closeVars>>

(* Fault: writerLoop runs in a scope of its own.                           *)
WriterEndsWithChannel ==
    /\ writer = "idle"
    /\ WritesClosed /\ writes = <<>>
    /\ writer' = "failing"
    /\ UNCHANGED <<clientVars, inHand, reader, portVars, closeVars>>

(* The iterator throws: `writes` is closed and empty, or the scope was     *)
(* cancelled while writerLoop was suspended in it.                         *)
WriterEnds ==
    /\ writer = "idle"
    /\ Cancelled \/ (WritesClosed /\ writes = <<>>)
    /\ writer' = "failing"
    /\ UNCHANGED <<clientVars, inHand, reader, portVars, closeVars>>

(* pending.send(request.result)                                            *)
WriterRegister ==
    /\ writer = "register"
    /\ ~PendingClosed
    /\ pending' = Append(pending, inHand)
    /\ writer' = "write"
    /\ UNCHANGED <<boot, completed, initialized, writes, result>>
    /\ UNCHANGED <<inHand, reader, portVars, closeVars>>

(* The request in hand is lost, its deferred untouched: pending.send threw *)
(* because close() closed the channel, outside the inner try; or the scope *)
(* was cancelled between the resumption of the suspended iterator and its  *)
(* return (the prompt cancellation guarantee of Channel.receive).          *)
WriterDropsRequest ==
    /\ writer = "register"
    /\ PendingClosed \/ Cancelled
    /\ writer' = "failing"
    /\ inHand' = NoCall
    /\ UNCHANGED <<clientVars, reader, portVars, closeVars>>

(* writeBytes got the whole request into the port.                         *)
WriterWrite ==
    /\ writer = "write"
    /\ port = "open"
    /\ ~Cancelled
    /\ toDevice' = Append(toDevice, inHand)
    /\ writer' = "wrote"
    /\ UNCHANGED <<clientVars, inHand, reader>>
    /\ UNCHANGED <<rx, port, noise, closeVars>>

(* writeBytes throws: a Command's deferred fails with it, a Raw's          *)
(* `completed` does not.                                                   *)
WriteThrows ==
    /\ writer' = "failing"
    /\ inHand' = NoCall
    /\ IF inHand \in Calls THEN Complete(inHand, Failed) ELSE UNCHANGED result
    /\ UNCHANGED <<boot, completed, initialized, writes, pending>>
    /\ UNCHANGED <<reader, portVars, closeVars>>

(* The port refuses the bytes or takes none (check(written > 0)), or       *)
(* withContext finds the scope cancelled before it starts.                 *)
WriterWriteFails ==
    /\ writer = "write"
    /\ "writeFails" \in Disruptions \/ port = "closed" \/ Cancelled
    /\ WriteThrows

(* withContext throws although the bytes went out.                         *)
WriterCancelledAfterWrite ==
    /\ writer = "wrote"
    /\ Cancelled
    /\ WriteThrows

(* request.completed.complete(Unit) for a Raw; nothing for a Command.      *)
WriterWrote ==
    /\ writer = "wrote"
    /\ ~Cancelled
    /\ writer' = "idle"
    /\ completed' = IF inHand \in Raws THEN "done" ELSE completed
    /\ inHand' = NoCall
    /\ UNCHANGED <<boot, initialized, writes, pending, result>>
    /\ UNCHANGED <<reader, portVars, closeVars>>

-----------------------------------------------------------------------------
(* readerLoop                                                              *)

(* Fault: the youngest deferred gets the line.                             *)
completeLast(line) ==
    IF pending = <<>>
    THEN UNCHANGED <<pending, result>>
    ELSE /\ pending' = SubSeq(pending, 1, Len(pending) - 1)
         /\ Complete(pending[Len(pending)],
                     [tag |-> IF line.kind = "R" THEN "success" ELSE "error",
                      of |-> line.of])

(* completeNext: the oldest deferred gets the line, whatever it answers: a *)
(* Success for "R: ", an Error for a line that matches ERROR_LINE.          *)
completeNext(line) ==
    IF pending = <<>>
    THEN UNCHANGED <<pending, result>>
    ELSE /\ pending' = Tail(pending)
         /\ Complete(Head(pending),
                     [tag |-> IF line.kind = "R" THEN "success" ELSE "error",
                      of |-> line.of])

(* Fault: a subscription line completes a command.                        *)
handleLineUpdate(line) ==
    IF ~isInitialized
    THEN /\ initialized' = IF line.kind = "@@@" THEN "done" ELSE initialized
         /\ UNCHANGED <<pending, result>>
    ELSE /\ IF line.kind \in {"R", "ERR", "S"}
            THEN completeNext(line)
            ELSE UNCHANGED <<pending, result>>
         /\ UNCHANGED initialized

(* Fault: an error line is a diagnostic.                                   *)
handleLineNoError(line) ==
    IF ~isInitialized
    THEN /\ initialized' = IF line.kind = "@@@" THEN "done" ELSE initialized
         /\ UNCHANGED <<pending, result>>
    ELSE /\ IF line.kind \in {"R"}
            THEN completeNext(line)
            ELSE UNCHANGED <<pending, result>>
         /\ UNCHANGED initialized

(* handleLine, and the marker that SerialInputBuffer recognizes without a  *)
(* line ending.  An "S" line goes to subscriptionFlow, which is not part of *)
(* this module; it and every diagnostic line leave this state alone.        *)
handleLine(line) ==
    IF ~isInitialized
    THEN /\ initialized' = IF line.kind = "@@@" THEN "done" ELSE initialized
         /\ UNCHANGED <<pending, result>>
    ELSE /\ IF line.kind \in {"R", "ERR"}
            THEN completeNext(line)
            ELSE UNCHANGED <<pending, result>>
         /\ UNCHANGED initialized

(* One line of the bytes read.  The reader finishes the array it has read  *)
(* even after the scope is cancelled or the port closed.                   *)
ReaderLine ==
    /\ reader = "poll"
    /\ rx # <<>>
    /\ rx' = Tail(rx)
    /\ handleLine(Head(rx))
    /\ UNCHANGED <<boot, completed, writes>>
    /\ UNCHANGED <<loopVars, toDevice, port, noise, closeVars>>

(* Fault: what a closed port returns is taken for "no bytes".              *)
ReaderFailsOnError ==
    /\ reader = "poll"
    /\ "readFails" \in Disruptions
    /\ reader' = IF Cancelled THEN "stopped" ELSE "failing"
    /\ UNCHANGED <<clientVars, writer, inHand, portVars, closeVars>>

(* bytesAvailable() or readBytes() reports an error, as they do once the    *)
(* port is closed; the catch block is left alone when isActive is false.    *)
ReaderFails ==
    /\ reader = "poll"
    /\ "readFails" \in Disruptions \/ port = "closed"
    /\ reader' = IF Cancelled THEN "stopped" ELSE "failing"
    /\ UNCHANGED <<clientVars, writer, inHand, portVars, closeVars>>

(* isActive is false at the head of the loop, or delay() throws.           *)
ReaderStops ==
    /\ reader = "poll"
    /\ Cancelled
    /\ reader' = "stopped"
    /\ UNCHANGED <<clientVars, writer, inHand, portVars, closeVars>>

-----------------------------------------------------------------------------
(* close() and failTransport()                                             *)

Begin(who, phase) ==
    /\ owner = "none"
    /\ owner' = who
    /\ teardown' = phase
    /\ UNCHANGED <<clientVars, loopVars, portVars>>

Close ==
    /\ "close" \in Disruptions
    /\ boot = "ready"
    /\ Begin("closer", "closeWrites")

WriterFailsTransport == writer = "failing" /\ Begin("writer", "failInit")
ReaderFailsTransport == reader = "failing" /\ Begin("reader", "failInit")

(* failTransport returns at once to a loop that lost the compareAndSet.    *)
WriterStops ==
    /\ writer = "failing"
    /\ owner \notin {"none", "writer"}
    /\ writer' = "stopped"
    /\ UNCHANGED <<clientVars, inHand, reader, portVars, closeVars>>

ReaderStopsFailing ==
    /\ reader = "failing"
    /\ owner \notin {"none", "reader"}
    /\ reader' = "stopped"
    /\ UNCHANGED <<clientVars, writer, inHand, portVars, closeVars>>

Teardown(here, there) ==
    /\ teardown = here
    /\ teardown' = there
    /\ UNCHANGED owner

(* writes.close(cause)                                                     *)
CloseWrites ==
    /\ Teardown("closeWrites", "closePending")
    /\ UNCHANGED <<clientVars, loopVars, portVars>>

(* pending.close(cause)                                                    *)
ClosePending ==
    /\ Teardown("closePending", "drain")
    /\ UNCHANGED <<clientVars, loopVars, portVars>>

(* if (!initialized.isCompleted) initialized.completeExceptionally(t)      *)
FailInitialized ==
    /\ Teardown("failInit", "drain")
    /\ initialized' = IF isInitialized THEN initialized ELSE "failed"
    /\ UNCHANGED <<boot, completed, writes, pending, result, loopVars, portVars>>

(* One turn of the loop that takes the deferreds out of `pending`.         *)
Drain ==
    /\ pending # <<>>
    /\ Teardown("drain", "drain")
    /\ pending' = Tail(pending)
    /\ Complete(Head(pending), Failed)
    /\ UNCHANGED <<boot, completed, initialized, writes, loopVars, portVars>>

Drained ==
    /\ pending = <<>>
    /\ Teardown("drain", "cancel")
    /\ UNCHANGED <<clientVars, loopVars, portVars>>

(* scope.cancel(...)                                                       *)
CancelScope ==
    /\ Teardown("cancel", "port")
    /\ UNCHANGED <<clientVars, loopVars, portVars>>

(* serial.closePort(), after which the loop that failed ends.              *)
ClosePort ==
    /\ Teardown("port", "done")
    /\ port' = "closed"
    /\ writer' = IF owner = "writer" THEN "stopped" ELSE writer
    /\ reader' = IF owner = "reader" THEN "stopped" ELSE reader
    /\ UNCHANGED <<clientVars, inHand, rx, toDevice, noise>>

-----------------------------------------------------------------------------
(* The ftSwarm device, external to src/.                                   *)

Receives(line) == rx' = IF port = "open" THEN Append(rx, line) ELSE rx

Marker == [kind |-> "@@@", of |-> NoCall]
AnswerTo(c) == [kind |-> IF c \in Refused THEN "ERR" ELSE "R", of |-> c]

(* It answers what it gets in order: the CLI marker to startCLI, one R: or *)
(* error line to a command, nothing to an empty line.                      *)
DeviceAnswers ==
    /\ toDevice # <<>>
    /\ toDevice' = Tail(toDevice)
    /\ \/ Head(toDevice) = "crlf" /\ UNCHANGED rx
       \/ Head(toDevice) = "startCLI" /\ Receives(Marker)
       \/ Head(toDevice) \in Calls /\ Receives(AnswerTo(Head(toDevice)))
    /\ UNCHANGED <<clientVars, loopVars, port, noise, closeVars>>

(* It sends subscription updates and diagnostics whenever it likes.        *)
DeviceSpeaks ==
    /\ noise < MaxNoise
    /\ noise' = noise + 1
    /\ \E kind \in Noise : Receives([kind |-> kind, of |-> NoCall])
    /\ UNCHANGED <<clientVars, loopVars, toDevice, port, closeVars>>

-----------------------------------------------------------------------------

Boot == \/ BootCrlf \/ BootStartCLI \/ BootAwaits \/ BootReady
        \/ BootFails \/ BootTimeout \/ BootCancelled \/ BootClosePort

Writer == \/ WriterReceive \/ WriterEnds \/ WriterRegister
          \/ WriterDropsRequest \/ WriterWrite \/ WriterWriteFails
          \/ WriterCancelledAfterWrite \/ WriterWrote
          \/ WriterFailsTransport \/ WriterStops

Reader == \/ ReaderLine \/ ReaderFails \/ ReaderStops
          \/ ReaderFailsTransport \/ ReaderStopsFailing

Shutdown == \/ CloseWrites \/ ClosePending \/ FailInitialized
            \/ Drain \/ Drained \/ CancelScope \/ ClosePort

Next ==
    \/ Boot
    \/ \E c \in Calls : Enqueue(c)
    \/ Writer
    \/ Reader
    \/ Close
    \/ Shutdown
    \/ DeviceAnswers
    \/ DeviceSpeaks

Spec == Init /\ [][Next]_vars

(* Dispatchers.IO runs every coroutine that can run, and the timer of      *)
(* withTimeout goes off.  Nobody has to call a command or close(), cancel  *)
(* the opening or break the port, but what a closed port breaks does fail. *)
Fairness ==
    /\ WF_vars(\/ BootCrlf \/ BootStartCLI \/ BootAwaits \/ BootReady
               \/ BootFails \/ BootClosePort)
    /\ WF_vars(BootTimeout)
    /\ WF_vars(Writer)
    /\ WF_vars(\/ ReaderLine \/ ReaderStops
               \/ ReaderFailsTransport \/ ReaderStopsFailing
               \/ port = "closed" /\ ReaderFails)
    /\ WF_vars(Shutdown)

FairSpec == Spec /\ Fairness

-----------------------------------------------------------------------------

Results ==
    [tag : {"idle", "open", "failed"}, of : {NoCall}]
        \cup [tag : {"success", "error"}, of : Calls \cup {NoCall}]

TypeOK ==
    /\ boot \in {"crlf", "crlfSent", "startSent", "awaitInit", "ready",
                 "closing", "failed"}
    /\ completed \in {"pending", "done"}
    /\ initialized \in {"pending", "done", "failed"}
    /\ writes \in Seq(Requests)
    /\ pending \in Seq(Calls)
    /\ result \in [Calls -> Results]
    /\ writer \in {"idle", "register", "write", "wrote", "failing", "stopped"}
    /\ inHand \in Requests \cup {NoCall}
    /\ writer = "register" => inHand \in Calls
    /\ writer \in {"write", "wrote"} => inHand \in Requests
    /\ reader \in {"poll", "failing", "stopped"}
    /\ rx \in Seq(Lines)
    /\ toDevice \in Seq(Requests)
    /\ port \in {"open", "closed"}
    /\ owner \in {"none", "closer", "writer", "reader"}
    /\ teardown \in {"no", "closeWrites", "closePending", "failInit", "drain",
                     "cancel", "port", "done"}
    /\ owner = "none" <=> teardown = "no"
    /\ noise \in 0..MaxNoise
-----------------------------------------------------------------------------
(* Safety.                                                                 *)

Correlated ==
    \A c \in Calls : result[c].tag \in {"success", "error"} => result[c].of = c

(* Until close() or the writer's failTransport() begins, no call is ever   *)
(* completed with another call's line, with a stale line or with a line    *)
(* the device sent on its own.  A transport that failed because reading    *)
(* failed is safe as well: nobody reads lines any more while it drains.    *)
CorrelatedUnlessTornDown == owner \in {"none", "reader"} => Correlated

(* "Register first so a fast response cannot overtake us": whatever the    *)
(* order of closing, failing and answering, a call the device has seen or  *)
(* answered keeps its slot in `pending` for as long as it is not complete. *)
SlotBeforeWire ==
    \A c \in Calls :
        /\ \/ \E i \in DOMAIN toDevice : toDevice[i] = c
           \/ \E i \in DOMAIN rx : rx[i].of = c
        /\ IsOpen(c)
        => \E i \in DOMAIN pending : pending[i] = c

(* close() shuts `pending` before it empties it, so that the writer cannot *)
(* put another deferred there behind its back: once it has drained, every  *)
(* deferred that ever got a slot is complete, and none gets one any more.  *)
ClosedTransportHoldsNoSlot ==
    owner = "closer" /\ teardown \in {"cancel", "port", "done"} =>
        /\ pending = <<>>
        /\ \A i \in DOMAIN toDevice :
              toDevice[i] \in Calls => ~IsOpen(toDevice[i])

Quiet == /\ teardown = "done"
         /\ writer = "stopped"
         /\ reader = "stopped"

-----------------------------------------------------------------------------
(* What the transport implements.                                          *)

IsUp == owner = "none" /\ writer # "failing"

(* The order of commands: those with a slot, then the one writerLoop has   *)
(* received and not yet registered, then those queued.                     *)
InOrder ==
    IF IsUp /\ boot = "ready"
    THEN pending \o (IF writer = "register" THEN <<inHand>> ELSE <<>>) \o writes
    ELSE <<>>

OutcomeOf(c) ==
    CASE result[c].tag = "idle" -> "idle"
      [] result[c].tag = "open" -> "waiting"
      [] result[c].tag = "failed" -> "failed"
      [] OTHER -> IF result[c].of = c THEN "own" ELSE "foreign"

Channel == INSTANCE CommandChannel WITH
    queue <- InOrder,
    outcome <- [c \in Calls |-> OutcomeOf(c)],
    up <- IsUp

(* Every step of the two loops, the callers and the teardown is a step of  *)
(* the abstract FIFO channel or leaves it alone.                           *)
ImplementsChannel == Channel!Spec

-----------------------------------------------------------------------------
(* The inductive invariant behind CorrelatedUnlessTornDown.                *)

InWrites(c) == \E i \in 1..Len(writes) : writes[i] = c
InPending(c) == \E i \in 1..Len(pending) : pending[i] = c
WithDevice(c) == \E i \in 1..Len(toDevice) : toDevice[i] = c
Answered(c) == \E i \in 1..Len(rx) : rx[i].of = c
IsAnswer(line) == line.kind \in {"R", "ERR"}

(* Commands only exist once the handshake is complete, and only a failed   *)
(* handshake closes the port before anyone has won the compareAndSet.      *)
Handshake ==
    /\ owner = "none" /\ port = "closed" => boot = "failed"
    /\ boot = "ready" => initialized = "done"
    /\ boot # "ready" => \A c \in Calls : result[c] = Idle

(* A call is in one place of the path enqueueCommand -> writes -> writer,  *)
(* and passes each of them once.                                           *)
OnePlace ==
    /\ \A c \in Calls :
         /\ result[c] = Idle => ~InWrites(c) /\ inHand # c
         /\ result[c] = Idle \/ InWrites(c) \/ (inHand = c /\ writer = "register")
               => ~InPending(c) /\ ~WithDevice(c) /\ ~Answered(c)
         /\ InWrites(c) => inHand # c
         /\ inHand = c /\ writer = "write" => ~WithDevice(c) /\ ~Answered(c)
    /\ \A i, j \in 1..Len(writes) :
         writes[i] \in Calls /\ writes[i] = writes[j] => i = j
    /\ \A i, j \in 1..Len(pending) : pending[i] = pending[j] => i = j
    /\ \A i \in 1..Len(rx) : rx[i].of \in Calls => IsAnswer(rx[i])

(* Lines of an earlier session precede the marker, and are gone with it.   *)
StaleLinesFirst ==
    \A i \in 1..Len(rx) :
        IsAnswer(rx[i]) /\ rx[i].of = NoCall =>
            /\ initialized = "pending"
            /\ \A j \in 1..i : rx[j].kind # "@@@"

(* `pending` lists the calls on the wire in the order of their answers:    *)
(* first those whose line has been received, then those with the device,   *)
(* then the one that is being written or could not be.                     *)
SlotsForTheWire ==
    \A c \in Calls : WithDevice(c) \/ Answered(c) => InPending(c)
SlotsAreOnTheirWay ==
    \A p \in 1..Len(pending) :
        \/ Answered(pending[p])
        \/ WithDevice(pending[p])
        \/ /\ p = Len(pending)
           /\ \/ writer = "write" /\ inHand = pending[p]
              \/ writer = "failing"
LastSlotInHand ==
    inHand \in Calls /\ writer = "write" =>
        pending # <<>> /\ pending[Len(pending)] = inHand
LinesInOrder ==
    \A p, q \in 1..Len(pending) : \A i, j \in 1..Len(rx) :
        i < j /\ rx[i].of = pending[p] /\ rx[j].of = pending[q] => p < q
LinesBeforeDevice ==
    \A p, q \in 1..Len(pending) : \A i \in 1..Len(rx), j \in 1..Len(toDevice) :
        rx[i].of = pending[p] /\ toDevice[j] = pending[q] => p < q
DeviceInOrder ==
    \A p, q \in 1..Len(pending) : \A i, j \in 1..Len(toDevice) :
        i < j /\ toDevice[i] = pending[p] /\ toDevice[j] = pending[q] => p < q

Fifo == /\ SlotsForTheWire /\ SlotsAreOnTheirWay /\ LastSlotInHand
        /\ LinesInOrder /\ LinesBeforeDevice /\ DeviceInOrder

IInv ==
    /\ TypeOK
    /\ Handshake
    /\ OnePlace
    /\ owner = "none" => StaleLinesFirst /\ Fifo
    /\ owner = "reader" => reader # "poll"
    /\ CorrelatedUnlessTornDown

-----------------------------------------------------------------------------
(* What the other promises rest on beside IInv.                            *)

(* The calls that are being written, that are with the device or whose     *)
(* line has been received.                                                 *)
Due(c) == \/ WithDevice(c) \/ Answered(c)
          \/ writer = "write" /\ inHand = c

SlotsForDue == \A c \in Calls : Due(c) /\ IsOpen(c) => InPending(c)

SlotsGone ==
    owner = "closer" /\ teardown \in {"cancel", "port", "done"} => pending = <<>>

(* initialize() has its Raw requests written one at a time, and none of    *)
(* them is left when the first command may come.                           *)
NoRequest == writes = <<>> /\ inHand = NoCall

RawPath ==
    /\ boot \in {"crlf", "awaitInit"} => NoRequest
    /\ boot \in {"crlfSent", "startSent"} =>
          \/ NoRequest
          \/ completed = "pending" /\ writes = <<>>
          \/ completed = "pending" /\ Len(writes) = 1 /\ inHand = NoCall
    /\ boot = "ready" => /\ inHand \notin Raws
                         /\ \A i \in 1..Len(writes) : writes[i] \in Calls

(* While the transport is up, nobody who is queued or has a slot is done.  *)
SlotsAreOpen ==
    IsUp => \A c \in Calls :
        InPending(c) \/ InWrites(c) \/ (writer = "register" /\ inHand = c)
            => IsOpen(c)

ChannelIInv == IInv /\ SlotsForDue /\ SlotsGone /\ RawPath /\ SlotsAreOpen

-----------------------------------------------------------------------------
(* Liveness.                                                               *)

(* A device that answers what it is sent has every enqueued call completed, *)
(* with a result or with its error line, unless the transport is torn down. *)
CallsAreAnswered ==
    WF_vars(DeviceAnswers) =>
        \A c \in Calls : IsOpen(c) ~> (~IsOpen(c) \/ closed)

(* communication.md section 2: "If the handshake times out or any serial   *)
(* operation fails, fail construction and close the port."  The factory's  *)
(* catch block only does the latter: that both loops end too is due to     *)
(* readerLoop seeing a closed port.  (When the first write fails,          *)
(* construction does not end: initialize() waits outside of its timeout.)  *)
ConstructionEnds ==
    <>(\/ boot = "ready"
       \/ boot = "failed" /\ writer = "stopped" /\ reader = "stopped")

(* A teardown that began ends, with both loops stopped and the port closed. *)
TeardownEnds == closed ~> (Quiet /\ port = "closed")
=============================================================================
