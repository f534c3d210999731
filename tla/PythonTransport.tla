--------------------------- MODULE PythonTransport ---------------------------
(***************************************************************************)
(* SerialTransport of the Python client: the threads that call command(),  *)
(* the reader thread, the thread that runs open() and the threads that run *)
(* close().  What one of the two locks protects is one step, and the write *)
(* lock is modelled by the call that holds it; what no lock protects (the  *)
(* failure check of command(), the closed check of close()) is a step of   *)
(* its own.  The port and the device are as in KotlinTransport.            *)
(***************************************************************************)
EXTENDS Integers, Sequences, FiniteSets

CONSTANTS
    Calls,        \* the calls of command()
    NoCall,       \* no call
    Refused,      \* the calls the device answers with an error line
    Closers,      \* the threads that call close() on the open transport
    Opener,       \* the thread that runs open(), and close() when that fails
    Leftovers,    \* lines of an earlier session that may wait in the port
    Noise,        \* kinds of lines the device sends on its own
    MaxNoise,     \* bound: how many of them
    Disruptions   \* operations that may fail: "readFails", "writeFails"

Raws == {"crlf", "startCLI"}
Kinds == {"R", "ERR", "S", "LOG", "@@@"}
Lines == [kind : Kinds, of : Calls \cup {NoCall}]
Threads == Closers \cup {Opener}

ASSUME CallsAssumption ==
    /\ NoCall \notin Calls
    /\ Raws \cap (Calls \cup {NoCall}) = {}
    /\ Refused \subseteq Calls
    /\ Opener \notin Closers
ASSUME LeftoversAssumption ==
    /\ Leftovers \subseteq Seq(Lines)
    /\ \A s \in Leftovers : \A i \in DOMAIN s : /\ s[i].kind # "@@@"
                                             /\ s[i].of = NoCall
ASSUME NoiseAssumption ==
    Noise \subseteq {"S", "LOG"} /\ MaxNoise \in Nat
ASSUME DisruptionsAssumption ==
    Disruptions \subseteq {"readFails", "writeFails"}

VARIABLES
    boot,         \* where open() and initialize() are
    initialized,  \* the Event _initialized
    failure,      \* where the error in _failure comes from, or "none"
    closed,       \* the Event _closed
    pending,      \* the deque _pending
    future,       \* the Future each call of command() made
    call,         \* where each call of command() is
    writeLock,    \* the call that holds _write_lock
    reader,       \* where the reader thread is
    closer,       \* where each thread is in close()
    rx,           \* lines received, in the OS buffer or the reader's chunk
    toDevice,     \* what was written to the port, not yet seen by the device
    port,         \* the serial port: open or closed
    noise         \* how many lines the device sent on its own

eventVars == <<initialized, failure, closed>>
callVars == <<pending, future, call, writeLock>>
portVars == <<rx, toDevice, port, noise>>
vars == <<boot, eventVars, callVars, reader, closer, portVars>>

Open == [tag |-> "open", of |-> NoCall]      \* the future is not done
Failed == [tag |-> "failed", of |-> NoCall]  \* set_exception by _fail

IsOpen(c) == future[c] = Open
InPending(c) == \E i \in 1..Len(pending) : pending[i] = c

Init ==
    /\ boot = "crlf"
    /\ initialized = FALSE
    /\ failure = "none"
    /\ closed = FALSE
    /\ pending = <<>>
    /\ future = [c \in Calls |-> Open]
    /\ call = [c \in Calls |-> "idle"]
    /\ writeLock = NoCall
    /\ reader = "poll"
    /\ closer = [t \in Threads |-> "idle"]
    /\ rx \in Leftovers
    /\ toDevice = <<>>
    /\ port = "open"
    /\ noise = 0

-----------------------------------------------------------------------------
(* The port, and the two halves of _fail.                                  *)

WriteSucceeds(data) ==
    /\ port = "open"
    /\ toDevice' = Append(toDevice, data)
    /\ UNCHANGED <<rx, port, noise>>

WriteFails ==
    /\ "writeFails" \in Disruptions \/ port = "closed"
    /\ UNCHANGED portVars

(* The first error stays in _failure, and nobody waits for the CLI.        *)
SetFailure(error) ==
    /\ failure' = IF failure = "none" THEN error ELSE failure
    /\ initialized' = TRUE
    /\ UNCHANGED closed

(* Under _pending_lock: take the whole deque; then fail every future in it, *)
(* which nobody else can reach any more.                                    *)
DrainPending ==
    /\ pending' = <<>>
    /\ future' = [c \in Calls |->
                     IF InPending(c) /\ IsOpen(c) THEN Failed ELSE future[c]]

-----------------------------------------------------------------------------
(* open() and initialize()                                                 *)

BootWrite(here, raw, there) ==
    /\ boot = here
    /\ \/ WriteSucceeds(raw) /\ boot' = there
       \/ WriteFails /\ boot' = "closing"
    /\ UNCHANGED <<eventVars, callVars, reader, closer>>

BootCrlf == BootWrite("crlf", "crlf", "start")

(* After the loop that waits for an empty outbound buffer.                 *)
BootStartCLI == BootWrite("start", "startCLI", "wait")

(* Fault: initialize() does not wait for the marker.                       *)
BootReadyUnawaited ==
    /\ boot = "wait"
    /\ boot' = IF failure = "none" THEN "ready" ELSE "closing"
    /\ UNCHANGED <<eventVars, callVars, reader, closer, portVars>>

(* _initialized.wait returned True; _raise_if_failed.                      *)
BootReady ==
    /\ boot = "wait"
    /\ initialized
    /\ boot' = IF failure = "none" THEN "ready" ELSE "closing"
    /\ UNCHANGED <<eventVars, callVars, reader, closer, portVars>>

(* Fault: _initialized.wait without a timeout returns when it is set.      *)
BootWaitsForEver ==
    /\ boot = "wait"
    /\ ~initialized /\ failure # "none"
    /\ boot' = "closing"
    /\ UNCHANGED <<eventVars, callVars, reader, closer, portVars>>

(* _initialized.wait returned False: TimeoutError.                         *)
BootTimeout ==
    /\ boot = "wait"
    /\ ~initialized
    /\ boot' = "closing"
    /\ UNCHANGED <<eventVars, callVars, reader, closer, portVars>>

(* except BaseException: transport.close(); raise. close() is CloseStep.   *)
BootRaises ==
    /\ boot = "closing"
    /\ closer[Opener] \in {"done", "skipped"}
    /\ boot' = "failed"
    /\ UNCHANGED <<eventVars, callVars, reader, closer, portVars>>

-----------------------------------------------------------------------------
(* command()                                                               *)

Moves(c, here, there) ==
    /\ call[c] = here
    /\ call' = [call EXCEPT ![c] = there]

(* _raise_if_failed, which takes no lock.                                  *)
CheckFailure(c) ==
    /\ boot = "ready"
    /\ Moves(c, "idle", IF failure = "none" THEN "checked" ELSE "raised")
    /\ UNCHANGED <<boot, eventVars, pending, future, writeLock>>
    /\ UNCHANGED <<reader, closer, portVars>>

(* Fault: the future is appended before _write_lock is taken.              *)
AppendPendingUnlocked(c) ==
    /\ Moves(c, "checked", "appended")
    /\ writeLock' = c
    /\ pending' = Append(pending, c)
    /\ UNCHANGED <<boot, eventVars, future, reader, closer, portVars>>

(* Take _write_lock, and append the future under _pending_lock.            *)
AppendPending(c) ==
    /\ writeLock = NoCall
    /\ Moves(c, "checked", "appended")
    /\ writeLock' = c
    /\ pending' = Append(pending, c)
    /\ UNCHANGED <<boot, eventVars, future, reader, closer, portVars>>

(* Fault: _write_lock is released by the error path only.                  *)
WriteCommandKeepsLock(c) ==
    /\ Moves(c, "appended", "returned")
    /\ WriteSucceeds(c)
    /\ UNCHANGED <<boot, eventVars, pending, future, writeLock, reader, closer>>

(* _write_unlocked wrote everything; the caller gets its future.           *)
WriteCommand(c) ==
    /\ Moves(c, "appended", "returned")
    /\ WriteSucceeds(c)
    /\ writeLock' = NoCall
    /\ UNCHANGED <<boot, eventVars, pending, future, reader, closer>>

(* encode or _write_unlocked raised: _fail, still under _write_lock.       *)
WriteCommandFails(c) ==
    /\ Moves(c, "appended", "failing")
    /\ WriteFails
    /\ SetFailure("write")
    /\ UNCHANGED <<boot, pending, future, writeLock, reader, closer>>

(* Fault: _write_lock is not released when command() raises.               *)
CommandRaisesWithLock(c) ==
    /\ Moves(c, "failing", "raised")
    /\ DrainPending
    /\ UNCHANGED <<boot, eventVars, writeLock, reader, closer, portVars>>

CommandRaises(c) ==
    /\ Moves(c, "failing", "raised")
    /\ DrainPending
    /\ writeLock' = NoCall
    /\ UNCHANGED <<boot, eventVars, reader, closer, portVars>>

-----------------------------------------------------------------------------
(* _reader_loop                                                            *)

(* _complete: the oldest future gets the line, whatever it answers.        *)
complete(line) ==
    IF pending = <<>>
    THEN UNCHANGED <<pending, future>>
    ELSE /\ pending' = Tail(pending)
         /\ future' = [future EXCEPT ![Head(pending)] =
                          [tag |-> IF line.kind = "R" THEN "success" ELSE "error",
                           of |-> line.of]]

(* Fault: a subscription line completes a command.                        *)
handleLineUpdate(line) ==
    IF ~initialized
    THEN /\ initialized' = (line.kind = "@@@")
         /\ UNCHANGED <<pending, future>>
    ELSE /\ IF line.kind \in {"R", "ERR", "S"}
            THEN complete(line)
            ELSE UNCHANGED <<pending, future>>
         /\ UNCHANGED initialized

(* Fault: an error line is a diagnostic.                                   *)
handleLineNoError(line) ==
    IF ~initialized
    THEN /\ initialized' = (line.kind = "@@@")
         /\ UNCHANGED <<pending, future>>
    ELSE /\ IF line.kind \in {"R"}
            THEN complete(line)
            ELSE UNCHANGED <<pending, future>>
         /\ UNCHANGED initialized

(* _handle_line, and the marker that _accept_byte recognizes without a     *)
(* line ending.  Subscriptions and diagnostics leave this state alone.     *)
handleLine(line) ==
    IF ~initialized
    THEN /\ initialized' = (line.kind = "@@@")
         /\ UNCHANGED <<pending, future>>
    ELSE /\ IF line.kind \in {"R", "ERR"}
            THEN complete(line)
            ELSE UNCHANGED <<pending, future>>
         /\ UNCHANGED initialized

(* One line of the chunk; _closed is looked at between chunks only.        *)
ReaderLine ==
    /\ reader = "poll"
    /\ rx # <<>>
    /\ rx' = Tail(rx)
    /\ handleLine(Head(rx))
    /\ UNCHANGED <<boot, failure, closed, call, writeLock, reader, closer>>
    /\ UNCHANGED <<toDevice, port, noise>>

ReaderStops ==
    /\ reader = "poll"
    /\ closed
    /\ reader' = "stopped"
    /\ UNCHANGED <<boot, eventVars, callVars, closer, portVars>>

(* in_waiting or read raised: _fail, unless the transport is being closed. *)
ReaderFails ==
    /\ reader = "poll"
    /\ "readFails" \in Disruptions \/ port = "closed"
    /\ ~closed
    /\ reader' = "failing"
    /\ SetFailure("read")
    /\ UNCHANGED <<boot, callVars, closer, portVars>>

ReaderEnds ==
    /\ reader = "failing"
    /\ reader' = "stopped"
    /\ DrainPending
    /\ UNCHANGED <<boot, eventVars, call, writeLock, closer, portVars>>

-----------------------------------------------------------------------------
(* close()                                                                 *)

CloserMoves(t, here, there) ==
    /\ closer[t] = here
    /\ closer' = [closer EXCEPT ![t] = there]
    /\ UNCHANGED boot

(* if self._closed.is_set(): return                                        *)
CloseChecks(t) ==
    /\ boot = (IF t = Opener THEN "closing" ELSE "ready")
    /\ CloserMoves(t, "idle", IF closed THEN "skipped" ELSE "set")
    /\ UNCHANGED <<eventVars, callVars, reader, portVars>>

CloseSets(t) ==
    /\ CloserMoves(t, "set", "serial")
    /\ closed' = TRUE
    /\ UNCHANGED <<initialized, failure, callVars, reader, portVars>>

(* Fault: close() forgets self._serial.close().                            *)
ClosePortForgets(t) ==
    /\ CloserMoves(t, "serial", "fail")
    /\ UNCHANGED <<eventVars, callVars, reader, portVars>>

ClosePort(t) ==
    /\ CloserMoves(t, "serial", "fail")
    /\ port' = "closed"
    /\ UNCHANGED <<eventVars, callVars, reader, rx, toDevice, noise>>

CloseFails(t) ==
    /\ CloserMoves(t, "fail", "drain")
    /\ SetFailure("closed")
    /\ UNCHANGED <<callVars, reader, portVars>>

CloseDrains(t) ==
    /\ CloserMoves(t, "drain", "join")
    /\ DrainPending
    /\ UNCHANGED <<eventVars, call, writeLock, reader, portVars>>

(* self._reader.join(timeout=1.0) gives up after its second.               *)
CloseJoins(t) ==
    /\ CloserMoves(t, "join", "done")
    /\ UNCHANGED <<eventVars, callVars, reader, portVars>>

-----------------------------------------------------------------------------
(* The ftSwarm device, external to src/.                                   *)

Receives(line) == rx' = IF port = "open" THEN Append(rx, line) ELSE rx

Marker == [kind |-> "@@@", of |-> NoCall]
AnswerTo(c) == [kind |-> IF c \in Refused THEN "ERR" ELSE "R", of |-> c]

DeviceAnswers ==
    /\ toDevice # <<>>
    /\ toDevice' = Tail(toDevice)
    /\ \/ Head(toDevice) = "crlf" /\ UNCHANGED rx
       \/ Head(toDevice) = "startCLI" /\ Receives(Marker)
       \/ Head(toDevice) \in Calls /\ Receives(AnswerTo(Head(toDevice)))
    /\ UNCHANGED <<boot, eventVars, callVars, reader, closer, port, noise>>

DeviceSpeaks ==
    /\ noise < MaxNoise
    /\ noise' = noise + 1
    /\ \E kind \in Noise : Receives([kind |-> kind, of |-> NoCall])
    /\ UNCHANGED <<boot, eventVars, callVars, reader, closer, toDevice, port>>

-----------------------------------------------------------------------------

Boot == BootCrlf \/ BootStartCLI \/ BootReady \/ BootTimeout \/ BootRaises

(* A caller that has begun; nobody has to begin.                           *)
CallStep(c) ==
    \/ AppendPending(c)
    \/ WriteCommand(c)
    \/ WriteCommandFails(c)
    \/ CommandRaises(c)

Reader == ReaderLine \/ ReaderStops \/ ReaderFails \/ ReaderEnds

CloseStep(t) ==
    \/ CloseSets(t)
    \/ ClosePort(t)
    \/ CloseFails(t)
    \/ CloseDrains(t)
    \/ CloseJoins(t)

Next ==
    \/ Boot
    \/ \E c \in Calls : CheckFailure(c) \/ CallStep(c)
    \/ Reader
    \/ \E t \in Threads : CloseChecks(t) \/ CloseStep(t)
    \/ DeviceAnswers
    \/ DeviceSpeaks

Spec == Init /\ [][Next]_vars

(* The operating system runs every thread that is not waiting for a lock,  *)
(* and Event.wait comes back after its timeout.  Nobody has to call         *)
(* command() or close(), but open() does close what it could not open; the *)
(* port need not break, but what a closed port breaks does fail.           *)
Fairness ==
    /\ WF_vars(Boot)
    /\ \A c \in Calls : WF_vars(CallStep(c))
    /\ WF_vars(\/ ReaderLine \/ ReaderStops \/ ReaderEnds
               \/ port = "closed" /\ ReaderFails)
    /\ \A t \in Threads : WF_vars(CloseStep(t))
    /\ WF_vars(CloseChecks(Opener))

FairSpec == Spec /\ Fairness

-----------------------------------------------------------------------------

Futures ==
    [tag : {"open", "failed"}, of : {NoCall}]
        \cup [tag : {"success", "error"}, of : Calls \cup {NoCall}]

TypeOK ==
    /\ boot \in {"crlf", "start", "wait", "ready", "closing", "failed"}
    /\ initialized \in BOOLEAN
    /\ failure \in {"none", "write", "read", "closed"}
    /\ closed \in BOOLEAN
    /\ pending \in Seq(Calls)
    /\ future \in [Calls -> Futures]
    /\ call \in [Calls -> {"idle", "checked", "appended", "returned",
                           "failing", "raised"}]
    /\ writeLock \in Calls \cup {NoCall}
    /\ \A c \in Calls : writeLock = c <=> call[c] \in {"appended", "failing"}
    /\ reader \in {"poll", "failing", "stopped"}
    /\ closer \in [Threads -> {"idle", "skipped", "set", "serial", "fail",
                               "drain", "join", "done"}]
    /\ rx \in Seq(Lines)
    /\ toDevice \in Seq(Calls \cup Raws)
    /\ port \in {"open", "closed"}
    /\ noise \in 0..MaxNoise

-----------------------------------------------------------------------------
(* Safety.                                                                 *)

Returned(c) == call[c] = "returned"

(* A future that a caller got hold of never carries another call's line, a *)
(* stale line or a line the device sent on its own.  It is command(), not  *)
(* the deque, that keeps this through close(): a call that slips in behind *)
(* the drain may take a late line, but its write fails and it raises.  Not *)
(* so when a write failed first: the reader goes on, and a call that had   *)
(* passed its check may get the line of a call that was drained.           *)
CorrelatedFutures ==
    failure # "write" => \A c \in Calls :
        Returned(c) /\ future[c].tag \in {"success", "error"} => future[c].of = c

(* close() closes the port before it fails what is pending, so a call that *)
(* returned a future had it in the deque by then: once a close() that did  *)
(* the work is through, nobody waits for an answer that cannot come.        *)
CloseResolvesFutures ==
    \A t \in Threads : closer[t] \in {"join", "done"} =>
        \A c \in Calls : Returned(c) => ~IsOpen(c)

(* "stale R: lines before initialization do not complete commands", and no *)
(* command reaches the device before its marker has been seen.             *)
NoCommandBeforeMarker ==
    \A c \in Calls :
        \/ \E i \in 1..Len(toDevice) : toDevice[i] = c
        \/ \E i \in 1..Len(rx) : rx[i].of = c
        => /\ \A i \in 1..Len(toDevice) : toDevice[i] \notin Raws
           /\ \A i \in 1..Len(rx) : rx[i].kind # "@@@"

-----------------------------------------------------------------------------
(* What the transport implements.                                          *)

(* What the caller of command() knows: the future is its own only once it  *)
(* was returned, and an exception is the outcome whatever became of it.     *)
ResultOf(c) ==
    CASE future[c].tag = "open" -> "waiting"
      [] future[c].tag = "failed" -> "failed"
      [] OTHER -> IF future[c].of = c THEN "own" ELSE "foreign"

OutcomeOf(c) ==
    CASE call[c] \in {"idle", "checked"} -> "idle"
      [] call[c] = "appended" -> "waiting"
      [] call[c] = "returned" -> ResultOf(c)
      [] call[c] \in {"failing", "raised"} -> "failed"

Channel == INSTANCE CommandChannel WITH
    queue <- IF failure = "none" THEN pending ELSE <<>>,
    outcome <- [c \in Calls |-> OutcomeOf(c)],
    up <- failure = "none"

(* Every step of every thread is a step of the abstract FIFO channel or    *)
(* leaves it alone.                                                        *)
ImplementsChannel == Channel!Spec

-----------------------------------------------------------------------------
(* Liveness.                                                               *)

(* A device that answers what it is sent has every returned future done,   *)
(* unless the transport fails or is closed.                                *)
FuturesAreDone ==
    WF_vars(DeviceAnswers) =>
        \A c \in Calls : Returned(c) ~> (~IsOpen(c) \/ failure # "none")

(* A command() that has passed its check returns or raises: no thread      *)
(* waits for the write lock for ever, whoever fails or closes meanwhile.   *)
CommandsEnd == \A c \in Calls :
    call[c] = "checked" ~> call[c] \in {"returned", "raised"}

(* open() ends, with a mute device too: with a transport, or with an       *)
(* exception, a closed port and no reader left behind.                     *)
OpenEnds ==
    <>(\/ boot = "ready"
       \/ boot = "failed" /\ port = "closed" /\ reader = "stopped")
=============================================================================
