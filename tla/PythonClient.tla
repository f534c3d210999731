---------------------------- MODULE PythonClient ----------------------------
(***************************************************************************)
(* The life of a client of the Python package, synchronous or asyncio:     *)
(* the thread that opens the transport, the with block that closes it, and *)
(* calls of the methods of one object by several threads or tasks, any of  *)
(* which may be abandoned (Ctrl-C, a cancelled task) while it waits.       *)
(*                                                                         *)
(* command() is three steps: the failure check, which takes no lock; under *)
(* the write lock the slot in the deque; and the write, which may fail     *)
(* with nothing, a part or all of the line sent.  What the other parts of  *)
(* the transport do between their own locks is in PythonTransport.         *)
(***************************************************************************)
EXTENDS DeviceApi, PythonMembers

CONSTANTS
    Calls,       \* calls of methods
    Kinds,       \* the classes of which the client may have its object
    Numbers,     \* the numbers values and arguments are made of
    Plugged,     \* the serial ports there may be, in the platform's order
    Misuses,     \* arguments of another type than the declared one
    Callers      \* bound: the calls made when the object is of each class

ASSUME KindsAssumption == Kinds \subseteq DOMAIN Classes
ASSUME NumbersAssumption == Numbers \subseteq Nat
ASSUME CallersAssumption == Callers \in [Kinds -> SUBSET Calls]

VARIABLES
    client,      \* where the program is with its client
    opener,      \* where SerialTransport.open is, in whatever thread
    port,        \* the device name of the serial port that is open
    failed,      \* _failure is not None
    reading,     \* the reader thread is in its loop
    kind,        \* the class of the object
    use,         \* the method each call calls, and its arguments
    outcome,     \* what each call returned or raised
    pending,     \* the deque _pending
    future,      \* the Future of each call
    toDevice,    \* commands on their way to the device
    torn,        \* the last bytes sent are the beginning of a line
    toHost,      \* lines on their way back
    answer,      \* what the device answered to each call
    late         \* history: calls past their check when a write failed

clientVars == <<client, opener, kind>>
callVars == <<use, outcome, late>>
transportVars == <<failed, reading, pending, future>>
wireVars == <<toDevice, torn, toHost, answer>>
vars == <<clientVars, port, callVars, transportVars, wireVars>>

NoPort == "none"
NoUse == [method |-> "", arguments |-> <<>>]
Raised(exception) == Value(exception, <<>>)
Idle == Value("idle", <<>>)
Checked == Value("checked", <<>>)   \* past the failure check
Writing == Value("writing", <<>>)   \* in the deque, holds the write lock
Waiting == Value("waiting", <<>>)   \* for its future
Cancelled == Raised("Cancelled")
FtSwarmError == Raised("FtSwarmError")
RuntimeError == Raised("RuntimeError")

NotDone == [tag |-> "open", text |-> <<>>]
ErrorLine == [tag |-> "error", text |-> <<>>]
TransportError == [tag |-> "failed", text |-> <<>>]

Init ==
    /\ client = "new"
    /\ opener = "idle"
    /\ port = NoPort
    /\ failed = FALSE
    /\ reading = FALSE
    /\ kind = "none"
    /\ use = [c \in Calls |-> NoUse]
    /\ outcome = [c \in Calls |-> Idle]
    /\ pending = <<>>
    /\ future = [c \in Calls |-> NotDone]
    /\ toDevice = <<>>
    /\ torn = FALSE
    /\ toHost = <<>>
    /\ answer = [c \in Calls |-> Idle]
    /\ late = {}

-----------------------------------------------------------------------------
(* The serial ports                                                        *)

VENDOR_IDS == {<<6790, 29987>>, <<4292, 60000>>}

discover_ports(plugged) == SelectSeq(plugged, LAMBDA p : p.ids \in VENDOR_IDS)

(* The port the caller named, else the first one discovered.               *)
PortsToOpen(plugged) ==
    {plugged[i].device : i \in DOMAIN plugged}
        \cup (IF discover_ports(plugged) = <<>> THEN {NoPort}
              ELSE {discover_ports(plugged)[1].device})

-----------------------------------------------------------------------------
(* The transport                                                           *)

(* _fail: the first error stays, and every pending future fails.           *)
Fail ==
    /\ failed' = TRUE
    /\ pending' = <<>>
    /\ future' = [c \in Calls |->
                     IF \E i \in DOMAIN pending : pending[i] = c
                     THEN TransportError ELSE future[c]]

(* SerialTransport.close; the reader may still be at a chunk it has read.  *)
CloseTransport ==
    /\ Fail
    /\ port' = NoPort
    /\ UNCHANGED <<reading, wireVars>>

(* The reader takes a line: the oldest future is done.  It does not look   *)
(* at _failure, and at _closed only between chunks.                        *)
ReaderCompletes ==
    /\ reading
    /\ toHost # <<>>
    /\ toHost' = Tail(toHost)
    /\ IF pending = <<>>
       THEN UNCHANGED <<pending, future>>
       ELSE /\ pending' = Tail(pending)
            /\ future' = [future EXCEPT ![Head(pending)] = Head(toHost)]
    /\ UNCHANGED <<clientVars, port, callVars, failed, reading>>
    /\ UNCHANGED <<toDevice, torn, answer>>

(* close() has been called, whether or not the port has more to read.      *)
ReaderStops ==
    /\ reading
    /\ port = NoPort
    /\ reading' = FALSE
    /\ UNCHANGED <<clientVars, port, callVars, failed, pending, future, wireVars>>

(* in_waiting or read raised: the reader ends, and the port stays open.    *)
PortBreaks ==
    /\ opener = "opened" /\ port # NoPort
    /\ reading
    /\ reading' = FALSE
    /\ Fail
    /\ UNCHANGED <<clientVars, port, callVars, wireVars>>

-----------------------------------------------------------------------------
(* Opening                                                                 *)

(* FtSwarmClient.open runs SerialTransport.open in the caller's thread,    *)
(* AsyncFtSwarmClient.open in a thread of its own (_call_in_thread).       *)
Open(flavour) ==
    /\ client = "new"
    /\ client' = flavour
    /\ opener' = "finding"
    /\ UNCHANGED <<kind, port, callVars, transportVars, wireVars>>

(* get_ftswarm_port and serial.Serial; __init__ starts the reader.         *)
FindPort ==
    /\ opener = "finding"
    /\ \E plugged \in Plugged : \E device \in PortsToOpen(plugged) :
           /\ device # NoPort
           /\ port' = device
    /\ opener' = "handshake"
    /\ reading' = TRUE
    /\ UNCHANGED <<client, kind, callVars, failed, pending, future, wireVars>>

(* No ftSwarm device found, or serial.Serial raised.                       *)
FindPortFails ==
    /\ opener = "finding"
    /\ opener' = "raised"
    /\ UNCHANGED <<client, kind, port, callVars, transportVars, wireVars>>

(* initialize() saw the marker, which only an ftSwarm sends.               *)
Initialized ==
    /\ opener = "handshake"
    /\ \E plugged \in Plugged : \E i \in DOMAIN plugged :
           plugged[i].device = port /\ plugged[i].ids \in VENDOR_IDS
    /\ opener' = "opened"
    /\ UNCHANGED <<client, kind, port, callVars, transportVars, wireVars>>

(* Fault: an exception of initialize() leaves the port as it is.           *)
InitializeRaisesOnly ==
    /\ opener = "handshake"
    /\ opener' = "raised"
    /\ UNCHANGED <<client, kind, port, callVars, transportVars, wireVars>>

(* A timeout, an error of the port, Ctrl-C in the synchronous client:      *)
(* except BaseException: transport.close(); raise.                         *)
InitializeRaises ==
    /\ opener = "handshake"
    /\ opener' = "raised"
    /\ CloseTransport
    /\ UNCHANGED <<client, kind, callVars>>

(* open() returns the client, whose program makes an object, or raises.    *)
OpenReturns ==
    /\ client \in {"sync", "async"}
    /\ \/ opener = "opened" /\ client' = "open" /\ kind' \in Kinds
       \/ opener = "raised" /\ client' = "failed" /\ UNCHANGED kind
    /\ UNCHANGED <<opener, port, callVars, transportVars, wireVars>>

(* The task in AsyncFtSwarmClient.open is cancelled; its thread goes on.   *)
OpenCancelled ==
    /\ client = "async"
    /\ client' = "cancelled"
    /\ UNCHANGED <<opener, kind, port, callVars, transportVars, wireVars>>

-----------------------------------------------------------------------------
(* Leaving the with block                                                  *)

(* Fault: __exit__ closes only when there is no exception.                 *)
LeaveNormallyOnly(exception) ==
    /\ client = "open"
    /\ client' = IF exception THEN "left" ELSE "leaving"
    /\ UNCHANGED <<opener, kind, port, callVars, transportVars, wireVars>>

(* __exit__ and __aexit__ do the same with and without an exception.       *)
Leave(exception) ==
    /\ client = "open"
    /\ client' = "leaving"
    /\ UNCHANGED <<opener, kind, port, callVars, transportVars, wireVars>>

Close ==
    /\ client = "leaving"
    /\ client' = "left"
    /\ CloseTransport
    /\ UNCHANGED <<opener, kind, callVars>>

-----------------------------------------------------------------------------
(* A call of a method                                                      *)

Methods == Classes[kind].methods

Argument(type) ==
    CASE type = "int"           -> Value("int", <<1>>)
      [] type = "bool"          -> Value("bool", <<1>>)
      [] type = "MicrostepMode" -> Value("MicrostepMode", <<7>>)

(* What the method is declared to take, and the same with a first argument *)
(* that it is not.                                                         *)
Declared(method) ==
    [i \in DOMAIN Methods[method].takes |-> Argument(Methods[method].takes[i])]
ArgumentsOf(method) ==
    {Declared(method)} \cup
        (IF Methods[method].takes = <<>> THEN {}
         ELSE {[Declared(method) EXCEPT ![1] = m] : m \in Misuses})

(* mode.wire_value is the number of a mode; get_swarm sends a constant 0.  *)
Parameters(method, arguments) ==
    (IF Methods[method].constant THEN <<Value("int", <<0>>)>> ELSE <<>>)
        \o [i \in DOMAIN arguments |->
               IF arguments[i].type = "MicrostepMode"
               THEN Value("int", arguments[i].of) ELSE arguments[i]]

(* What a call raises before it reaches the transport.                     *)
ErrorBefore(method, arguments) ==
    IF method \in Classes[kind].attributes
    THEN TypeError   \* 'State' object is not callable
    ELSE IF \E i \in DOMAIN arguments :
               /\ Methods[method].takes[i] = "MicrostepMode"
               /\ arguments[i].type # "MicrostepMode"
         THEN AttributeError
         ELSE EncodeError(Parameters(method, arguments))

Begins(c, method, arguments) ==
    use' = [use EXCEPT ![c] = [method |-> method, arguments |-> arguments]]

Ends(c, value) == outcome' = [outcome EXCEPT ![c] = value]

CallRaises(c, method, arguments) ==
    /\ Begins(c, method, arguments)
    /\ \/ /\ ErrorBefore(method, arguments) # None
          /\ Ends(c, ErrorBefore(method, arguments))
       \/ /\ ErrorBefore(method, arguments) = None
          /\ failed
          /\ Ends(c, RuntimeError)
    /\ UNCHANGED <<clientVars, port, late, transportVars, wireVars>>

(* _raise_if_failed found no failure.                                      *)
CallChecks(c, method, arguments) ==
    /\ ~failed
    /\ ErrorBefore(method, arguments) = None
    /\ Begins(c, method, arguments)
    /\ Ends(c, Checked)
    /\ UNCHANGED <<clientVars, port, late, transportVars, wireVars>>

(* The write lock is free; its holder's future is appended to the deque.   *)
AppendPending(c) ==
    /\ outcome[c] = Checked
    /\ \A d \in Calls : outcome[d] # Writing
    /\ Ends(c, Writing)
    /\ pending' = Append(pending, c)
    /\ UNCHANGED <<clientVars, port, use, late, failed, reading, future, wireVars>>

(* Not whole when it comes behind the beginning of another line.           *)
Request(c, whole) ==
    [call |-> c,
     command |-> Methods[use[c].method].command,
     parameters |-> EncodeParameters(Parameters(use[c].method, use[c].arguments)),
     whole |-> whole]

SendsLine(c) ==
    /\ toDevice' = Append(toDevice, Request(c, ~torn))
    /\ torn' = FALSE

WriteCommand(c) ==
    /\ outcome[c] = Writing
    /\ port # NoPort
    /\ Ends(c, Waiting)
    /\ SendsLine(c)
    /\ UNCHANGED <<clientVars, port, use, late, transportVars, toHost, answer>>

(* The write raised after nothing, a part or, when it is interrupted, all  *)
(* of the line was sent; command() raises what it raised.  On a port that  *)
(* is closed every write does, with nothing sent.                          *)
WriteCommandFails(c) ==
    /\ outcome[c] = Writing
    /\ Ends(c, Raised("OSError"))
    /\ Fail
    /\ late' = IF port = NoPort THEN late ELSE late \cup {d \in Calls : outcome[d] = Checked}
    /\ \/ UNCHANGED <<toDevice, torn>>
       \/ port # NoPort /\ torn' = TRUE /\ UNCHANGED toDevice
       \/ port # NoPort /\ SendsLine(c)
    /\ UNCHANGED <<clientVars, port, use, reading, toHost, answer>>

(* result() or _await_future comes back, and the parser runs.              *)
Resume(c) ==
    /\ outcome[c] = Waiting
    /\ future[c] # NotDone
    /\ Ends(c, CASE future[c] = TransportError -> RuntimeError
                 [] future[c] = ErrorLine -> FtSwarmError
                 [] OTHER -> Parse(Methods[use[c].method].parser, future[c].text))
    /\ UNCHANGED <<clientVars, port, use, late, transportVars, wireVars>>

(* Fault: an abandoned call takes its future out of the deque.             *)
AbandonWithdraws(c) ==
    /\ outcome[c] = Waiting
    /\ Ends(c, Cancelled)
    /\ pending' = SelectSeq(pending, LAMBDA d : d # c)
    /\ UNCHANGED <<clientVars, port, use, late, failed, reading, future, wireVars>>

(* Ctrl-C in result() or while it waits for the lock, or the task is       *)
(* cancelled while it polls: nobody waits any more, and a future that is   *)
(* in the deque stays there.                                               *)
Abandon(c) ==
    /\ outcome[c] \in {Checked, Waiting}
    /\ Ends(c, Cancelled)
    /\ UNCHANGED <<clientVars, port, use, late, transportVars, wireVars>>

-----------------------------------------------------------------------------
(* The ftSwarm device, external to src/.                                   *)

Unknown == Raised("Unknown")

Answers(c, value, line) ==
    /\ answer' = [answer EXCEPT ![c] = value]
    /\ toHost' = IF port = NoPort THEN toHost ELSE Append(toHost, line)

DeviceAnswers ==
    /\ toDevice # <<>>
    /\ toDevice' = Tail(toDevice)
    /\ LET sent == Head(toDevice)
       IN  IF sent.whole /\ Knows(kind, sent.command, sent.parameters)
           THEN \/ \E value \in ValuesOf(Api(kind)[sent.command].returns, Numbers) :
                      Answers(sent.call, value, [tag |-> "result", text |-> Format(value)])
                \/ Answers(sent.call, FtSwarmError, ErrorLine)
           ELSE Answers(sent.call, Unknown, ErrorLine)
    /\ UNCHANGED <<clientVars, port, callVars, transportVars, torn>>

-----------------------------------------------------------------------------

Opener == FindPort \/ FindPortFails \/ Initialized \/ InitializeRaises

CallBegins(c) ==
    /\ client \in {"open", "leaving", "left"}
    /\ outcome[c] = Idle
    /\ c \in Callers[kind]
    /\ \E method \in DOMAIN Methods : \E arguments \in ArgumentsOf(method) :
           /\ \/ CallRaises(c, method, arguments)
              \/ CallChecks(c, method, arguments)

(* command() goes on; a lock that is free is granted.                      *)
CallProceeds(c) == AppendPending(c) \/ WriteCommand(c) \/ WriteCommandFails(c)

Next ==
    \/ \E flavour \in {"sync", "async"} : Open(flavour)
    \/ Opener
    \/ OpenReturns
    \/ OpenCancelled
    \/ \E exception \in BOOLEAN : Leave(exception)
    \/ Close
    \/ \E c \in Calls : CallBegins(c) \/ CallProceeds(c) \/ Resume(c) \/ Abandon(c)
    \/ ReaderCompletes
    \/ ReaderStops
    \/ PortBreaks
    \/ DeviceAnswers

Spec == Init /\ [][Next]_vars

(* The threads run: initialize() ends by its timeout at the latest, a call *)
(* that is free to go on does, a future that is done wakes who waits for   *)
(* it, and a with block that is being left runs its exit.  Nobody has to   *)
(* open, call, cancel or leave, and the device need not answer.            *)
Fairness ==
    /\ WF_vars(Opener)
    /\ WF_vars(OpenReturns)
    /\ WF_vars(Close)
    /\ WF_vars(ReaderCompletes \/ ReaderStops)
    /\ \A c \in Calls : WF_vars(CallProceeds(c) \/ Resume(c))

FairSpec == Spec /\ Fairness

-----------------------------------------------------------------------------

Results == {"None", "int", "float", "bool", "str", "JoystickValue", "MicrostepMode"}
Exceptions == {"TypeError", "ValueError", "AttributeError", "Cancelled",
               "FtSwarmError", "RuntimeError", "OSError"}

(* The methods in use are methods of the object, and a slot of the deque   *)
(* is the slot of a call that reached the transport.                       *)
TypeOK ==
    /\ client \in {"new", "sync", "async", "open", "failed", "cancelled",
                   "leaving", "left"}
    /\ opener \in {"idle", "finding", "handshake", "opened", "raised"}
    /\ port # NoPort => opener \in {"handshake", "opened"}
    /\ failed \in BOOLEAN /\ reading \in BOOLEAN /\ torn \in BOOLEAN
    /\ kind \in Kinds \cup {"none"}
    /\ \A c \in Calls :
           /\ use[c] = NoUse \/ use[c].method \in DOMAIN Methods
           /\ outcome[c].type \in Results \cup Exceptions
                  \cup {"idle", "checked", "writing", "waiting"}
           /\ answer[c].type \in Results \cup {"idle", "FtSwarmError", "Unknown"}
           /\ future[c].tag \in {"open", "result", "error", "failed"}
    /\ pending \in Seq(Calls)
    /\ \A i \in DOMAIN pending :
           outcome[pending[i]].type \in {"writing", "waiting", "Cancelled"}
    /\ \A i \in DOMAIN toDevice : toDevice[i].call \in Calls
    /\ \A i \in DOMAIN toHost : toHost[i].tag \in {"result", "error"}
    /\ late \subseteq Calls

-----------------------------------------------------------------------------

(* What a call returns is the value, in type and in content, with which    *)
(* the device answered this very call, and it raises FtSwarmError only if  *)
(* the device refused this very call.                                      *)
OwnAnswer(c) ==
    /\ outcome[c].type \in Results => outcome[c] = answer[c]
    /\ outcome[c] = FtSwarmError => answer[c] \in {FtSwarmError, Unknown}

(* Every call gets its own answer: "a cancelled waiter does not shift FIFO *)
(* correlation", nor does an argument that cannot be encoded, a port that  *)
(* breaks or a close().  A write that fails does, for the calls that had   *)
(* passed their failure check by then and had no slot yet, and for no      *)
(* other: who was in the deque is failed, and who comes later is refused.  *)
AnswersAreOwn == \A c \in Calls \ late : OwnAnswer(c)

(* The same of every call, as the strict FIFO correlation of               *)
(* docs/communication.md has it.                                           *)
EveryAnswerIsOwn == \A c \in Calls : OwnAnswer(c)

Misfires(c) ==
    outcome[c].type \in {"TypeError", "ValueError", "AttributeError"}
        \/ answer[c] = Unknown

(* A method called with what it is declared to take sends a command that   *)
(* the device knows with parameters it understands, and can parse every    *)
(* answer the API allows: the generated classes, encode_command and the    *)
(* parsers agree with src/api.  Methods hidden by an attribute excepted,   *)
(* and calls whose answer, or whose line, may be another's.                *)
DeclaredCallsWork ==
    \A c \in Calls \ late :
        /\ use[c] # NoUse
        /\ use[c].arguments = Declared(use[c].method)
        /\ use[c].method \notin Classes[kind].attributes
        => ~Misfires(c)

(* The same of every generated method, as docs/core.md has it: one method  *)
(* per member.  The attribute homing hides one of Stepper: it does not     *)
(* hold.                                                                   *)
EveryMethodWorks ==
    \A c \in Calls :
        use[c] # NoUse /\ use[c].arguments = Declared(use[c].method) => ~Misfires(c)

(* Who waits for a reply when the transport has failed, or begins to wait  *)
(* then, is failed too: docs/communication.md has a fatal failure fail all *)
(* handles, stop reader and writer, and close the port.  _fail of the      *)
(* reader does only the first: it does not hold.                           *)
FailedLeavesNobodyWaiting ==
    \A c \in Calls : failed /\ outcome[c] = Waiting ~> outcome[c] # Waiting

(* However a with block is left and wherever its calls are by then, and    *)
(* when open() raises, the port is released in the end, the reader ends    *)
(* and nobody waits for the lock or for a reply.  (A cancelled             *)
(* AsyncFtSwarmClient.open may leave its port open.)                       *)
LeftClientsLetGo ==
    client \in {"leaving", "left", "failed"}
        ~> /\ port = NoPort /\ ~reading
           /\ \A c \in Calls : outcome[c] \notin {Checked, Writing, Waiting}
=============================================================================
