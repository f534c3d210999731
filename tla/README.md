# ftSwarm clients: TLA+ models and proofs

This directory holds the formal model of the ftSwarm client libraries: the
Kotlin client (`src/ftswarm-kotlin-client`), the Python client
(`src/ftswarm-python-client`) and the code generator (`src/codegen`) that emits
the object factories of both. Paths below are relative to `src/` unless they
name a module of this directory.

1. Inventory of the system
2. Modules, and how their state and actions correspond to the code
3. Runs: what each checks, with which bounds
4. Fairness
5. What is proved
6. Where the code departs from its documentation
7. What is only model-checked, and what is not modelled
8. Plan

## 1. Inventory

A client opens a serial port to an ftSwarm controller, starts its command line
(`startCLI`, answered by a line that begins with `@@@`), and then exchanges lines
with it: it writes commands, and reads results (`R: ...`), error lines,
subscription updates (`S: port entry`) and diagnostics. The protocol has no
command ID: a result belongs to the oldest command that has none yet.

| Component | State | Operations | Talks to |
|---|---|---|---|
| Kotlin serial transport (`.../transport/FtSwarmSerialTransport.kt`) | channels `writes` and `pending`, deferred `initialized`, `closed`, the scope's job, the port | factory and `initialize`, `enqueueCommand` / `command` / `commands`, `writerLoop`, `readerLoop`, `handleLine`, `completeNext`, `close`, `failTransport` | callers (deferreds), the port, `subscriptionFlow` |
| Python serial transport (`.../transport.py`) | deque `_pending`, events `_initialized` and `_closed`, `_failure`, `_write_lock`, `_pending_lock`, `_subscribers` | `open`, `initialize`, `command`, `subscribe`, `close`, `_reader_loop`, `_handle_line`, `_complete`, `_fail` | callers (futures), the port, callbacks |
| Python state cell (`.../state.py`) | `_value`, `_version`, `_listeners` | `State.value`, `_set`, `_listen`, `changes`; `AsyncState.changes` | reader thread, iterating threads, asyncio tasks |
| Python objects and contexts (`.../client.py`, `generated/objects.py`) | the states of each object, callbacks in `_subscribers` | generated factories, `command`, `_state_callback` of the sync and the async context | transport, state cell |
| Kotlin objects (emitted by `codegen/src/kotlin/IoObjects.kt`) | `StateFlow`s made by `stateIn`, coroutines that collect, `subscriptionFlow` with its buffer | generated `create` functions, `getSubscriptions`, `onSubscription` | transport |
| Python client lifetime (`client.py`) | the transport it owns; the thread of `_call_in_thread` | `open` in the caller's thread or in a thread of its own, the `with` block, calls that are abandoned | transport, device |
| Kotlin client lifetime (`FtSwarmClient.kt`) | job tree, transport | open, child contexts, close | transport |
| Line framing (both transports) | the partial line, what a write has left over | `_accept_byte`, `_write_unlocked`; `SerialInputBuffer`, `serialCommandBytes` | port |
| Values (`protocol.py`, `generated/types.py`; `domain/*.kt`) | none | format parameters, parse results and subscriptions | objects |
| Generated classes (`generated/objects.py`) and API definitions (`api/**/*.yaml`) | none | one method for each member of a definition | contexts; the device |
| Definition collector (`codegen/src/collector`) | none | merge templates, decode and validate definitions | tasks |
| Generation tasks and renderers (`codegen/src`, `codegen/src/kotlin`, `codegen/src/python`) | the output directory | clear it, collect, write one unit after the other | collector |
| Port discovery (in both transports), examples | none | list serial devices, demonstrate | opening |

What is hard, and for each component the properties that make it correct:

* **Both transports.** Callers, a reader, a writer (Kotlin) and whoever closes or
  fails the transport interleave; only two locks (Python) or two channels
  (Kotlin) order them. Correct means: replies go to the calls they answer; lines
  of an earlier session do not; opening ends and leaves nothing behind when it
  fails; teardown ends; nobody waits for an answer that cannot come.
* **State cell.** A value is replayed and updates are delivered without one lock
  around both. Correct means: no update is lost from the replayed value on,
  updates keep their order, a polling task sees every value that lasts.
* **Objects.** A factory queries, registers and subscribes in steps, while other
  objects on the same port are already subscribed and updates come in. Correct
  means: no update after the subscription is missed, a state never goes back to an older reading, and a malformed update
  does not silence later ones.
* **Lifetime.** An opening may fail, or be cancelled while another thread goes on with it; a
  caller may give up while its command has a slot in the deque; a client is left normally,
  by an exception, or while calls wait. Correct means: a client that is left holds no port
  and nobody waits on it, and no abandoned or refused call shifts the replies of others.
* **Collector and tasks.** Sequential, with partial failure: a task has deleted its output
  before it validates, and renderers rely on checks made elsewhere. Correct means: templates
  merge as documented, renderers accept what the collector does, and the masks they emit select what was asked for.
* **Framing.** A read ends anywhere, also within the marker, which has no line ending; a
  write may take a part of a line and the next one fail. Correct means: lines do not depend
  on read boundaries, and the lines of two calls are on the wire whole, unmixed, and in the
  order in which their replies will be matched.
* **Values and generated classes.** Pure, but three files must agree with each other and
  with the device: a wrong name, parameter or parser shows on one method of one device.

`PROJECT.json` lists every hazard at its line with the properties that watch it.

## 2. Modules

| Module | Models |
|---|---|
| `CommandChannel` | what a transport promises: an abstract FIFO channel that may go down |
| `KotlinTransport` | `FtSwarmSerialTransport`: opening, callers, both loops, `close`, `failTransport` |
| `KotlinTransportProofs` | its invariants, that it implements `CommandChannel`, and what that promises |
| `PythonTransport` | `SerialTransport` with its threads and locks |
| `PythonTransportProofs` | the same of it |
| `PythonFraming` | the bytes below it: reads, lines and the marker, partial writes |
| `PythonFramingProofs` | lines follow the bytes, whatever the reads; the wire keeps the order of the slots |
| `PythonState` | `State` and `AsyncState` |
| `PythonStateProofs` | its invariants |
| `Wire` | `protocol.py`: encoding of parameters and the parsers, on classes of texts |
| `PythonMembers` | every generated class: attributes, and the command, parameters and parser of each method |
| `DeviceApi` | the definitions under `api/`, as the device understands them |
| `PythonClient` | the life of a client and its calls; extends the three modules above it |
| `PythonClientProofs` | methods, encoder and parsers agree with `api/`; calls get their own answers |
| `ObjectFactory` | the factories the generator emits, and the device's side of a subscription |
| `PythonObject`, `KotlinObject` | who turns updates into states in each language; both extend `ObjectFactory` |
| `PythonObjectProofs`, `KotlinObjectProofs` | no update is missed, no state goes back (Python); accepted updates reach the states (Kotlin) |
| `Templates` | templates and the merging of YAML trees; the same by paths, as a reference |
| `Generator` | decoding, validation, the renderers' conditions, and both generation tasks |
| `GeneratorProofs` | merging is by path, masks select what is wanted, what is accepted renders |
| `MC*` | instances for TLC: the model values and the contents a port may start with, byte streams, the classes and arguments in use, the API directories |

### Abstractions that all modules share

A command's text is never looked at by a transport, so a command is a model
value. A line of the device carries the call it answers (`of`), which the
transport never reads; only the properties do. The device is external: it answers
what it is sent in order, one result or error line per command, the marker to
`startCLI`, nothing to an empty line, and sends updates and diagnostics when it
likes. It is assumed not to send an error line that answers no command:
`docs/communication.md` has no way to tell the two apart either.

Definitions that begin with a comment `Fault:` are not part of any
specification. Each is a plausible mistake in the definition that follows it, put
there to show that a property would notice it; `PROJECT.json` pairs each property
with one.

### KotlinTransport

`writes`, `pending` and `initialized` are the code's. `result[c]` is the deferred
`enqueueCommand` makes. `writer` and `inHand` are the program counter and the local
of `writerLoop`, `reader` that of `readerLoop`; `rx` is what has been received and not
yet handled, in the driver's buffer or the loop's array. `owner` is who won
`closed.compareAndSet` and `teardown` how far its `close()` or `failTransport()` has
come: each statement of the two that another coroutine can observe is one step
(close `writes`, close `pending`, every turn of the drain, cancel the scope, close
the port). A `Channel.send` to an unlimited channel does not suspend, so it is one
step; a suspension point at which cancellation can strike has a step for it
(`WriterDropsRequest`, `WriterCancelledAfterWrite`). The steps of `initialize` are those
at which it suspends. A caller that is cancelled leaves its deferred in the
channels: this changes no state of the model.

`InOrder` and `OutcomeOf` are the refinement mapping to `CommandChannel`: the order
of calls is `pending`, then the call the writer has taken and not registered, then
`writes`; the transport is up until someone begins its teardown or a failure has hit
the writer.

### PythonTransport

What one lock protects is one step; `writeLock` is the call that holds
`_write_lock`. The failure check of `command()` takes no lock and is a step of its
own (`CheckFailure`), as are the test and the set of `_closed` in `close()`. `_fail` is
two steps: it sets `_failure` and `_initialized`, then drains the deque.
`_initialized.wait` may time out at any moment. A future that the reader has popped is
completed in the same step: nobody else can reach it. In the refinement mapping a
call is what its caller knows of it: an exception is its outcome whatever became of
the future it never got.

`failure` tells what failed first: a write, the reader, or `close()`. The code keeps the
exception only; which of them it was is for the properties to tell.

### PythonFraming

The same transport seen from the bytes. The port delivers a stream in pieces of any size; the
reader asks `in_waiting`, reads at most `MaxChunk` bytes (1024 in the code), and gives them one by one to
`_accept_byte` (`AcceptByte`), whose `line` ends at a line feed or, before initialization, when it
is the marker. `accepted` is every byte it has taken: the properties compare `lines` with that.
A writer holds `_write_lock` from `Begin` to its last `WritePart`; `rest` is what the loop of
`_write_unlocked` has yet to write. The slot in `_pending` is taken in the step that takes the lock.
Only the failure that a write or a read raises is here; close, timeouts and replies are in
`PythonTransport`.

### Wire, PythonMembers, DeviceApi

A text is a sequence of words, and a word is what a parser can tell of it: an integer, another
number, `ok`, something quoted, or anything else. `Wire` translates `_encode_parameter` with its
two errors and each parser of `protocol.py`, and `MicrostepMode.from_wire_value`. `PythonMembers`
has one definition for each pair of a class and its `Async` twin in `generated/objects.py`.
`DeviceApi` says the same from the other end: which commands a kind of object has in `api/`,
what they take, what they return and how the device writes it. Nothing in one is derived from
the other; `DeclaredCallsWork` compares them through a conversation.

### PythonClient

`client` is where the program is, `opener` where `SerialTransport.open` is. In the asyncio
client the two are different threads, so `OpenCancelled` ends the one and leaves the other
running. `pending` and `future` are the deque and the Futures. A call raises what the method, the
encoder or the failure check raise (`CallRaises`), or goes through `command()` in three steps: it
passes the check (`CallChecks`), gets the write lock and a slot (`AppendPending`), and writes
(`WriteCommand`). Between the check and the lock anything may happen, a failure too. A write fails
(`WriteCommandFails`) before, in or, when Ctrl-C strikes, after its line; what it leaves behind is nothing,
the beginning of a line that the next line continues (`torn`), or a whole one. A failed write drains the deque,
and neither closes the port nor stops the reader: `ReaderCompletes` looks at `reading`
alone, and what ends it is an exception of its own (`PortBreaks`) or a `close()` (`ReaderStops`). Then a call is
resumed by its future or abandoned (Ctrl-C in `result()` or while it waits for the lock, a task that is
cancelled while it polls). `Leave` is `__exit__` and `__aexit__`. The device answers in order, with any
value the API allows, or refuses; a torn line it does not know.

`late` is a history variable: the calls that were past their check and had no slot when the write of another
failed on an open port. No action looks at it. `AnswersAreOwn` and `DeclaredCallsWork` except these calls and
no others, and `python_foreign_answer` shows what happens to them.

### PythonState

The cell's value stands for the version too: the n-th value set is n. `_set` stores the
value and copies the listeners under the lock, then calls them one by one (`todo`).
An observer goes through `_listen`, the read of the current value, the `put` of it, and
then yields from its queue. Closing an iterator runs its `finally`, and is possible
where a generator is suspended: at `yield`, after the first value.

### ObjectFactory, PythonObject, KotlinObject

A factory sends `setIOType` if its type has it, then for every subscription entry
queries the value and makes a state of it, then sends `subscribe`. Any reply may be
an error, which is raised out of the factory. The n-th change of any reading makes it n, and
`since` records the device's readings when it got a `subscribe`. In Python the reader
copies a port's callbacks under the lock and calls them one after the other. In
Kotlin `stateIn` launches a collector that subscribes to `subscriptionFlow` when it is
dispatched; `tryEmit` puts an update into the flow for all collectors or, while the
slowest has a full buffer, for none; a parser that throws ends its collector.

### Templates, Generator

A YAML tree is a record of its kind and its children; a mapping is a function on its keys. The
items of a list are decoded already, because merging replaces a list as a whole.
`mergeYaml` and `mergeYamlMaps` are the code's recursion, as a function on `Nodes`, the nodes of the
files; `Height` says how many levels there are below one, which is why the recursion ends. `IsMergeOf`
says the same without recursion over two trees: `Flat` makes of a tree the function from its paths to its
nodes, down to `Depth` steps, and a path of the template
survives if it hangs from a mapping both trees share under a key the file does not have there.
`Generator` follows a task: `ClearOutput`, `CollectIo` or `RejectIo`, `CollectMeta` or `RejectMeta`,
then `WriteUnit` for each unit in order, or `FailUnit`. `Renders` holds the conditions under which
`getCode` of a unit returns: `error()` and `requireNotNull` of the renderers, and the files some
units read themselves. Masks are integers of `Width` bits (`IsInt`: the decoder refuses others). `Bits` are
the places at which halving leaves an odd number, and `or` of masks is the union of theirs.

## 3. Runs

| Run | Checks | Bounds |
|---|---|---|
| `kotlin_safety` | types; the inductive invariant `ChannelIInv`; no call gets another's line until `close()` or the writer's failure begins the teardown; a slot in `pending` precedes the bytes on the wire; a closed transport holds no slot; every step is a step of `CommandChannel` or a stutter | 3 calls, one answered with an error; ports that start empty, with a stale result, or with a stale update and result; 1 unsolicited line; every disruption |
| `kotlin_liveness` | construction ends, in a transport or with no loop running; a teardown ends; a device that answers has every call completed | 2 calls; cancelled opening and `close()`; stale lines; 1 unsolicited line |
| `python_transport` | types and lock discipline; futures carry their own answers unless a write failed first; a `close()` that did the work leaves nobody waiting; no command before the marker; every step is one of `CommandChannel`; `command()` ends; `open()` ends, and if it fails with a closed port and no reader; a device that answers has every future done | 2 calls, 2 threads in `close()`, 1 unsolicited line, failing reads and writes, the same leftovers |
| `python_framing` | types; the lines dispatched and the moment of initialization are a function of the bytes, whatever the read boundaries; the wire holds the lines of the calls unmixed, in the order of their slots, whole if the call returned | every stream of 3 pieces out of the marker, `@`, another byte, CRLF and LF; reads of at most 2 bytes; 2 commands, one with line endings of its own; writes of any part; failing reads and writes |
| `python_client` | types; a call returns the answer of the device to this very call, in type and content, unless a failed write met it between its check and its slot; methods called as declared send what the device knows and parse what it answers; a client that is left, or whose opening raised, holds no port, no reader and no waiting call | one class of each shape the generated classes have; 1 call, of any method, and of an Analog 3; arguments as declared, a float and a text with a quote; numbers 0 and 1, every microstep mode; no port, another device's, and that in front of an ftSwarm; writes and a reader that fail at any point |
| `python_state` | types; no update lost; order; observers see every value; pollers catch up | 2 observers, 1 poller, 2 updates |
| `python_object` | types; states follow the device, never go back; updates arrive | 2 objects of 2 entries on one port, any command refused, 2 changes of readings, 1 malformed update |
| `kotlin_object` | types; states follow what the flow accepted; updates arrive | 2 objects of 1 entry, 3 changes, 1 malformed update, a buffer of 2, a parser that may throw |
| `generator` | types; merging by path; masks select exactly their entries; renderers never fail on accepted objects | families of API directories: 8 templates × 315 files that extend them, bitsets of up to two entries with every 3-bit mask and one that is no Int, parameters and constants of every type in every place, collisions of names, bad meta files, bad modes, unreadable files |
| `kotlin_close_foreign`, `kotlin_object_misses_update`, `python_foreign_answer` | one documented promise each, which the code does not keep (section 6) | the smallest instance that shows it |

Why the bounds are enough. Two calls are the least with which a reply can go to
the wrong one. In `python_client` there are three, so that while one fails in its write another can wait for
its reply and a third be between check and lock. In `kotlin_safety` a third can be in `writes` while the others are on the wire and in
the writer's hand, so that every section of the path holds one. One stale result is
what a lost handshake would hand to the first call; the update before it makes the
marker come later than the first line. One unsolicited line can come at every place of
the conversation. Two threads in `close()` are the least that can race for `_closed`.
Two updates are the least of which one can overtake the other, and with the initial
value they give an observer three values. A buffer of two updates is full after two
that a collector lags behind by, where the code has room for 128, and can hold a malformed
update and a good one. Reads of two bytes cut every piece of a stream, the marker too, and hold the end of one line and the
beginning of the next; three pieces are the least in which a marker can come after a line and
before another. Classes with equal methods and equal definitions behave alike, so one of each shape
stands for all of them (`EveryShapeAssumption`, which TLC evaluates, fails when a change of one class gives it a
shape of its own). What a method sends and parses does not depend on other calls, so one call of each is
enough; whose reply a call gets does not depend on the method, so the three calls (`Callers`) can be of a class that has one
method and answers of two values. A template and a file with
two levels below the root reach every case of the merge, a tagged node and a null at each level
among them, and `Depth` is past the lowest node of every tree; 3-bit integers are enough for zero, the
least Int, two single bits, a mask of both, and negative numbers. Deadlock is not checked: a
conversation that is over is a final state of every model, as is a task that has ended.

## 4. Fairness

* Kotlin: weak fairness of opening, writer, reader and teardown, because
  `Dispatchers.IO` runs every coroutine that can run and none of them blocks another;
  of `BootTimeout`, because `withTimeout` has a timer of its own. Cancellation and a
  port that breaks are not fair; that reading a closed port fails is.
* Python: weak fairness of every thread that has begun something, because the
  operating system schedules them; a thread that waits for `_write_lock` is fair as a
  step of that call, which weak fairness grants only while the lock is free. Since
  every call is issued once, a lock that is passed on is free again in the end.
* Python client: weak fairness of the thread in `open`, of its return, of the exit of a `with`
  block that is being left, of the reader until it stops, of a call that is past its failure check,
  and of a caller whose future is done. A wait in `initialize()` ends by its timeout; a call that waits for
  the write lock is fair only while the lock is free. Nobody has to open, call, cancel or leave.
* State cell and objects: the reader thread, the threads that iterate, the polling
  task and the collectors run.
* Nobody has to call a command, set a value or close anything. The device need not
  answer: `CallsAreAnswered` and `FuturesAreDone` have its fairness as their premise.
* `drainOutput` and the wait for `out_waiting` are assumed to end: the UART empties
  the driver's buffer whether or not anybody listens.

## 5. What is proved

Every safety invariant and every action property that a passing run checks is a theorem, and so are both refinements of
`CommandChannel`. All theorems hold for every value of the constants that satisfies the named assumptions
(`CallsAssumption`, `LeftoversAssumption` and so on in the modules): any number of calls,
observers, pollers, objects and entries, any set of refused calls, any leftovers in the port that
are not the marker and answer no call, any amount of noise, any size of buffers, any streams, texts
and sizes of reads, any API directories and widths of integers. Every module with
proofs has one theorem for the types (`TypeCorrect`) and one for the inductive invariant; TLC checked
each of these invariants on the instance of the run before it was proved. A proof of
`IInv /\ [Next]_vars => IInv'` has a lemma per action, or per conjunct where the actions
that disturb it are few; frame lemmas hand over what a step leaves alone.

### The two transports

No correlation property is inductive by itself: nothing in it says that the head of `pending` is
the call the next line answers. `KotlinTransport!IInv` adds

* `Handshake`: commands exist only after the marker was seen, and before anyone has
  won the `compareAndSet` only a failed construction closes the port;
* `OnePlace`: a call passes `writes`, the writer's hand, `pending` and the wire once
  each, so no call is in two places of the queueing part of that path;
* `StaleLinesFirst`: a result that answers nobody precedes the marker, and none is left
  once the handshake is over, which is why none can complete a call;
* `Fifo`: `pending` lists the calls on the wire in the order of their answers, those whose
  line has been received first, then those with the device, then the one being written
  (or the one whose write failed, in which case the writer is failing).

The last two are claimed only while nobody has begun a teardown. When the reader began
it they are not needed any more, because the reader has stopped taking lines:
`owner = "reader" => reader # "poll"`. When `close()` or the writer began it, they fail,
and so does correlation (section 6). This gives `Correlation`.

`ChannelIInv` strengthens it by what the other promises rest on:
`SlotsForDue` (a call that is being written, with the device or answered has a slot until it is
complete: `RegisterFirst`), `SlotsGone` (the drain of `close()` leaves nothing and nothing comes
after it: `CloseLeavesNoSlot`), `RawPath` (`initialize` has one request on its way at a time and none
when the first command may come) and `SlotsAreOpen` (nobody in line is done while the transport is up).

`PythonTransportProofs` has the same three ideas in terms of one wire, what the host has
received and behind it what the device will answer: `Handshake`, `OnePlace` and `Fifo`. Locks and failures
are what is different. The slot of the call that holds `_write_lock` is the last
of the deque, and so only that call may have a slot and nothing on the wire (`LastSlotHoldsLock`).
`DequeHoldsOpen` has the deque hold just the futures that are not done, which is what lets a drain complete all of
them. `FailureIsSet` relates `_failure` to the threads that set it and to the port. `CorrelatedOrLost` is what `CorrelatedFutures`
needs to be inductive: after `close()` drained the deque, a call that slips in behind the drain may take a
late line, but it has not returned and never will, because its write fails on the closed port.
From this follow `FuturesAreCorrelated`, `ClosedLeavesNobodyWaiting` and `MarkerComesFirst`.

Both transports are proved to implement `CommandChannel` (`Refinement` in `KotlinTransportProofs` and in
`PythonTransportProofs`) under the mappings of section 2. `Init` maps to the channel's initial state, and each
action to the channel's step or to a stutter: an enqueued or appended call is `Submit`, a line that
completes one is `Answer` of the head of the order, the beginning of a teardown or a failed write is
`Shut`, and what a drain or a late call does afterwards is `Settle`. The invariant is needed for
`Answer` (the line at hand answers the head of the abstract order) and to know that the moves of a call
from `writes` over the writer's hand to `pending` leave that order as it is. What
`CommandChannel` promises then holds of both (`Promises`, in terms of the mapping): while the transport is up nobody has been
given another call's answer or failed (`ChannelCorrelates`), and the calls that wait are just those
with a place in the order, one each (`ChannelForgetsNobody`).

### The bytes below

`PythonFramingProofs` proves both halves of `PythonFraming`, which share only the event `_initialized`.

The reader: `Framed` says for the line at hand what `LinesAreTheBytes` says of the finished ones, which
alone does not tell what the next line feed will end. `line` is exactly what was accepted
behind the last line feed, or behind the marker if that is later (`LineIsBehind`). While the transport is
not initialized there is no marker among the accepted bytes, and `line` does not begin with one: otherwise a line
feed, which has `_handle_line` look at the whole line, could find a marker that `_accept_byte` missed. Once it is,
the place behind which lines are cut is the end of the first marker, which no later byte moves. `chunk` and `buffer`
do not occur, which is the point: no boundary of a read matters. The n-th
line belongs to the n-th line feed, so the proof counts line feeds; `StreamsAssumption` is all it needs.

The writers: `OrderedWire` and `LinesAreWritten` need to know that `initialize()` is through before a call
writes (`OpenerFirst`), that a call gets its slot and the lock together and so the holder has the last slot (`SlotsOnce`),
and that what the holder has yet to write is just the part of its line that is not on the wire (`Progress`),
with the three parts of the opening line told apart by `boot`. Partial writes then extend the last line of the wire.
The proof knows of a text only that it is one: `LineOf` may take off what it likes, as long as the same line is compared.

### The client, its classes and the values

The first half of `PythonClientProofs` has no state. `Agrees` says when a method suits a definition: the
command is one of it, the parameters are those it takes in number and type, or the constant of `get_swarm`, and the
parser is the one for what it returns. `ClassesFit` shows that for every method of every class, from one lemma for each sort of
method (`GetsFacts`, `SetsFacts`, `DoesFacts`, `SendsFacts`) and one for each way in which classes and definitions extend
others (`MergedMethods`, `MergedApis`). `AnswersParse` is the round trip: what the device writes for a value of a declared
type is parsed back to that value, whatever the numbers in it. `DeclaredFacts` is the way out: what a call
as declared sends can be encoded and is understood. `MethodsFitTheApi` puts the first two together.

The second half is the conversation. `AnswersAreOwn` speaks of calls that have returned; `Correlates`
is why it holds as long as nothing has failed: the deque has a slot for every command whose reply is
not handled yet, first those whose reply is on its way to the host, then those that are with the device, in the order
of the replies, and last the one that holds the write lock. It does not look at whether anybody waits, and so an
abandoned call shifts nobody; a call that raises before it has a slot shifts nobody either. A failure
drains the deque, and the lines on their way then belong to nobody in it. `Strays` says who can still be given
one while the reader goes on: a call in `late`, or one that appended after a `close()` and is about to find the port
closed, so that it raises whatever became of its future (`FuturesAnswer` excepts such a call until it writes). It
needs to know that calls between check and slot are in `late` or face a closed port, and that a line
that runs into the beginning of another one is a late call's. `Slots` says that nobody has two slots and that a call with one has an
open future, `Requests` that what is with the device is what the call's method and arguments encode to, `FuturesAnswer`
that a future that is done holds the reply to its own call, `Begun` what a call has not got yet from where it is,
`OpensFirst` that there are neither calls nor lines before the client is open, and that the port is
open as long as nothing has failed, so that no reply goes missing while somebody has a slot.

### The state cell

`NoUpdateLost` speaks of an observer that is through with its first `put`. `NoUpdateLostYet` says the same of one that is
registered and still has its snapshot to put, where the snapshot itself is not yet due; `SnapshotTaken` that a snapshot was read after
the listener was registered; `NothingFromTheFuture` that nothing delivered is newer than the cell, and that an
observer that the running `_set` has yet to call has not got its value, other than as its snapshot.
The last is what makes `UpdatesInOrder` hold through `CallListener`, which appends the current value.

### The objects

`KotlinObjectProofs`: `NewestIsLast` has the last update of an entry in a collector's buffer be the last one that the
flow accepted, and, if there is none in the buffer, the state be it. `tryEmit` keeps this for all collectors or changes none.

`PythonObjectProofs` needs to know how a factory, the device and the reader agree on the order of readings. A
factory has one command on its way at a time (`OneCommand`), and nothing exists of an object before its factory
came to it (`NothingBeforeItIsMade`); every callback is registered before `subscribe` is sent
(`RegisteredBeforeSubscribe`) and the device reports every change after it received one
(`ReportsSinceSubscribe`). Readings are in order on the line (`LinesInOrder`), no state is newer than
a line still to come (`StatesInOrder`), nor is the initial value a factory holds in its hand
(`InitialInOrder`), nor what is being delivered (`DeliveryInOrder`): `NoStateGoesBack`
follows for every step. `NewestIsOnItsWay` strengthens `StatesFollowDevice`: what is on its way to a state that is behind is the
newest reading itself, in the line or in the callbacks that are still to be called. `NoUpdateIsMissed`
follows. The newest reading (`MaxFacts`) exists because the readings are finitely many numbers, by well-foundedness of
`>` on them. Both modules begin with the lemmas on the factories; those in `KotlinObjectProofs` are the few it needs.

### The generator

`GeneratorProofs` assumes of a directory that its lists of files are sequences and that the files to be merged are
trees of `Nodes` (`ApiAssumption`), which have a height (`NodesAssumption`); what the trees hold, and how many there are, is open.

The tasks: `IInv` adds to the types that what is collected was decoded and validated (`Validated`), that the n-th unit
written is the n-th to be written (`WrittenInOrder`), and that a task that failed did so at a unit that does not
render (`FailsAtAUnit`). `RenderersNeverFail` then is a fact about the checks: each `error()` and `requireNotNull` of a
renderer of objects has a check of `validateIoDefinition` or `getMetaDefinitions` in front of it (`IoFacts`, `MemberFacts`). For a
constant of type microstep_mode it is `acceptsLiteral`, which knows no literal of it.

The masks: `OneBitFacts` says that `mask and (mask - 1) == 0` leaves a positive number just one bit. Up to the least bit
of the mask, what is left of the two after each shift differs by one, so their bits differ; above it nothing differs, so
another bit would be common to both. `SameBits` says that the bits determine a positive number, from the highest bit down.
Different masks therefore share no bit (`EntriesShareNoBit`), and a union of some of them has the bit of an entry just if
the entry is one of them. `IsInt` is needed: a bit past the width would be lost.

The merge: the theorem compares a recursion on trees with a description of paths, and its induction is on the path,
from the root downwards. `Follows` says what the result has at a path: where two nodes meet, their merge; below a
node of one of the trees alone, that tree; where a null deletes, nothing. `FollowsStep` takes one
step further in all three trees, with one case for a mapping both have, one for a common tag, one
for what is the file's alone, one for what is inherited, and one for what is gone.

Induction comes as a fact about sets of numbers (`SetInduction`, from the well-foundedness of `<`) or of paths
(`PathInduction`), and so needs no operator as a parameter. It also gives what a recursive function does *step by step*: that
`mergeYaml`, the levels of `Flat` and the shifts of an integer satisfy their defining equations (`MergeFacts`,
`LevelFacts`, `ShiftedFacts`), because every beginning of such a function exists and any two agree as far as both go.

### What proving showed about the models

Two `CASE` expressions had guards that overlapped (`OutcomeOf` of `PythonTransport` and `HolderGoesTo` of
`PythonFraming`): TLC takes the first arm, the meaning of `CASE` leaves open which. Their guards are disjoint now, with
the arms TLC took. `IInv` of the Kotlin transport turned out too weak for its refinement, which is
where the four conjuncts of `ChannelIInv` come from. `LinesAreTheBytes` compared `lines` with a recursive
function of the stream, and `WireIsInSlotOrder` with a selection and a sort of the wire, which would have needed induction over data; both now say
byte by byte which line stands where, and TLC finds the same faults with them. `Templates` and `Generator` had RECURSIVE
operators for the merge, for the paths and for sums of powers of two; they are recursive functions on named sets now, and a mask is
the set of its bits. That the decoder refuses a mask that is no Int had been missing: without it, `MasksSelectEntries` is
false of a mask past the width. `PythonMembers` and `DeviceApi` extended classes with TLC's
`@@`, of which the prover knows nothing; `With` of `Wire` says the same as a function.

## 6. Where the code departs from its documentation

Shown by runs that expect a violation:

* `kotlin_close_foreign`. `close()` empties `pending` one deferred at a time while the
  reader still takes from it. After the oldest deferred has been failed, the reply to it
  completes the next one.
* `kotlin_object_misses_update`. The generated factory sends `subscribe` when the collector
  is launched, not when it collects; `subscriptionFlow` replays nothing.
* `python_foreign_answer`. A write that fails drains `_pending` but leaves port and reader alone, so the reply to a
  drained call, the one whose write raised after its line went out among them, completes a call that had passed its
  check and was written afterwards. `CorrelatedFutures` of `PythonTransport` therefore excepts a failure that began with
  a write, `AnswersAreOwn` of `PythonClient` only the calls it may hit, and `ImplementsChannel` none: the abstract
  channel promises nothing once it is down. In `PythonFraming` the same call continues the torn line of the one whose write failed.

More of the same kind was seen with the same models and has no run of its own:

* `EveryMethodWorks` of `PythonClient` does not hold: `Stepper.__init__` (and its twin) stores the state of the
  subscription entry `homing` in `self.homing`, over the method `homing` of the class: calling it raises
  TypeError, and the device's `homing` command cannot be sent, where `docs/core.md:188` has one method per member.
* `FailedLeavesNobodyWaiting` of `PythonClient` does not hold: when the reader fails, `_fail` drains `_pending` and leaves
  the port open, and a call that had passed its failure check appends and writes, and waits for a reply that
  nobody reads.
* `ConstructionEnds` of `KotlinTransport` does not hold with `"writeFails"` among the `Disruptions`:
  the first `writeRaw` is outside `withTimeout`, `failTransport()` completes `initialized`, but the
  factory awaits the request's own `completed`, which nobody completes.
* `ObserverEndsUpToDate` of `PythonState` does not hold: `changes()` puts the value it read under the
  lock after it released it, so a newer update can be put first, and the iterator ends on the old one.
* `failTransport()` of the Kotlin transport drains `pending`, not `writes`, and closes neither: a call
  queued there, or made later, waits for ever, where `docs/communication.md:270` has all queued handles
  fail; `close()` leaves calls that are still in `writes`, and the one in the writer's hand when
  `pending` is closed, without a result.
* `AsyncFtSwarmClient.open` that is cancelled leaves its thread to open the transport, and nobody
  owns the port and the reader thread it returns. `LeftClientsLetGo` does not speak of such a client.
* A command text with a line ending in its middle is written as two lines and has one slot. No
  generated method sends such a text, for none takes a string.
* `FtSwarmClient(port)` of Kotlin makes the client's job before it opens the transport; when opening
  fails the job stays, and keeps the caller's scope from completing if the caller goes on.

In the generator, a definition without a subscription may have two `subscribe` markers
(`IoDefinitions.kt:240` compares the presence of a subscription with a count of exactly one;
`docs/core.md` 7.3 allows none): the renderers emit nothing for them. `MicrostepMode` is
validated while units are written, so an invalid `microstep-modes.yaml` leaves the Kotlin output with
`VendorIdSet.kt` and `IOTypes.kt` alone; and any rejected directory leaves an empty output, because it
is deleted first. A default of type float is emitted into Kotlin as it is written, where `1.5` is a
Double.

## 7. Limits

Only model-checked: all liveness, which with `ENABLED` is out of the prover's reach.

Not modelled:

* `commands(Flow)` of the Kotlin transport, a pipeline over `enqueueCommand`.
* The Kotlin twins of framing, encoding, parsing and discovery. `SerialInputBuffer` has the branches of
  `_accept_byte`; the parsers of joystick and designated values throw where others return a failure,
  which is all `KotlinObject` needs of them.
* The Kotlin client lifetime: `close()` cancels one job and closes the transport, and what that does to
  child contexts is structured concurrency, which a model could only assume.
* In `PythonClient` an object exists once the client is open; its construction is `PythonObject`'s. `close()` and
  `_fail` are one step each there, and two threads that close, lines of an earlier session and unsolicited lines are
  `PythonTransport`'s. Ctrl-C between the two lines `command()` takes from its slot to its `try`
  (`transport.py:91` and 92) is in neither: it would leave a slot without a command. Contents of strings are there only as far as encoding can
  fail on them (a double quote).
* The text the renderers emit, and so whether it compiles (a Kotlin factory calls the helper named after
  the command of its query, while helpers are named after members; names that collide in their target
  spelling). The Python output is covered by itself: `PythonMembers` translates what was generated.
* Waiting for the driver's outbound buffer, logging, the Playground and the test bench.

## 8. Plan

What is left to do is to model more: the Kotlin twins of `PythonFraming` and `Wire`, and the agreement of the two languages
on malformed input.
