---------------------------- MODULE PythonFraming ----------------------------
(***************************************************************************)
(* The bytes below PythonTransport: how the reader thread cuts what the    *)
(* port delivers, in whatever pieces, into lines, and how initialize() and *)
(* command() put theirs on the wire with writes that may be partial.       *)
(*                                                                         *)
(* A byte is "@", "cr", "lf" or any other one; "startCLI" counts as one.   *)
(* Lines are decoded after they are cut, so the text of a line is its      *)
(* bytes here.                                                             *)
(***************************************************************************)
EXTENDS Integers, Sequences, FiniteSets, SequencesExt

CONSTANTS
    Letters,     \* every other byte
    Streams,     \* what the device may send, in bytes
    Commands,    \* the calls of command()
    Nobody,      \* nobody
    Text,        \* the text each call gives to command()
    MaxChunk     \* the most bytes one read takes (1024 in the code)

Ends == {"cr", "lf"}
Bytes == {"@", "startCLI"} \cup Ends \cup Letters
Opener == "opener"

ASSUME StreamsAssumption == Streams \subseteq Seq(Bytes)
ASSUME CommandsAssumption ==
    /\ Nobody \notin Commands /\ Opener \notin Commands
    /\ Nobody # Opener
ASSUME TextAssumption == Text \in [Commands -> Seq(Bytes)]
ASSUME MaxChunkAssumption == MaxChunk \in Nat \ {0}

VARIABLES
    stream,       \* what the device has yet to send
    buffer,       \* what waits in the port
    reader,       \* where the reader thread is
    waiting,      \* what in_waiting said, or -1 before it is asked
    chunk,        \* the rest of the chunk the reader is at
    line,         \* the bytearray _line
    initialized,  \* the Event _initialized
    lines,        \* the lines given to _handle_line after initialization
    accepted,     \* every byte the reader has accepted so far
    boot,         \* where initialize() is
    at,           \* where each call of command() is
    writeLock,    \* who holds _write_lock
    rest,         \* what the holder has yet to write
    slots,        \* the calls in the order of their slots in _pending
    wire,         \* every byte written so far, and who wrote it
    failed        \* _failure is not None

readerVars == <<reader, buffer, waiting, chunk, line, lines, accepted>>
writerVars == <<at, writeLock, rest, slots, wire>>
vars == <<stream, readerVars, initialized, boot, writerVars, failed>>

Marker == <<"@", "@", "@">>
Crlf == <<"cr", "lf">>
StartCLI == <<"startCLI">>

Init ==
    /\ stream \in Streams
    /\ buffer = <<>>
    /\ reader = "polls"
    /\ waiting = -1
    /\ chunk = <<>>
    /\ line = <<>>
    /\ initialized = FALSE
    /\ lines = <<>>
    /\ accepted = <<>>
    /\ boot = "crlf"
    /\ at = [c \in Commands |-> "idle"]
    /\ writeLock = Nobody
    /\ rest = <<>>
    /\ slots = <<>>
    /\ wire = <<>>
    /\ failed = FALSE

-----------------------------------------------------------------------------
(* The port delivers, in pieces of any size (external to src/).            *)

Arrives ==
    /\ stream # <<>>
    /\ \E n \in 1..Len(stream) :
          /\ buffer' = buffer \o SubSeq(stream, 1, n)
          /\ stream' = SubSeq(stream, n + 1, Len(stream))
    /\ UNCHANGED <<reader, waiting, chunk, line, lines, accepted>>
    /\ UNCHANGED <<initialized, boot, writerVars, failed>>

-----------------------------------------------------------------------------
(* _reader_loop                                                            *)

InWaiting ==
    /\ reader = "polls"
    /\ chunk = <<>> /\ waiting = -1
    /\ waiting' = Len(buffer)
    /\ UNCHANGED <<stream, reader, buffer, chunk, line, lines, accepted>>
    /\ UNCHANGED <<initialized, boot, writerVars, failed>>

Smaller(m, n) == IF m < n THEN m ELSE n
Larger(m, n) == IF m > n THEN m ELSE n

(* in_waiting or read raised: _fail, which initializes the transport too.  *)
ReaderFails ==
    /\ reader = "polls"
    /\ chunk = <<>>
    /\ reader' = "stopped"
    /\ initialized' = TRUE
    /\ failed' = TRUE
    /\ UNCHANGED <<stream, buffer, waiting, chunk, line, lines, accepted>>
    /\ UNCHANGED <<boot, writerVars>>

(* read(max(1, min(1024, waiting))) does not wait for that many; it is     *)
(* empty when nothing has arrived.                                         *)
Read ==
    /\ reader = "polls"
    /\ waiting >= 0
    /\ LET n == Smaller(Larger(1, Smaller(MaxChunk, waiting)), Len(buffer))
       IN  /\ chunk' = SubSeq(buffer, 1, n)
           /\ buffer' = SubSeq(buffer, n + 1, Len(buffer))
    /\ waiting' = -1
    /\ UNCHANGED <<stream, reader, line, lines, accepted>>
    /\ UNCHANGED <<initialized, boot, writerVars, failed>>

(* removesuffix("\r")                                                      *)
WithoutCr(text) ==
    IF text # <<>> /\ text[Len(text)] = "cr"
    THEN SubSeq(text, 1, Len(text) - 1) ELSE text

(* What _handle_line does with a line: before initialization it is looked  *)
(* at for the marker, afterwards it is dispatched.                         *)
handleLine(text) ==
    IF initialized
    THEN lines' = Append(lines, text) /\ UNCHANGED initialized
    ELSE initialized' = IsPrefix(Marker, text) /\ UNCHANGED lines

(* Fault: the marker is looked for in whole lines only.                    *)
AppendByteOnly(byte) ==
    /\ line' = Append(line, byte)
    /\ UNCHANGED <<initialized, lines>>

(* The marker needs no line ending; what follows it is a line of its own.  *)
AppendByte(byte) ==
    /\ IF ~initialized /\ Append(line, byte) = Marker
       THEN line' = <<>> /\ initialized' = TRUE
       ELSE line' = Append(line, byte) /\ UNCHANGED initialized
    /\ UNCHANGED lines

(* _accept_byte for the next byte of the chunk.                            *)
AcceptByte ==
    /\ chunk # <<>>
    /\ chunk' = Tail(chunk)
    /\ accepted' = Append(accepted, Head(chunk))
    /\ IF Head(chunk) = "lf"
       THEN line' = <<>> /\ handleLine(WithoutCr(line))
       ELSE AppendByte(Head(chunk))
    /\ UNCHANGED <<stream, reader, buffer, waiting, boot, writerVars, failed>>

-----------------------------------------------------------------------------
(* _write_unlocked, and _fail when it raises                               *)

(* rstrip("\r\n"), and one line ending.                                    *)
LineOf(text) ==
    LET kept == {i \in DOMAIN text : text[i] \notin Ends}
        last == IF kept = {} THEN 0
                ELSE CHOOSE i \in kept : \A j \in kept : j <= i
    IN  SubSeq(text, 1, last) \o Crlf

Locks(who, data) ==
    /\ writeLock = Nobody
    /\ writeLock' = who
    /\ rest' = data

(* The state of the holder's thread after its write.                       *)
HolderGoesTo(state) ==
    IF writeLock = Opener
    THEN /\ boot' = (CASE state = "raised" -> "raised"
                       [] state # "raised" /\ boot = "crlf" -> "startCLI"
                       [] state # "raised" /\ boot # "crlf" -> "wait")
         /\ UNCHANGED at
    ELSE at' = [at EXCEPT ![writeLock] = state] /\ UNCHANGED boot

(* Fault: what one write did not take is dropped.                          *)
WritePartIsAll ==
    /\ writeLock # Nobody
    /\ \E n \in 1..Len(rest) :
          /\ wire' = wire \o [i \in 1..n |-> [of |-> writeLock, byte |-> rest[i]]]
          /\ rest' = <<>>
    /\ writeLock' = Nobody /\ HolderGoesTo("returned")
    /\ UNCHANGED <<stream, readerVars, initialized, slots, failed>>

(* One turn of the loop; the last one releases the lock.                   *)
WritePart ==
    /\ writeLock # Nobody
    /\ \E n \in 1..Len(rest) :
          /\ wire' = wire \o [i \in 1..n |-> [of |-> writeLock, byte |-> rest[i]]]
          /\ rest' = SubSeq(rest, n + 1, Len(rest))
    /\ IF rest' = <<>>
       THEN writeLock' = Nobody /\ HolderGoesTo("returned")
       ELSE UNCHANGED <<writeLock, boot, at>>
    /\ UNCHANGED <<stream, readerVars, initialized, slots, failed>>

(* Fault: the lock is not released when the write raises.                  *)
WriteFailsLocked ==
    /\ writeLock # Nobody
    /\ rest' = <<>>
    /\ HolderGoesTo("raised")
    /\ IF writeLock = Opener THEN UNCHANGED <<initialized, failed>>
       ELSE initialized' = TRUE /\ failed' = TRUE
    /\ UNCHANGED <<stream, readerVars, writeLock, slots, wire>>

(* write() raised or took nothing.  command() fails the transport, which   *)
(* initializes it too; initialize() only raises.                           *)
WriteFails ==
    /\ writeLock # Nobody
    /\ writeLock' = Nobody
    /\ rest' = <<>>
    /\ HolderGoesTo("raised")
    /\ IF writeLock = Opener THEN UNCHANGED <<initialized, failed>>
       ELSE initialized' = TRUE /\ failed' = TRUE
    /\ UNCHANGED <<stream, readerVars, slots, wire>>

-----------------------------------------------------------------------------
(* initialize() and command()                                              *)

Initialize ==
    /\ \/ boot = "crlf" /\ Locks(Opener, Crlf)
       \/ boot = "startCLI" /\ Locks(Opener, StartCLI \o Crlf)
    /\ UNCHANGED <<stream, readerVars, initialized, boot, at, slots, wire, failed>>

(* The timeout, and what follows it, is a matter of PythonTransport.       *)
Ready ==
    /\ boot = "wait" /\ initialized
    /\ boot' = IF failed THEN "raised" ELSE "ready"
    /\ UNCHANGED <<stream, readerVars, initialized, writerVars, failed>>

(* _raise_if_failed, before the lock is taken.                             *)
Check(c) ==
    /\ boot = "ready"
    /\ at[c] = "idle"
    /\ at' = [at EXCEPT ![c] = IF failed THEN "raised" ELSE "checked"]
    /\ UNCHANGED <<stream, readerVars, initialized, boot, writeLock, rest>>
    /\ UNCHANGED <<slots, wire, failed>>

Begin(c) ==
    /\ at[c] = "checked"
    /\ Locks(c, LineOf(Text[c]))
    /\ at' = [at EXCEPT ![c] = "writing"]
    /\ slots' = Append(slots, c)
    /\ UNCHANGED <<stream, readerVars, initialized, boot, wire, failed>>

-----------------------------------------------------------------------------

Next ==
    \/ Arrives
    \/ InWaiting \/ Read \/ ReaderFails \/ AcceptByte
    \/ Initialize \/ Ready
    \/ \E c \in Commands : Check(c) \/ Begin(c)
    \/ WritePart \/ WriteFails

Spec == Init /\ [][Next]_vars

-----------------------------------------------------------------------------

(* The lock belongs to a thread that is writing, and only it has something *)
(* left to write; the reader asks for more when its chunk is used up.      *)
TypeOK ==
    /\ {stream, buffer, chunk, line, accepted, rest} \subseteq Seq(Bytes)
    /\ lines \in Seq(Seq(Bytes))
    /\ reader \in {"polls", "stopped"}
    /\ waiting \in -1..(Len(buffer))
    /\ waiting >= 0 => chunk = <<>>
    /\ Len(chunk) <= MaxChunk
    /\ initialized \in BOOLEAN
    /\ failed \in BOOLEAN
    /\ boot \in {"crlf", "startCLI", "wait", "ready", "raised"}
    /\ at \in [Commands -> {"idle", "checked", "writing", "returned", "raised"}]
    /\ writeLock \in Commands \cup {Opener, Nobody}
    /\ (rest = <<>>) <=> (writeLock = Nobody)
    /\ \A c \in Commands : at[c] = "writing" <=> writeLock = c
    /\ \A i \in DOMAIN line : line[i] # "lf"
    /\ slots \in Seq(Commands)
    /\ wire \in Seq([of : Commands \cup {Opener}, byte : Bytes])

-----------------------------------------------------------------------------

(* The end of the marker in what was accepted: three @ that begin a line.  *)
MarkerEnds ==
    {i \in 3..Len(accepted) :
        /\ SubSeq(accepted, i - 2, i) = Marker
        /\ i = 3 \/ accepted[i - 3] = "lf"}
MarkerEnd == CHOOSE i \in MarkerEnds : \A j \in MarkerEnds : i <= j

(* The line feeds behind place m, and what stands between place m or the   *)
(* line feed before it and each of them, with one carriage return taken    *)
(* off: this is what the lines are, and it knows nothing of chunks.        *)
FeedsBehind(m) == {i \in m + 1 .. Len(accepted) : accepted[i] = "lf"}
LineBegins(m, b) == b = m + 1 \/ accepted[b - 1] = "lf"
LinesAreCutBehind(m) ==
    LET Nth(i) == Cardinality({j \in FeedsBehind(m) : j <= i})
    IN  /\ Len(lines) = Cardinality(FeedsBehind(m))
        /\ \A i \in FeedsBehind(m) : \E b \in m + 1 .. i :
              /\ LineBegins(m, b)
              /\ \A j \in b .. i - 1 : accepted[j] # "lf"
              /\ lines[Nth(i)] = WithoutCr(SubSeq(accepted, b, i - 1))

(* Whatever the boundaries of reads, the transport is initialized exactly  *)
(* by three @ at the beginning of a line, with or without a line ending,   *)
(* and the lines dispatched are those of the bytes behind them: "@@@       *)
(* initializes without LF and across arbitrary read boundaries; CRLF and   *)
(* LF input lines both frame correctly, with one terminal CR removed".     *)
LinesAreTheBytes ==
    ~failed =>
        /\ initialized <=> MarkerEnds # {}
        /\ IF MarkerEnds = {} THEN lines = <<>> ELSE LinesAreCutBehind(MarkerEnd)

Line(who) ==
    IF who = Opener THEN Crlf \o StartCLI \o Crlf ELSE LineOf(Text[who])
SlotOf(who) ==
    IF who = Opener THEN 0 ELSE CHOOSE i \in DOMAIN slots : slots[i] = who

(* The first n bytes of a thread's line are on the wire behind place b,    *)
(* and nothing else there is its own.                                      *)
Wrote(who, b, n) ==
    /\ \A i \in DOMAIN wire : wire[i].of = who <=> i \in b + 1 .. b + n
    /\ \A k \in 1..n : wire[b + k].byte = Line(who)[k]

(* The lines of two calls are never mixed up on the wire, and they are     *)
(* there in the order of the slots their replies will be matched with,     *)
(* however many writes a line takes and whichever of them fails.  A call   *)
(* that returned has written all of its line with exactly one line ending, *)
(* one that raised a beginning of it.                                      *)
WireIsInSlotOrder ==
    /\ \A i, j \in DOMAIN wire :
          i < j => SlotOf(wire[i].of) <= SlotOf(wire[j].of)
    /\ \A who \in Commands \cup {Opener} :
          \E b \in 0..Len(wire) : \E n \in 0..Len(Line(who)) :
              /\ b + n <= Len(wire)
              /\ Wrote(who, b, n)
              /\ who \in Commands /\ at[who] = "returned" => n = Len(Line(who))
=============================================================================
