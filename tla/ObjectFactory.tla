---------------------------- MODULE ObjectFactory ----------------------------
(***************************************************************************)
(* The factories the code generator emits for a port that can be           *)
(* subscribed to (core.md section 6.1), in both languages: setIOType, then *)
(* for every entry query its value and make a state of it, then subscribe. *)
(* What makes a state and who brings updates to it differs; PythonObject   *)
(* and KotlinObject add it, and the reader.  A value subscription has one  *)
(* entry; the entries of a bitset subscription are numbered in the order   *)
(* of their declaration.                                                   *)
(*                                                                         *)
(* Commands reach the device in the order they are sent and a reply goes   *)
(* to the factory that asked, as CommandChannel promises of a transport    *)
(* that is up.  A reading is represented by its place in the order of the  *)
(* changes of the device's readings, of all entries together.              *)
(***************************************************************************)
EXTENDS Integers, Sequences, FiniteSetsExt

CONSTANTS
    Objects,      \* the objects being created, all on the same port
    NumEntries,   \* the number of subscription entries of their type
    Selected,     \* the entries in the mask of their subscribe command
    SetsType,     \* whether the type has a set_io_type step
    Refusals,     \* the commands whose reply may be an error, or malformed
    MaxReading,   \* bound: how many changes of readings there are
    MaxBad        \* bound: how many malformed updates the device sends

Entries == 1..NumEntries
Names == {"setIOType", "query", "subscribe"}
Bad == MaxReading + 1     \* the entry of an update that no parser accepts
None == -1                \* no reading

ASSUME FactoryAssumption ==
    /\ NumEntries \in Nat \ {0}
    /\ Selected \subseteq Entries
    /\ SetsType \in BOOLEAN
    /\ Refusals \subseteq Names
    /\ MaxReading \in Nat
    /\ MaxBad \in Nat

VARIABLES
    factory,      \* where each factory is
    at,           \* the entry it is working on
    initial,      \* the reply to its last query
    toDevice,     \* the commands the device has not seen yet
    toHost,       \* the lines the reader has not handled yet
    reading,      \* the device: its reading of every entry
    subscribed,   \* the device: the entries whose changes it reports
    since,        \* the device: its readings when it got each subscribe
    bad           \* the device: how many malformed updates it has sent

deviceVars == <<reading, subscribed, since, bad>>
factoryVars == <<factory, at, initial, toDevice, toHost, deviceVars>>

InitFactory ==
    /\ factory = [o \in Objects |-> "idle"]
    /\ at = [o \in Objects |-> 1]
    /\ initial = [o \in Objects |-> None]
    /\ toDevice = <<>>
    /\ toHost = <<>>
    /\ reading = [e \in Entries |-> 0]
    /\ subscribed = {}
    /\ since = [o \in Objects |-> [e \in Entries |-> None]]
    /\ bad = 0

-----------------------------------------------------------------------------
(* The factory.  A command is sent, and its caller suspended or blocked,   *)
(* in one step: nothing it has is touched in between.                      *)

Moves(o, here, there) ==
    /\ factory[o] = here
    /\ factory' = [factory EXCEPT ![o] = there]

Sends(o, name) ==
    toDevice' = Append(toDevice, [of |-> o, name |-> name, entry |-> at[o]])

SetIOType(o) ==
    /\ SetsType
    /\ Moves(o, "idle", "setIOType")
    /\ Sends(o, "setIOType")
    /\ UNCHANGED <<at, initial, toHost, deviceVars>>

Query(o) ==
    /\ \/ ~SetsType /\ Moves(o, "idle", "query")
       \/ Moves(o, "typed", "query")
    /\ Sends(o, "query")
    /\ UNCHANGED <<at, initial, toHost, deviceVars>>

(* Fault: the last entry is not recognized.                                *)
NextEntryUnbounded(o) ==
    /\ Moves(o, "queried", IF at[o] > NumEntries THEN "stated" ELSE "typed")
    /\ at' = [at EXCEPT ![o] = @ + 1]
    /\ UNCHANGED <<initial, toDevice, toHost, deviceVars>>

(* The entry has its state: on to the next one, or to subscribe.           *)
NextEntry(o) ==
    /\ Moves(o, "queried", IF at[o] = NumEntries THEN "stated" ELSE "typed")
    /\ at' = [at EXCEPT ![o] = IF @ = NumEntries THEN @ ELSE @ + 1]
    /\ UNCHANGED <<initial, toDevice, toHost, deviceVars>>

Subscribe(o) ==
    /\ Moves(o, "stated", "subscribe")
    /\ Sends(o, "subscribe")
    /\ UNCHANGED <<at, initial, toHost, deviceVars>>

(* What the reply to the command it awaits makes of a factory: an error,   *)
(* the device's or the parser's, is raised out of it.                      *)
After(name) ==
    CASE name = "setIOType" -> "typed"
      [] name = "query" -> "queried"
      [] name = "subscribe" -> "ready"

Replied(line) ==
    /\ factory' = [factory EXCEPT ![line.of] =
                      IF line.kind = "ERR" THEN "raised" ELSE After(line.name)]
    /\ initial' = [initial EXCEPT ![line.of] =
                      IF line.name = "query" THEN line.value ELSE @]
    /\ UNCHANGED <<at, toDevice, deviceVars>>

-----------------------------------------------------------------------------
(* The device, external to src/.                                           *)

Reply(command, kind) ==
    [kind |-> kind, of |-> command.of, name |-> command.name,
     entry |-> command.entry, value |-> reading[command.entry]]
Update(e, v) == [kind |-> "S", entry |-> e, value |-> v]

DeviceAnswers ==
    /\ toDevice # <<>>
    /\ toDevice' = Tail(toDevice)
    /\ LET command == Head(toDevice) IN
         \/ /\ command.name \in Refusals
            /\ toHost' = Append(toHost, Reply(command, "ERR"))
            /\ UNCHANGED deviceVars
         \/ /\ toHost' = Append(toHost, Reply(command, "R"))
            /\ IF command.name = "subscribe"
               THEN /\ subscribed' = Selected
                    /\ since' = [since EXCEPT ![command.of] = reading]
               ELSE UNCHANGED <<subscribed, since>>
            /\ UNCHANGED <<reading, bad>>
    /\ UNCHANGED <<factory, at, initial>>

DeviceReads(e) ==
    LET n == 1 + Max({reading[f] : f \in Entries}) IN
      /\ n \in 1..MaxReading
      /\ reading' = [reading EXCEPT ![e] = n]
      /\ toHost' = IF e \in subscribed THEN Append(toHost, Update(e, n)) ELSE toHost
      /\ UNCHANGED <<factory, at, initial, toDevice, subscribed, since, bad>>

DeviceGarbles ==
    /\ bad < MaxBad
    /\ bad' = bad + 1
    /\ \E e \in subscribed : toHost' = Append(toHost, Update(e, Bad))
    /\ UNCHANGED <<factory, at, initial, toDevice, reading, subscribed, since>>

Device ==
    \/ DeviceAnswers
    \/ \E e \in Entries : DeviceReads(e)
    \/ DeviceGarbles

-----------------------------------------------------------------------------

Commands == [of : Objects, name : Names, entry : Entries]
HostLines ==
    [kind : {"R", "ERR"}, of : Objects, name : Names, entry : Entries,
     value : 0..MaxReading]
        \cup [kind : {"S"}, entry : Entries, value : 0..Bad]

FactoryTypeOK ==
    /\ factory \in [Objects -> Names \cup
                      {"idle", "typed", "queried", "stated", "ready", "raised"}]
    /\ at \in [Objects -> Entries]
    /\ initial \in [Objects -> None..MaxReading]
    /\ toDevice \in Seq(Commands)
    /\ toHost \in Seq(HostLines)
    /\ reading \in [Entries -> 0..MaxReading]
    /\ subscribed \in SUBSET Entries
    /\ since \in [Objects -> [Entries -> None..MaxReading]]
    /\ bad \in 0..MaxBad
=============================================================================
