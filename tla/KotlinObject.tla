---------------------------- MODULE KotlinObject -----------------------------
(***************************************************************************)
(* The create functions of the generated Kotlin objects, the StateFlows    *)
(* they make with stateIn(cx, SharingStarted.Eagerly, initial), and the    *)
(* transport's subscriptionFlow between them and readerLoop.  stateIn      *)
(* launches the coroutine that collects the flow and returns: the          *)
(* coroutine is dispatched, and subscribes to the flow when it runs.       *)
(***************************************************************************)
EXTENDS ObjectFactory, SequencesExt

CONSTANTS
    BufferCapacity,   \* extraBufferCapacity of subscriptionFlow (128)
    ParserThrows      \* whether the parser may throw (joystick), rather than
                      \* return a Result.failure

ASSUME FlowAssumption ==
    BufferCapacity \in Nat \ {0} /\ ParserThrows \in BOOLEAN

VARIABLES
    collector,    \* the coroutine behind each StateFlow
    buffered,     \* what subscriptionFlow holds that it has not collected
    state,        \* the value of each StateFlow
    emitted,      \* the newest update of each entry that tryEmit accepted
    joined        \* what that was when the collector subscribed

flowVars == <<collector, buffered, state, emitted, joined>>
vars == <<factoryVars, flowVars>>

States == Objects \X Entries

Init ==
    /\ InitFactory
    /\ collector = [s \in States |-> "none"]
    /\ buffered = [s \in States |-> <<>>]
    /\ state = [s \in States |-> None]
    /\ emitted = [e \in Entries |-> None]
    /\ joined = [s \in States |-> None]

Collecting(s) == collector[s] = "collecting"

(* stateIn: the StateFlow has the initial value at once.                   *)
CreateState(o) ==
    /\ NextEntry(o)
    /\ state' = [state EXCEPT ![<<o, at[o]>>] = initial[o]]
    /\ collector' = [collector EXCEPT ![<<o, at[o]>>] = "launched"]
    /\ UNCHANGED <<buffered, emitted, joined>>

(* The coroutine runs and gets its slot in subscriptionFlow, which replays *)
(* nothing.                                                                *)
StartCollecting(s) ==
    /\ collector[s] = "launched"
    /\ collector' = [collector EXCEPT ![s] = "collecting"]
    /\ joined' = [joined EXCEPT ![s] = emitted[s[2]]]
    /\ UNCHANGED <<factoryVars, buffered, state, emitted>>

ReaderReply ==
    /\ toHost # <<>>
    /\ Head(toHost).kind # "S"
    /\ toHost' = Tail(toHost)
    /\ Replied(Head(toHost))
    /\ UNCHANGED flowVars

Full(s) == Collecting(s) /\ Len(buffered[s]) = BufferCapacity

(* Fault: every collector has a buffer of its own, and loses what does not *)
(* fit in it.                                                              *)
onSubscriptionEach(update) ==
    /\ buffered' = [s \in States |->
                       IF Collecting(s) /\ ~Full(s)
                       THEN Append(buffered[s], update) ELSE buffered[s]]
    /\ emitted' = IF update.value = Bad THEN emitted
                  ELSE [emitted EXCEPT ![update.entry] = update.value]

(* Fault: the buffer is unlimited.                                         *)
onSubscriptionUnlimited(update) ==
    /\ buffered' = [s \in States |->
                       IF Collecting(s)
                       THEN Append(buffered[s], update) ELSE buffered[s]]
    /\ emitted' = IF update.value = Bad THEN emitted
                  ELSE [emitted EXCEPT ![update.entry] = update.value]

(* tryEmit: false, and the update is lost for everyone, while the slowest  *)
(* collector has a full buffer before it.                                  *)
onSubscription(update) ==
    IF \E s \in States : Full(s)
    THEN UNCHANGED <<buffered, emitted>>
    ELSE /\ buffered' = [s \in States |->
                            IF Collecting(s)
                            THEN Append(buffered[s], update) ELSE buffered[s]]
         /\ emitted' = IF update.value = Bad THEN emitted
                       ELSE [emitted EXCEPT ![update.entry] = update.value]

ReaderUpdate ==
    /\ toHost # <<>>
    /\ Head(toHost).kind = "S"
    /\ toHost' = Tail(toHost)
    /\ onSubscription(Head(toHost))
    /\ UNCHANGED <<factory, at, initial, toDevice, deviceVars>>
    /\ UNCHANGED <<collector, state, joined>>

(* Fault: the first update that cannot be parsed ends the flow.            *)
CollectWhileParsed(s) ==
    /\ Collecting(s)
    /\ buffered[s] # <<>>
    /\ LET update == Head(buffered[s]) IN
         IF update.value = Bad
         THEN /\ collector' = [collector EXCEPT ![s] = "none"]
              /\ buffered' = [buffered EXCEPT ![s] = <<>>]
              /\ UNCHANGED state
         ELSE /\ buffered' = [buffered EXCEPT ![s] = Tail(@)]
              /\ state' = IF update.entry = s[2]
                          THEN [state EXCEPT ![s] = update.value] ELSE state
              /\ UNCHANGED collector
    /\ UNCHANGED <<factoryVars, emitted, joined>>

(* One update on its way through mapNotNull and filter into the StateFlow: *)
(* a Result.failure is dropped, but an exception ends the coroutine.       *)
Collect(s) ==
    /\ Collecting(s)
    /\ buffered[s] # <<>>
    /\ LET update == Head(buffered[s]) IN
         \/ /\ update = Update(s[2], Bad) /\ ParserThrows
            /\ collector' = [collector EXCEPT ![s] = "dead"]
            /\ buffered' = [buffered EXCEPT ![s] = <<>>]
            /\ UNCHANGED state
         \/ /\ buffered' = [buffered EXCEPT ![s] = Tail(@)]
            /\ state' = IF update.entry = s[2] /\ update.value # Bad
                        THEN [state EXCEPT ![s] = update.value] ELSE state
            /\ UNCHANGED collector
    /\ UNCHANGED <<factoryVars, emitted, joined>>

Factory(o) ==
    \/ (SetIOType(o) \/ Query(o) \/ Subscribe(o)) /\ UNCHANGED flowVars
    \/ CreateState(o)

Reader == ReaderReply \/ ReaderUpdate

Next ==
    \/ \E o \in Objects : Factory(o)
    \/ Reader
    \/ \E s \in States : StartCollecting(s) \/ Collect(s)
    \/ Device /\ UNCHANGED flowVars

Spec == Init /\ [][Next]_vars

(* The reader and the collectors run.                                      *)
FairSpec ==
    /\ Spec
    /\ WF_vars(Reader)
    /\ \A s \in States : WF_vars(StartCollecting(s)) /\ WF_vars(Collect(s))

-----------------------------------------------------------------------------

TypeOK ==
    /\ FactoryTypeOK
    /\ collector \in [States -> {"none", "launched", "collecting", "dead"}]
    /\ buffered \in [States -> Seq([kind : {"S"}, entry : Entries,
                                    value : 0..Bad])]
    /\ \A s \in States : Len(buffered[s]) <= BufferCapacity
    /\ state \in [States -> None..MaxReading]
    /\ emitted \in [Entries -> None..MaxReading]
    /\ joined \in [States -> None..MaxReading]

Waiting(s) == \E i \in 1..Len(buffered[s]) : buffered[s][i].entry = s[2]

(* An update that subscriptionFlow accepts reaches every collector that    *)
(* has subscribed to it: a state is the newest of them, or is behind       *)
(* because its collector is.  A slow collector costs all of them updates,  *)
(* but never some of them.                                                 *)
StatesFollowFlow ==
    \A s \in States :
        Collecting(s) /\ emitted[s[2]] # joined[s] =>
            state[s] = emitted[s[2]] \/ Waiting(s)

OnItsWay(s) ==
    \/ \E i \in 1..Len(toHost) : toHost[i].kind = "S" /\ toHost[i].entry = s[2]
    \/ Waiting(s)

(* core.md section 6.1: "ensure the collector is active before the         *)
(* subscribe command is sent so the first device update cannot be missed". *)
(* The code sends it as soon as the collector is launched, and an update   *)
(* that comes before the collector subscribes to subscriptionFlow is lost. *)
StatesFollowDevice ==
    \A o \in Objects : \A e \in Selected :
        /\ since[o][e] # None
        /\ reading[e] # since[o][e]
        => state[<<o, e>>] = reading[e] \/ OnItsWay(<<o, e>>)

(* A malformed update does not keep later ones from reaching the state,    *)
(* unless the parser threw on it.                                          *)
UpdatesArrive ==
    \A s \in States : \A n \in 1..MaxReading :
        Collecting(s) /\ emitted[s[2]] = n /\ joined[s] < n
            ~> state[s] >= n \/ (ParserThrows /\ collector[s] = "dead")
=============================================================================
