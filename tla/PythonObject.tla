---------------------------- MODULE PythonObject -----------------------------
(***************************************************************************)
(* The factories of SyncObjectFactories and AsyncObjectFactories, their    *)
(* State cells, and the part of the reader thread that brings subscription *)
(* updates to them.  The two kinds of factory differ in how they wait for  *)
(* a reply, which is of no consequence here.                               *)
(***************************************************************************)
EXTENDS ObjectFactory, SequencesExt

VARIABLES
    callbacks,    \* the transport's _subscribers of the port, oldest first
    calling,      \* the callbacks the reader thread has still to call
    delivering,   \* the update it calls them with
    state         \* the _value of each object's State of each entry

deliveryVars == <<callbacks, calling, delivering, state>>
vars == <<factoryVars, deliveryVars>>

NoUpdate == Update(1, Bad)

Init ==
    /\ InitFactory
    /\ callbacks = <<>>
    /\ calling = <<>>
    /\ delivering = NoUpdate
    /\ state = [o \in Objects |-> [e \in Entries |-> None]]

(* Fault: the callback is registered by the first reader of State.value.   *)
CreateStateLazily(o) ==
    /\ NextEntry(o)
    /\ state' = [state EXCEPT ![o][at[o]] = initial[o]]
    /\ UNCHANGED <<callbacks, calling, delivering>>

(* context.state(): State(initial_value), transport.subscribe(callback).   *)
CreateState(o) ==
    /\ NextEntry(o)
    /\ state' = [state EXCEPT ![o][at[o]] = initial[o]]
    /\ callbacks' = Append(callbacks, <<o, at[o]>>)
    /\ UNCHANGED <<calling, delivering>>

(* Fault: replies are completed before the updates received before them.   *)
ReaderReplyFirst ==
    /\ calling = <<>>
    /\ \E i \in 1..Len(toHost) :
         /\ toHost[i].kind # "S"
         /\ \A j \in 1..(i - 1) : toHost[j].kind = "S"
         /\ toHost' = RemoveAt(toHost, i)
         /\ Replied(toHost[i])
    /\ UNCHANGED deliveryVars

ReaderReply ==
    /\ calling = <<>>
    /\ toHost # <<>>
    /\ Head(toHost).kind # "S"
    /\ toHost' = Tail(toHost)
    /\ Replied(Head(toHost))
    /\ UNCHANGED deliveryVars

(* _subscription: under _subscribers_lock, copy the callbacks of the port. *)
ReaderUpdate ==
    /\ calling = <<>>
    /\ toHost # <<>>
    /\ Head(toHost).kind = "S"
    /\ toHost' = Tail(toHost)
    /\ calling' = callbacks
    /\ delivering' = Head(toHost)
    /\ UNCHANGED <<factory, at, initial, toDevice, deviceVars, callbacks, state>>

(* Fault: what the parser raises ends the loop over the callbacks.         *)
CallbackOrStop ==
    /\ calling # <<>>
    /\ LET o == Head(calling)[1]
           e == Head(calling)[2]
       IN  IF delivering.entry = e /\ delivering.value # Bad
           THEN /\ state' = [state EXCEPT ![o][e] = delivering.value]
                /\ calling' = Tail(calling)
           ELSE /\ delivering.value # Bad
                /\ calling' = Tail(calling)
                /\ UNCHANGED state
    /\ UNCHANGED <<factoryVars, callbacks, delivering>>

(* _state_callback's update: another designator is none of its business,   *)
(* and what the parser raises is logged.                                   *)
Callback ==
    /\ calling # <<>>
    /\ calling' = Tail(calling)
    /\ LET o == Head(calling)[1]
           e == Head(calling)[2]
       IN  state' = IF delivering.entry = e /\ delivering.value # Bad
                    THEN [state EXCEPT ![o][e] = delivering.value]
                    ELSE state
    /\ UNCHANGED <<factoryVars, callbacks, delivering>>

Factory(o) ==
    \/ (SetIOType(o) \/ Query(o) \/ Subscribe(o)) /\ UNCHANGED deliveryVars
    \/ CreateState(o)

Reader == ReaderReply \/ ReaderUpdate \/ Callback

Next ==
    \/ \E o \in Objects : Factory(o)
    \/ Reader
    \/ Device /\ UNCHANGED deliveryVars

Spec == Init /\ [][Next]_vars

(* The reader thread runs.                                                 *)
FairSpec == Spec /\ WF_vars(Reader)

-----------------------------------------------------------------------------

TypeOK ==
    /\ FactoryTypeOK
    /\ callbacks \in Seq(Objects \X Entries)
    /\ calling \in Seq(Objects \X Entries)
    /\ delivering \in [kind : {"S"}, entry : Entries, value : 0..Bad]
    /\ state \in [Objects -> [Entries -> None..MaxReading]]

OnItsWay(e) ==
    \/ \E i \in 1..Len(toHost) : toHost[i].kind = "S" /\ toHost[i].entry = e
    \/ calling # <<>> /\ delivering.entry = e

(* "The first device update cannot be missed": once the device has changed *)
(* a reading after it got an object's subscribe, the object's state is the *)
(* device's reading, or an update of it is still to be delivered.          *)
StatesFollowDevice ==
    \A o \in Objects : \A e \in Selected :
        since[o][e] # None /\ reading[e] # since[o][e] =>
            state[o][e] = reading[e] \/ OnItsWay(e)

(* A state never goes back to an older reading, whatever the order in      *)
(* which objects of one port are made and its updates come in.             *)
StatesNeverGoBack ==
    [][\A o \in Objects : \A e \in Entries : state'[o][e] >= state[o][e]]_vars

(* A malformed update does not keep later ones from being delivered.       *)
UpdatesArrive ==
    \A o \in Objects : \A e \in Selected : \A n \in 1..MaxReading :
        since[o][e] # None /\ since[o][e] < n /\ reading[e] = n
            ~> state[o][e] >= n
=============================================================================
