------------------------- MODULE KotlinObjectProofs --------------------------
(***************************************************************************)
(* What holds of KotlinObject for any number of objects and entries, any   *)
(* capacity of subscriptionFlow's buffer, and parsers that throw or not.   *)
(***************************************************************************)
EXTENDS KotlinObject, SequenceTheorems, TLAPS

-----------------------------------------------------------------------------
(* The inductive invariant.                                                *)

(* An update that a collector of the entry makes a value of its state of.  *)
Parsed(update, e) == update.entry = e /\ update.value # Bad

NoneParsedAfter(s, i) ==
    \A j \in (i + 1)..Len(buffered[s]) : ~Parsed(buffered[s][j], s[2])

(* StatesFollowFlow, and more: what a collector still has to collect ends  *)
(* with the newest accepted update of its entry, or there is none of them. *)
EndsWithNewest(s) ==
    Collecting(s) /\ emitted[s[2]] # joined[s] =>
        \/ \E i \in 1..Len(buffered[s]) :
              /\ buffered[s][i] = Update(s[2], emitted[s[2]])
              /\ NoneParsedAfter(s, i)
        \/ state[s] = emitted[s[2]] /\ NoneParsedAfter(s, 0)

NewestIsLast == \A s \in States : EndsWithNewest(s)

IInv == TypeOK /\ NewestIsLast

-----------------------------------------------------------------------------
(* The types of the factories, for any number of them                      *)

(* What Append does to the length and to the elements.                     *)
LEMMA AppendFacts ==
  ASSUME NEW S, NEW s \in Seq(S), NEW x \in S
  PROVE  /\ Append(s, x) \in Seq(S)
         /\ Len(s) \in Nat
         /\ Len(Append(s, x)) = Len(s) + 1
         /\ \A i \in 1..Len(s) : Append(s, x)[i] = s[i]
         /\ Append(s, x)[Len(s) + 1] = x
  OBVIOUS

(* What Tail does to the length and to the elements.                       *)
LEMMA TailFacts ==
  ASSUME NEW S, NEW s \in Seq(S), s # <<>>
  PROVE  /\ Head(s) = s[1]
         /\ Head(s) \in S
         /\ Tail(s) \in Seq(S)
         /\ Len(s) \in Nat \ {0}
         /\ Len(Tail(s)) = Len(s) - 1
         /\ \A i \in 1..Len(Tail(s)) : i + 1 \in 1..Len(s) /\ Tail(s)[i] = s[i + 1]
         /\ \A i \in 2..Len(s) : i - 1 \in 1..Len(Tail(s)) /\ Tail(s)[i - 1] = s[i]
  OBVIOUS

(* The parameters of the module, in the form the proofs use them.          *)
LEMMA ParameterFacts ==
  /\ NumEntries \in Nat \ {0} /\ MaxReading \in Nat /\ MaxBad \in Nat
  /\ Entries \subseteq Nat /\ 1 \in Entries
  /\ Selected \subseteq Entries
  /\ Bad \in Nat /\ Bad = MaxReading + 1 /\ None = -1
  BY FactoryAssumption DEF Entries, Bad, None

(* A command of a factory, a reply to it and an update have their types.   *)
LEMMA MessageTypes ==
  ASSUME FactoryTypeOK
  PROVE  /\ \A o \in Objects : \A name \in Names :
               [of |-> o, name |-> name, entry |-> at[o]] \in Commands
         /\ \A command \in Commands : \A kind \in {"R", "ERR"} :
               Reply(command, kind) \in HostLines
         /\ \A e \in Entries : \A v \in 0..Bad :
               /\ Update(e, v) \in HostLines
               /\ Update(e, v) \in [kind : {"S"}, entry : Entries, value : 0..Bad]
  BY DEF FactoryTypeOK, Commands, HostLines, Reply, Update

(* A line is an update or a reply.                                         *)
LEMMA LineTypes ==
  ASSUME NEW line \in HostLines
  PROVE  /\ line.kind = "S" => /\ line \in [kind : {"S"}, entry : Entries, value : 0..Bad]
                               /\ line.entry \in Entries /\ line.value \in 0..Bad
         /\ line.kind # "S" => /\ line.kind \in {"R", "ERR"} /\ line.of \in Objects
                               /\ line.name \in Names /\ line.entry \in Entries
                               /\ line.value \in 0..MaxReading
  BY DEF HostLines

(* The initial state is of the types.                                      *)
LEMMA InitFactoryTypes ==
  ASSUME InitFactory
  PROVE  FactoryTypeOK
  <1>1. /\ 0 \in 0..MaxReading /\ None \in None..MaxReading /\ 0 \in 0..MaxBad
    BY ParameterFacts
  <1> QED
    BY <1>1, ParameterFacts DEF InitFactory, FactoryTypeOK

(* To send a command keeps the queue to the device in its type.            *)
LEMMA SendsType ==
  ASSUME FactoryTypeOK, NEW o \in Objects, NEW name \in Names, Sends(o, name)
  PROVE  toDevice' \in Seq(Commands)
  BY MessageTypes, AppendFacts DEF FactoryTypeOK, Sends

(* Every step of a factory keeps the types.                                *)
LEMMA FactoryStepTypes ==
  ASSUME FactoryTypeOK, NEW o \in Objects,
         SetIOType(o) \/ Query(o) \/ Subscribe(o) \/ NextEntry(o)
  PROVE  FactoryTypeOK'
  <1>1. CASE SetIOType(o)
    <2>1. toDevice' \in Seq(Commands)
      BY <1>1, SendsType DEF SetIOType, Names
    <2> QED
      BY <1>1, <2>1 DEF SetIOType, FactoryTypeOK, Moves, Names, deviceVars
  <1>2. CASE Query(o)
    <2>1. toDevice' \in Seq(Commands)
      BY <1>2, SendsType DEF Query, Names
    <2> QED
      BY <1>2, <2>1 DEF Query, FactoryTypeOK, Moves, Names, deviceVars
  <1>3. CASE Subscribe(o)
    <2>1. toDevice' \in Seq(Commands)
      BY <1>3, SendsType DEF Subscribe, Names
    <2> QED
      BY <1>3, <2>1 DEF Subscribe, FactoryTypeOK, Moves, Names, deviceVars
  <1>4. CASE NextEntry(o)
    <2>1. at' \in [Objects -> Entries]
      BY <1>4, ParameterFacts, SMTT(30) DEF NextEntry, FactoryTypeOK, Entries
    <2> QED
      BY <1>4, <2>1 DEF NextEntry, FactoryTypeOK, Moves, deviceVars
  <1> QED
    BY <1>1, <1>2, <1>3, <1>4

(* The reader's completion of a command keeps the types.                   *)
LEMMA RepliedTypes ==
  ASSUME FactoryTypeOK, toHost # <<>>, Head(toHost).kind # "S",
         toHost' = Tail(toHost), Replied(Head(toHost))
  PROVE  FactoryTypeOK'
  <1> DEFINE line == Head(toHost)
  <1>1. line \in HostLines /\ toHost' \in Seq(HostLines)
    BY TailFacts DEF FactoryTypeOK
  <1>2. /\ line.of \in Objects /\ line.name \in Names
        /\ line.value \in 0..MaxReading
    BY <1>1, LineTypes
  <1>3. 0..MaxReading \subseteq None..MaxReading
    BY ParameterFacts
  <1>4. After(line.name) \in {"typed", "queried", "ready"}
    BY <1>2 DEF After, Names
  <1> HIDE DEF line
  <1>5. initial' \in [Objects -> None..MaxReading]
    BY <1>2, <1>3 DEF Replied, FactoryTypeOK, line
  <1>6. factory' \in [Objects -> Names \cup
                        {"idle", "typed", "queried", "stated", "ready", "raised"}]
    BY <1>2, <1>4 DEF Replied, FactoryTypeOK, line
  <1> QED
    BY <1>1, <1>5, <1>6 DEF Replied, FactoryTypeOK, deviceVars

(* And every step of the device.                                           *)
LEMMA DeviceTypes ==
  ASSUME FactoryTypeOK, Device
  PROVE  FactoryTypeOK'
  <1>1. CASE DeviceAnswers
    <2>1. toDevice # <<>> /\ toDevice' = Tail(toDevice)
      BY <1>1 DEF DeviceAnswers
    <2>2. PICK command \in Commands : command = Head(toDevice)
      BY <2>1, TailFacts DEF FactoryTypeOK
    <2>3. /\ \/ toHost' = Append(toHost, Reply(command, "ERR"))
             \/ toHost' = Append(toHost, Reply(command, "R"))
          /\ subscribed' \in {subscribed, Selected}
          /\ since' \in {since, [since EXCEPT ![command.of] = reading]}
          /\ UNCHANGED <<factory, at, initial, reading, bad>>
      BY <1>1, <2>2 DEF DeviceAnswers, deviceVars
    <2>4. toDevice' \in Seq(Commands) /\ toHost' \in Seq(HostLines)
      <3>1. Reply(command, "ERR") \in HostLines /\ Reply(command, "R") \in HostLines
        BY MessageTypes
      <3>2. PICK line \in HostLines : toHost' = Append(toHost, line)
        BY <2>3, <3>1
      <3>3. toHost' \in Seq(HostLines)
        BY <3>2, AppendFacts DEF FactoryTypeOK
      <3> QED
        BY <2>1, <3>3, TailFacts DEF FactoryTypeOK
    <2>5. command.of \in Objects /\ reading \in [Entries -> None..MaxReading]
      BY ParameterFacts DEF Commands, FactoryTypeOK
    <2>6. subscribed' \in SUBSET Entries /\ since' \in [Objects -> [Entries -> None..MaxReading]]
      BY <2>3, <2>5, ParameterFacts DEF FactoryTypeOK
    <2> QED
      BY <2>3, <2>4, <2>6 DEF FactoryTypeOK
  <1>2. ASSUME NEW e \in Entries, DeviceReads(e)
        PROVE  FactoryTypeOK'
    <2>1. PICK n \in 1..MaxReading :
             /\ reading' = [reading EXCEPT ![e] = n]
             /\ toHost' = IF e \in subscribed THEN Append(toHost, Update(e, n)) ELSE toHost
      BY <1>2 DEF DeviceReads
    <2>2. n \in 0..MaxReading /\ n \in 0..Bad
      BY ParameterFacts
    <2>3. toHost' \in Seq(HostLines)
      BY <2>1, <2>2, MessageTypes, AppendFacts DEF FactoryTypeOK
    <2>4. reading' \in [Entries -> 0..MaxReading]
      BY <2>1, <2>2 DEF FactoryTypeOK
    <2> QED
      BY <1>2, <2>3, <2>4 DEF DeviceReads, FactoryTypeOK
  <1>3. CASE DeviceGarbles
    <2>1. PICK e \in subscribed : toHost' = Append(toHost, Update(e, Bad))
      BY <1>3 DEF DeviceGarbles
    <2>2. e \in Entries /\ Bad \in 0..Bad
      BY ParameterFacts DEF FactoryTypeOK
    <2>3. toHost' \in Seq(HostLines)
      BY <2>1, <2>2, MessageTypes, AppendFacts DEF FactoryTypeOK
    <2>4. bad' \in 0..MaxBad
      BY <1>3, ParameterFacts DEF DeviceGarbles, FactoryTypeOK
    <2> QED
      BY <1>3, <2>3, <2>4 DEF DeviceGarbles, FactoryTypeOK
  <1> QED
    BY <1>1, <1>2, <1>3 DEF Device

-----------------------------------------------------------------------------
(* The types of the flow                                                   *)

Updates == [kind : {"S"}, entry : Entries, value : 0..Bad]

(* The part of TypeOK that ObjectFactory knows nothing of.                 *)
FlowTypeOK ==
    /\ collector \in [States -> {"none", "launched", "collecting", "dead"}]
    /\ buffered \in [States -> Seq(Updates)]
    /\ \A s \in States : Len(buffered[s]) <= BufferCapacity
    /\ state \in [States -> None..MaxReading]
    /\ emitted \in [Entries -> None..MaxReading]
    /\ joined \in [States -> None..MaxReading]

(* TypeOK is the types of the factories and those of the flow.             *)
LEMMA TypeParts == TypeOK <=> FactoryTypeOK /\ FlowTypeOK
  BY DEF TypeOK, FlowTypeOK, Updates

(* A value of an update that is not malformed is a reading.                *)
LEMMA ParsedValue ==
  ASSUME NEW update \in Updates, update.value # Bad
  PROVE  update.value \in 0..MaxReading /\ update.value \in None..MaxReading
  BY ParameterFacts DEF Updates

(* What tryEmit does to a collector's buffer.                              *)
LEMMA EmitFacts ==
  ASSUME TypeOK, NEW update \in Updates, onSubscription(update), NEW s \in States
  PROVE  \/ buffered' = buffered /\ emitted' = emitted
         \/ /\ Collecting(s) => Len(buffered[s]) < BufferCapacity
            /\ buffered'[s] = IF Collecting(s) THEN Append(buffered[s], update)
                              ELSE buffered[s]
            /\ emitted' = IF update.value = Bad THEN emitted
                          ELSE [emitted EXCEPT ![update.entry] = update.value]
  <1>1. Len(buffered[s]) <= BufferCapacity /\ Len(buffered[s]) \in Nat
    BY DEF TypeOK
  <1>2. BufferCapacity \in Nat
    BY FlowAssumption
  <1>3. CASE \E t \in States : Full(t)
    BY <1>3 DEF onSubscription
  <1>4. CASE ~ \E t \in States : Full(t)
    <2>1. Collecting(s) => Len(buffered[s]) < BufferCapacity
      BY <1>1, <1>2, <1>4 DEF Full
    <2> QED
      BY <1>4, <2>1 DEF onSubscription
  <1> QED
    BY <1>3, <1>4

(* What a collector does with the oldest update it has: it dies of it, or  *)
(* takes it and makes it the value of the state if it parses.              *)
LEMMA CollectFacts ==
  ASSUME TypeOK, NEW s \in States, Collect(s)
  PROVE  /\ buffered[s] # <<>> /\ Head(buffered[s]) \in Updates
         /\ \/ /\ collector' = [collector EXCEPT ![s] = "dead"]
               /\ buffered' = [buffered EXCEPT ![s] = <<>>]
               /\ state' = state
            \/ /\ collector' = collector
               /\ buffered' = [buffered EXCEPT ![s] = Tail(buffered[s])]
               /\ state' = IF Parsed(Head(buffered[s]), s[2])
                           THEN [state EXCEPT ![s] = Head(buffered[s]).value]
                           ELSE state
         /\ UNCHANGED <<factoryVars, emitted, joined>>
  <1>1. buffered[s] # <<>> /\ buffered[s] \in Seq(Updates)
    BY DEF Collect, TypeOK, Updates
  <1>2. Head(buffered[s]) \in Updates
    BY <1>1, TailFacts
  <1> QED
    BY <1>1, <1>2 DEF Collect, Parsed

(* The initial state is of the types.                                      *)
LEMMA InitTypes == Init => TypeOK
  <1> SUFFICES ASSUME Init PROVE TypeOK
    OBVIOUS
  <1>1. FactoryTypeOK
    BY InitFactoryTypes DEF Init
  <1>2. None \in None..MaxReading /\ BufferCapacity \in Nat
    BY ParameterFacts, FlowAssumption
  <1>3. FlowTypeOK
    BY <1>2 DEF Init, FlowTypeOK
  <1> QED
    BY <1>1, <1>3, TypeParts

(* Every step keeps the types.                                             *)
LEMMA StepTypes == TypeOK /\ [Next]_vars => TypeOK'
  <1> SUFFICES ASSUME TypeOK, [Next]_vars PROVE TypeOK'
    OBVIOUS
  <1>t. FactoryTypeOK /\ FlowTypeOK
    BY TypeParts
  <1> SUFFICES FactoryTypeOK' /\ FlowTypeOK'
    BY DEF TypeOK, FlowTypeOK, Updates
  <1>0. UNCHANGED factoryVars => FactoryTypeOK'
    BY <1>t DEF factoryVars, deviceVars, FactoryTypeOK
  <1>u. UNCHANGED flowVars => FlowTypeOK'
    BY <1>t DEF flowVars, FlowTypeOK
  <1>1. ASSUME NEW o \in Objects, SetIOType(o) \/ Query(o) \/ Subscribe(o),
               UNCHANGED flowVars
        PROVE  FactoryTypeOK' /\ FlowTypeOK'
    BY <1>t, <1>u, <1>1, FactoryStepTypes
  <1>2. ASSUME NEW o \in Objects, CreateState(o)
        PROVE  FactoryTypeOK' /\ FlowTypeOK'
    <2>1. FactoryTypeOK'
      BY <1>t, <1>2, FactoryStepTypes DEF CreateState
    <2>2. at[o] \in Entries /\ initial[o] \in None..MaxReading
      BY <1>t DEF FactoryTypeOK
    <2>3. <<o, at[o]>> \in States
      BY <2>2 DEF States
    <2> QED
      BY <1>t, <1>2, <2>1, <2>2, <2>3 DEF CreateState, FlowTypeOK
  <1>3. ASSUME ReaderReply
        PROVE  FactoryTypeOK' /\ FlowTypeOK'
    BY <1>t, <1>u, <1>3, RepliedTypes DEF ReaderReply
  <1>4. ASSUME ReaderUpdate
        PROVE  FactoryTypeOK' /\ FlowTypeOK'
    <2>1. Head(toHost) \in HostLines /\ toHost' \in Seq(HostLines)
      BY <1>t, <1>4, TailFacts DEF ReaderUpdate, FactoryTypeOK
    <2>2. PICK update \in Updates : update = Head(toHost)
      BY <1>4, <2>1, LineTypes DEF ReaderUpdate, Updates
    <2>3. FactoryTypeOK'
      BY <1>t, <1>4, <2>1 DEF ReaderUpdate, FactoryTypeOK, deviceVars
    <2>4. onSubscription(update)
      BY <1>4, <2>2 DEF ReaderUpdate
    <2>5. ASSUME NEW s \in States
          PROVE  /\ buffered'[s] \in Seq(Updates)
                 /\ Len(buffered'[s]) <= BufferCapacity
      <3>1. /\ buffered[s] \in Seq(Updates)
            /\ Len(buffered[s]) <= BufferCapacity
        BY <1>t DEF FlowTypeOK
      <3>2. BufferCapacity \in Nat
        BY FlowAssumption
      <3>0. PICK new : new = buffered'[s]
        OBVIOUS
      <3>3. \/ new = buffered[s]
            \/ /\ Len(buffered[s]) < BufferCapacity
               /\ new = Append(buffered[s], update)
        BY <2>4, <3>0, EmitFacts
      <3>4. /\ Append(buffered[s], update) \in Seq(Updates)
            /\ Len(Append(buffered[s], update)) = Len(buffered[s]) + 1
            /\ Len(buffered[s]) \in Nat
        BY <3>1, AppendFacts
      <3> QED
        <4>1. CASE new = buffered[s]
          BY <3>0, <3>1, <4>1
        <4>2. CASE /\ Len(buffered[s]) < BufferCapacity
                   /\ new = Append(buffered[s], update)
          <5>1. Len(new) <= BufferCapacity
            BY <3>2, <3>4, <4>2
          <5> QED
            BY <3>0, <3>4, <4>2, <5>1
        <4> QED
          BY <3>3, <4>1, <4>2
    <2>6. buffered' \in [States -> Seq(Updates)]
      <3>1. CASE \E t \in States : Full(t)
        BY <1>t, <2>4, <3>1 DEF onSubscription, FlowTypeOK
      <3>2. CASE ~ \E t \in States : Full(t)
        <4> DEFINE new(t) == IF Collecting(t)
                             THEN Append(buffered[t], update) ELSE buffered[t]
        <4>1. buffered' = [t \in States |-> new(t)]
          BY <2>4, <3>2 DEF onSubscription
        <4>2. \A t \in States : new(t) = buffered'[t]
          BY <4>1
        <4>3. \A t \in States : new(t) \in Seq(Updates)
          BY <2>5, <4>2
        <4> HIDE DEF new
        <4> QED
          BY <4>1, <4>3
      <3> QED
        BY <3>1, <3>2
    <2>7. emitted' \in [Entries -> None..MaxReading]
      BY <1>t, <2>2, <2>4, ParsedValue DEF onSubscription, FlowTypeOK
    <2>8. UNCHANGED <<collector, state, joined>>
      BY <1>4 DEF ReaderUpdate
    <2> QED
      BY <1>t, <2>3, <2>5, <2>6, <2>7, <2>8 DEF FlowTypeOK
  <1>5. ASSUME NEW s \in States, StartCollecting(s)
        PROVE  FactoryTypeOK' /\ FlowTypeOK'
    <2>1. s[2] \in Entries
      BY DEF States
    <2>2. emitted[s[2]] \in None..MaxReading
      BY <1>t, <2>1 DEF FlowTypeOK
    <2> QED
      BY <1>0, <1>t, <1>5, <2>2 DEF StartCollecting, FlowTypeOK
  <1>6. ASSUME NEW s \in States, Collect(s)
        PROVE  FactoryTypeOK' /\ FlowTypeOK'
    <2>1. /\ Tail(buffered[s]) \in Seq(Updates)
          /\ Len(Tail(buffered[s])) <= BufferCapacity
          /\ <<>> \in Seq(Updates) /\ Len(<<>>) <= BufferCapacity
      <3>1. buffered[s] \in Seq(Updates) /\ Len(buffered[s]) <= BufferCapacity
        BY <1>t DEF FlowTypeOK
      <3> QED
        BY <1>6, <3>1, TailFacts, CollectFacts, FlowAssumption
    <2>2. Parsed(Head(buffered[s]), s[2]) =>
             Head(buffered[s]).value \in None..MaxReading
      BY <1>6, CollectFacts, ParsedValue DEF Parsed
    <2>3. UNCHANGED factoryVars
      BY <1>6, CollectFacts
    <2>4. CASE /\ collector' = [collector EXCEPT ![s] = "dead"]
               /\ buffered' = [buffered EXCEPT ![s] = <<>>]
               /\ state' = state
      BY <1>0, <1>t, <1>6, <2>1, <2>3, <2>4, CollectFacts DEF FlowTypeOK
    <2>5. CASE /\ collector' = collector
               /\ buffered' = [buffered EXCEPT ![s] = Tail(buffered[s])]
               /\ state' = IF Parsed(Head(buffered[s]), s[2])
                           THEN [state EXCEPT ![s] = Head(buffered[s]).value]
                           ELSE state
      <3>1. state' \in [States -> None..MaxReading]
        BY <1>t, <2>2, <2>5 DEF FlowTypeOK
      <3>2. emitted' = emitted /\ joined' = joined
        BY <1>6, CollectFacts
      <3>3. /\ buffered' \in [States -> Seq(Updates)]
            /\ \A t \in States : Len(buffered'[t]) <= BufferCapacity
        BY <1>t, <2>1, <2>5 DEF FlowTypeOK
      <3> QED
        BY <1>0, <1>t, <2>3, <2>5, <3>1, <3>2, <3>3 DEF FlowTypeOK
    <2> QED
      BY <1>6, <2>4, <2>5, CollectFacts
  <1>7. ASSUME Device, UNCHANGED flowVars
        PROVE  FactoryTypeOK' /\ FlowTypeOK'
    BY <1>t, <1>u, <1>7, DeviceTypes
  <1>8. ASSUME UNCHANGED vars
        PROVE  FactoryTypeOK' /\ FlowTypeOK'
    BY <1>0, <1>u, <1>8 DEF vars
  <1> QED
    BY <1>1, <1>2, <1>3, <1>4, <1>5, <1>6, <1>7, <1>8 DEF Next, Factory, Reader

-----------------------------------------------------------------------------
(* The invariant                                                           *)

(* A collector that a step does not touch, nor its entry's newest update.  *)
LEMMA Untouched ==
  ASSUME NEW s \in States, EndsWithNewest(s),
         Collecting(s)' => Collecting(s),
         buffered'[s] = buffered[s], state'[s] = state[s],
         emitted'[s[2]] = emitted[s[2]], joined'[s] = joined[s]
  PROVE  EndsWithNewest(s)'
  BY DEF EndsWithNewest, NoneParsedAfter, Parsed

(* The invariant holds initially: nobody collects.                         *)
LEMMA InitEndsWithNewest == Init => NewestIsLast
  BY DEF Init, NewestIsLast, EndsWithNewest, Collecting

(* An accepted update becomes the newest of its entry, and the last of     *)
(* what every collector has.                                               *)
LEMMA EmitEndsWithNewest ==
  ASSUME TypeOK, NEW update \in Updates, onSubscription(update),
         UNCHANGED <<collector, state, joined>>,
         NEW s \in States, EndsWithNewest(s)
  PROVE  EndsWithNewest(s)'
  <1> DEFINE e == s[2]
  <1>1. e \in Entries /\ buffered[s] \in Seq(Updates)
    BY DEF States, TypeOK, Updates
  <1>2. CASE buffered' = buffered /\ emitted' = emitted
    BY <1>2, Untouched DEF Collecting
  <1>3. CASE ~Collecting(s)
    BY <1>3 DEF EndsWithNewest, Collecting
  <1>4. CASE /\ Collecting(s) /\ buffered'[s] = Append(buffered[s], update)
             /\ emitted' = IF update.value = Bad THEN emitted
                           ELSE [emitted EXCEPT ![update.entry] = update.value]
    <2>1. PICK new \in Seq(Updates) : new = buffered'[s]
      BY <1>1, <1>4, AppendFacts
    <2>2. /\ Len(buffered[s]) \in Nat /\ Len(new) = Len(buffered[s]) + 1
          /\ \A i \in 1..Len(buffered[s]) : new[i] = buffered[s][i]
          /\ new[Len(new)] = update
      BY <1>1, <1>4, <2>1, AppendFacts
    <2>3. CASE Parsed(update, e)
      <3>1. emitted'[e] = update.value
        BY <1>1, <1>4, <2>3 DEF Parsed, TypeOK
      <3>2. update = Update(e, update.value)
        BY <2>3 DEF Parsed, Updates, Update
      <3>3. Len(new) \in 1..Len(new) /\ (Len(new) + 1)..Len(new) = {}
        BY <2>2
      <3>4. /\ new[Len(new)] = Update(e, emitted'[e])
            /\ \A j \in (Len(new) + 1)..Len(new) : ~Parsed(new[j], e)
        BY <2>2, <3>1, <3>2, <3>3
      <3> QED
        BY <2>1, <3>3, <3>4 DEF EndsWithNewest, NoneParsedAfter, Parsed, Update
    <2>4. CASE ~Parsed(update, e)
      <3>1. emitted'[e] = emitted[e]
        BY <1>1, <1>4, <2>4 DEF Parsed, TypeOK
      <3>2. \A i \in 0..Len(buffered[s]) :
               (\A j \in (i + 1)..Len(buffered[s]) : ~Parsed(buffered[s][j], e)) =>
                  \A j \in (i + 1)..Len(new) : ~Parsed(new[j], e)
        BY <2>2, <2>4
      <3>3. 0 \in 0..Len(buffered[s]) /\ 1..Len(buffered[s]) \subseteq 0..Len(buffered[s])
            /\ 1..Len(buffered[s]) \subseteq 1..Len(new)
        BY <2>2
      <3>4. ASSUME Collecting(s), emitted[e] # joined[s]
            PROVE  \/ \E i \in 1..Len(new) :
                         /\ new[i] = Update(e, emitted[e])
                         /\ \A j \in (i + 1)..Len(new) : ~Parsed(new[j], e)
                   \/ /\ state[s] = emitted[e]
                      /\ \A j \in 1..Len(new) : ~Parsed(new[j], e)
        <4>1. CASE \E i \in 1..Len(buffered[s]) :
                      /\ buffered[s][i] = Update(e, emitted[e])
                      /\ NoneParsedAfter(s, i)
          BY <2>2, <3>2, <3>3, <4>1 DEF NoneParsedAfter
        <4>2. CASE state[s] = emitted[e] /\ NoneParsedAfter(s, 0)
          BY <3>2, <3>3, <4>2 DEF NoneParsedAfter
        <4> QED
          BY <3>4, <4>1, <4>2 DEF EndsWithNewest
      <3> QED
        BY <2>1, <3>1, <3>4
           DEF EndsWithNewest, NoneParsedAfter, Parsed, Update, Collecting
    <2> QED
      BY <2>3, <2>4
  <1> QED
    BY <1>2, <1>3, <1>4, EmitFacts

(* To collect the newest update makes it the state, and to collect an      *)
(* older one leaves the newest to come.                                    *)
LEMMA CollectEndsWithNewest ==
  ASSUME TypeOK, NEW t \in States, Collect(t), NEW s \in States, EndsWithNewest(s)
  PROVE  EndsWithNewest(s)'
  <1> DEFINE e == s[2]
             head == Head(buffered[s])
  <1>1. /\ emitted' = emitted /\ joined' = joined
        /\ collector'[s] # "dead" => collector'[s] = collector[s]
    BY CollectFacts DEF TypeOK
  <1>2. CASE s # t
    <2>1. buffered'[s] = buffered[s] /\ state'[s] = state[s]
      BY <1>2, CollectFacts DEF TypeOK
    <2> QED
      BY <1>1, <2>1, Untouched DEF Collecting
  <1>3. CASE s = t /\ collector'[s] = "dead"
    BY <1>3 DEF EndsWithNewest, Collecting
  <1>4. CASE /\ s = t /\ collector' = collector
             /\ buffered'[s] = Tail(buffered[s])
             /\ state'[s] = IF Parsed(head, e) THEN head.value ELSE state[s]
    <2>1. buffered[s] # <<>> /\ buffered[s] \in Seq(Updates) /\ head \in Updates
      BY <1>4, CollectFacts DEF TypeOK, Updates
    <2>2. PICK old \in Seq(Updates) : old = buffered[s]
      BY <2>1
    <2>3. PICK new \in Seq(Updates) : new = buffered'[s]
      BY <1>4, <2>1, TailFacts
    <2>4. /\ head = old[1] /\ Len(old) \in Nat \ {0} /\ Len(new) = Len(old) - 1
          /\ \A j \in 1..Len(new) : j + 1 \in 1..Len(old) /\ new[j] = old[j + 1]
          /\ \A j \in 2..Len(old) : j - 1 \in 1..Len(new) /\ new[j - 1] = old[j]
      BY <1>4, <2>1, <2>2, <2>3, TailFacts
    <2>5. ASSUME Collecting(s), emitted[e] # joined[s]
          PROVE  \/ \E i \in 1..Len(new) :
                       /\ new[i] = Update(e, emitted[e])
                       /\ \A j \in (i + 1)..Len(new) : ~Parsed(new[j], e)
                 \/ /\ state'[s] = emitted[e]
                    /\ \A j \in 1..Len(new) : ~Parsed(new[j], e)
      <3>1. ASSUME NEW i \in 1..Len(old), NoneParsedAfter(s, i)
            PROVE  \A j \in i..Len(new) : ~Parsed(new[j], e)
        BY <2>2, <2>4, <3>1 DEF NoneParsedAfter
      <3>2. CASE \E i \in 1..Len(old) : /\ old[i] = Update(e, emitted[e])
                                        /\ NoneParsedAfter(s, i)
        <4>1. PICK i \in 1..Len(old) : /\ old[i] = Update(e, emitted[e])
                                       /\ NoneParsedAfter(s, i)
          BY <3>2
        <4>2. \A j \in i..Len(new) : ~Parsed(new[j], e)
          BY <3>1, <4>1
        <4>3. CASE i = 1
          <5>1. head = Update(e, emitted[e])
            BY <2>4, <4>1, <4>3
          <5>2. head.entry = e /\ head.value = emitted[e]
            BY <5>1 DEF Update
          <5>3. emitted[e] # Bad
            <6>1. emitted[e] \in None..MaxReading
              BY DEF TypeOK, States
            <6> QED
              BY <6>1, ParameterFacts
          <5> QED
            BY <1>4, <4>2, <4>3, <5>2, <5>3 DEF Parsed
        <4>4. CASE i # 1
          <5>1. i \in 2..Len(old) /\ i - 1 \in 1..Len(new) /\ (i - 1) + 1 = i
            BY <2>4, <4>4
          <5>2. new[i - 1] = Update(e, emitted[e])
            BY <2>4, <4>1, <5>1
          <5> QED
            BY <4>2, <5>1, <5>2
        <4> QED
          BY <4>3, <4>4
      <3>3. CASE state[s] = emitted[e] /\ NoneParsedAfter(s, 0)
        <4>1. \A j \in 1..Len(old) : ~Parsed(old[j], e)
          BY <2>2, <3>3 DEF NoneParsedAfter
        <4>2. ~Parsed(head, e)
          BY <2>4, <4>1
        <4> QED
          BY <1>4, <2>4, <3>3, <4>1, <4>2
      <3> QED
        BY <2>2, <2>5, <3>2, <3>3 DEF EndsWithNewest
    <2> QED
      BY <1>1, <1>4, <2>3, <2>5
         DEF EndsWithNewest, NoneParsedAfter, Parsed, Update, Collecting
  <1> QED
    BY <1>2, <1>3, <1>4, CollectFacts DEF TypeOK

(* A step of the factories, the device or a reply moves no update.         *)
LEMMA FlowUnchanged ==
  ASSUME NewestIsLast, UNCHANGED flowVars
  PROVE  NewestIsLast'
  BY Untouched DEF NewestIsLast, flowVars, Collecting

(* Every step keeps the invariant.                                         *)
LEMMA StepNewestIsLast == IInv /\ [Next]_vars => NewestIsLast'
  <1> SUFFICES ASSUME TypeOK, NewestIsLast, [Next]_vars
               PROVE  NewestIsLast'
    BY DEF IInv
  <1>1. ASSUME NEW o \in Objects, SetIOType(o) \/ Query(o) \/ Subscribe(o),
               UNCHANGED flowVars
        PROVE  NewestIsLast'
    BY <1>1, FlowUnchanged
  <1>2. ASSUME NEW o \in Objects, CreateState(o)
        PROVE  NewestIsLast'
    <2> SUFFICES ASSUME NEW s \in States PROVE EndsWithNewest(s)'
      BY DEF NewestIsLast
    <2>1. CASE s = <<o, at[o]>>
      <3>1. ~Collecting(s)'
        BY <1>2, <2>1 DEF CreateState, Collecting, TypeOK
      <3> QED
        BY <3>1 DEF EndsWithNewest
    <2>2. CASE s # <<o, at[o]>>
      BY <1>2, <2>2, Untouched DEF CreateState, Collecting, TypeOK, NewestIsLast
    <2> QED
      BY <2>1, <2>2
  <1>3. ASSUME ReaderReply
        PROVE  NewestIsLast'
    BY <1>3, FlowUnchanged DEF ReaderReply
  <1>4. ASSUME ReaderUpdate
        PROVE  NewestIsLast'
    <2>1. Head(toHost) \in HostLines
      BY <1>4, TailFacts DEF ReaderUpdate, TypeOK, FactoryTypeOK
    <2>2. Head(toHost) \in Updates
      BY <1>4, <2>1, LineTypes DEF ReaderUpdate, Updates
    <2> QED
      BY <1>4, <2>2, EmitEndsWithNewest DEF ReaderUpdate, NewestIsLast
  <1>5. ASSUME NEW t \in States, StartCollecting(t)
        PROVE  NewestIsLast'
    <2> SUFFICES ASSUME NEW s \in States PROVE EndsWithNewest(s)'
      BY DEF NewestIsLast
    <2>1. CASE s = t
      BY <1>5, <2>1 DEF StartCollecting, TypeOK, EndsWithNewest
    <2>2. CASE s # t
      BY <1>5, <2>2, Untouched DEF StartCollecting, Collecting, TypeOK, NewestIsLast
    <2> QED
      BY <2>1, <2>2
  <1>6. ASSUME NEW t \in States, Collect(t)
        PROVE  NewestIsLast'
    BY <1>6, CollectEndsWithNewest DEF NewestIsLast
  <1>7. ASSUME Device, UNCHANGED flowVars
        PROVE  NewestIsLast'
    BY <1>7, FlowUnchanged
  <1>8. ASSUME UNCHANGED vars
        PROVE  NewestIsLast'
    BY <1>8, FlowUnchanged DEF vars
  <1> QED
    BY <1>1, <1>2, <1>3, <1>4, <1>5, <1>6, <1>7, <1>8 DEF Next, Factory, Reader

-----------------------------------------------------------------------------

(* However many objects of however many entries there are, the factories,  *)
(* their StateFlows and subscriptionFlow stay within their types; in       *)
(* particular no collector is behind by more than the buffer holds.        *)
THEOREM TypeCorrect == Spec => []TypeOK
  BY InitTypes, StepTypes, PTL DEF Spec

(* What a collector still has to collect ends with the newest update that  *)
(* tryEmit accepted for its entry, or holds none and the state is that     *)
(* update: the inductive form of StatesFollowFlow.                         *)
THEOREM Invariance == Spec => []IInv
  <1>1. Init => IInv
    BY InitTypes, InitEndsWithNewest DEF IInv
  <1>2. IInv /\ [Next]_vars => IInv'
    BY StepTypes, StepNewestIsLast DEF IInv
  <1> QED
    BY <1>1, <1>2, PTL DEF Spec

(* An update that subscriptionFlow accepts reaches every collector that    *)
(* has subscribed to it, whatever the capacity of the buffer, however slow *)
(* the other collectors are and whatever the parsers throw at.             *)
THEOREM AcceptedUpdatesReachStates == Spec => []StatesFollowFlow
  <1>1. IInv => StatesFollowFlow
    <2> SUFFICES ASSUME IInv, NEW s \in States, Collecting(s),
                        emitted[s[2]] # joined[s], state[s] # emitted[s[2]]
                 PROVE  Waiting(s)
      BY DEF StatesFollowFlow
    <2>1. PICK i \in 1..Len(buffered[s]) :
             buffered[s][i] = Update(s[2], emitted[s[2]])
      BY DEF IInv, NewestIsLast, EndsWithNewest
    <2> QED
      BY <2>1 DEF Waiting, Update
  <1> QED
    BY <1>1, Invariance, PTL
=============================================================================
