------------------------- MODULE PythonObjectProofs --------------------------
(***************************************************************************)
(* What holds of PythonObject for any number of objects, of entries and of *)
(* readings, and whatever commands the device refuses.                     *)
(***************************************************************************)
EXTENDS PythonObject, SequenceTheorems, WellFoundedInduction, TLAPS

-----------------------------------------------------------------------------
(* The inductive invariant: who has registered what.                       *)

IsIn(pair, pairs) == \E i \in 1..Len(pairs) : pairs[i] = pair

(* A factory has at most one command with the device or on its way back,   *)
(* the one it awaits.                                                      *)
Awaited(command, where, entry) ==
    command.name = where[command.of] /\ command.entry = entry[command.of]

OneEach(commands, lines, where, entry) ==
    /\ \A i \in 1..Len(commands) :
          /\ Awaited(commands[i], where, entry)
          /\ \A j \in 1..Len(commands) : commands[j].of = commands[i].of => j = i
          /\ \A j \in 1..Len(lines) :
                lines[j].kind # "S" => lines[j].of # commands[i].of
    /\ \A i \in 1..Len(lines) : lines[i].kind # "S" =>
          /\ Awaited(lines[i], where, entry)
          /\ \A j \in 1..Len(lines) :
                lines[j].kind # "S" /\ lines[j].of = lines[i].of => j = i

OneCommand == OneEach(toDevice, toHost, factory, at)

(* The factory has still to make a state of the entry.                     *)
ToBeMade(o, e) ==
    \/ e > at[o]
    \/ e = at[o] /\ factory[o] \in {"idle", "setIOType", "typed", "query", "queried"}

NothingBeforeItIsMade ==
    \A o \in Objects : \A e \in Entries : ToBeMade(o, e) =>
        /\ ~IsIn(<<o, e>>, callbacks)
        /\ ~IsIn(<<o, e>>, calling)
        /\ state[o][e] = None

(* Every state is registered before the subscribe command is sent.         *)
RegisteredBeforeSubscribe ==
    \A o \in Objects : \A e \in Entries :
        \/ e < at[o]
        \/ factory[o] \in {"stated", "subscribe", "ready"}
        \/ \E f \in Entries : since[o][f] # None
        => IsIn(<<o, e>>, callbacks)

ReportsSinceSubscribe ==
    \A o \in Objects : \A e \in Entries :
        since[o][e] # None => Selected \subseteq subscribed

-----------------------------------------------------------------------------
(* Sequences                                                               *)

(* What Append does to the length and to the elements.                     *)
LEMMA AppendFacts ==
  ASSUME NEW S, NEW s \in Seq(S), NEW x \in S
  PROVE  /\ Append(s, x) \in Seq(S)
         /\ Len(s) \in Nat
         /\ Len(Append(s, x)) = Len(s) + 1
         /\ \A i \in 1..Len(s) : Append(s, x)[i] = s[i]
         /\ Append(s, x)[Len(s) + 1] = x
  OBVIOUS

(* What Tail does to the length and to the elements.                       *)
LEMMA TailFacts ==
  ASSUME NEW S, NEW s \in Seq(S), s # <<>>
  PROVE  /\ Head(s) = s[1]
         /\ Head(s) \in S
         /\ Tail(s) \in Seq(S)
         /\ Len(s) \in Nat \ {0}
         /\ Len(Tail(s)) = Len(s) - 1
         /\ \A i \in 1..Len(Tail(s)) : i + 1 \in 1..Len(s) /\ Tail(s)[i] = s[i + 1]
         /\ \A i \in 2..Len(s) : i - 1 \in 1..Len(Tail(s)) /\ Tail(s)[i - 1] = s[i]
  OBVIOUS

(* The elements of a sequence are of its set.                              *)
LEMMA ElementFacts ==
  ASSUME NEW S, NEW s \in Seq(S), NEW i \in 1..Len(s)
  PROVE  s[i] \in S
  OBVIOUS

-----------------------------------------------------------------------------
(* The device's readings                                                   *)

(* The numbers are well-founded by their order as a set of pairs.          *)
LEMMA SmallerIsWellFounded ==
  IsWellFoundedOn({p \in Nat \X Nat : p[1] < p[2]}, Nat)
  <1>1. ASSUME NEW f \in [Nat -> Nat], \A n \in Nat : f[n + 1] < f[n]
        PROVE  FALSE
    <2>1. ASSUME NEW n \in Nat
          PROVE  <<f[n + 1], f[n]>> \in OpToRel(<, Nat)
      <3>1. f[n + 1] \in Nat /\ f[n] \in Nat /\ f[n + 1] < f[n]
        BY <1>1
      <3> DEFINE pair == <<f[n + 1], f[n]>>
      <3>2. pair \in Nat \X Nat /\ pair[1] < pair[2]
        BY <3>1
      <3> HIDE DEF pair
      <3>3. pair \in OpToRel(<, Nat)
        BY <3>2, Zenon DEF OpToRel
      <3> QED
        BY <3>3 DEF pair
    <2> QED
      BY <2>1, NatLessThanWellFounded, Zenon DEF IsWellFoundedOn
  <1>2. ASSUME NEW f \in [Nat -> Nat],
               \A n \in Nat : <<f[n + 1], f[n]>> \in {p \in Nat \X Nat : p[1] < p[2]}
        PROVE  FALSE
    BY <1>1, <1>2
  <1> QED
    BY <1>2 DEF IsWellFoundedOn

(* A nonempty set of numbers up to a bound has a greatest one, and Max is  *)
(* it.                                                                     *)
LEMMA MaxFacts ==
  ASSUME NEW S, NEW m \in Nat, S \subseteq 0..m, S # {}
  PROVE  Max(S) \in S /\ \A x \in S : x <= Max(S)
  <1> DEFINE Below == {k \in Nat : m - k \in S}
             R == {p \in Nat \X Nat : p[1] < p[2]}
  <1>1. Below # {}
    <2>1. PICK x \in S : TRUE
      OBVIOUS
    <2>2. m - x \in Nat /\ m - (m - x) = x
      BY <2>1
    <2> QED
      BY <2>1, <2>2
  <1>2. Below \subseteq Nat
    OBVIOUS
  <1>3. PICK k \in Below : \A j \in Below : ~ (<<j, k>> \in R)
    <2> HIDE DEF Below
    <2>1. IsWellFoundedOn(R, Nat)
      BY SmallerIsWellFounded
    <2> HIDE DEF R
    <2> QED
      BY <1>1, <1>2, <2>1, WFMin
  <1>4. \A j \in Below : j >= k
    <2> TAKE j \in Below
    <2>1. ~ (<<j, k>> \in R) /\ j \in Nat /\ k \in Nat
      BY <1>3
    <2> HIDE DEF Below
    <2>2. ~ (j < k)
      BY <2>1
    <2> QED
      BY <2>1, <2>2
  <1>5. m - k \in S /\ k \in Nat
    OBVIOUS
  <1>6. \A x \in S : m - k >= x
    <2> TAKE x \in S
    <2>1. m - x \in Nat /\ m - (m - x) = x /\ x \in Nat
      OBVIOUS
    <2>2. m - x \in Below
      BY <2>1
    <2>3. m - x >= k
      BY <2>2, <1>4
    <2> HIDE DEF Below
    <2> QED
      BY <2>1, <2>3, <1>5
  <1>7. \E y \in S : \A x \in S : y >= x
    BY <1>5, <1>6
  <1>8. Max(S) \in S /\ \A x \in S : Max(S) >= x
    BY <1>7 DEF Max
  <1> QED
    BY <1>8

(* The device's newest reading: it is one, and no entry has a newer one.   *)
LEMMA NewestReading ==
  ASSUME FactoryTypeOK
  PROVE  /\ Max({reading[f] : f \in Entries}) \in 0..MaxReading
         /\ \A f \in Entries : reading[f] <= Max({reading[g] : g \in Entries})
  <1> DEFINE S == {reading[f] : f \in Entries}
  <1>1. MaxReading \in Nat /\ 1 \in Entries
    BY FactoryAssumption DEF Entries
  <1>2. S \subseteq 0..MaxReading /\ reading[1] \in S
    BY <1>1 DEF FactoryTypeOK
  <1>3. \A f \in Entries : reading[f] \in S
    OBVIOUS
  <1> HIDE DEF S
  <1>4. Max(S) \in S /\ \A x \in S : x <= Max(S)
    BY <1>1, <1>2, MaxFacts
  <1>5. Max(S) \in 0..MaxReading /\ \A f \in Entries : reading[f] <= Max(S)
    BY <1>2, <1>3, <1>4
  <1> QED
    BY <1>5 DEF S

-----------------------------------------------------------------------------
(* The types of the factories                                              *)

(* The parameters of the module, in the form the proofs use them.          *)
LEMMA ParameterFacts ==
  /\ NumEntries \in Nat \ {0} /\ MaxReading \in Nat /\ MaxBad \in Nat
  /\ Entries \subseteq Nat /\ 1 \in Entries
  /\ Selected \subseteq Entries
  /\ Bad \in Nat /\ Bad = MaxReading + 1 /\ None = -1
  BY FactoryAssumption DEF Entries, Bad, None

(* A command of a factory, a reply to it and an update have their types.   *)
LEMMA MessageTypes ==
  ASSUME FactoryTypeOK
  PROVE  /\ \A o \in Objects : \A name \in Names :
               [of |-> o, name |-> name, entry |-> at[o]] \in Commands
         /\ \A command \in Commands : \A kind \in {"R", "ERR"} :
               Reply(command, kind) \in HostLines
         /\ \A e \in Entries : \A v \in 0..Bad :
               /\ Update(e, v) \in HostLines
               /\ Update(e, v) \in [kind : {"S"}, entry : Entries, value : 0..Bad]
  BY DEF FactoryTypeOK, Commands, HostLines, Reply, Update

(* A line is an update or a reply.                                         *)
LEMMA LineTypes ==
  ASSUME NEW line \in HostLines
  PROVE  /\ line.kind = "S" => /\ line \in [kind : {"S"}, entry : Entries, value : 0..Bad]
                               /\ line.entry \in Entries /\ line.value \in 0..Bad
         /\ line.kind # "S" => /\ line.kind \in {"R", "ERR"} /\ line.of \in Objects
                               /\ line.name \in Names /\ line.entry \in Entries
                               /\ line.value \in 0..MaxReading
  BY DEF HostLines

(* The initial state is of the types.                                      *)
LEMMA InitFactoryTypes ==
  ASSUME InitFactory
  PROVE  FactoryTypeOK
  <1>1. /\ 0 \in 0..MaxReading /\ None \in None..MaxReading /\ 0 \in 0..MaxBad
    BY ParameterFacts
  <1> QED
    BY <1>1, ParameterFacts DEF InitFactory, FactoryTypeOK

(* To send a command keeps the queue to the device in its type.            *)
LEMMA SendsType ==
  ASSUME FactoryTypeOK, NEW o \in Objects, NEW name \in Names, Sends(o, name)
  PROVE  toDevice' \in Seq(Commands)
  BY MessageTypes, AppendFacts DEF FactoryTypeOK, Sends

(* Every step of a factory keeps the types.                                *)
LEMMA FactoryStepTypes ==
  ASSUME FactoryTypeOK, NEW o \in Objects,
         SetIOType(o) \/ Query(o) \/ Subscribe(o) \/ NextEntry(o)
  PROVE  FactoryTypeOK'
  <1>1. CASE SetIOType(o)
    <2>1. toDevice' \in Seq(Commands)
      BY <1>1, SendsType DEF SetIOType, Names
    <2> QED
      BY <1>1, <2>1 DEF SetIOType, FactoryTypeOK, Moves, Names, deviceVars
  <1>2. CASE Query(o)
    <2>1. toDevice' \in Seq(Commands)
      BY <1>2, SendsType DEF Query, Names
    <2> QED
      BY <1>2, <2>1 DEF Query, FactoryTypeOK, Moves, Names, deviceVars
  <1>3. CASE Subscribe(o)
    <2>1. toDevice' \in Seq(Commands)
      BY <1>3, SendsType DEF Subscribe, Names
    <2> QED
      BY <1>3, <2>1 DEF Subscribe, FactoryTypeOK, Moves, Names, deviceVars
  <1>4. CASE NextEntry(o)
    <2>1. at' \in [Objects -> Entries]
      BY <1>4, ParameterFacts, SMTT(30) DEF NextEntry, FactoryTypeOK, Entries
    <2> QED
      BY <1>4, <2>1 DEF NextEntry, FactoryTypeOK, Moves, deviceVars
  <1> QED
    BY <1>1, <1>2, <1>3, <1>4

(* The reader's completion of a command keeps the types.                   *)
LEMMA RepliedTypes ==
  ASSUME FactoryTypeOK, toHost # <<>>, Head(toHost).kind # "S",
         toHost' = Tail(toHost), Replied(Head(toHost))
  PROVE  FactoryTypeOK'
  <1> DEFINE line == Head(toHost)
  <1>1. line \in HostLines /\ toHost' \in Seq(HostLines)
    BY TailFacts DEF FactoryTypeOK
  <1>2. /\ line.of \in Objects /\ line.name \in Names
        /\ line.value \in 0..MaxReading
    BY <1>1, LineTypes
  <1>3. 0..MaxReading \subseteq None..MaxReading
    BY ParameterFacts
  <1>4. After(line.name) \in {"typed", "queried", "ready"}
    BY <1>2 DEF After, Names
  <1> HIDE DEF line
  <1>5. initial' \in [Objects -> None..MaxReading]
    BY <1>2, <1>3 DEF Replied, FactoryTypeOK, line
  <1>6. factory' \in [Objects -> Names \cup
                        {"idle", "typed", "queried", "stated", "ready", "raised"}]
    BY <1>2, <1>4 DEF Replied, FactoryTypeOK, line
  <1> QED
    BY <1>1, <1>5, <1>6 DEF Replied, FactoryTypeOK, deviceVars

(* The device's answer to a command is the reply to it, of what it is      *)
(* reading, and a subscribe that is not refused begins its reports.        *)
LEMMA AnswerFacts ==
  ASSUME FactoryTypeOK, DeviceAnswers
  PROVE  \E command \in Commands : \E kind \in {"R", "ERR"} :
            /\ toDevice # <<>> /\ command = Head(toDevice)
            /\ toDevice' = Tail(toDevice)
            /\ toHost' = Append(toHost, Reply(command, kind))
            /\ IF kind = "R" /\ command.name = "subscribe"
               THEN /\ subscribed' = Selected
                    /\ since' = [since EXCEPT ![command.of] = reading]
               ELSE subscribed' = subscribed /\ since' = since
            /\ UNCHANGED <<factory, at, initial, reading, bad>>
  <1>1. PICK command \in Commands : command = Head(toDevice)
    BY TailFacts DEF DeviceAnswers, FactoryTypeOK
  <1>2. CASE /\ toHost' = Append(toHost, Reply(command, "ERR"))
             /\ UNCHANGED deviceVars
    BY <1>1, <1>2 DEF DeviceAnswers, deviceVars
  <1>3. CASE /\ toHost' = Append(toHost, Reply(command, "R"))
             /\ IF command.name = "subscribe"
                THEN /\ subscribed' = Selected
                     /\ since' = [since EXCEPT ![command.of] = reading]
                ELSE UNCHANGED <<subscribed, since>>
             /\ UNCHANGED <<reading, bad>>
    BY <1>1, <1>3 DEF DeviceAnswers
  <1> QED
    BY <1>1, <1>2, <1>3 DEF DeviceAnswers

(* The device's answer to a command keeps the types.                       *)
LEMMA DeviceAnswersTypes ==
  ASSUME FactoryTypeOK, DeviceAnswers
  PROVE  FactoryTypeOK'
  <1>1. PICK command \in Commands : command = Head(toDevice)
    BY TailFacts DEF DeviceAnswers, FactoryTypeOK
  <1>2. toDevice' \in Seq(Commands)
    BY TailFacts DEF DeviceAnswers, FactoryTypeOK
  <1>3. toHost' \in Seq(HostLines)
    <2>1. PICK other \in Commands, kind \in {"R", "ERR"} :
             toHost' = Append(toHost, Reply(other, kind))
      BY AnswerFacts
    <2>2. Reply(other, kind) \in HostLines
      BY MessageTypes
    <2> QED
      BY <2>1, <2>2, AppendFacts DEF FactoryTypeOK
  <1>4. 0..MaxReading \subseteq None..MaxReading
    BY ParameterFacts
  <1>5. reading \in [Entries -> None..MaxReading] /\ command.of \in Objects
    BY <1>1, <1>4 DEF FactoryTypeOK, Commands
  <1>6. subscribed' \in SUBSET Entries
    BY ParameterFacts DEF DeviceAnswers, FactoryTypeOK, deviceVars
  <1>7. since' \in [Objects -> [Entries -> None..MaxReading]]
    BY <1>1, <1>5 DEF DeviceAnswers, FactoryTypeOK, deviceVars
  <1> QED
    BY <1>2, <1>3, <1>6, <1>7 DEF DeviceAnswers, FactoryTypeOK, deviceVars

(* A change of a reading is newer than every other reading, of all         *)
(* entries, and keeps the types.                                           *)
LEMMA DeviceReadsTypes ==
  ASSUME FactoryTypeOK, NEW e \in Entries, DeviceReads(e)
  PROVE  /\ FactoryTypeOK'
         /\ \E n \in 1..MaxReading :
               /\ \A f \in Entries : reading[f] < n
               /\ reading' = [reading EXCEPT ![e] = n]
               /\ toHost' = IF e \in subscribed THEN Append(toHost, Update(e, n))
                            ELSE toHost
  <1> DEFINE newest == Max({reading[f] : f \in Entries})
  <1>1. newest \in 0..MaxReading /\ \A f \in Entries : reading[f] <= newest
    BY NewestReading
  <1> DEFINE n == 1 + newest
  <1>2. /\ n <= MaxReading
        /\ reading' = [reading EXCEPT ![e] = n]
        /\ toHost' = IF e \in subscribed THEN Append(toHost, Update(e, n)) ELSE toHost
    BY DEF DeviceReads
  <1> HIDE DEF newest
  <1>3. n \in 1..MaxReading /\ n \in 0..MaxReading /\ n \in 0..Bad
    BY <1>1, <1>2, ParameterFacts
  <1>4. \A f \in Entries : reading[f] \in 0..MaxReading
    BY DEF FactoryTypeOK
  <1>5. \A f \in Entries : reading[f] < n
    BY <1>1, <1>4
  <1> HIDE DEF n
  <1>6. toHost' \in Seq(HostLines)
    BY <1>2, <1>3, MessageTypes, AppendFacts DEF FactoryTypeOK
  <1>7. reading' \in [Entries -> 0..MaxReading]
    BY <1>2, <1>3 DEF FactoryTypeOK
  <1>8. FactoryTypeOK'
    BY <1>6, <1>7 DEF DeviceReads, FactoryTypeOK
  <1> QED
    BY <1>2, <1>3, <1>5, <1>8

(* A malformed update keeps the types.                                     *)
LEMMA DeviceGarblesTypes ==
  ASSUME FactoryTypeOK, DeviceGarbles
  PROVE  FactoryTypeOK'
  <1>1. PICK e \in subscribed : toHost' = Append(toHost, Update(e, Bad))
    BY DEF DeviceGarbles
  <1>2. e \in Entries /\ Bad \in 0..Bad
    BY <1>1, ParameterFacts DEF FactoryTypeOK
  <1>3. toHost' \in Seq(HostLines)
    BY <1>1, <1>2, MessageTypes, AppendFacts DEF FactoryTypeOK
  <1>4. bad' \in 0..MaxBad
    BY ParameterFacts DEF DeviceGarbles, FactoryTypeOK
  <1> QED
    BY <1>3, <1>4 DEF DeviceGarbles, FactoryTypeOK

(* Every step of the device keeps the types.                               *)
LEMMA DeviceTypes ==
  ASSUME FactoryTypeOK, Device
  PROVE  FactoryTypeOK'
  BY DeviceAnswersTypes, DeviceReadsTypes, DeviceGarblesTypes DEF Device

-----------------------------------------------------------------------------
(* The inductive invariant: everything is in the order of the readings.    *)

(* The value is not newer than the reading of its entry, nor than a line   *)
(* of its entry that is to come, malformed ones aside.                     *)
NoNewer(value, e, lines, readings) ==
    /\ value <= readings[e]
    /\ \A i \in 1..Len(lines) :
          lines[i].entry = e /\ lines[i].value # Bad => value <= lines[i].value

Ordered(lines, readings) ==
    \A i \in 1..Len(lines) : lines[i].value # Bad =>
        /\ lines[i].value <= readings[lines[i].entry]
        /\ \A j \in i..Len(lines) :
              lines[j].entry = lines[i].entry /\ lines[j].value # Bad =>
                  lines[i].value <= lines[j].value

LinesInOrder == Ordered(toHost, reading)

StatesInOrder ==
    \A o \in Objects : \A e \in Entries : NoNewer(state[o][e], e, toHost, reading)

InitialInOrder ==
    \A o \in Objects :
        factory[o] = "queried" => NoNewer(initial[o], at[o], toHost, reading)

DeliveryInOrder ==
    calling # <<>> /\ delivering.value # Bad =>
        /\ NoNewer(delivering.value, delivering.entry, toHost, reading)
        /\ \A o \in Objects : IsIn(<<o, delivering.entry>>, calling) =>
              state[o][delivering.entry] <= delivering.value

(* StatesFollowDevice, and more: what is on its way is the newest reading. *)
NewestIsOnItsWay ==
    \A o \in Objects : \A e \in Selected :
        since[o][e] # None /\ reading[e] # since[o][e] =>
            \/ state[o][e] = reading[e]
            \/ IsIn(Update(e, reading[e]), toHost)
            \/ delivering = Update(e, reading[e]) /\ IsIn(<<o, e>>, calling)

IInv ==
    /\ TypeOK
    /\ OneCommand
    /\ NothingBeforeItIsMade
    /\ RegisteredBeforeSubscribe
    /\ ReportsSinceSubscribe
    /\ LinesInOrder
    /\ StatesInOrder
    /\ InitialInOrder
    /\ DeliveryInOrder
    /\ NewestIsOnItsWay

-----------------------------------------------------------------------------
(* Lemmas on queues of pairs and of lines                                  *)

(* What is in a sequence after Append, and after Tail.                     *)
LEMMA InAppend ==
  ASSUME NEW S, NEW s \in Seq(S), NEW x \in S, NEW p
  PROVE  IsIn(p, Append(s, x)) <=> IsIn(p, s) \/ p = x
  <1>1. PICK t \in Seq(S) : t = Append(s, x)
    BY AppendFacts
  <1>2. /\ Len(s) \in Nat /\ Len(t) = Len(s) + 1
        /\ \A i \in 1..Len(s) : t[i] = s[i]
        /\ t[Len(s) + 1] = x
    BY <1>1, AppendFacts
  <1>3. IsIn(p, t) <=> IsIn(p, s) \/ p = x
    <2>1. ASSUME IsIn(p, t) PROVE IsIn(p, s) \/ p = x
      <3>1. PICK i \in 1..Len(t) : t[i] = p
        BY <2>1 DEF IsIn
      <3>2. CASE i = Len(s) + 1
        BY <1>2, <3>1, <3>2
      <3>3. CASE i # Len(s) + 1
        <4>1. i \in 1..Len(s)
          BY <1>2, <3>1, <3>3
        <4> QED
          BY <1>2, <3>1, <4>1 DEF IsIn
      <3> QED
        BY <3>2, <3>3
    <2>2. ASSUME IsIn(p, s) PROVE IsIn(p, t)
      BY <1>2, <2>2 DEF IsIn
    <2>3. ASSUME p = x PROVE IsIn(p, t)
      <3>1. Len(s) + 1 \in 1..Len(t)
        BY <1>2
      <3> QED
        BY <1>2, <2>3, <3>1 DEF IsIn
    <2> QED
      BY <2>1, <2>2, <2>3
  <1> QED
    BY <1>1, <1>3

LEMMA InTail ==
  ASSUME NEW S, NEW s \in Seq(S), s # <<>>, NEW p
  PROVE  /\ IsIn(p, Tail(s)) => IsIn(p, s)
         /\ IsIn(p, s) => IsIn(p, Tail(s)) \/ p = Head(s)
         /\ IsIn(Head(s), s)
  <1>1. PICK t \in Seq(S) : t = Tail(s)
    BY TailFacts
  <1>2. /\ Head(s) = s[1]
        /\ Len(s) \in Nat \ {0}
        /\ Len(t) = Len(s) - 1
        /\ \A i \in 1..Len(t) : i + 1 \in 1..Len(s) /\ t[i] = s[i + 1]
        /\ \A i \in 2..Len(s) : i - 1 \in 1..Len(t) /\ t[i - 1] = s[i]
    BY <1>1, TailFacts
  <1>3. IsIn(p, t) => IsIn(p, s)
    BY <1>2 DEF IsIn
  <1>4. IsIn(p, s) => IsIn(p, t) \/ p = Head(s)
    <2> SUFFICES ASSUME NEW i \in 1..Len(s), s[i] = p, p # Head(s)
                 PROVE  IsIn(p, t)
      BY DEF IsIn
    <2>1. i \in 2..Len(s)
      BY <1>2
    <2> QED
      BY <1>2, <2>1 DEF IsIn
  <1>5. 1 \in 1..Len(s)
    BY <1>2
  <1> QED
    BY <1>1, <1>2, <1>3, <1>4, <1>5 DEF IsIn

(* A value stays no newer than what is to come when a line is taken, when  *)
(* a line is added that is no older, and when readings change to newer.    *)
LEMMA NoNewerTail ==
  ASSUME NEW lines \in Seq(HostLines), lines # <<>>, NEW readings,
         NEW value, NEW e, NoNewer(value, e, lines, readings)
  PROVE  NoNewer(value, e, Tail(lines), readings)
  <1>1. PICK t \in Seq(HostLines) : t = Tail(lines)
    BY TailFacts
  <1>2. \A i \in 1..Len(t) : i + 1 \in 1..Len(lines) /\ t[i] = lines[i + 1]
    BY <1>1, TailFacts
  <1>3. NoNewer(value, e, t, readings)
    BY <1>2 DEF NoNewer
  <1> QED
    BY <1>1, <1>3

LEMMA NoNewerAppend ==
  ASSUME NEW lines \in Seq(HostLines), NEW line \in HostLines,
         NEW readings, NEW newReadings,
         NEW value, NEW e, NoNewer(value, e, lines, readings),
         value <= newReadings[e],
         line.entry = e /\ line.value # Bad => value <= line.value
  PROVE  NoNewer(value, e, Append(lines, line), newReadings)
  <1>1. PICK t \in Seq(HostLines) : t = Append(lines, line)
    BY AppendFacts
  <1>2. /\ Len(lines) \in Nat /\ Len(t) = Len(lines) + 1
        /\ \A i \in 1..Len(lines) : t[i] = lines[i]
        /\ t[Len(lines) + 1] = line
    BY <1>1, AppendFacts
  <1>3. ASSUME NEW i \in 1..Len(t), t[i].entry = e, t[i].value # Bad
        PROVE  value <= t[i].value
    <2>1. CASE i = Len(lines) + 1
      BY <1>2, <1>3, <2>1
    <2>2. CASE i # Len(lines) + 1
      <3>1. i \in 1..Len(lines)
        BY <1>2, <2>2
      <3> QED
        BY <1>2, <1>3, <3>1 DEF NoNewer
    <2> QED
      BY <2>1, <2>2
  <1>4. NoNewer(value, e, t, newReadings)
    BY <1>3 DEF NoNewer
  <1> QED
    BY <1>1, <1>4

(* The same for the order of the lines; the line that is taken is no newer *)
(* than those left.                                                        *)
LEMMA OrderedTail ==
  ASSUME NEW lines \in Seq(HostLines), lines # <<>>, NEW readings,
         Ordered(lines, readings)
  PROVE  /\ Ordered(Tail(lines), readings)
         /\ Head(lines).value # Bad =>
               NoNewer(Head(lines).value, Head(lines).entry, Tail(lines), readings)
  <1>1. PICK t \in Seq(HostLines) : t = Tail(lines)
    BY TailFacts
  <1>2. /\ Head(lines) = lines[1]
        /\ Len(lines) \in Nat \ {0} /\ Len(t) = Len(lines) - 1
        /\ \A i \in 1..Len(t) : i + 1 \in 1..Len(lines) /\ t[i] = lines[i + 1]
    BY <1>1, TailFacts
  <1>3. Ordered(t, readings)
    <2> SUFFICES ASSUME NEW i \in 1..Len(t), t[i].value # Bad
                 PROVE  /\ t[i].value <= readings[t[i].entry]
                        /\ \A j \in i..Len(t) :
                              t[j].entry = t[i].entry /\ t[j].value # Bad =>
                                  t[i].value <= t[j].value
      BY DEF Ordered
    <2>1. i + 1 \in 1..Len(lines) /\ t[i] = lines[i + 1]
      BY <1>2
    <2>2. \A j \in i..Len(t) : j + 1 \in (i + 1)..Len(lines) /\ t[j] = lines[j + 1]
      BY <1>2
    <2> QED
      BY <2>1, <2>2 DEF Ordered
  <1>4. ASSUME Head(lines).value # Bad
        PROVE  NoNewer(Head(lines).value, Head(lines).entry, t, readings)
    <2>1. 1 \in 1..Len(lines)
      BY <1>2
    <2>2. \A i \in 1..Len(t) : i + 1 \in 1..Len(lines) /\ t[i] = lines[i + 1]
      BY <1>2
    <2> QED
      BY <1>2, <1>4, <2>1, <2>2 DEF Ordered, NoNewer
  <1> QED
    BY <1>1, <1>3, <1>4

LEMMA OrderedAppend ==
  ASSUME NEW lines \in Seq(HostLines), NEW line \in HostLines,
         NEW readings \in [Entries -> Nat], NEW newReadings \in [Entries -> Nat],
         Ordered(lines, readings),
         \A e \in Entries : readings[e] <= newReadings[e],
         line.value # Bad => line.value = newReadings[line.entry]
  PROVE  Ordered(Append(lines, line), newReadings)
  <1>1. PICK t \in Seq(HostLines) : t = Append(lines, line)
    BY AppendFacts
  <1>2. /\ Len(lines) \in Nat /\ Len(t) = Len(lines) + 1
        /\ \A i \in 1..Len(lines) : t[i] = lines[i]
        /\ t[Len(lines) + 1] = line
    BY <1>1, AppendFacts
  <1>3. \A l \in HostLines : l.value \in Nat /\ l.entry \in Entries
    BY ParameterFacts DEF HostLines
  <1>4. \A i \in 1..Len(lines) : lines[i] \in HostLines
    BY ElementFacts
  <1>5. ASSUME NEW i \in 1..Len(t), t[i].value # Bad
        PROVE  /\ t[i].value <= newReadings[t[i].entry]
               /\ \A j \in i..Len(t) :
                     t[j].entry = t[i].entry /\ t[j].value # Bad =>
                         t[i].value <= t[j].value
    <2>1. CASE i = Len(lines) + 1
      <3>1. \A j \in i..Len(t) : j = i
        BY <1>2, <2>1
      <3> QED
        BY <1>2, <1>3, <1>5, <2>1, <3>1
    <2>2. CASE i # Len(lines) + 1
      <3>1. i \in 1..Len(lines) /\ t[i] = lines[i]
        BY <1>2, <2>2
      <3>2. /\ lines[i].value \in Nat /\ lines[i].entry \in Entries
            /\ lines[i].value <= readings[lines[i].entry]
        BY <1>3, <1>4, <1>5, <3>1 DEF Ordered
      <3>3. lines[i].value <= newReadings[lines[i].entry]
        BY <3>2
      <3>4. ASSUME NEW j \in i..Len(t), t[j].entry = t[i].entry, t[j].value # Bad
            PROVE  t[i].value <= t[j].value
        <4>1. CASE j = Len(lines) + 1
          BY <1>2, <3>1, <3>3, <3>4, <4>1
        <4>2. CASE j # Len(lines) + 1
          <5>1. j \in i..Len(lines) /\ t[j] = lines[j]
            BY <1>2, <3>1, <4>2
          <5> QED
            BY <1>5, <3>1, <3>4, <5>1 DEF Ordered
        <4> QED
          BY <4>1, <4>2
      <3> QED
        BY <3>1, <3>3, <3>4
    <2> QED
      BY <2>1, <2>2
  <1>6. Ordered(t, newReadings)
    BY <1>5 DEF Ordered
  <1> QED
    BY <1>1, <1>6

-----------------------------------------------------------------------------
(* Lemmas on the commands                                                  *)

(* The fields of a command in a queue, and of a reply.                     *)
LEMMA CommandFields ==
  ASSUME NEW commands \in Seq(Commands), NEW i \in 1..Len(commands)
  PROVE  /\ commands[i].of \in Objects
         /\ commands[i].name \in Names
         /\ commands[i].entry \in Entries
  <1>1. commands[i] \in Commands
    BY ElementFacts
  <1> QED
    BY <1>1 DEF Commands

LEMMA LineFields ==
  ASSUME NEW lines \in Seq(HostLines), NEW i \in 1..Len(lines), lines[i].kind # "S"
  PROVE  /\ lines[i].of \in Objects
         /\ lines[i].name \in Names
         /\ lines[i].entry \in Entries
  <1>1. lines[i] \in HostLines
    BY ElementFacts
  <1> QED
    BY <1>1, LineTypes

(* A factory that awaits no reply has no command with the device, nor a    *)
(* reply on its way.                                                       *)
LEMMA NoneWhenIdle ==
  ASSUME NEW commands \in Seq(Commands), NEW lines \in Seq(HostLines),
         NEW where, NEW entry, OneEach(commands, lines, where, entry),
         NEW o \in Objects, where[o] \notin Names
  PROVE  /\ \A i \in 1..Len(commands) : commands[i].of # o
         /\ \A i \in 1..Len(lines) : lines[i].kind # "S" => lines[i].of # o
  <1>1. \A i \in 1..Len(commands) : commands[i].name \in Names
    BY CommandFields
  <1>2. \A i \in 1..Len(lines) : lines[i].kind # "S" => lines[i].name \in Names
    BY LineFields
  <1> QED
    BY <1>1, <1>2 DEF OneEach, Awaited

(* What a factory that awaits no reply does to itself.                     *)
LEMMA OneEachMoves ==
  ASSUME NEW commands \in Seq(Commands), NEW lines \in Seq(HostLines),
         NEW where, NEW entry, OneEach(commands, lines, where, entry),
         NEW o \in Objects, where[o] \notin Names,
         NEW newWhere, NEW newEntry,
         \A p \in Objects : p # o => newWhere[p] = where[p] /\ newEntry[p] = entry[p]
  PROVE  OneEach(commands, lines, newWhere, newEntry)
  <1>1. \A i \in 1..Len(commands) : commands[i].of \in Objects /\ commands[i].of # o
    BY CommandFields, NoneWhenIdle
  <1>2. \A i \in 1..Len(lines) : lines[i].kind # "S" =>
           lines[i].of \in Objects /\ lines[i].of # o
    BY LineFields, NoneWhenIdle
  <1> QED
    BY <1>1, <1>2, SMTT(30) DEF OneEach, Awaited

(* To send the command it will await.                                      *)
LEMMA OneEachSends ==
  ASSUME NEW commands \in Seq(Commands), NEW lines \in Seq(HostLines),
         NEW where, NEW entry, OneEach(commands, lines, where, entry),
         NEW command \in Commands, where[command.of] \notin Names,
         NEW newWhere, Awaited(command, newWhere, entry),
         \A p \in Objects : p # command.of => newWhere[p] = where[p]
  PROVE  OneEach(Append(commands, command), lines, newWhere, entry)
  <1> DEFINE o == command.of
  <1>1. PICK t \in Seq(Commands) : t = Append(commands, command)
    BY AppendFacts
  <1>2. /\ Len(commands) \in Nat /\ Len(t) = Len(commands) + 1
        /\ \A i \in 1..Len(commands) : t[i] = commands[i]
        /\ t[Len(commands) + 1] = command
    BY <1>1, AppendFacts
  <1>3. \A i \in 1..Len(t) : \/ i \in 1..Len(commands) /\ t[i] = commands[i]
                             \/ i = Len(commands) + 1 /\ t[i] = command
    BY <1>2
  <1>4. o \in Objects
    BY DEF Commands
  <1>5. /\ \A i \in 1..Len(commands) : commands[i].of # o
        /\ \A i \in 1..Len(lines) : lines[i].kind # "S" => lines[i].of # o
    BY <1>4, NoneWhenIdle
  <1>6. OneEach(commands, lines, newWhere, entry)
    BY <1>4, OneEachMoves
  <1>7. ASSUME NEW i \in 1..Len(t)
        PROVE  /\ Awaited(t[i], newWhere, entry)
               /\ \A j \in 1..Len(t) : t[j].of = t[i].of => j = i
               /\ \A j \in 1..Len(lines) :
                     lines[j].kind # "S" => lines[j].of # t[i].of
    <2>1. CASE i \in 1..Len(commands) /\ t[i] = commands[i]
      BY <1>3, <1>5, <1>6, <2>1, SMTT(30) DEF OneEach
    <2>2. CASE i = Len(commands) + 1 /\ t[i] = command
      BY <1>3, <1>5, <2>2
    <2> QED
      BY <1>3, <2>1, <2>2
  <1>8. OneEach(t, lines, newWhere, entry)
    BY <1>6, <1>7 DEF OneEach
  <1> QED
    BY <1>1, <1>8

(* The device takes a command and puts the reply to it on the way.         *)
LEMMA OneEachAnswers ==
  ASSUME NEW commands \in Seq(Commands), commands # <<>>,
         NEW lines \in Seq(HostLines),
         NEW where, NEW entry, OneEach(commands, lines, where, entry),
         NEW line \in HostLines, line.kind # "S", line.of = Head(commands).of,
         line.name = Head(commands).name, line.entry = Head(commands).entry
  PROVE  OneEach(Tail(commands), Append(lines, line), where, entry)
  <1>1. PICK t \in Seq(Commands) : t = Tail(commands)
    BY TailFacts
  <1>2. /\ Head(commands) = commands[1] /\ 1 \in 1..Len(commands)
        /\ \A i \in 1..Len(t) : i + 1 \in 1..Len(commands) /\ t[i] = commands[i + 1]
    BY <1>1, TailFacts
  <1>3. PICK u \in Seq(HostLines) : u = Append(lines, line)
    BY AppendFacts
  <1>4. /\ Len(lines) \in Nat
        /\ \A i \in 1..Len(u) : \/ i \in 1..Len(lines) /\ u[i] = lines[i]
                                \/ i = Len(lines) + 1 /\ u[i] = line
    <2>1. /\ Len(lines) \in Nat /\ Len(u) = Len(lines) + 1
          /\ \A i \in 1..Len(lines) : u[i] = lines[i]
          /\ u[Len(lines) + 1] = line
      BY <1>3, AppendFacts
    <2> QED
      BY <2>1
  <1>5. /\ \A i \in 1..Len(t) : t[i].of # line.of
        /\ \A i \in 1..Len(lines) : lines[i].kind # "S" => lines[i].of # line.of
    <2>1. ASSUME NEW i \in 1..Len(t), t[i].of = line.of PROVE FALSE
      <3>1. i + 1 \in 1..Len(commands) /\ commands[i + 1].of = commands[1].of
        BY <1>2, <2>1
      <3>2. i + 1 = 1
        BY <1>2, <3>1 DEF OneEach
      <3> QED
        BY <3>2
    <2> QED
      BY <1>2, <2>1 DEF OneEach
  <1>6. ASSUME NEW i \in 1..Len(t)
        PROVE  /\ Awaited(t[i], where, entry)
               /\ \A j \in 1..Len(t) : t[j].of = t[i].of => j = i
               /\ \A j \in 1..Len(u) : u[j].kind # "S" => u[j].of # t[i].of
    <2>1. i + 1 \in 1..Len(commands) /\ t[i] = commands[i + 1]
      BY <1>2
    <2>2. \A j \in 1..Len(t) : t[j].of = t[i].of => j + 1 = i + 1
      BY <1>2, <2>1, SMTT(30) DEF OneEach
    <2>3. Awaited(t[i], where, entry)
      BY <2>1 DEF OneEach
    <2>4. \A j \in 1..Len(u) : u[j].kind # "S" => u[j].of # t[i].of
      BY <1>4, <1>5, <2>1, ZenonT(30) DEF OneEach
    <2> QED
      BY <2>2, <2>3, <2>4
  <1>7. ASSUME NEW i \in 1..Len(u), u[i].kind # "S"
        PROVE  /\ Awaited(u[i], where, entry)
               /\ \A j \in 1..Len(u) : u[j].kind # "S" /\ u[j].of = u[i].of => j = i
    <2>1. CASE i \in 1..Len(lines) /\ u[i] = lines[i]
      <3>1. Awaited(u[i], where, entry) /\ u[i].of # line.of
        BY <1>5, <1>7, <2>1 DEF OneEach
      <3>2. ASSUME NEW j \in 1..Len(u), u[j].kind # "S", u[j].of = u[i].of
            PROVE  j = i
        <4>1. j \in 1..Len(lines) /\ u[j] = lines[j]
          BY <1>4, <3>1, <3>2
        <4> QED
          BY <1>7, <2>1, <3>2, <4>1 DEF OneEach
      <3> QED
        BY <3>1, <3>2
    <2>2. CASE i = Len(lines) + 1 /\ u[i] = line
      <3>1. Awaited(line, where, entry)
        BY <1>2 DEF OneEach, Awaited
      <3> QED
        BY <1>4, <1>5, <2>2, <3>1
    <2> QED
      BY <1>4, <2>1, <2>2
  <1>8. OneEach(t, u, where, entry)
    BY <1>6, <1>7 DEF OneEach
  <1> QED
    BY <1>1, <1>3, <1>8

(* The reader takes a line: an update, or the reply its factory awaits.    *)
LEMMA OneEachTakes ==
  ASSUME NEW commands \in Seq(Commands), NEW lines \in Seq(HostLines), lines # <<>>,
         NEW where, NEW entry, OneEach(commands, lines, where, entry), NEW newWhere,
         IF Head(lines).kind = "S" THEN newWhere = where
         ELSE \A p \in Objects : p # Head(lines).of => newWhere[p] = where[p]
  PROVE  OneEach(commands, Tail(lines), newWhere, entry)
  <1>1. PICK t \in Seq(HostLines) : t = Tail(lines)
    BY TailFacts
  <1>2. /\ Head(lines) = lines[1] /\ 1 \in 1..Len(lines)
        /\ \A i \in 1..Len(t) : i + 1 \in 1..Len(lines) /\ t[i] = lines[i + 1]
    BY <1>1, TailFacts
  <1>3. /\ \A i \in 1..Len(commands) : commands[i].of \in Objects
        /\ \A i \in 1..Len(t) : t[i].kind # "S" => t[i].of \in Objects
    BY CommandFields, LineFields
  <1>4. ASSUME NEW i \in 1..Len(t), t[i].kind # "S"
        PROVE  /\ newWhere[t[i].of] = where[t[i].of]
               /\ \A j \in 1..Len(t) : t[j].kind # "S" /\ t[j].of = t[i].of => j = i
    <2>1. i + 1 \in 1..Len(lines) /\ t[i] = lines[i + 1]
      BY <1>2
    <2>4. ASSUME NEW j \in 1..Len(t), t[j].kind # "S", t[j].of = t[i].of
          PROVE  j = i
      <3>1. j + 1 \in 1..Len(lines) /\ t[j] = lines[j + 1]
        BY <1>2
      <3>2. j + 1 = i + 1
        BY <1>4, <2>1, <2>4, <3>1 DEF OneEach
      <3> QED
        BY <3>2
    <2>2. CASE lines[1].kind = "S"
      BY <1>2, <2>2, <2>4
    <2>3. CASE lines[1].kind # "S"
      <3>1. t[i].of # lines[1].of
        <4>1. t[i].of = lines[1].of => i + 1 = 1
          BY <1>2, <1>4, <2>1, <2>3 DEF OneEach
        <4> QED
          BY <4>1
      <3> QED
        BY <1>2, <1>3, <1>4, <2>3, <2>4, <3>1
    <2> QED
      BY <2>2, <2>3
  <1>5. ASSUME NEW i \in 1..Len(commands)
        PROVE  newWhere[commands[i].of] = where[commands[i].of]
    BY <1>2, <1>3, SMTT(30) DEF OneEach
  <1>6. ASSUME NEW i \in 1..Len(t), t[i].kind # "S"
        PROVE  Awaited(t[i], newWhere, entry)
    BY <1>2, <1>4, <1>6 DEF OneEach, Awaited
  <1>7. ASSUME NEW i \in 1..Len(commands)
        PROVE  /\ Awaited(commands[i], newWhere, entry)
               /\ \A j \in 1..Len(t) : t[j].kind # "S" => t[j].of # commands[i].of
    BY <1>2, <1>5 DEF OneEach, Awaited
  <1>8. OneEach(commands, t, newWhere, entry)
    BY <1>4, <1>6, <1>7 DEF OneEach
  <1> QED
    BY <1>1, <1>8

(* An update is put on the way.                                            *)
LEMMA OneEachUpdate ==
  ASSUME NEW commands \in Seq(Commands), NEW lines \in Seq(HostLines),
         NEW where, NEW entry, OneEach(commands, lines, where, entry),
         NEW line \in HostLines, line.kind = "S"
  PROVE  OneEach(commands, Append(lines, line), where, entry)
  <1>1. PICK u \in Seq(HostLines) : u = Append(lines, line)
    BY AppendFacts
  <1>2. /\ Len(lines) \in Nat
        /\ Len(u) = Len(lines) + 1
        /\ \A i \in 1..Len(lines) : u[i] = lines[i]
        /\ u[Len(lines) + 1] = line
    BY <1>1, AppendFacts
  <1>3. \A i \in 1..Len(u) : u[i].kind # "S" => i \in 1..Len(lines) /\ u[i] = lines[i]
    BY <1>2
  <1>4. OneEach(commands, u, where, entry)
    BY <1>3, ZenonT(30) DEF OneEach
  <1> QED
    BY <1>1, <1>4

-----------------------------------------------------------------------------
(* The types, and what the steps do                                        *)

Updates == [kind : {"S"}, entry : Entries, value : 0..Bad]

(* The part of TypeOK that ObjectFactory knows nothing of.                 *)
DeliveryTypeOK ==
    /\ callbacks \in Seq(Objects \X Entries)
    /\ calling \in Seq(Objects \X Entries)
    /\ delivering \in Updates
    /\ state \in [Objects -> [Entries -> None..MaxReading]]

(* TypeOK is the types of the factories and those of the delivery.         *)
LEMMA TypeParts == TypeOK <=> FactoryTypeOK /\ DeliveryTypeOK
  BY DEF TypeOK, DeliveryTypeOK, Updates

(* A factory sends a command when it awaits no reply, and awaits it; it    *)
(* subscribes when all its states are made.                                *)
LEMMA SendFacts ==
  ASSUME TypeOK, NEW o \in Objects, SetIOType(o) \/ Query(o) \/ Subscribe(o)
  PROVE  \E name \in Names :
            /\ factory[o] \in {"idle", "typed", "stated"}
            /\ name = "subscribe" <=> factory[o] = "stated"
            /\ factory' = [factory EXCEPT ![o] = name]
            /\ toDevice' = Append(toDevice,
                              [of |-> o, name |-> name, entry |-> at[o]])
            /\ UNCHANGED <<at, initial, toHost, deviceVars>>
  <1>1. CASE SetIOType(o)
    BY <1>1 DEF SetIOType, Moves, Sends, Names
  <1>2. CASE Query(o)
    BY <1>2 DEF Query, Moves, Sends, Names
  <1>3. CASE Subscribe(o)
    BY <1>3 DEF Subscribe, Moves, Sends, Names
  <1> QED
    BY <1>1, <1>2, <1>3

(* The reader's next line, when it is a reply, and what it does.           *)
LEMMA ReplyFacts ==
  ASSUME TypeOK, OneCommand, ReaderReply
  PROVE  \E line \in HostLines :
            /\ calling = <<>> /\ toHost # <<>> /\ line = Head(toHost)
            /\ toHost' = Tail(toHost)
            /\ line.kind # "S" /\ line.of \in Objects /\ line.name \in Names
            /\ line.value \in 0..MaxReading
            /\ line.name = factory[line.of] /\ line.entry = at[line.of]
            /\ factory' = [factory EXCEPT ![line.of] =
                              IF line.kind = "ERR" THEN "raised" ELSE After(line.name)]
            /\ initial' = [initial EXCEPT ![line.of] =
                              IF line.name = "query" THEN line.value ELSE @]
            /\ UNCHANGED <<at, toDevice, deviceVars, deliveryVars>>
  <1>1. PICK line \in HostLines : line = Head(toHost) /\ line = toHost[1]
    BY TailFacts DEF ReaderReply, TypeOK, FactoryTypeOK
  <1>2. 1 \in 1..Len(toHost)
    BY TailFacts DEF ReaderReply, TypeOK, FactoryTypeOK
  <1>3. line.kind # "S"
    BY <1>1 DEF ReaderReply
  <1>4. line.of \in Objects /\ line.name \in Names /\ line.value \in 0..MaxReading
    BY <1>3, LineTypes
  <1>5. line.name = factory[line.of] /\ line.entry = at[line.of]
    BY <1>1, <1>2, <1>3 DEF OneCommand, OneEach, Awaited
  <1> QED
    BY <1>1, <1>3, <1>4, <1>5 DEF ReaderReply, Replied

(* The reader's next line, when it is an update.                           *)
LEMMA UpdateFacts ==
  ASSUME TypeOK, ReaderUpdate
  PROVE  \E update \in Updates :
            /\ calling = <<>> /\ toHost # <<>> /\ update = Head(toHost)
            /\ update \in HostLines /\ update.kind = "S"
            /\ toHost' = Tail(toHost) /\ delivering' = update
            /\ calling' = callbacks
            /\ UNCHANGED <<factory, at, initial, toDevice, deviceVars, callbacks, state>>
  <1>1. PICK line \in HostLines : line = Head(toHost)
    BY TailFacts DEF ReaderUpdate, TypeOK, FactoryTypeOK
  <1>2. line \in Updates
    BY <1>1, LineTypes DEF ReaderUpdate, Updates
  <1> QED
    BY <1>1, <1>2 DEF ReaderUpdate

(* The callback the reader is at is of an object and an entry.             *)
LEMMA CallbackFacts ==
  ASSUME TypeOK, Callback
  PROVE  \E o \in Objects : \E e \in Entries :
            /\ calling # <<>> /\ Head(calling) = <<o, e>>
            /\ calling' = Tail(calling)
            /\ state' = IF delivering.entry = e /\ delivering.value # Bad
                        THEN [state EXCEPT ![o][e] = delivering.value] ELSE state
            /\ UNCHANGED <<factoryVars, callbacks, delivering>>
  <1>1. Head(calling) \in Objects \X Entries
    BY TailFacts DEF Callback, TypeOK
  <1>2. PICK o \in Objects, e \in Entries : Head(calling) = <<o, e>>
    BY <1>1
  <1>3. Head(calling)[1] = o /\ Head(calling)[2] = e
    BY <1>2
  <1>4. state' = IF delivering.entry = e /\ delivering.value # Bad
                 THEN [state EXCEPT ![o][e] = delivering.value] ELSE state
    BY <1>3 DEF Callback
  <1> QED
    BY <1>2, <1>4 DEF Callback

(* Every step of the device leaves the factories alone, changes readings   *)
(* to newer ones only, and adds at most one line, of a current reading.    *)
LEMMA DeviceFacts ==
  ASSUME FactoryTypeOK, Device
  PROVE  /\ UNCHANGED <<factory, at, initial>>
         /\ reading \in [Entries -> Nat] /\ reading' \in [Entries -> Nat]
         /\ \A e \in Entries : reading[e] <= reading'[e]
         /\ \/ toHost' = toHost
            \/ \E line \in HostLines :
                  /\ toHost' = Append(toHost, line)
                  /\ line.value # Bad => line.value = reading'[line.entry]
  <1>1. FactoryTypeOK'
    BY DeviceTypes
  <1>2. reading \in [Entries -> Nat] /\ reading' \in [Entries -> Nat]
    BY <1>1, ParameterFacts DEF FactoryTypeOK
  <1>3. CASE DeviceAnswers
    <2>1. PICK command \in Commands, kind \in {"R", "ERR"} :
             /\ toHost' = Append(toHost, Reply(command, kind))
             /\ UNCHANGED <<factory, at, initial, reading, bad>>
      BY <1>3, AnswerFacts
    <2>2. Reply(command, kind) \in HostLines
      BY MessageTypes
    <2>3. Reply(command, kind).value = reading[Reply(command, kind).entry]
      BY DEF Reply
    <2> QED
      BY <1>2, <2>1, <2>2, <2>3
  <1>4. ASSUME NEW e \in Entries, DeviceReads(e)
        PROVE  /\ UNCHANGED <<factory, at, initial>>
               /\ \A f \in Entries : reading[f] <= reading'[f]
               /\ \/ toHost' = toHost
                  \/ \E line \in HostLines :
                        /\ toHost' = Append(toHost, line)
                        /\ line.value # Bad => line.value = reading'[line.entry]
    <2>1. PICK n \in 1..MaxReading :
             /\ \A f \in Entries : reading[f] < n
             /\ reading' = [reading EXCEPT ![e] = n]
             /\ toHost' = IF e \in subscribed THEN Append(toHost, Update(e, n))
                          ELSE toHost
      BY <1>4, DeviceReadsTypes
    <2>2. n \in 0..Bad
      BY ParameterFacts
    <2>3. Update(e, n) \in HostLines
      BY <2>2, MessageTypes
    <2>4. Update(e, n).value = n /\ Update(e, n).entry = e /\ reading'[e] = n
      BY <1>2, <2>1 DEF Update
    <2>5. \A f \in Entries : reading[f] <= reading'[f]
      BY <1>2, <2>1
    <2>6. UNCHANGED <<factory, at, initial>>
      BY <1>4 DEF DeviceReads
    <2> QED
      BY <2>1, <2>3, <2>4, <2>5, <2>6
  <1>5. CASE DeviceGarbles
    <2>1. PICK e \in subscribed : toHost' = Append(toHost, Update(e, Bad))
      BY <1>5 DEF DeviceGarbles
    <2>2. e \in Entries /\ Bad \in 0..Bad
      BY ParameterFacts DEF FactoryTypeOK
    <2>3. Update(e, Bad) \in HostLines /\ Update(e, Bad).value = Bad
      BY <2>2, MessageTypes DEF Update
    <2> QED
      BY <1>2, <1>5, <2>1, <2>3 DEF DeviceGarbles
  <1> QED
    BY <1>2, <1>3, <1>4, <1>5 DEF Device

(* The initial state is of the types.                                      *)
LEMMA InitTypes == Init => TypeOK
  <1> SUFFICES ASSUME Init PROVE TypeOK
    OBVIOUS
  <1>1. FactoryTypeOK
    BY InitFactoryTypes DEF Init
  <1>2. None \in None..MaxReading /\ Bad \in 0..Bad
    BY ParameterFacts
  <1>3. NoUpdate \in Updates
    BY <1>2, ParameterFacts DEF NoUpdate, Update, Updates
  <1>4. DeliveryTypeOK
    BY <1>2, <1>3 DEF Init, DeliveryTypeOK
  <1> QED
    BY <1>1, <1>4, TypeParts

(* Every step keeps the types.                                             *)
LEMMA StepTypes == TypeOK /\ [Next]_vars => TypeOK'
  <1> SUFFICES ASSUME TypeOK, [Next]_vars PROVE TypeOK'
    OBVIOUS
  <1>t. FactoryTypeOK /\ DeliveryTypeOK
    BY TypeParts
  <1> SUFFICES FactoryTypeOK' /\ DeliveryTypeOK'
    BY DEF TypeOK, DeliveryTypeOK, Updates
  <1>0. UNCHANGED factoryVars => FactoryTypeOK'
    BY <1>t DEF factoryVars, deviceVars, FactoryTypeOK
  <1>u. UNCHANGED deliveryVars => DeliveryTypeOK'
    BY <1>t DEF deliveryVars, DeliveryTypeOK
  <1>1. ASSUME NEW o \in Objects, SetIOType(o) \/ Query(o) \/ Subscribe(o),
               UNCHANGED deliveryVars
        PROVE  FactoryTypeOK' /\ DeliveryTypeOK'
    BY <1>t, <1>u, <1>1, FactoryStepTypes
  <1>2. ASSUME NEW o \in Objects, CreateState(o)
        PROVE  FactoryTypeOK' /\ DeliveryTypeOK'
    <2>1. FactoryTypeOK'
      BY <1>t, <1>2, FactoryStepTypes DEF CreateState
    <2>2. at[o] \in Entries /\ initial[o] \in None..MaxReading
      BY <1>t DEF FactoryTypeOK
    <2>3. callbacks' \in Seq(Objects \X Entries)
      BY <1>t, <1>2, <2>2, AppendFacts DEF CreateState, DeliveryTypeOK
    <2>4. state' \in [Objects -> [Entries -> None..MaxReading]]
      BY <1>t, <1>2, <2>2 DEF CreateState, DeliveryTypeOK
    <2> QED
      BY <1>t, <1>2, <2>1, <2>3, <2>4 DEF CreateState, DeliveryTypeOK
  <1>3. ASSUME ReaderReply
        PROVE  FactoryTypeOK' /\ DeliveryTypeOK'
    BY <1>t, <1>u, <1>3, RepliedTypes DEF ReaderReply
  <1>4. ASSUME ReaderUpdate
        PROVE  FactoryTypeOK' /\ DeliveryTypeOK'
    <2>1. toHost' \in Seq(HostLines)
      BY <1>t, <1>4, TailFacts DEF ReaderUpdate, FactoryTypeOK
    <2>2. FactoryTypeOK'
      BY <1>t, <1>4, <2>1 DEF ReaderUpdate, FactoryTypeOK, deviceVars
    <2>3. /\ delivering' \in Updates /\ calling' = callbacks
          /\ callbacks' = callbacks /\ state' = state
      BY <1>4, UpdateFacts
    <2> QED
      BY <1>t, <2>2, <2>3 DEF DeliveryTypeOK
  <1>5. ASSUME Callback
        PROVE  FactoryTypeOK' /\ DeliveryTypeOK'
    <2>1. PICK o \in Objects, e \in Entries :
             /\ calling # <<>>
             /\ calling' = Tail(calling)
             /\ state' = IF delivering.entry = e /\ delivering.value # Bad
                         THEN [state EXCEPT ![o][e] = delivering.value] ELSE state
             /\ UNCHANGED <<factoryVars, callbacks, delivering>>
      BY <1>5, CallbackFacts
    <2>2. calling' \in Seq(Objects \X Entries)
      BY <1>t, <2>1, TailFacts DEF DeliveryTypeOK
    <2>3. delivering.value # Bad => delivering.value \in None..MaxReading
      BY <1>t, ParameterFacts DEF DeliveryTypeOK, Updates
    <2>4. state' \in [Objects -> [Entries -> None..MaxReading]]
      BY <1>t, <2>1, <2>3 DEF DeliveryTypeOK
    <2> QED
      BY <1>t, <1>0, <2>1, <2>2, <2>4 DEF DeliveryTypeOK
  <1>6. ASSUME Device, UNCHANGED deliveryVars
        PROVE  FactoryTypeOK' /\ DeliveryTypeOK'
    BY <1>t, <1>u, <1>6, DeviceTypes
  <1>7. ASSUME UNCHANGED vars
        PROVE  FactoryTypeOK' /\ DeliveryTypeOK'
    BY <1>0, <1>u, <1>7 DEF vars
  <1> QED
    BY <1>1, <1>2, <1>3, <1>4, <1>5, <1>6, <1>7 DEF Next, Factory, Reader

-----------------------------------------------------------------------------
(* The invariant: who has registered what                                  *)

(* Every step keeps one command per factory.                               *)
LEMMA StepOneCommand ==
  ASSUME TypeOK, OneCommand, [Next]_vars
  PROVE  OneCommand'
  <1>t. toDevice \in Seq(Commands) /\ toHost \in Seq(HostLines)
    BY DEF TypeOK, FactoryTypeOK
  <1>i. OneEach(toDevice, toHost, factory, at)
    BY DEF OneCommand
  <1> SUFFICES OneEach(toDevice', toHost', factory', at')
    BY DEF OneCommand
  <1>1. ASSUME NEW o \in Objects, SetIOType(o) \/ Query(o) \/ Subscribe(o),
               UNCHANGED deliveryVars
        PROVE  OneEach(toDevice', toHost', factory', at')
    <2>1. PICK name \in Names :
             /\ factory[o] \in {"idle", "typed", "stated"}
             /\ factory' = [factory EXCEPT ![o] = name]
             /\ toDevice' = Append(toDevice, [of |-> o, name |-> name, entry |-> at[o]])
             /\ at' = at /\ toHost' = toHost
      BY <1>1, SendFacts
    <2>2. factory[o] \notin Names
      BY <2>1 DEF Names
    <2>3. PICK command \in Commands : command = [of |-> o, name |-> name, entry |-> at[o]]
      BY MessageTypes DEF TypeOK
    <2>4. /\ command.of = o /\ Awaited(command, factory', at)
          /\ \A p \in Objects : p # o => factory'[p] = factory[p]
      BY <2>1, <2>3 DEF Awaited, TypeOK, FactoryTypeOK
    <2>5. OneEach(Append(toDevice, command), toHost, factory', at)
      BY <1>t, <1>i, <2>2, <2>4, OneEachSends
    <2> QED
      BY <2>1, <2>3, <2>5
  <1>2. ASSUME NEW o \in Objects, CreateState(o)
        PROVE  OneEach(toDevice', toHost', factory', at')
    <2>1. factory[o] \notin Names /\ toDevice' = toDevice /\ toHost' = toHost
      BY <1>2 DEF CreateState, NextEntry, Moves, Names
    <2>2. \A p \in Objects : p # o => factory'[p] = factory[p] /\ at'[p] = at[p]
      BY <1>2 DEF CreateState, NextEntry, Moves, TypeOK, FactoryTypeOK
    <2> QED
      BY <1>t, <1>i, <2>1, <2>2, OneEachMoves
  <1>3. ASSUME ReaderReply
        PROVE  OneEach(toDevice', toHost', factory', at')
    <2>1. PICK line \in HostLines :
             /\ toHost # <<>> /\ line = Head(toHost) /\ toHost' = Tail(toHost)
             /\ line.kind # "S"
             /\ factory' = [factory EXCEPT ![line.of] =
                              IF line.kind = "ERR" THEN "raised" ELSE After(line.name)]
             /\ UNCHANGED <<at, toDevice>>
      BY <1>3, ReplyFacts DEF deviceVars, deliveryVars
    <2>2. \A p \in Objects : p # line.of => factory'[p] = factory[p]
      BY <2>1 DEF TypeOK, FactoryTypeOK
    <2>3. OneEach(toDevice, Tail(toHost), factory', at)
      BY <1>t, <1>i, <2>1, <2>2, OneEachTakes
    <2> QED
      BY <2>1, <2>3
  <1>4. ASSUME ReaderUpdate
        PROVE  OneEach(toDevice', toHost', factory', at')
    <2>1. /\ toHost # <<>> /\ Head(toHost).kind = "S" /\ toHost' = Tail(toHost)
          /\ UNCHANGED <<factory, at, toDevice>>
      BY <1>4, UpdateFacts
    <2>2. OneEach(toDevice, Tail(toHost), factory, at)
      BY <1>t, <1>i, <2>1, OneEachTakes
    <2> QED
      BY <2>1, <2>2
  <1>5. ASSUME Callback
        PROVE  OneEach(toDevice', toHost', factory', at')
    BY <1>5, <1>i DEF Callback, factoryVars
  <1>6. ASSUME DeviceAnswers
        PROVE  OneEach(toDevice', toHost', factory', at')
    <2>1. PICK command \in Commands, kind \in {"R", "ERR"} :
             /\ toDevice # <<>> /\ command = Head(toDevice)
             /\ toDevice' = Tail(toDevice)
             /\ toHost' = Append(toHost, Reply(command, kind))
             /\ UNCHANGED <<factory, at>>
      BY <1>6, AnswerFacts DEF TypeOK
    <2>2. PICK line \in HostLines : line = Reply(command, kind)
      BY MessageTypes DEF TypeOK
    <2>3. /\ line.kind # "S" /\ line.of = command.of
          /\ line.name = command.name /\ line.entry = command.entry
      BY <2>2 DEF Reply
    <2>4. OneEach(Tail(toDevice), Append(toHost, line), factory, at)
      BY <1>t, <1>i, <2>1, <2>3, OneEachAnswers
    <2> QED
      BY <2>1, <2>2, <2>4
  <1>7. ASSUME NEW e \in Entries, DeviceReads(e)
        PROVE  OneEach(toDevice', toHost', factory', at')
    <2>1. PICK n \in 1..MaxReading :
             toHost' = IF e \in subscribed THEN Append(toHost, Update(e, n)) ELSE toHost
      BY <1>7, DeviceReadsTypes DEF TypeOK
    <2>2. n \in 0..Bad
      BY ParameterFacts
    <2>3. PICK line \in HostLines : line = Update(e, n)
      BY <2>2, MessageTypes DEF TypeOK
    <2>4. line.kind = "S"
      BY <2>3 DEF Update
    <2>5. OneEach(toDevice, Append(toHost, line), factory, at)
      BY <1>t, <1>i, <2>4, OneEachUpdate
    <2> QED
      BY <1>7, <1>i, <2>1, <2>3, <2>5 DEF DeviceReads
  <1>8. ASSUME DeviceGarbles
        PROVE  OneEach(toDevice', toHost', factory', at')
    <2>1. PICK e \in subscribed : toHost' = Append(toHost, Update(e, Bad))
      BY <1>8 DEF DeviceGarbles
    <2>2. e \in Entries /\ Bad \in 0..Bad
      BY ParameterFacts DEF TypeOK, FactoryTypeOK
    <2>3. PICK line \in HostLines : line = Update(e, Bad)
      BY <2>2, MessageTypes DEF TypeOK
    <2>4. line.kind = "S"
      BY <2>3 DEF Update
    <2>5. OneEach(toDevice, Append(toHost, line), factory, at)
      BY <1>t, <1>i, <2>4, OneEachUpdate
    <2> QED
      BY <1>8, <2>1, <2>3, <2>5 DEF DeviceGarbles
  <1>9. ASSUME UNCHANGED vars
        PROVE  OneEach(toDevice', toHost', factory', at')
    BY <1>9, <1>i DEF vars, factoryVars
  <1> QED
    BY <1>1, <1>2, <1>3, <1>4, <1>5, <1>6, <1>7, <1>8, <1>9
       DEF Next, Factory, Reader, Device

(* To make a state leaves the others to be made, and one less.             *)
LEMMA CreateMakes ==
  ASSUME TypeOK, NEW o \in Objects, NEW e \in Entries, ToBeMade(o, e)',
         NEW p \in Objects, CreateState(p)
  PROVE  ToBeMade(o, e) /\ <<o, e>> # <<p, at[p]>>
  <1>t. /\ \A q \in Objects : at[q] \in Entries
        /\ NumEntries \in Nat /\ e \in Nat /\ at[o] \in Nat /\ e <= NumEntries
    <2>1. \A q \in Objects : at[q] \in Entries
      BY DEF TypeOK, FactoryTypeOK
    <2> QED
      BY <2>1, ParameterFacts DEF Entries
  <1>1. /\ factory[p] = "queried"
        /\ factory' = [factory EXCEPT ![p] =
                         IF at[p] = NumEntries THEN "stated" ELSE "typed"]
        /\ at' = [at EXCEPT ![p] = IF @ = NumEntries THEN @ ELSE @ + 1]
    BY DEF CreateState, NextEntry, Moves
  <1>2. CASE o # p
    BY <1>1, <1>2 DEF ToBeMade, TypeOK, FactoryTypeOK
  <1>3. CASE o = p /\ at[p] = NumEntries
    <2>1. factory'[o] = "stated" /\ at'[o] = at[o]
      BY <1>1, <1>3 DEF TypeOK, FactoryTypeOK
    <2>2. e > at[o]
      BY <2>1 DEF ToBeMade
    <2> QED
      BY <1>t, <1>3, <2>2
  <1>4. CASE o = p /\ at[p] # NumEntries
    <2>1. at'[o] = at[o] + 1
      BY <1>1, <1>4 DEF TypeOK, FactoryTypeOK
    <2>2. e > at[o]
      BY <1>t, <2>1 DEF ToBeMade
    <2> QED
      BY <1>t, <1>4, <2>2 DEF ToBeMade
  <1> QED
    BY <1>2, <1>3, <1>4

(* What the factories have still to make does not grow.                    *)
LEMMA StepToBeMade ==
  ASSUME TypeOK, OneCommand, [Next]_vars, NEW o \in Objects, NEW e \in Entries,
         ToBeMade(o, e)'
  PROVE  ToBeMade(o, e)
  <1>1. ASSUME NEW p \in Objects, SetIOType(p) \/ Query(p) \/ Subscribe(p)
        PROVE  ToBeMade(o, e)
    <2>1. PICK name \in Names :
             /\ factory[p] \in {"idle", "typed", "stated"}
             /\ name = "subscribe" <=> factory[p] = "stated"
             /\ factory' = [factory EXCEPT ![p] = name]
             /\ at' = at
      BY <1>1, SendFacts
    <2>2. CASE o = p
      BY <2>1, <2>2 DEF ToBeMade, TypeOK, FactoryTypeOK
    <2>3. CASE o # p
      BY <2>1, <2>3 DEF ToBeMade, TypeOK, FactoryTypeOK
    <2> QED
      BY <2>2, <2>3
  <1>2. ASSUME NEW p \in Objects, CreateState(p)
        PROVE  ToBeMade(o, e)
    BY <1>2, CreateMakes
  <1>3. ASSUME ReaderReply
        PROVE  ToBeMade(o, e)
    <2>1. PICK line \in HostLines :
             /\ line.of \in Objects /\ line.name \in Names
             /\ line.name = factory[line.of]
             /\ factory' = [factory EXCEPT ![line.of] =
                              IF line.kind = "ERR" THEN "raised" ELSE After(line.name)]
             /\ at' = at
      BY <1>3, ReplyFacts
    <2>2. CASE o = line.of
      BY <2>1, <2>2 DEF ToBeMade, TypeOK, FactoryTypeOK, Names, After
    <2>3. CASE o # line.of
      BY <2>1, <2>3 DEF ToBeMade, TypeOK, FactoryTypeOK
    <2> QED
      BY <2>2, <2>3
  <1>4. ASSUME UNCHANGED <<factory, at>>
        PROVE  ToBeMade(o, e)
    BY <1>4 DEF ToBeMade
  <1>5. ReaderUpdate \/ Callback \/ UNCHANGED vars => UNCHANGED <<factory, at>>
    BY UpdateFacts DEF Callback, vars, factoryVars
  <1>6. Device => UNCHANGED <<factory, at>>
    BY DeviceFacts DEF TypeOK
  <1> QED
    BY <1>1, <1>2, <1>3, <1>4, <1>5, <1>6 DEF Next, Factory, Reader

(* A state is registered when it is made, and called only when registered. *)
LEMMA StepNothingBeforeItIsMade ==
  ASSUME TypeOK, OneCommand, NothingBeforeItIsMade, [Next]_vars
  PROVE  NothingBeforeItIsMade'
  <1> SUFFICES ASSUME NEW o \in Objects, NEW e \in Entries, ToBeMade(o, e)'
               PROVE  /\ ~IsIn(<<o, e>>, callbacks')
                      /\ ~IsIn(<<o, e>>, calling')
                      /\ state'[o][e] = None
    BY DEF NothingBeforeItIsMade
  <1>i. /\ ToBeMade(o, e)
        /\ ~IsIn(<<o, e>>, callbacks)
        /\ ~IsIn(<<o, e>>, calling)
        /\ state[o][e] = None
    BY StepToBeMade DEF NothingBeforeItIsMade
  <1>1. CASE UNCHANGED deliveryVars
    BY <1>1, <1>i DEF deliveryVars
  <1>2. ASSUME NEW p \in Objects, CreateState(p)
        PROVE  /\ ~IsIn(<<o, e>>, callbacks')
               /\ ~IsIn(<<o, e>>, calling')
               /\ state'[o][e] = None
    <2>1. <<o, e>> # <<p, at[p]>>
      BY <1>2, CreateMakes
    <2>2. callbacks \in Seq(Objects \X Entries) /\ <<p, at[p]>> \in Objects \X Entries
      BY DEF TypeOK, FactoryTypeOK
    <2>3. ~IsIn(<<o, e>>, Append(callbacks, <<p, at[p]>>))
      BY <1>i, <2>1, <2>2, InAppend
    <2>4. callbacks' = Append(callbacks, <<p, at[p]>>) /\ calling' = calling
      BY <1>2 DEF CreateState
    <2>5. state'[o][e] = state[o][e]
      BY <1>2, <2>1 DEF CreateState, TypeOK
    <2> QED
      BY <1>i, <2>3, <2>4, <2>5
  <1>3. CASE ReaderUpdate
    BY <1>3, <1>i, UpdateFacts
  <1>4. CASE Callback
    <2>1. PICK p \in Objects, f \in Entries :
             /\ calling # <<>> /\ Head(calling) = <<p, f>>
             /\ calling' = Tail(calling)
             /\ state' = IF delivering.entry = f /\ delivering.value # Bad
                         THEN [state EXCEPT ![p][f] = delivering.value] ELSE state
             /\ callbacks' = callbacks
      BY <1>4, CallbackFacts
    <2>2. calling \in Seq(Objects \X Entries)
      BY DEF TypeOK
    <2>3. <<o, e>> # <<p, f>> /\ ~IsIn(<<o, e>>, Tail(calling))
      BY <1>i, <2>1, <2>2, InTail
    <2>4. state'[o][e] = state[o][e]
      BY <2>1, <2>3 DEF TypeOK
    <2> QED
      BY <1>i, <2>1, <2>3, <2>4
  <1>5. CASE ReaderReply
    BY <1>1, <1>5 DEF ReaderReply
  <1>6. CASE UNCHANGED vars
    BY <1>1, <1>6 DEF vars
  <1> QED
    BY <1>1, <1>2, <1>3, <1>4, <1>5, <1>6 DEF Next, Factory, Reader

(* No callback is unregistered.                                            *)
LEMMA StaysRegistered ==
  ASSUME TypeOK, [Next]_vars, NEW o \in Objects, NEW e \in Entries,
         IsIn(<<o, e>>, callbacks)
  PROVE  IsIn(<<o, e>>, callbacks')
  <1>1. ASSUME NEW p \in Objects, CreateState(p)
        PROVE  IsIn(<<o, e>>, callbacks')
    <2>1. callbacks \in Seq(Objects \X Entries) /\ <<p, at[p]>> \in Objects \X Entries
      BY DEF TypeOK, FactoryTypeOK
    <2>2. IsIn(<<o, e>>, Append(callbacks, <<p, at[p]>>))
      BY <2>1, InAppend
    <2> QED
      BY <1>1, <2>2 DEF CreateState
  <1>2. \/ \E p \in Objects : CreateState(p)
        \/ callbacks' = callbacks
    BY DEF Next, Factory, Reader, ReaderReply, ReaderUpdate, Callback,
           deliveryVars, vars
  <1> QED
    BY <1>1, <1>2

(* A factory is past an entry only when it has registered a state of it.   *)
LEMMA StepRegisteredBeforeSubscribe ==
  ASSUME TypeOK, OneCommand, RegisteredBeforeSubscribe, [Next]_vars
  PROVE  RegisteredBeforeSubscribe'
  <1> DEFINE Past(o, e) == \/ e < at[o]
                           \/ factory[o] \in {"stated", "subscribe", "ready"}
                           \/ \E f \in Entries : since[o][f] # None
  <1> SUFFICES ASSUME NEW o \in Objects, NEW e \in Entries, Past(o, e)'
               PROVE  IsIn(<<o, e>>, callbacks')
    BY DEF RegisteredBeforeSubscribe
  <1>i. Past(o, e) => IsIn(<<o, e>>, callbacks')
    BY StaysRegistered DEF RegisteredBeforeSubscribe
  <1>1. ASSUME NEW p \in Objects, SetIOType(p) \/ Query(p) \/ Subscribe(p)
        PROVE  Past(o, e)
    <2>1. PICK name \in Names :
             /\ factory[p] \in {"idle", "typed", "stated"}
             /\ name = "subscribe" <=> factory[p] = "stated"
             /\ factory' = [factory EXCEPT ![p] = name]
             /\ at' = at /\ since' = since
      BY <1>1, SendFacts DEF deviceVars
    <2>2. factory'[o] \in {"stated", "subscribe", "ready"} =>
             factory[o] \in {"stated", "subscribe", "ready"}
      BY <2>1 DEF TypeOK, FactoryTypeOK, Names
    <2> QED
      BY <2>1, <2>2
  <1>2. ASSUME NEW p \in Objects, CreateState(p)
        PROVE  Past(o, e) \/ <<o, e>> = <<p, at[p]>>
    <2>1. /\ factory' = [factory EXCEPT ![p] =
                           IF at[p] = NumEntries THEN "stated" ELSE "typed"]
          /\ at' = [at EXCEPT ![p] = IF @ = NumEntries THEN @ ELSE @ + 1]
          /\ since' = since
      BY <1>2 DEF CreateState, NextEntry, Moves, deviceVars
    <2>2. CASE o # p
      <3>1. factory'[o] = factory[o] /\ at'[o] = at[o]
        BY <2>1, <2>2 DEF TypeOK, FactoryTypeOK
      <3> QED
        BY <2>1, <3>1
    <2>3. CASE o = p
      <3>1. at[o] \in Entries
        BY DEF TypeOK, FactoryTypeOK
      <3>2. e \in Nat /\ at[o] \in Nat /\ e <= NumEntries /\ NumEntries \in Nat
        BY <3>1, ParameterFacts DEF Entries
      <3>3. CASE at[p] = NumEntries
        BY <2>3, <3>2, <3>3
      <3>4. CASE at[p] # NumEntries
        <4>1. factory'[o] = "typed" /\ at'[o] = at[o] + 1
          BY <2>1, <2>3, <3>4 DEF TypeOK, FactoryTypeOK
        <4>2. e < at[o] + 1 \/ \E f \in Entries : since[o][f] # None
          BY <2>1, <4>1
        <4> QED
          BY <2>3, <3>2, <4>2
      <3> QED
        BY <3>3, <3>4
    <2> QED
      BY <2>2, <2>3
  <1>3. ASSUME NEW p \in Objects, CreateState(p), <<o, e>> = <<p, at[p]>>
        PROVE  IsIn(<<o, e>>, callbacks')
    <2>1. callbacks \in Seq(Objects \X Entries) /\ <<p, at[p]>> \in Objects \X Entries
      BY DEF TypeOK, FactoryTypeOK
    <2>2. IsIn(<<o, e>>, Append(callbacks, <<p, at[p]>>))
      BY <1>3, <2>1, InAppend
    <2> QED
      BY <1>3, <2>2 DEF CreateState
  <1>4. ASSUME ReaderReply
        PROVE  Past(o, e)
    <2>1. PICK line \in HostLines :
             /\ line.of \in Objects /\ line.name \in Names
             /\ line.name = factory[line.of]
             /\ factory' = [factory EXCEPT ![line.of] =
                              IF line.kind = "ERR" THEN "raised" ELSE After(line.name)]
             /\ at' = at /\ since' = since
      BY <1>4, ReplyFacts DEF deviceVars
    <2>2. factory'[o] \in {"stated", "subscribe", "ready"} =>
             factory[o] \in {"stated", "subscribe", "ready"}
      BY <2>1 DEF TypeOK, FactoryTypeOK, Names, After
    <2> QED
      BY <2>1, <2>2
  <1>5. ASSUME DeviceAnswers
        PROVE  Past(o, e)
    <2>1. PICK command \in Commands, kind \in {"R", "ERR"} :
             /\ toDevice # <<>> /\ command = Head(toDevice)
             /\ IF kind = "R" /\ command.name = "subscribe"
                THEN since' = [since EXCEPT ![command.of] = reading]
                ELSE since' = since
             /\ factory' = factory /\ at' = at
      BY <1>5, AnswerFacts DEF TypeOK
    <2>2. command = toDevice[1] /\ 1 \in 1..Len(toDevice)
      BY <2>1, TailFacts DEF TypeOK, FactoryTypeOK
    <2>3. command.name = factory[command.of]
      BY <2>2 DEF OneCommand, OneEach, Awaited
    <2>4. CASE command.of = o /\ command.name = "subscribe"
      BY <2>3, <2>4
    <2>5. CASE ~(command.of = o /\ command.name = "subscribe")
      <3>1. since'[o] = since[o]
        BY <2>1, <2>5 DEF TypeOK, FactoryTypeOK
      <3> QED
        BY <2>1, <3>1
    <2> QED
      BY <2>4, <2>5
  <1>6. ASSUME UNCHANGED <<factory, at, since>>
        PROVE  Past(o, e)
    BY <1>6
  <1>7. \/ ReaderUpdate \/ Callback \/ UNCHANGED vars
        \/ DeviceGarbles \/ \E f \in Entries : DeviceReads(f)
        => UNCHANGED <<factory, at, since>>
    BY UpdateFacts DEF Callback, vars, factoryVars, deviceVars, DeviceGarbles, DeviceReads
  <1> HIDE DEF Past
  <1> QED
    BY <1>i, <1>1, <1>2, <1>3, <1>4, <1>5, <1>6, <1>7
       DEF Next, Factory, Reader, Device

(* The device reports the selected entries from the first subscribe on.    *)
LEMMA StepReportsSinceSubscribe ==
  ASSUME TypeOK, ReportsSinceSubscribe, [Next]_vars
  PROVE  ReportsSinceSubscribe'
  <1> SUFFICES ASSUME NEW o \in Objects, NEW e \in Entries, since'[o][e] # None
               PROVE  Selected \subseteq subscribed'
    BY DEF ReportsSinceSubscribe
  <1>1. CASE DeviceAnswers
    <2>1. \/ subscribed' = Selected
          \/ subscribed' = subscribed /\ since' = since
      BY <1>1, AnswerFacts DEF TypeOK
    <2> QED
      BY <2>1 DEF ReportsSinceSubscribe
  <1>2. CASE UNCHANGED <<subscribed, since>>
    BY <1>2 DEF ReportsSinceSubscribe
  <1>3. \/ DeviceAnswers
        \/ UNCHANGED <<subscribed, since>>
    BY UpdateFacts
       DEF Next, Factory, Reader, Device, SetIOType, Query, Subscribe, CreateState,
           NextEntry, ReaderReply, Replied, Callback, DeviceGarbles, DeviceReads,
           vars, factoryVars, deviceVars
  <1> QED
    BY <1>1, <1>2, <1>3

-----------------------------------------------------------------------------
(* The invariant: everything is in the order of the readings               *)

(* What is not newer than anything of its entry stays so in every step of  *)
(* the device.                                                             *)
LEMMA NoNewerDevice ==
  ASSUME FactoryTypeOK, Device, NEW value \in Int, NEW e \in Entries,
         NoNewer(value, e, toHost, reading)
  PROVE  NoNewer(value, e, toHost', reading')
  <1>1. /\ reading \in [Entries -> Nat] /\ reading' \in [Entries -> Nat]
        /\ \A f \in Entries : reading[f] <= reading'[f]
        /\ \/ toHost' = toHost
           \/ \E line \in HostLines :
                 /\ toHost' = Append(toHost, line)
                 /\ line.value # Bad => line.value = reading'[line.entry]
    BY DeviceFacts
  <1>2. value <= reading[e] /\ reading[e] \in Nat /\ reading'[e] \in Nat
        /\ reading[e] <= reading'[e]
    BY <1>1 DEF NoNewer
  <1>3. value <= reading'[e]
    BY <1>2
  <1>4. CASE toHost' = toHost
    BY <1>3, <1>4 DEF NoNewer
  <1>5. ASSUME NEW line \in HostLines, toHost' = Append(toHost, line),
               line.value # Bad => line.value = reading'[line.entry]
        PROVE  NoNewer(value, e, toHost', reading')
    <2>1. toHost \in Seq(HostLines)
      BY DEF FactoryTypeOK
    <2>2. line.entry = e /\ line.value # Bad => value <= line.value
      BY <1>3, <1>5
    <2>3. NoNewer(value, e, Append(toHost, line), reading')
      BY <1>3, <2>1, <2>2, NoNewerAppend
    <2> QED
      BY <1>5, <2>3
  <1> QED
    BY <1>1, <1>4, <1>5

(* The lines are in order: a step adds a line of the newest reading of its *)
(* entry at the end, or takes the first one.                               *)
LEMMA StepLinesInOrder ==
  ASSUME TypeOK, LinesInOrder, [Next]_vars
  PROVE  LinesInOrder'
  <1>t. toHost \in Seq(HostLines) /\ FactoryTypeOK
    BY DEF TypeOK, FactoryTypeOK
  <1>i. Ordered(toHost, reading)
    BY DEF LinesInOrder
  <1> SUFFICES Ordered(toHost', reading')
    BY DEF LinesInOrder
  <1>1. CASE UNCHANGED <<toHost, reading>>
    BY <1>1, <1>i
  <1>2. CASE toHost # <<>> /\ toHost' = Tail(toHost) /\ reading' = reading
    BY <1>2, <1>i, <1>t, OrderedTail
  <1>3. CASE Device
    <2>1. /\ reading \in [Entries -> Nat] /\ reading' \in [Entries -> Nat]
          /\ \A f \in Entries : reading[f] <= reading'[f]
          /\ \/ toHost' = toHost
             \/ \E line \in HostLines :
                   /\ toHost' = Append(toHost, line)
                   /\ line.value # Bad => line.value = reading'[line.entry]
      BY <1>t, <1>3, DeviceFacts
    <2>2. CASE toHost' = toHost
      <3>1. ASSUME NEW i \in 1..Len(toHost), toHost[i].value # Bad
            PROVE  toHost[i].value <= reading'[toHost[i].entry]
        <4>1. toHost[i].entry \in Entries /\ toHost[i].value \in Nat
          <5>1. toHost[i] \in HostLines
            BY <1>t, ElementFacts
          <5> QED
            BY <5>1, ParameterFacts DEF HostLines
        <4>2. toHost[i].value <= reading[toHost[i].entry]
          BY <1>i, <3>1 DEF Ordered
        <4> QED
          BY <2>1, <4>1, <4>2
      <3> QED
        BY <1>i, <2>2, <3>1 DEF Ordered
    <2>3. ASSUME NEW line \in HostLines, toHost' = Append(toHost, line),
                 line.value # Bad => line.value = reading'[line.entry]
          PROVE  Ordered(toHost', reading')
      <3>1. Ordered(Append(toHost, line), reading')
        BY <1>t, <1>i, <2>1, <2>3, OrderedAppend
      <3> QED
        BY <2>3, <3>1
    <2> QED
      BY <2>1, <2>2, <2>3
  <1>4. ReaderReply => toHost # <<>> /\ toHost' = Tail(toHost) /\ reading' = reading
    BY DEF ReaderReply, Replied, deviceVars
  <1>5. ReaderUpdate => toHost # <<>> /\ toHost' = Tail(toHost) /\ reading' = reading
    BY DEF ReaderUpdate, deviceVars
  <1>6. Callback \/ UNCHANGED vars => UNCHANGED <<toHost, reading>>
    BY DEF Callback, vars, factoryVars, deviceVars
  <1>7. ASSUME NEW o \in Objects, Factory(o)
        PROVE  UNCHANGED <<toHost, reading>>
    BY <1>7 DEF Factory, SetIOType, Query, Subscribe, CreateState, NextEntry, deviceVars
  <1> QED
    BY <1>1, <1>2, <1>3, <1>4, <1>5, <1>6, <1>7 DEF Next, Reader

(* A step of the lines and the readings keeps what is not newer than any   *)
(* of its entry: a line is taken, or the device acts, or neither.          *)
LEMMA StepNoNewer ==
  ASSUME TypeOK, [Next]_vars, NEW value \in Int, NEW e \in Entries,
         NoNewer(value, e, toHost, reading)
  PROVE  NoNewer(value, e, toHost', reading')
  <1>t. toHost \in Seq(HostLines) /\ FactoryTypeOK
    BY DEF TypeOK, FactoryTypeOK
  <1>1. CASE UNCHANGED <<toHost, reading>>
    BY <1>1
  <1>2. CASE toHost # <<>> /\ toHost' = Tail(toHost) /\ reading' = reading
    BY <1>2, <1>t, NoNewerTail
  <1>3. CASE Device
    BY <1>3, <1>t, NoNewerDevice
  <1>4. ReaderReply => toHost # <<>> /\ toHost' = Tail(toHost) /\ reading' = reading
    BY DEF ReaderReply, Replied, deviceVars
  <1>5. ReaderUpdate => toHost # <<>> /\ toHost' = Tail(toHost) /\ reading' = reading
    BY DEF ReaderUpdate, deviceVars
  <1>6. Callback \/ UNCHANGED vars => UNCHANGED <<toHost, reading>>
    BY DEF Callback, vars, factoryVars, deviceVars
  <1>7. ASSUME NEW o \in Objects, Factory(o)
        PROVE  UNCHANGED <<toHost, reading>>
    BY <1>7 DEF Factory, SetIOType, Query, Subscribe, CreateState, NextEntry, deviceVars
  <1> QED
    BY <1>1, <1>2, <1>3, <1>4, <1>5, <1>6, <1>7 DEF Next, Reader

(* A state is set to what is not newer than anything of its entry.         *)
LEMMA StepStatesInOrder ==
  ASSUME TypeOK, StatesInOrder, InitialInOrder, DeliveryInOrder, [Next]_vars
  PROVE  StatesInOrder'
  <1> SUFFICES ASSUME NEW o \in Objects, NEW e \in Entries
               PROVE  NoNewer(state'[o][e], e, toHost', reading')
    BY DEF StatesInOrder
  <1>t. state'[o][e] \in Int /\ state[o][e] \in Int
    <2>1. state[o][e] \in None..MaxReading
      BY DEF TypeOK
    <2>2. state'[o][e] \in None..MaxReading
      BY StepTypes DEF TypeOK
    <2>3. None..MaxReading \subseteq Int
      BY ParameterFacts
    <2> QED
      BY <2>1, <2>2, <2>3
  <1> SUFFICES NoNewer(state'[o][e], e, toHost, reading)
    BY <1>t, StepNoNewer
  <1>1. CASE state' = state
    BY <1>1 DEF StatesInOrder
  <1>2. ASSUME NEW p \in Objects, CreateState(p)
        PROVE  NoNewer(state'[o][e], e, toHost, reading)
    <2>1. /\ factory[p] = "queried"
          /\ state' = [state EXCEPT ![p][at[p]] = initial[p]]
      BY <1>2 DEF CreateState, NextEntry, Moves
    <2>2. CASE <<o, e>> = <<p, at[p]>>
      <3>1. state'[o][e] = initial[o] /\ e = at[o] /\ factory[o] = "queried"
        BY <2>1, <2>2 DEF TypeOK
      <3> QED
        BY <3>1 DEF InitialInOrder
    <2>3. CASE <<o, e>> # <<p, at[p]>>
      <3>1. state'[o][e] = state[o][e]
        BY <2>1, <2>3 DEF TypeOK
      <3> QED
        BY <3>1 DEF StatesInOrder
    <2> QED
      BY <2>2, <2>3
  <1>3. CASE Callback
    <2>1. PICK p \in Objects, f \in Entries :
             /\ calling # <<>> /\ Head(calling) = <<p, f>>
             /\ state' = IF delivering.entry = f /\ delivering.value # Bad
                         THEN [state EXCEPT ![p][f] = delivering.value] ELSE state
      BY <1>3, CallbackFacts
    <2>2. CASE <<o, e>> = <<p, f>> /\ delivering.entry = f /\ delivering.value # Bad
      <3>1. state'[o][e] = delivering.value /\ e = delivering.entry
        BY <2>1, <2>2 DEF TypeOK
      <3> QED
        BY <2>1, <2>2, <3>1 DEF DeliveryInOrder
    <2>3. CASE ~(<<o, e>> = <<p, f>> /\ delivering.entry = f /\ delivering.value # Bad)
      <3>1. state'[o][e] = state[o][e]
        BY <2>1, <2>3 DEF TypeOK
      <3> QED
        BY <3>1 DEF StatesInOrder
    <2> QED
      BY <2>2, <2>3
  <1>4. \/ state' = state
        \/ Callback
        \/ \E p \in Objects : CreateState(p)
    BY DEF Next, Factory, Reader, ReaderReply, ReaderUpdate, deliveryVars, vars
  <1> QED
    BY <1>1, <1>2, <1>3, <1>4

(* The reply to a query is not newer than anything of its entry.           *)
LEMMA StepInitialInOrder ==
  ASSUME TypeOK, OneCommand, LinesInOrder, InitialInOrder, [Next]_vars
  PROVE  InitialInOrder'
  <1> SUFFICES ASSUME NEW o \in Objects, factory'[o] = "queried"
               PROVE  NoNewer(initial'[o], at'[o], toHost', reading')
    BY DEF InitialInOrder
  <1>t. /\ initial[o] \in Int /\ at[o] \in Entries
        /\ toHost \in Seq(HostLines)
    <2>1. initial[o] \in None..MaxReading /\ None..MaxReading \subseteq Int
      BY ParameterFacts DEF TypeOK, FactoryTypeOK
    <2> QED
      BY <2>1 DEF TypeOK, FactoryTypeOK
  <1>1. ASSUME factory[o] = "queried", initial'[o] = initial[o], at'[o] = at[o]
        PROVE  NoNewer(initial'[o], at'[o], toHost', reading')
    <2>1. NoNewer(initial[o], at[o], toHost, reading)
      BY <1>1 DEF InitialInOrder
    <2>2. NoNewer(initial[o], at[o], toHost', reading')
      BY <1>t, <2>1, StepNoNewer
    <2> QED
      BY <1>1, <2>2
  <1>2. ASSUME NEW p \in Objects, SetIOType(p) \/ Query(p) \/ Subscribe(p)
        PROVE  factory[o] = "queried" /\ initial'[o] = initial[o] /\ at'[o] = at[o]
    <2>1. PICK name \in Names :
             /\ factory' = [factory EXCEPT ![p] = name]
             /\ at' = at /\ initial' = initial
      BY <1>2, SendFacts
    <2> QED
      BY <2>1 DEF TypeOK, FactoryTypeOK, Names
  <1>3. ASSUME NEW p \in Objects, CreateState(p)
        PROVE  factory[o] = "queried" /\ initial'[o] = initial[o] /\ at'[o] = at[o]
    <2>1. /\ factory' = [factory EXCEPT ![p] =
                           IF at[p] = NumEntries THEN "stated" ELSE "typed"]
          /\ at' = [at EXCEPT ![p] = IF @ = NumEntries THEN @ ELSE @ + 1]
          /\ initial' = initial
      BY <1>3 DEF CreateState, NextEntry, Moves
    <2>2. o # p
      BY <2>1 DEF TypeOK, FactoryTypeOK
    <2> QED
      BY <2>1, <2>2 DEF TypeOK, FactoryTypeOK
  <1>4. ASSUME ReaderReply
        PROVE  NoNewer(initial'[o], at'[o], toHost', reading')
    <2>1. PICK line \in HostLines :
             /\ toHost # <<>> /\ line = Head(toHost)
             /\ toHost' = Tail(toHost)
             /\ line.of \in Objects /\ line.name \in Names
             /\ line.value \in 0..MaxReading /\ line.entry = at[line.of]
             /\ factory' = [factory EXCEPT ![line.of] =
                              IF line.kind = "ERR" THEN "raised" ELSE After(line.name)]
             /\ initial' = [initial EXCEPT ![line.of] =
                              IF line.name = "query" THEN line.value ELSE @]
             /\ at' = at /\ reading' = reading
      BY <1>4, ReplyFacts DEF deviceVars
    <2>2. CASE o = line.of
      <3>1. line.name = "query"
        BY <2>1, <2>2 DEF TypeOK, FactoryTypeOK, Names, After
      <3>2. initial'[o] = line.value /\ at'[o] = line.entry
        BY <2>1, <2>2, <3>1 DEF TypeOK, FactoryTypeOK
      <3>3. line.value # Bad
        BY <2>1, ParameterFacts
      <3>4. NoNewer(line.value, line.entry, Tail(toHost), reading)
        BY <1>t, <2>1, <3>3, OrderedTail DEF LinesInOrder
      <3> QED
        BY <2>1, <3>2, <3>4
    <2>3. CASE o # line.of
      <3>1. factory[o] = "queried" /\ initial'[o] = initial[o] /\ at'[o] = at[o]
        BY <2>1, <2>3 DEF TypeOK, FactoryTypeOK
      <3> QED
        BY <1>1, <3>1
    <2> QED
      BY <2>2, <2>3
  <1>5. Device => factory[o] = "queried" /\ initial'[o] = initial[o] /\ at'[o] = at[o]
    BY DeviceFacts DEF TypeOK
  <1>6. ReaderUpdate \/ Callback \/ UNCHANGED vars =>
           factory[o] = "queried" /\ initial'[o] = initial[o] /\ at'[o] = at[o]
    BY UpdateFacts DEF Callback, vars, factoryVars
  <1> QED
    BY <1>1, <1>2, <1>3, <1>4, <1>5, <1>6 DEF Next, Factory, Reader

(* The update that is being delivered is not newer than what is to come,   *)
(* and not older than the states it is still to be given to.               *)
LEMMA StepDeliveryInOrder ==
  ASSUME TypeOK, OneCommand, NothingBeforeItIsMade, LinesInOrder, StatesInOrder,
         DeliveryInOrder, [Next]_vars
  PROVE  DeliveryInOrder'
  <1> SUFFICES ASSUME calling' # <<>>, delivering'.value # Bad
               PROVE  /\ NoNewer(delivering'.value, delivering'.entry, toHost', reading')
                      /\ \A o \in Objects : IsIn(<<o, delivering'.entry>>, calling') =>
                            state'[o][delivering'.entry] <= delivering'.value
    BY DEF DeliveryInOrder
  <1>t. /\ calling \in Seq(Objects \X Entries) /\ toHost \in Seq(HostLines)
        /\ delivering.value \in Int /\ delivering.entry \in Entries
    <2>1. delivering.value \in 0..Bad /\ delivering.entry \in Entries
      BY DEF TypeOK
    <2> QED
      BY <2>1, ParameterFacts DEF TypeOK, FactoryTypeOK
  <1>1. ASSUME calling # <<>>, delivering' = delivering
        PROVE  /\ NoNewer(delivering'.value, delivering'.entry, toHost', reading')
               /\ \A o \in Objects : IsIn(<<o, delivering.entry>>, calling) =>
                     state[o][delivering.entry] <= delivering.value
    <2>1. NoNewer(delivering.value, delivering.entry, toHost, reading)
      BY <1>1 DEF DeliveryInOrder
    <2>2. NoNewer(delivering.value, delivering.entry, toHost', reading')
      BY <1>t, <2>1, StepNoNewer
    <2> QED
      BY <1>1, <2>2 DEF DeliveryInOrder
  <1>2. CASE UNCHANGED <<calling, delivering, state>>
    BY <1>1, <1>2
  <1>3. ASSUME NEW p \in Objects, CreateState(p)
        PROVE  /\ NoNewer(delivering'.value, delivering'.entry, toHost', reading')
               /\ \A o \in Objects : IsIn(<<o, delivering'.entry>>, calling') =>
                     state'[o][delivering'.entry] <= delivering'.value
    <2>1. /\ factory[p] = "queried" /\ calling' = calling /\ delivering' = delivering
          /\ state' = [state EXCEPT ![p][at[p]] = initial[p]]
      BY <1>3 DEF CreateState, NextEntry, Moves
    <2>2. at[p] \in Entries /\ ~IsIn(<<p, at[p]>>, calling)
      BY <2>1 DEF NothingBeforeItIsMade, ToBeMade, TypeOK, FactoryTypeOK
    <2>3. ASSUME NEW o \in Objects, IsIn(<<o, delivering.entry>>, calling)
          PROVE  state'[o][delivering.entry] = state[o][delivering.entry]
      <3>1. <<o, delivering.entry>> # <<p, at[p]>>
        BY <2>2, <2>3
      <3> QED
        BY <1>t, <2>1, <3>1 DEF TypeOK
    <2> QED
      BY <1>1, <2>1, <2>3
  <1>4. CASE ReaderUpdate
    <2>1. PICK update \in Updates :
             /\ toHost # <<>> /\ update = Head(toHost)
             /\ toHost' = Tail(toHost) /\ delivering' = update
             /\ reading' = reading /\ state' = state
      BY <1>4, UpdateFacts DEF deviceVars
    <2>2. NoNewer(update.value, update.entry, Tail(toHost), reading)
      BY <1>t, <2>1, OrderedTail DEF LinesInOrder
    <2>3. update = toHost[1] /\ 1 \in 1..Len(toHost)
      BY <1>t, <2>1, TailFacts
    <2>4. ASSUME NEW o \in Objects
          PROVE  state[o][update.entry] <= update.value
      <3>1. update.entry \in Entries
        BY DEF Updates
      <3>2. NoNewer(state[o][update.entry], update.entry, toHost, reading)
        BY <3>1 DEF StatesInOrder
      <3> QED
        BY <2>1, <2>3, <3>2 DEF NoNewer
    <2> QED
      BY <2>1, <2>2, <2>4
  <1>5. CASE Callback
    <2>1. PICK p \in Objects, f \in Entries :
             /\ calling # <<>> /\ Head(calling) = <<p, f>>
             /\ calling' = Tail(calling) /\ delivering' = delivering
             /\ state' = IF delivering.entry = f /\ delivering.value # Bad
                         THEN [state EXCEPT ![p][f] = delivering.value] ELSE state
      BY <1>5, CallbackFacts
    <2>2. ASSUME NEW o \in Objects, IsIn(<<o, delivering.entry>>, Tail(calling))
          PROVE  state'[o][delivering.entry] <= delivering.value
      <3>1. state[o][delivering.entry] <= delivering.value
        BY <1>1, <1>t, <2>1, <2>2, InTail
      <3>2. \/ state'[o][delivering.entry] = delivering.value
            \/ state'[o][delivering.entry] = state[o][delivering.entry]
        BY <1>t, <2>1 DEF TypeOK
      <3> QED
        BY <1>t, <3>1, <3>2
    <2> QED
      BY <1>1, <2>1, <2>2
  <1>6. \/ UNCHANGED <<calling, delivering, state>>
        \/ ReaderUpdate \/ Callback
        \/ \E p \in Objects : CreateState(p)
    BY DEF Next, Factory, Reader, ReaderReply, deliveryVars, vars
  <1> QED
    BY <1>2, <1>3, <1>4, <1>5, <1>6

-----------------------------------------------------------------------------
(* The invariant: the newest reading is on its way                         *)

(* A line of an update that was on its way is, when a line is added.       *)
LEMMA StillInLines ==
  ASSUME FactoryTypeOK, Device, NEW line, IsIn(line, toHost)
  PROVE  IsIn(line, toHost')
  <1>1. toHost \in Seq(HostLines)
    BY DEF FactoryTypeOK
  <1>2. \/ toHost' = toHost
        \/ \E added \in HostLines : toHost' = Append(toHost, added)
    BY DeviceFacts
  <1>3. ASSUME NEW added \in HostLines, toHost' = Append(toHost, added)
        PROVE  IsIn(line, toHost')
    <2>1. IsIn(line, Append(toHost, added))
      BY <1>1, InAppend
    <2> QED
      BY <1>3, <2>1
  <1> QED
    BY <1>2, <1>3

(* Once the device has changed a reading after it got a subscribe, the     *)
(* state has it or it is on its way, in every step.                        *)
LEMMA StepNewestIsOnItsWay ==
  ASSUME IInv, [Next]_vars
  PROVE  NewestIsOnItsWay'
  <1> DEFINE Follows(o, e) ==
               \/ state[o][e] = reading[e]
               \/ IsIn(Update(e, reading[e]), toHost)
               \/ delivering = Update(e, reading[e]) /\ IsIn(<<o, e>>, calling)
             Changed(o, e) == since[o][e] # None /\ reading[e] # since[o][e]
  <1> SUFFICES ASSUME NEW o \in Objects, NEW e \in Selected, Changed(o, e)'
               PROVE  Follows(o, e)'
    BY DEF NewestIsOnItsWay
  <1>i. /\ TypeOK /\ OneCommand /\ NothingBeforeItIsMade
        /\ RegisteredBeforeSubscribe /\ ReportsSinceSubscribe
        /\ StatesInOrder /\ DeliveryInOrder
        /\ Changed(o, e) => Follows(o, e)
    BY DEF IInv, NewestIsOnItsWay
  <1>t. /\ e \in Entries /\ FactoryTypeOK
        /\ toHost \in Seq(HostLines)
        /\ calling \in Seq(Objects \X Entries)
        /\ state[o][e] \in Int /\ reading[e] \in 0..MaxReading
    <2>1. e \in Entries
      BY ParameterFacts
    <2>2. state[o][e] \in None..MaxReading /\ None..MaxReading \subseteq Int
      BY <1>i, <2>1, ParameterFacts DEF TypeOK
    <2> QED
      BY <1>i, <2>1, <2>2 DEF TypeOK, FactoryTypeOK
  <1>1. CASE UNCHANGED <<since, reading, state, toHost, delivering, calling>>
    BY <1>1, <1>i
  <1>2. ASSUME NEW p \in Objects, CreateState(p)
        PROVE  Follows(o, e)'
    <2>1. /\ factory[p] = "queried"
          /\ state' = [state EXCEPT ![p][at[p]] = initial[p]]
          /\ UNCHANGED <<since, reading, toHost, delivering, calling>>
      BY <1>2 DEF CreateState, NextEntry, Moves, deviceVars
    <2>2. at[p] \in Entries /\ ~IsIn(<<p, at[p]>>, callbacks)
      BY <1>i, <2>1 DEF NothingBeforeItIsMade, ToBeMade, TypeOK, FactoryTypeOK
    <2>3. Changed(o, e)
      BY <2>1
    <2>4. IsIn(<<o, e>>, callbacks)
      BY <1>i, <1>t, <2>3 DEF RegisteredBeforeSubscribe
    <2>5. <<o, e>> # <<p, at[p]>>
      BY <2>2, <2>4
    <2>6. state'[o][e] = state[o][e]
      BY <1>i, <1>t, <2>1, <2>5 DEF TypeOK
    <2> QED
      BY <1>i, <2>1, <2>3, <2>6
  <1>3. CASE ReaderReply
    <2>1. PICK line \in HostLines :
             /\ toHost # <<>> /\ line = Head(toHost) /\ toHost' = Tail(toHost)
             /\ line.kind # "S"
             /\ UNCHANGED <<since, reading, state, delivering, calling>>
      BY <1>3, <1>i, ReplyFacts DEF deviceVars, deliveryVars
    <2>2. line # Update(e, reading[e])
      BY <2>1 DEF Update
    <2>3. IsIn(Update(e, reading[e]), toHost) => IsIn(Update(e, reading[e]), toHost')
      BY <1>t, <2>1, <2>2, InTail
    <2> QED
      BY <1>i, <2>1, <2>3
  <1>4. CASE ReaderUpdate
    <2>1. /\ calling = <<>> /\ toHost # <<>> /\ toHost' = Tail(toHost)
          /\ delivering' = Head(toHost) /\ calling' = callbacks
          /\ UNCHANGED <<since, reading, state, callbacks>>
      BY <1>4, <1>i, UpdateFacts DEF deviceVars
    <2>2. Changed(o, e)
      BY <2>1
    <2>3. IsIn(<<o, e>>, callbacks)
      BY <1>i, <1>t, <2>2 DEF RegisteredBeforeSubscribe
    <2>4. ~IsIn(<<o, e>>, calling)
      BY <2>1 DEF IsIn
    <2>5. IsIn(Update(e, reading[e]), toHost) =>
             \/ IsIn(Update(e, reading[e]), toHost')
             \/ delivering' = Update(e, reading[e])
      BY <1>t, <2>1, InTail
    <2> QED
      BY <1>i, <2>1, <2>2, <2>3, <2>4, <2>5
  <1>5. CASE Callback
    <2>1. PICK p \in Objects, f \in Entries :
             /\ calling # <<>> /\ Head(calling) = <<p, f>>
             /\ calling' = Tail(calling)
             /\ state' = IF delivering.entry = f /\ delivering.value # Bad
                         THEN [state EXCEPT ![p][f] = delivering.value] ELSE state
             /\ UNCHANGED <<since, reading, toHost, delivering>>
      BY <1>5, <1>i, CallbackFacts DEF factoryVars, deviceVars
    <2>2. Changed(o, e)
      BY <2>1
    <2>3. CASE state[o][e] = reading[e]
      <3>1. CASE <<o, e>> = <<p, f>> /\ delivering.entry = f /\ delivering.value # Bad
        <4>1. IsIn(<<o, e>>, calling)
          BY <1>t, <2>1, <3>1, InTail
        <4>2. state[o][e] <= delivering.value /\ delivering.value <= reading[e]
          BY <1>i, <2>1, <3>1, <4>1 DEF DeliveryInOrder, NoNewer
        <4>3. delivering.value \in Int
          BY <1>i, ParameterFacts DEF TypeOK
        <4>4. delivering.value = reading[e]
          BY <1>t, <2>3, <4>2, <4>3
        <4>5. state'[o][e] = delivering.value
          BY <1>i, <1>t, <2>1, <3>1 DEF TypeOK
        <4> QED
          BY <2>1, <4>4, <4>5
      <3>2. CASE ~(<<o, e>> = <<p, f>> /\ delivering.entry = f /\ delivering.value # Bad)
        <4>1. state'[o][e] = state[o][e]
          BY <1>i, <1>t, <2>1, <3>2 DEF TypeOK
        <4> QED
          BY <2>1, <2>3, <4>1
      <3> QED
        BY <3>1, <3>2
    <2>4. CASE IsIn(Update(e, reading[e]), toHost)
      BY <2>1, <2>4
    <2>5. CASE delivering = Update(e, reading[e]) /\ IsIn(<<o, e>>, calling)
      <3>1. CASE <<o, e>> = <<p, f>>
        <4>1. delivering.entry = e /\ delivering.value = reading[e]
          BY <2>5 DEF Update
        <4>2. delivering.value # Bad
          BY <1>t, <4>1, ParameterFacts
        <4>3. state'[o][e] = reading[e]
          BY <1>i, <1>t, <2>1, <3>1, <4>1, <4>2 DEF TypeOK
        <4> QED
          BY <2>1, <4>3
      <3>2. CASE <<o, e>> # <<p, f>>
        <4>1. IsIn(<<o, e>>, calling')
          BY <1>t, <2>1, <2>5, <3>2, InTail
        <4> QED
          BY <2>1, <2>5, <4>1
      <3> QED
        BY <3>1, <3>2
    <2> QED
      BY <1>i, <2>2, <2>3, <2>4, <2>5
  <1>6. CASE DeviceAnswers /\ UNCHANGED deliveryVars
    <2>1. PICK command \in Commands, kind \in {"R", "ERR"} :
             /\ toHost' = Append(toHost, Reply(command, kind))
             /\ IF kind = "R" /\ command.name = "subscribe"
                THEN since' = [since EXCEPT ![command.of] = reading]
                ELSE since' = since
             /\ reading' = reading
      BY <1>6, <1>t, AnswerFacts
    <2>2. since'[o] = since[o] \/ since'[o] = reading
      BY <1>t, <2>1 DEF FactoryTypeOK
    <2>3. Changed(o, e)
      BY <2>1, <2>2
    <2>4. IsIn(Update(e, reading[e]), toHost) => IsIn(Update(e, reading[e]), toHost')
      BY <1>6, <1>t, StillInLines DEF Device
    <2> QED
      BY <1>6, <1>i, <2>1, <2>3, <2>4 DEF deliveryVars
  <1>7. ASSUME NEW f \in Entries, DeviceReads(f), UNCHANGED deliveryVars
        PROVE  Follows(o, e)'
    <2>1. PICK n \in 1..MaxReading :
             /\ reading' = [reading EXCEPT ![f] = n]
             /\ toHost' = IF f \in subscribed THEN Append(toHost, Update(f, n))
                          ELSE toHost
      BY <1>7, <1>t, DeviceReadsTypes
    <2>2. since' = since
      BY <1>7 DEF DeviceReads
    <2>3. CASE f = e
      <3>1. e \in subscribed
        BY <1>i, <1>t, <2>2 DEF ReportsSinceSubscribe
      <3>2. n \in 0..Bad
        BY ParameterFacts
      <3>3. Update(e, n) \in HostLines
        BY <1>t, <3>2, MessageTypes
      <3>4. reading'[e] = n
        BY <1>t, <2>1, <2>3 DEF FactoryTypeOK
      <3>5. IsIn(Update(e, n), Append(toHost, Update(e, n)))
        BY <1>t, <3>3, InAppend
      <3> QED
        BY <2>1, <2>3, <3>1, <3>4, <3>5
    <2>4. CASE f # e
      <3>1. reading'[e] = reading[e]
        BY <1>t, <2>1, <2>4 DEF FactoryTypeOK
      <3>2. Changed(o, e)
        BY <2>2, <3>1
      <3>3. IsIn(Update(e, reading[e]), toHost) => IsIn(Update(e, reading[e]), toHost')
        BY <1>7, <1>t, StillInLines DEF Device
      <3> QED
        BY <1>7, <1>i, <3>1, <3>2, <3>3 DEF deliveryVars
    <2> QED
      BY <2>3, <2>4
  <1>8. CASE DeviceGarbles /\ UNCHANGED deliveryVars
    <2>1. UNCHANGED <<since, reading>>
      BY <1>8 DEF DeviceGarbles
    <2>2. IsIn(Update(e, reading[e]), toHost) => IsIn(Update(e, reading[e]), toHost')
      BY <1>8, <1>t, StillInLines DEF Device
    <2> QED
      BY <1>8, <1>i, <2>1, <2>2 DEF deliveryVars
  <1>9. ASSUME NEW p \in Objects, SetIOType(p) \/ Query(p) \/ Subscribe(p),
               UNCHANGED deliveryVars
        PROVE  UNCHANGED <<since, reading, state, toHost, delivering, calling>>
    BY <1>9, <1>i, SendFacts DEF deviceVars, deliveryVars
  <1>10. UNCHANGED vars =>
           UNCHANGED <<since, reading, state, toHost, delivering, calling>>
    BY DEF vars, factoryVars, deviceVars, deliveryVars
  <1> HIDE DEF Follows, Changed
  <1> QED
    BY <1>1, <1>2, <1>3, <1>4, <1>5, <1>6, <1>7, <1>8, <1>9, <1>10
       DEF Next, Factory, Reader, Device

-----------------------------------------------------------------------------

(* The invariant holds initially.                                          *)
LEMMA InitIInv == Init => IInv
  <1> SUFFICES ASSUME Init PROVE IInv
    OBVIOUS
  <1>1. TypeOK
    BY InitTypes
  <1>2. /\ toDevice = <<>> /\ toHost = <<>> /\ callbacks = <<>> /\ calling = <<>>
        /\ at = [o \in Objects |-> 1] /\ factory = [o \in Objects |-> "idle"]
        /\ since = [o \in Objects |-> [e \in Entries |-> None]]
        /\ state = [o \in Objects |-> [e \in Entries |-> None]]
        /\ reading = [e \in Entries |-> 0]
    BY DEF Init, InitFactory
  <1>3. OneCommand
    BY <1>2 DEF OneCommand, OneEach
  <1>4. NothingBeforeItIsMade
    BY <1>2 DEF NothingBeforeItIsMade, IsIn
  <1>5. RegisteredBeforeSubscribe
    <2>1. \A e \in Entries : ~(e < 1)
      BY ParameterFacts DEF Entries
    <2> QED
      BY <1>2, <2>1 DEF RegisteredBeforeSubscribe
  <1>6. ReportsSinceSubscribe
    BY <1>2 DEF ReportsSinceSubscribe
  <1>7. LinesInOrder
    BY <1>2 DEF LinesInOrder, Ordered
  <1>8. StatesInOrder
    BY <1>2, ParameterFacts DEF StatesInOrder, NoNewer
  <1>9. InitialInOrder /\ DeliveryInOrder /\ NewestIsOnItsWay
    BY <1>2, ParameterFacts DEF InitialInOrder, DeliveryInOrder, NewestIsOnItsWay
  <1> QED
    BY <1>1, <1>3, <1>4, <1>5, <1>6, <1>7, <1>8, <1>9 DEF IInv

(* Every step keeps it.                                                    *)
LEMMA StepIInv == IInv /\ [Next]_vars => IInv'
  <1> SUFFICES ASSUME IInv, [Next]_vars PROVE IInv'
    OBVIOUS
  <1>1. /\ TypeOK /\ OneCommand /\ NothingBeforeItIsMade
        /\ RegisteredBeforeSubscribe /\ ReportsSinceSubscribe
        /\ LinesInOrder /\ StatesInOrder /\ InitialInOrder /\ DeliveryInOrder
    BY DEF IInv
  <1>2. TypeOK'
    BY <1>1, StepTypes
  <1>3. OneCommand' /\ NothingBeforeItIsMade'
    BY <1>1, StepOneCommand, StepNothingBeforeItIsMade
  <1>4. RegisteredBeforeSubscribe' /\ ReportsSinceSubscribe'
    BY <1>1, StepRegisteredBeforeSubscribe, StepReportsSinceSubscribe
  <1>5. LinesInOrder' /\ StatesInOrder'
    BY <1>1, StepLinesInOrder, StepStatesInOrder
  <1>6. InitialInOrder' /\ DeliveryInOrder'
    BY <1>1, StepInitialInOrder, StepDeliveryInOrder
  <1>7. NewestIsOnItsWay'
    BY StepNewestIsOnItsWay
  <1> QED
    BY <1>2, <1>3, <1>4, <1>5, <1>6, <1>7 DEF IInv

(* However many objects are made of however many entries, the factories,   *)
(* the callbacks and the states stay within their types.                   *)
THEOREM TypeCorrect == Spec => []TypeOK
  BY InitTypes, StepTypes, PTL DEF Spec

(* Each factory has one command on its way, each state is registered when  *)
(* it is made and before the subscribe command, and replies, updates and   *)
(* states are all in the order of the device's readings.                   *)
THEOREM Invariance == Spec => []IInv
  BY InitIInv, StepIInv, PTL DEF Spec

(* The first device update cannot be missed, nor a later one: a state is   *)
(* the device's reading, or an update of it is still to be delivered.      *)
THEOREM NoUpdateIsMissed == Spec => []StatesFollowDevice
  <1>1. IInv => StatesFollowDevice
    <2> SUFFICES ASSUME IInv, NEW o \in Objects, NEW e \in Selected,
                        since[o][e] # None, reading[e] # since[o][e],
                        state[o][e] # reading[e]
                 PROVE  OnItsWay(e)
      BY DEF StatesFollowDevice
    <2>1. \/ IsIn(Update(e, reading[e]), toHost)
          \/ delivering = Update(e, reading[e]) /\ IsIn(<<o, e>>, calling)
      BY DEF IInv, NewestIsOnItsWay
    <2>2. CASE IsIn(Update(e, reading[e]), toHost)
      BY <2>2 DEF OnItsWay, IsIn, Update
    <2>3. CASE delivering = Update(e, reading[e]) /\ IsIn(<<o, e>>, calling)
      BY <2>3 DEF OnItsWay, IsIn, Update
    <2> QED
      BY <2>1, <2>2, <2>3
  <1> QED
    BY <1>1, Invariance, PTL

(* A state never goes back to an older reading, whatever the order in      *)
(* which the objects of a port are made and its updates come in.           *)
THEOREM NoStateGoesBack == Spec => StatesNeverGoBack
  <1> DEFINE Forward == \A o \in Objects : \A e \in Entries : state'[o][e] >= state[o][e]
  <1>1. IInv /\ [Next]_vars => [Forward]_vars
    <2> SUFFICES ASSUME IInv, [Next]_vars, NEW o \in Objects, NEW e \in Entries
                 PROVE  state'[o][e] >= state[o][e]
      OBVIOUS
    <2>i. TypeOK /\ NothingBeforeItIsMade /\ DeliveryInOrder
      BY DEF IInv
    <2>t. state[o][e] \in None..MaxReading /\ None..MaxReading \subseteq Int
      BY <2>i, ParameterFacts DEF TypeOK
    <2>1. CASE state'[o][e] = state[o][e]
      BY <2>1, <2>t
    <2>2. ASSUME NEW p \in Objects, CreateState(p)
          PROVE  state'[o][e] >= state[o][e]
      <3>1. factory[p] = "queried" /\ state' = [state EXCEPT ![p][at[p]] = initial[p]]
        BY <2>2 DEF CreateState, NextEntry, Moves
      <3>2. CASE <<o, e>> = <<p, at[p]>>
        <4>1. state[o][e] = None
          BY <2>i, <3>1, <3>2 DEF NothingBeforeItIsMade, ToBeMade
        <4>2. state'[o][e] = initial[p] /\ initial[p] \in None..MaxReading
          BY <2>i, <3>1, <3>2 DEF TypeOK, FactoryTypeOK
        <4> QED
          BY <4>1, <4>2, ParameterFacts
      <3>3. CASE <<o, e>> # <<p, at[p]>>
        BY <2>1, <2>i, <3>1, <3>3 DEF TypeOK
      <3> QED
        BY <3>2, <3>3
    <2>3. CASE Callback
      <3>1. PICK p \in Objects, f \in Entries :
               /\ calling # <<>> /\ Head(calling) = <<p, f>>
               /\ state' = IF delivering.entry = f /\ delivering.value # Bad
                           THEN [state EXCEPT ![p][f] = delivering.value] ELSE state
        BY <2>3, <2>i, CallbackFacts
      <3>2. CASE <<o, e>> = <<p, f>> /\ delivering.entry = f /\ delivering.value # Bad
        <4>1. IsIn(<<o, e>>, calling)
          BY <2>i, <3>1, <3>2, InTail DEF TypeOK
        <4>2. state[o][e] <= delivering.value
          BY <2>i, <3>1, <3>2, <4>1 DEF DeliveryInOrder
        <4>3. state'[o][e] = delivering.value /\ delivering.value \in Int
          BY <2>i, <3>1, <3>2, ParameterFacts DEF TypeOK
        <4> QED
          BY <2>t, <4>2, <4>3
      <3>3. CASE ~(<<o, e>> = <<p, f>> /\ delivering.entry = f /\ delivering.value # Bad)
        BY <2>1, <2>i, <3>1, <3>3 DEF TypeOK
      <3> QED
        BY <3>2, <3>3
    <2>4. \/ state' = state
          \/ Callback
          \/ \E p \in Objects : CreateState(p)
      BY DEF Next, Factory, Reader, ReaderReply, ReaderUpdate, deliveryVars, vars
    <2> QED
      BY <2>1, <2>2, <2>3, <2>4
  <1> QED
    BY <1>1, Invariance, PTL DEF Spec, StatesNeverGoBack
=============================================================================
