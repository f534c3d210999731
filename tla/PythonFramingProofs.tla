------------------------- MODULE PythonFramingProofs -------------------------
(***************************************************************************)
(* What holds of PythonFraming for every stream of bytes, all texts of     *)
(* commands and every size of reads.                                       *)
(***************************************************************************)
EXTENDS PythonFraming, FiniteSetTheorems, SequenceTheorems,
        WellFoundedInduction, TLAPS

-----------------------------------------------------------------------------
(* The inductive invariant of the reader.                                  *)

(* The bytes in `line` are the last that were accepted, from place m, or a *)
(* line feed behind it, on.                                                *)
LineIsBehind(m) ==
    LET b == Len(accepted) - Len(line) + 1
    IN  /\ b >= m + 1
        /\ LineBegins(m, b)
        /\ line = SubSeq(accepted, b, Len(accepted))

IsFirstMarker(m) == m \in MarkerEnds /\ \A j \in MarkerEnds : m <= j

(* Before the marker nothing is dispatched, and the line at hand does not  *)
(* begin with it.                                                          *)
Framed ==
    ~failed =>
        \/ /\ initialized
           /\ \E m \in MarkerEnds :
                 IsFirstMarker(m) /\ LinesAreCutBehind(m) /\ LineIsBehind(m)
        \/ /\ ~initialized
           /\ MarkerEnds = {}
           /\ lines = <<>>
           /\ LineIsBehind(0)
           /\ ~IsPrefix(Marker, line)

-----------------------------------------------------------------------------
(* The inductive invariant of the writers.                                 *)

HasSlot(c) == \E i \in 1..Len(slots) : slots[i] = c

(* initialize() writes by itself, and only before there are calls.         *)
OpenerFirst ==
    /\ boot # "ready" => /\ \A c \in Commands : at[c] = "idle"
                         /\ \A i \in 1..Len(wire) : wire[i].of = Opener
    /\ writeLock = Opener => boot \in {"crlf", "startCLI"}

(* A call has one slot from the time it holds the lock, and the holder has *)
(* the last one.                                                           *)
SlotsOnce ==
    /\ \A i, j \in 1..Len(slots) : slots[i] = slots[j] => i = j
    /\ \A c \in Commands : at[c] \in {"idle", "checked"} => ~HasSlot(c)
    /\ \A i \in 1..Len(wire) : wire[i].of \in Commands => HasSlot(wire[i].of)
    /\ writeLock \in Commands =>
          slots # <<>> /\ slots[Len(slots)] = writeLock

OrderedWire ==
    \A i, j \in 1..Len(wire) : i < j /\ wire[i].of \in Commands =>
        /\ wire[j].of \in Commands
        /\ \A p, q \in 1..Len(slots) :
              slots[p] = wire[i].of /\ slots[q] = wire[j].of => p <= q

(* How far a thread has come with what it writes: the holder goes on at    *)
(* the end of the wire with the next byte of its line.                     *)
Upto(who) == IF who = Opener /\ boot = "crlf" THEN 2 ELSE Len(Line(who))
Progress(who, b, n) ==
    /\ who = writeLock => /\ b + n = Len(wire)
                          /\ rest = SubSeq(Line(who), n + 1, Upto(who))
    /\ who \in Commands /\ at[who] \in {"idle", "checked"} => n = 0
    /\ who \in Commands /\ at[who] = "returned" => n = Len(Line(who))
    /\ who = Opener /\ writeLock # Opener =>
          /\ boot = "crlf" => n = 0
          /\ boot = "startCLI" => n = 2

IsWritten(who) ==
    \E b \in 0..Len(wire) : \E n \in 0..Len(Line(who)) :
        b + n <= Len(wire) /\ Wrote(who, b, n) /\ Progress(who, b, n)

LinesAreWritten == \A who \in Commands \cup {Opener} : IsWritten(who)

IInv ==
    /\ TypeOK
    /\ Framed
    /\ OpenerFirst
    /\ SlotsOnce
    /\ OrderedWire
    /\ LinesAreWritten

-----------------------------------------------------------------------------
(* Sequences                                                               *)

(* What a piece of a sequence consists of.                                 *)
LEMMA PieceFacts ==
  ASSUME NEW S, NEW s \in Seq(S), NEW m \in Nat \ {0}, NEW n \in 0..Len(s),
         NEW u, u = SubSeq(s, m, n)
  PROVE  /\ u \in Seq(S)
         /\ Len(u) = IF m <= n THEN n - m + 1 ELSE 0
         /\ \A i \in 1..n - m + 1 : u[i] = s[m + i - 1]
  <1>1. \A i \in m..n : s[i] \in S
    BY ElementOfSeq
  <1> QED
    BY <1>1, SubSeqProperties

(* What the beginning of a sequence and the rest of it are.                *)
LEMMA CutFacts ==
  ASSUME NEW S, NEW s \in Seq(S), NEW n \in 0..Len(s)
  PROVE  /\ Len(s) \in Nat
         /\ SubSeq(s, 1, n) \in Seq(S)
         /\ Len(SubSeq(s, 1, n)) = n
         /\ SubSeq(s, n + 1, Len(s)) \in Seq(S)
         /\ Len(SubSeq(s, n + 1, Len(s))) = Len(s) - n
  <1>1. Len(s) \in Nat /\ n \in Nat
    BY LenProperties
  <1>2. Len(s) \in 0..Len(s) /\ n + 1 \in Nat \ {0} /\ 1 \in Nat \ {0}
    BY <1>1
  <1>3. SubSeq(s, 1, n) \in Seq(S) /\ Len(SubSeq(s, 1, n)) = n
    BY <1>1, <1>2, PieceFacts
  <1>4. /\ SubSeq(s, n + 1, Len(s)) \in Seq(S)
        /\ Len(SubSeq(s, n + 1, Len(s))) = Len(s) - n
    BY <1>1, <1>2, PieceFacts
  <1> QED
    BY <1>1, <1>3, <1>4

(* A sequence is what it has at each place.                                *)
LEMMA SamePlaces ==
  ASSUME NEW S, NEW s \in Seq(S), NEW t \in Seq(S), NEW n \in Nat,
         Len(s) = n, Len(t) = n, \A i \in 1..n : s[i] = t[i]
  PROVE  s = t
  BY SeqEqual

(* What one sequence behind another is.                                    *)
LEMMA JoinFacts ==
  ASSUME NEW S, NEW s \in Seq(S), NEW t \in Seq(S), NEW u, u = s \o t
  PROVE  /\ u \in Seq(S)
         /\ Len(s) \in Nat /\ Len(t) \in Nat /\ Len(u) = Len(s) + Len(t)
         /\ \A i \in 1..Len(s) : u[i] = s[i]
         /\ \A i \in 1..Len(t) : u[Len(s) + i] = t[i]
  <1>1. Len(s) \in Nat /\ Len(t) \in Nat
    BY LenProperties
  <1>2. /\ s \o t \in Seq(S) /\ Len(s \o t) = Len(s) + Len(t)
        /\ \A i \in 1 .. Len(s) + Len(t) : (s \o t)[i] =
                     IF i <= Len(s) THEN s[i] ELSE t[i - Len(s)]
    BY ConcatProperties
  <1>3. \A i \in 1..Len(s) : (s \o t)[i] = s[i]
    BY <1>1, <1>2
  <1>4. \A i \in 1..Len(t) : (s \o t)[Len(s) + i] = t[i]
    <2> TAKE i \in 1..Len(t)
    <2>1. /\ Len(s) + i \in 1..Len(s) + Len(t) /\ ~(Len(s) + i <= Len(s))
          /\ Len(s) + i - Len(s) = i
      BY <1>1
    <2> QED
      BY <1>2, <2>1
  <1> QED
    BY <1>1, <1>2, <1>3, <1>4, Zenon

(* The numbers are well-founded by their order as a set of pairs.          *)
LEMMA SmallerIsWellFounded ==
  IsWellFoundedOn({p \in Nat \X Nat : p[1] < p[2]}, Nat)
  <1>1. ASSUME NEW f \in [Nat -> Nat], \A n \in Nat : f[n + 1] < f[n]
        PROVE  FALSE
    <2>1. ASSUME NEW n \in Nat
          PROVE  <<f[n + 1], f[n]>> \in OpToRel(<, Nat)
      <3>1. f[n + 1] \in Nat /\ f[n] \in Nat /\ f[n + 1] < f[n]
        BY <1>1
      <3> DEFINE pair == <<f[n + 1], f[n]>>
      <3>2. pair \in Nat \X Nat /\ pair[1] < pair[2]
        BY <3>1
      <3> HIDE DEF pair
      <3>3. pair \in OpToRel(<, Nat)
        BY <3>2, Zenon DEF OpToRel
      <3> QED
        BY <3>3 DEF pair
    <2> QED
      BY <2>1, NatLessThanWellFounded, Zenon DEF IsWellFoundedOn
  <1>2. ASSUME NEW f \in [Nat -> Nat],
               \A n \in Nat : <<f[n + 1], f[n]>> \in {p \in Nat \X Nat : p[1] < p[2]}
        PROVE  FALSE
    BY <1>1, <1>2
  <1> QED
    BY <1>2 DEF IsWellFoundedOn

(* A set of places of a text that is not empty has a last one.             *)
LEMMA LastPlace ==
  ASSUME NEW m \in Nat, NEW S \in SUBSET (1..m), S # {}
  PROVE  \E k \in S : \A j \in S : j <= k
  <1> DEFINE Below == {k \in Nat : m - k \in S}
             R == {p \in Nat \X Nat : p[1] < p[2]}
  <1>1. Below # {} /\ Below \subseteq Nat
    <2>1. PICK x \in S : TRUE
      OBVIOUS
    <2>2. m - x \in Nat /\ m - (m - x) = x
      BY <2>1
    <2> QED
      BY <2>1, <2>2
  <1>2. PICK k \in Below : \A j \in Below : ~ (<<j, k>> \in R)
    <2> HIDE DEF Below
    <2>1. IsWellFoundedOn(R, Nat)
      BY SmallerIsWellFounded
    <2> HIDE DEF R
    <2> QED
      BY <1>1, <2>1, WFMin
  <1>3. \A j \in Below : j >= k
    <2> TAKE j \in Below
    <2>1. ~ (<<j, k>> \in R) /\ j \in Nat /\ k \in Nat
      BY <1>2
    <2> HIDE DEF Below
    <2>2. ~ (j < k)
      BY <2>1
    <2> QED
      BY <2>1, <2>2
  <1>4. m - k \in S /\ k \in Nat
    OBVIOUS
  <1>5. \A x \in S : x <= m - k
    <2> TAKE x \in S
    <2>1. m - x \in Nat /\ m - (m - x) = x /\ x \in Nat
      OBVIOUS
    <2>2. m - x \in Below
      BY <2>1
    <2>3. m - x >= k
      BY <2>2, <1>3
    <2> HIDE DEF Below
    <2> QED
      BY <2>1, <2>3, <1>4
  <1> QED
    BY <1>4, <1>5

(* A line ending is two bytes, startCLI with it three.                     *)
LEMMA CrlfFacts ==
  /\ Crlf \in Seq(Bytes) /\ Len(Crlf) = 2
  /\ StartCLI \in Seq(Bytes) /\ Len(StartCLI) = 1
  <1>1. ASSUME NEW S, NEW x \in S, NEW y \in S
        PROVE  /\ <<x, y>> \in Seq(S) /\ Len(<<x, y>>) = 2
               /\ <<x>> \in Seq(S) /\ Len(<<x>>) = 1
    OBVIOUS
  <1>2. "cr" \in Bytes /\ "lf" \in Bytes /\ "startCLI" \in Bytes
    BY DEF Bytes, Ends
  <1> QED
    BY <1>1, <1>2, Zenon DEF Crlf, StartCLI

(* What LineOf writes is a text with one line ending.                      *)
LEMMA LineOfFacts ==
  ASSUME NEW text \in Seq(Bytes)
  PROVE  /\ LineOf(text) \in Seq(Bytes)
         /\ Len(LineOf(text)) \in Nat /\ Len(LineOf(text)) >= 2
  <1> DEFINE kept == {i \in DOMAIN text : text[i] \notin Ends}
             last == IF kept = {} THEN 0
                     ELSE CHOOSE i \in kept : \A j \in kept : j <= i
  <1>1. Len(text) \in Nat /\ DOMAIN text = 1..Len(text)
    BY LenProperties
  <1>2. last \in 0..Len(text)
    <2>1. CASE kept = {}
      BY <1>1, <2>1
    <2>2. CASE kept # {}
      <3>1. \E i \in kept : \A j \in kept : j <= i
        BY <1>1, <2>2, LastPlace
      <3>2. last \in kept
        BY <2>2, <3>1
      <3> QED
        BY <1>1, <3>2
    <2> QED
      BY <2>1, <2>2
  <1>3. /\ SubSeq(text, 1, last) \in Seq(Bytes)
        /\ Len(SubSeq(text, 1, last)) \in Nat
    <2> HIDE DEF last
    <2> QED
      BY <1>2, CutFacts, LenProperties
  <1>4. Crlf \in Seq(Bytes) /\ Len(Crlf) = 2
    BY CrlfFacts
  <1>5. LineOf(text) = SubSeq(text, 1, last) \o Crlf
    BY DEF LineOf
  <1> HIDE DEF last
  <1>6. ASSUME NEW p \in Seq(Bytes)
        PROVE  p \o Crlf \in Seq(Bytes) /\ Len(p \o Crlf) = Len(p) + 2
    <2>1. Crlf \in Seq(Bytes)
      BY <1>4
    <2>2. p \o Crlf \in Seq(Bytes) /\ Len(p \o Crlf) = Len(p) + Len(Crlf)
      BY <2>1, ConcatProperties
    <2> QED
      BY <1>4, <2>2, Zenon
  <1>7. /\ SubSeq(text, 1, last) \o Crlf \in Seq(Bytes)
        /\ Len(SubSeq(text, 1, last) \o Crlf) = Len(SubSeq(text, 1, last)) + 2
    BY <1>3, <1>6, Zenon
  <1> QED
    BY <1>3, <1>5, <1>7

(* What a thread has to write, and how initialize() comes by it.           *)
LEMMA LineFacts ==
  /\ \A who \in Commands \cup {Opener} :
        /\ Line(who) \in Seq(Bytes)
        /\ Len(Line(who)) \in Nat /\ Len(Line(who)) >= 2
  /\ Len(Line(Opener)) = 5
  /\ SubSeq(Line(Opener), 1, 2) = Crlf
  /\ SubSeq(Line(Opener), 3, 5) = StartCLI \o Crlf
  /\ \A c \in Commands : Line(c) = LineOf(Text[c])
  <1>1. ASSUME NEW c \in Commands
        PROVE  /\ Line(c) = LineOf(Text[c])
               /\ Line(c) \in Seq(Bytes)
               /\ Len(Line(c)) \in Nat /\ Len(Line(c)) >= 2
    <2>1. Text[c] \in Seq(Bytes) /\ c # Opener
      BY TextAssumption, CommandsAssumption
    <2>2. Line(c) = LineOf(Text[c])
      BY <2>1 DEF Line
    <2> QED
      BY <2>1, <2>2, LineOfFacts, Zenon
  <1>2. Line(Opener) = Crlf \o StartCLI \o Crlf
    BY DEF Line
  <1>3. ASSUME NEW p \in Seq(Bytes), NEW q \in Seq(Bytes), Len(p) = 2, Len(q) = 1,
               NEW t, t = p \o q \o p
        PROVE  /\ t \in Seq(Bytes) /\ Len(t) = 5
               /\ SubSeq(t, 1, 2) = p
               /\ SubSeq(t, 3, 5) = q \o p
    <2>0. p \in Seq(Bytes) /\ q \in Seq(Bytes)
      BY <1>3
    <2>1. PICK u : u = p \o q
      OBVIOUS
    <2>1a. /\ u \in Seq(Bytes)
           /\ Len(p) \in Nat /\ Len(q) \in Nat /\ Len(u) = Len(p) + Len(q)
           /\ \A i \in 1..Len(p) : u[i] = p[i]
           /\ \A i \in 1..Len(q) : u[Len(p) + i] = q[i]
      BY <2>0, <2>1, JoinFacts
    <2>2. PICK v : v = q \o p
      OBVIOUS
    <2>2a. /\ v \in Seq(Bytes)
           /\ Len(q) \in Nat /\ Len(p) \in Nat /\ Len(v) = Len(q) + Len(p)
           /\ \A i \in 1..Len(q) : v[i] = q[i]
           /\ \A i \in 1..Len(p) : v[Len(q) + i] = p[i]
      BY <2>0, <2>2, JoinFacts
    <2>3. PICK w : w = u \o p
      OBVIOUS
    <2>3a. /\ w \in Seq(Bytes)
           /\ Len(u) \in Nat /\ Len(p) \in Nat /\ Len(w) = Len(u) + Len(p)
           /\ \A i \in 1..Len(u) : w[i] = u[i]
           /\ \A i \in 1..Len(p) : w[Len(u) + i] = p[i]
      BY <2>0, <2>1, <2>1a, <2>3, JoinFacts
    <2>4. t = w
      BY <1>3, <2>1, <2>3, Zenon
    <2>5. Len(u) = 3 /\ Len(v) = 3 /\ Len(w) = 5
      BY <1>3, <2>1a, <2>2a, <2>3a
    <2>6. w[1] = p[1] /\ w[2] = p[2] /\ w[3] = q[1] /\ w[4] = p[1] /\ w[5] = p[2]
      <3>1. u[1] = p[1] /\ u[2] = p[2] /\ u[2 + 1] = q[1]
        BY <1>3, <2>1a
      <3>2. w[1] = u[1] /\ w[2] = u[2] /\ w[3] = u[3]
        BY <2>3a, <2>5
      <3>3. w[3 + 1] = p[1] /\ w[3 + 2] = p[2]
        BY <1>3, <2>3a, <2>5
      <3> QED
        BY <3>1, <3>2, <3>3
    <2>7. v[1] = q[1] /\ v[2] = p[1] /\ v[3] = p[2]
      <3>1. v[1] = q[1] /\ v[1 + 1] = p[1] /\ v[1 + 2] = p[2]
        BY <1>3, <2>2a
      <3> QED
        BY <3>1
    <2>8. PICK x : x = SubSeq(w, 1, 2)
      OBVIOUS
    <2>9. PICK y : y = SubSeq(w, 3, 5)
      OBVIOUS
    <2>10. x = p
      <3>1. /\ x \in Seq(Bytes) /\ Len(x) = IF 1 <= 2 THEN 2 - 1 + 1 ELSE 0
            /\ \A i \in 1..2 - 1 + 1 : x[i] = w[1 + i - 1]
        <4>1. 2 \in 0..Len(w) /\ 1 \in Nat \ {0} /\ w \in Seq(Bytes)
          BY <2>3a, <2>5
        <4> QED
          BY <2>8, <4>1, PieceFacts
      <3>2. Len(x) = 2 /\ \A i \in 1..2 : x[i] = p[i]
        BY <2>6, <3>1
      <3> QED
        BY <1>3, <3>1, <3>2, SamePlaces
    <2>11. y = v
      <3>1. /\ y \in Seq(Bytes) /\ Len(y) = IF 3 <= 5 THEN 5 - 3 + 1 ELSE 0
            /\ \A i \in 1..5 - 3 + 1 : y[i] = w[3 + i - 1]
        <4>1. 5 \in 0..Len(w) /\ 3 \in Nat \ {0}
          BY <2>5
        <4>2. w \in Seq(Bytes)
          BY <2>3a
        <4> QED
          BY <2>9, <4>1, <4>2, PieceFacts
      <3>2. Len(y) = 3 /\ \A i \in 1..3 : y[i] = v[i]
        BY <2>6, <2>7, <3>1
      <3> QED
        BY <2>2a, <2>5, <3>1, <3>2, SamePlaces, ZenonT(30)
    <2> QED
      BY <2>2, <2>3a, <2>4, <2>5, <2>8, <2>9, <2>10, <2>11, Zenon
  <1>6. /\ Line(Opener) \in Seq(Bytes) /\ Len(Line(Opener)) = 5
        /\ SubSeq(Line(Opener), 1, 2) = Crlf
        /\ SubSeq(Line(Opener), 3, 5) = StartCLI \o Crlf
    BY <1>2, <1>3, CrlfFacts, Zenon
  <1>7. Len(Line(Opener)) \in Nat /\ Len(Line(Opener)) >= 2
    BY <1>6
  <1> QED
    BY <1>1, <1>6, <1>7

(* What one write adds to the wire.                                        *)
LEMMA WrittenFacts ==
  ASSUME NEW S, NEW w \in Seq([of : S, byte : Bytes]), NEW who \in S,
         NEW r \in Seq(Bytes), NEW n \in 1..Len(r)
  PROVE  LET t == w \o [i \in 1..n |-> [of |-> who, byte |-> r[i]]]
         IN  /\ t \in Seq([of : S, byte : Bytes])
             /\ Len(w) \in Nat
             /\ Len(t) = Len(w) + n
             /\ \A i \in 1..Len(w) : t[i] = w[i]
             /\ \A i \in 1..n : t[Len(w) + i] = [of |-> who, byte |-> r[i]]
  <1> DEFINE m == [i \in 1..n |-> [of |-> who, byte |-> r[i]]]
             T == [of : S, byte : Bytes]
  <1>1. n \in Nat /\ Len(r) \in Nat /\ Len(w) \in Nat
    BY LenProperties
  <1>2. \A i \in 1..n : [of |-> who, byte |-> r[i]] \in T
    BY <1>1, ElementOfSeq
  <1>3. m \in Seq(T)
    <2>1. m \in [1..n -> T]
      BY <1>2
    <2>2. m \in UNION {[1..k -> T] : k \in Nat}
      BY <1>1, <2>1, Zenon
    <2> QED
      BY <2>2, SeqDef, Zenon
  <1>4. /\ DOMAIN m = 1..n
        /\ \A i \in 1..n : m[i] = [of |-> who, byte |-> r[i]]
    OBVIOUS
  <1> HIDE DEF m, T
  <1>5. Len(m) = n
    BY <1>1, <1>3, <1>4, LenProperties
  <1>6. /\ w \o m \in Seq(T)
        /\ Len(w \o m) = Len(w) + Len(m)
        /\ \A i \in 1..Len(w) + Len(m) : (w \o m)[i] =
              IF i <= Len(w) THEN w[i] ELSE m[i - Len(w)]
    BY <1>3, ConcatProperties DEF T
  <1>7. \A i \in 1..Len(w) : (w \o m)[i] = w[i]
    BY <1>1, <1>5, <1>6
  <1>8. \A i \in 1..n : (w \o m)[Len(w) + i] = m[i]
    <2> TAKE i \in 1..n
    <2>1. Len(w) + i \in 1..Len(w) + Len(m) /\ ~(Len(w) + i <= Len(w))
          /\ Len(w) + i - Len(w) = i
      BY <1>1, <1>5
    <2> QED
      BY <1>6, <2>1
  <1> QED
    BY <1>1, <1>4, <1>5, <1>6, <1>7, <1>8 DEF m, T

-----------------------------------------------------------------------------
(* The types                                                               *)

(* Initially nothing is written, received or accepted.                     *)
LEMMA InitTypes == Init => TypeOK
  <1> SUFFICES ASSUME Init PROVE TypeOK
    OBVIOUS
  <1>1. /\ <<>> \in Seq(Bytes) /\ <<>> \in Seq(Seq(Bytes)) /\ <<>> \in Seq(Commands)
        /\ <<>> \in Seq([of : Commands \cup {Opener}, byte : Bytes])
        /\ \A i \in DOMAIN <<>> : <<>>[i] # "lf"
    OBVIOUS
  <1>2. stream \in Seq(Bytes)
    BY StreamsAssumption DEF Init
  <1>3. Len(<<>>) = 0 /\ 0 <= MaxChunk /\ -1 \in -1..0 /\ ~(-1 >= 0)
    BY MaxChunkAssumption
  <1>4. /\ at \in [Commands -> {"idle", "checked", "writing", "returned", "raised"}]
        /\ \A c \in Commands : at[c] = "writing" <=> writeLock = c
    BY CommandsAssumption DEF Init
  <1>5. {stream, buffer, chunk, line, accepted, rest} \subseteq Seq(Bytes)
    BY <1>1, <1>2 DEF Init
  <1>6. /\ waiting \in -1..Len(buffer) /\ (waiting >= 0 => chunk = <<>>)
        /\ Len(chunk) <= MaxChunk
    BY <1>3 DEF Init
  <1> QED
    BY <1>1, <1>4, <1>5, <1>6 DEF Init, TypeOK

(* removesuffix leaves bytes.                                              *)
LEMMA WithoutCrType ==
  ASSUME NEW s \in Seq(Bytes)
  PROVE  WithoutCr(s) \in Seq(Bytes)
  <1>1. CASE s # <<>> /\ s[Len(s)] = "cr"
    <2>1. Len(s) \in Nat /\ Len(s) >= 1
      BY <1>1, EmptySeq, LenProperties
    <2>2. Len(s) - 1 \in 0..Len(s)
      BY <2>1
    <2>3. PICK u : u = SubSeq(s, 1, Len(s) - 1)
      OBVIOUS
    <2>4. u \in Seq(Bytes)
      BY <2>2, <2>3, PieceFacts
    <2> QED
      BY <1>1, <2>3, <2>4 DEF WithoutCr
  <1>2. CASE ~(s # <<>> /\ s[Len(s)] = "cr")
    BY <1>2 DEF WithoutCr
  <1> QED
    BY <1>1, <1>2

(* The port and the reader keep the types.                                 *)
LEMMA ReaderTypes ==
  ASSUME TypeOK, Arrives \/ InWaiting \/ Read \/ ReaderFails
  PROVE  TypeOK'
  <1>1. CASE Arrives
    <2>1. PICK n \in 1..Len(stream) :
              /\ buffer' = buffer \o SubSeq(stream, 1, n)
              /\ stream' = SubSeq(stream, n + 1, Len(stream))
      BY <1>1 DEF Arrives
    <2>2. stream \in Seq(Bytes) /\ buffer \in Seq(Bytes)
      BY DEF TypeOK
    <2>3. n \in 0..Len(stream)
      OBVIOUS
    <2>4. SubSeq(stream, 1, n) \in Seq(Bytes) /\ stream' \in Seq(Bytes)
      BY <2>1, <2>2, <2>3, CutFacts
    <2>5. /\ buffer' \in Seq(Bytes) /\ Len(buffer) \in Nat
          /\ Len(SubSeq(stream, 1, n)) \in Nat
          /\ Len(buffer') = Len(buffer) + Len(SubSeq(stream, 1, n))
      BY <2>1, <2>2, <2>4, JoinFacts
    <2>6. waiting' \in -1..Len(buffer')
      BY <1>1, <2>5 DEF TypeOK, Arrives
    <2> QED
      BY <1>1, <2>4, <2>5, <2>6 DEF TypeOK, Arrives, writerVars
  <1>2. CASE InWaiting
    <2>1. Len(buffer) \in Nat
      BY LenProperties DEF TypeOK
    <2>2. waiting' \in -1..Len(buffer')
      BY <1>2, <2>1 DEF InWaiting
    <2> QED
      BY <1>2, <2>2 DEF TypeOK, InWaiting, writerVars
  <1>3. CASE Read
    <2>1. buffer \in Seq(Bytes) /\ Len(buffer) \in Nat /\ waiting \in Int
      BY LenProperties DEF TypeOK
    <2>2. PICK n : /\ n = Smaller(Larger(1, Smaller(MaxChunk, waiting)), Len(buffer))
                   /\ chunk' = SubSeq(buffer, 1, n)
                   /\ buffer' = SubSeq(buffer, n + 1, Len(buffer))
      BY <1>3 DEF Read
    <2>3. n \in 0..Len(buffer) /\ n <= MaxChunk
      BY <2>1, <2>2, MaxChunkAssumption DEF Smaller, Larger
    <2>4. chunk' \in Seq(Bytes) /\ buffer' \in Seq(Bytes) /\ Len(chunk') = n
      BY <2>1, <2>2, <2>3, CutFacts
    <2>5. Len(chunk') <= MaxChunk /\ Len(buffer') \in Nat
      BY <2>3, <2>4, LenProperties
    <2>6. waiting' \in -1..Len(buffer') /\ ~(waiting' >= 0)
      <3>1. waiting' = -1
        BY <1>3 DEF Read
      <3> QED
        BY <2>5, <3>1
    <2> QED
      BY <1>3, <2>4, <2>5, <2>6, ZenonT(30) DEF TypeOK, Read, writerVars
  <1>4. CASE ReaderFails
    BY <1>4 DEF TypeOK, ReaderFails, writerVars
  <1> QED
    BY <1>1, <1>2, <1>3, <1>4

(* A byte that is accepted goes to the line, or ends it.                   *)
LEMMA AcceptTypes ==
  ASSUME TypeOK, AcceptByte
  PROVE  TypeOK'
  <1>1. /\ chunk \in Seq(Bytes) /\ chunk # <<>> /\ Len(chunk) \in Nat
        /\ line \in Seq(Bytes) /\ accepted \in Seq(Bytes)
    BY LenProperties DEF TypeOK, AcceptByte
  <1>2. /\ Head(chunk) \in Bytes /\ chunk' \in Seq(Bytes)
        /\ Len(chunk') = Len(chunk) - 1
    BY <1>1, HeadTailProperties DEF AcceptByte
  <1>3. accepted' \in Seq(Bytes)
    BY <1>1, <1>2, AppendProperties DEF AcceptByte
  <1>4. Len(chunk') <= MaxChunk
    BY <1>1, <1>2, MaxChunkAssumption DEF TypeOK
  <1>5. /\ line' \in Seq(Bytes) /\ lines' \in Seq(Seq(Bytes))
        /\ initialized' \in BOOLEAN
        /\ \A i \in DOMAIN line' : line'[i] # "lf"
    <2>1. CASE Head(chunk) = "lf"
      <3>1. line' = <<>> /\ handleLine(WithoutCr(line))
        BY <2>1 DEF AcceptByte
      <3>2. WithoutCr(line) \in Seq(Bytes) /\ lines \in Seq(Seq(Bytes))
        BY <1>1, WithoutCrType DEF TypeOK
      <3>3. lines' \in Seq(Seq(Bytes)) /\ initialized' \in BOOLEAN
        <4>1. CASE initialized
          <5>1. /\ lines' = Append(lines, WithoutCr(line))
                /\ initialized' = initialized
            BY <3>1, <4>1 DEF handleLine
          <5>2. ASSUME NEW x \in Seq(Bytes)
                PROVE  Append(lines, x) \in Seq(Seq(Bytes))
            BY <3>2, AppendProperties
          <5> QED
            BY <3>2, <5>1, <5>2, Zenon DEF TypeOK
        <4>2. CASE ~initialized
          <5>1. initialized' = IsPrefix(Marker, WithoutCr(line)) /\ lines' = lines
            BY <3>1, <4>2 DEF handleLine
          <5>2. IsPrefix(Marker, WithoutCr(line)) \in BOOLEAN
            BY Zenon DEF IsPrefix
          <5> QED
            BY <3>2, <5>1, <5>2
        <4> QED
          BY <4>1, <4>2
      <3>4. line' \in Seq(Bytes) /\ DOMAIN line' = {}
        BY <3>1
      <3> QED
        BY <3>3, <3>4
    <2>2. CASE Head(chunk) # "lf"
      <3>1. /\ \/ line' = <<>> /\ initialized' = TRUE
               \/ line' = Append(line, Head(chunk)) /\ UNCHANGED initialized
            /\ UNCHANGED lines
        BY <2>2 DEF AcceptByte, AppendByte
      <3>2. CASE line' = <<>>
        <4>1. line' \in Seq(Bytes) /\ DOMAIN line' = {}
          BY <3>2
        <4> QED
          BY <3>1, <4>1 DEF TypeOK
      <3>3. CASE line' = Append(line, Head(chunk))
        <4>1. /\ line' \in Seq(Bytes) /\ Len(line) \in Nat
              /\ Len(line') = Len(line) + 1
              /\ \A i \in 1..Len(line) : line'[i] = line[i]
              /\ line'[Len(line) + 1] = Head(chunk)
          BY <1>1, <1>2, <3>3, AppendProperties, LenProperties
        <4>2. DOMAIN line' = 1..Len(line) + 1 /\ DOMAIN line = 1..Len(line)
          BY <1>1, <4>1, LenProperties
        <4>3. \A i \in DOMAIN line' : line'[i] # "lf"
          <5> TAKE i \in DOMAIN line'
          <5>1. CASE i \in 1..Len(line)
            <6>1. line'[i] = line[i] /\ line[i] # "lf"
              BY <4>1, <4>2, <5>1 DEF TypeOK
            <6> QED
              BY <6>1
          <5>2. CASE i = Len(line) + 1
            BY <2>2, <4>1, <5>2
          <5> QED
            BY <4>1, <4>2, <5>1, <5>2
        <4> QED
          BY <3>1, <4>1, <4>3 DEF TypeOK
      <3> QED
        BY <3>1, <3>2, <3>3
    <2> QED
      BY <2>1, <2>2
  <1>6. ~(waiting >= 0)
    BY <1>1 DEF TypeOK
  <1> QED
    BY <1>2, <1>3, <1>4, <1>5, <1>6 DEF TypeOK, AcceptByte, writerVars

(* What becomes of the holder when its write is over.                      *)
LEMMA HolderTypes ==
  ASSUME TypeOK, writeLock # Nobody, writeLock' = Nobody,
         NEW s \in {"returned", "raised"}, HolderGoesTo(s)
  PROVE  /\ boot' \in {"crlf", "startCLI", "wait", "ready", "raised"}
         /\ at' \in [Commands -> {"idle", "checked", "writing", "returned", "raised"}]
         /\ \A c \in Commands : at'[c] = "writing" <=> writeLock' = c
  <1>1. CASE writeLock = Opener
    <2>1. /\ at' = at
          /\ boot' = CASE s = "raised" -> "raised"
                       [] s # "raised" /\ boot = "crlf" -> "startCLI"
                       [] s # "raised" /\ boot # "crlf" -> "wait"
      BY <1>1 DEF HolderGoesTo
    <2>2. boot' \in {"startCLI", "wait", "raised"}
      BY <2>1
    <2> QED
      BY <1>1, <2>1, <2>2, CommandsAssumption DEF TypeOK
  <1>2. CASE writeLock # Opener
    <2>1. writeLock \in Commands /\ boot' = boot /\ at' = [at EXCEPT ![writeLock] = s]
      BY <1>2 DEF HolderGoesTo, TypeOK
    <2>2. at' \in [Commands -> {"idle", "checked", "writing", "returned", "raised"}]
      BY <2>1 DEF TypeOK
    <2>3. \A c \in Commands : at'[c] = "writing" <=> writeLock' = c
      BY <2>1, CommandsAssumption DEF TypeOK
    <2> QED
      BY <2>1, <2>2, <2>3 DEF TypeOK
  <1> QED
    BY <1>1, <1>2

(* Writing keeps the types: what is left belongs to the holder.            *)
LEMMA WriteTypes ==
  ASSUME TypeOK, WritePart \/ WriteFails
  PROVE  TypeOK'
  <1>1. CASE WritePart
    <2>1. PICK n \in 1..Len(rest) :
              /\ wire' = wire \o [i \in 1..n |-> [of |-> writeLock, byte |-> rest[i]]]
              /\ rest' = SubSeq(rest, n + 1, Len(rest))
      BY <1>1 DEF WritePart
    <2>2. /\ writeLock \in Commands \cup {Opener} /\ rest \in Seq(Bytes)
          /\ wire \in Seq([of : Commands \cup {Opener}, byte : Bytes])
      BY <1>1 DEF WritePart, TypeOK
    <2>3. wire' \in Seq([of : Commands \cup {Opener}, byte : Bytes])
      BY <2>1, <2>2, WrittenFacts
    <2>4. n \in 0..Len(rest)
      OBVIOUS
    <2>5. rest' \in Seq(Bytes)
      BY <2>1, <2>2, <2>4, CutFacts
    <2>6. /\ boot' \in {"crlf", "startCLI", "wait", "ready", "raised"}
          /\ at' \in [Commands -> {"idle", "checked", "writing", "returned", "raised"}]
          /\ \A c \in Commands : at'[c] = "writing" <=> writeLock' = c
          /\ (rest' = <<>>) <=> (writeLock' = Nobody)
          /\ writeLock' \in Commands \cup {Opener, Nobody}
      <3>1. CASE rest' = <<>>
        BY <1>1, <3>1, HolderTypes DEF WritePart
      <3>2. CASE rest' # <<>>
        BY <1>1, <3>2 DEF WritePart, TypeOK
      <3> QED
        BY <3>1, <3>2
    <2> QED
      BY <1>1, <2>3, <2>5, <2>6, ZenonT(30) DEF WritePart, TypeOK, readerVars
  <1>2. CASE WriteFails
    <2>1. /\ writeLock # Nobody /\ writeLock' = Nobody /\ rest' = <<>>
          /\ HolderGoesTo("raised")
          /\ initialized' \in BOOLEAN /\ failed' \in BOOLEAN
      BY <1>2 DEF WriteFails, TypeOK
    <2>2. /\ boot' \in {"crlf", "startCLI", "wait", "ready", "raised"}
          /\ at' \in [Commands -> {"idle", "checked", "writing", "returned", "raised"}]
          /\ \A c \in Commands : at'[c] = "writing" <=> writeLock' = c
      BY <2>1, HolderTypes
    <2>3. rest' \in Seq(Bytes)
      BY <2>1
    <2> QED
      BY <1>2, <2>1, <2>2, <2>3 DEF WriteFails, TypeOK, readerVars
  <1> QED
    BY <1>1, <1>2

(* What the lock is taken for is never empty.                              *)
LEMMA DataToWrite ==
  ASSUME NEW data \in Seq(Bytes), Len(data) >= 2
  PROVE  data # <<>>
  BY EmptySeq

(* initialize() writes the first two bytes of its line, then the others.   *)
LEMMA InitializeData ==
  ASSUME Initialize
  PROVE  /\ writeLock = Nobody /\ writeLock' = Opener
         /\ rest' \in Seq(Bytes) /\ rest' # <<>>
         /\ boot \in {"crlf", "startCLI"}
         /\ \/ rest' = SubSeq(Line(Opener), 1, 2) /\ boot = "crlf"
            \/ rest' = SubSeq(Line(Opener), 3, 5) /\ boot = "startCLI"
  <1>1. Line(Opener) \in Seq(Bytes) /\ Len(Line(Opener)) = 5
    <2>1. Opener \in Commands \cup {Opener}
      OBVIOUS
    <2> QED
      BY <2>1, LineFacts, Zenon
  <1>2. /\ SubSeq(Line(Opener), 1, 2) = Crlf
        /\ SubSeq(Line(Opener), 3, 5) = StartCLI \o Crlf
    BY LineFacts
  <1>3. Crlf \in Seq(Bytes) /\ Crlf # <<>>
    <2>1. Crlf \in Seq(Bytes) /\ Len(Crlf) = 2 /\ 2 >= 2
      BY CrlfFacts
    <2> QED
      BY <2>1, DataToWrite, Zenon
  <1>4. PICK t : t = StartCLI \o Crlf
    OBVIOUS
  <1>5. t \in Seq(Bytes) /\ Len(t) = 3
    <2>1. /\ StartCLI \in Seq(Bytes) /\ Crlf \in Seq(Bytes)
      BY CrlfFacts
    <2>2. t \in Seq(Bytes) /\ Len(t) = Len(StartCLI) + Len(Crlf)
      BY <1>4, <2>1, JoinFacts
    <2> QED
      BY <2>2, CrlfFacts
  <1>6. t # <<>>
    BY <1>5, DataToWrite
  <1>7. CASE boot = "crlf" /\ Locks(Opener, Crlf)
    BY <1>2, <1>3, <1>7 DEF Locks
  <1>8. CASE boot = "startCLI" /\ Locks(Opener, StartCLI \o Crlf)
    BY <1>2, <1>4, <1>5, <1>6, <1>8 DEF Locks
  <1> QED
    BY <1>7, <1>8 DEF Initialize

(* initialize() and command() keep the types.                              *)
LEMMA CallTypes ==
  ASSUME TypeOK, Initialize \/ Ready \/ \E c \in Commands : Check(c) \/ Begin(c)
  PROVE  TypeOK'
  <1>1. CASE Initialize
    <2>1. /\ writeLock = Nobody /\ writeLock' = Opener
          /\ rest' \in Seq(Bytes) /\ rest' # <<>>
      BY <1>1, InitializeData
    <2>2. \A c \in Commands : at'[c] = "writing" <=> writeLock' = c
      BY <1>1, <2>1, CommandsAssumption DEF Initialize, TypeOK
    <2> QED
      BY <1>1, <2>1, <2>2, CommandsAssumption DEF Initialize, TypeOK, readerVars
  <1>2. CASE Ready
    BY <1>2 DEF Ready, TypeOK, readerVars, writerVars
  <1>3. ASSUME NEW c \in Commands, Check(c) PROVE TypeOK'
    <2>1. at[c] = "idle" /\ at' = [at EXCEPT ![c] = IF failed THEN "raised" ELSE "checked"]
      BY <1>3 DEF Check
    <2>2. at' \in [Commands -> {"idle", "checked", "writing", "returned", "raised"}]
      BY <2>1 DEF TypeOK
    <2>3. \A d \in Commands : at'[d] = "writing" <=> writeLock' = d
      BY <1>3, <2>1 DEF Check, TypeOK
    <2> QED
      BY <1>3, <2>2, <2>3 DEF Check, TypeOK, readerVars
  <1>4. ASSUME NEW c \in Commands, Begin(c) PROVE TypeOK'
    <2>1. /\ at[c] = "checked" /\ at' = [at EXCEPT ![c] = "writing"]
          /\ writeLock = Nobody /\ writeLock' = c /\ rest' = LineOf(Text[c])
          /\ slots' = Append(slots, c)
      BY <1>4 DEF Begin, Locks
    <2>2. rest' \in Seq(Bytes) /\ rest' # <<>>
      BY <2>1, LineFacts, DataToWrite
    <2>3. at' \in [Commands -> {"idle", "checked", "writing", "returned", "raised"}]
      BY <2>1 DEF TypeOK
    <2>4. \A d \in Commands : at'[d] = "writing" <=> writeLock' = d
      BY <2>1, CommandsAssumption DEF TypeOK
    <2>5. slots' \in Seq(Commands)
      BY <2>1, AppendProperties DEF TypeOK
    <2> QED
      BY <1>4, <2>1, <2>2, <2>3, <2>4, <2>5, CommandsAssumption, SMTT(30)
      DEF Begin, TypeOK, readerVars
  <1> QED
    BY <1>1, <1>2, <1>3, <1>4

(* Every step keeps the types.                                             *)
LEMMA StepTypes == TypeOK /\ [Next]_vars => TypeOK'
  <1> SUFFICES ASSUME TypeOK, [Next]_vars PROVE TypeOK'
    OBVIOUS
  <1>1. CASE UNCHANGED vars
    BY <1>1 DEF TypeOK, vars, readerVars, writerVars
  <1> QED
    BY <1>1, ReaderTypes, AcceptTypes, WriteTypes, CallTypes DEF Next

(* For every stream, all texts and every size of reads the reader and the  *)
(* writers keep their types, and the lock belongs to who is writing.       *)
THEOREM TypeCorrect == Spec => []TypeOK
  BY InitTypes, StepTypes, PTL DEF Spec

-----------------------------------------------------------------------------
(* Bytes that are appended                                                 *)

(* Pieces of the bytes so far stay what they are.                          *)
LEMMA PieceStays ==
  ASSUME NEW S, NEW s \in Seq(S), NEW x \in S, NEW t, t = Append(s, x),
         NEW b \in Nat \ {0}, NEW e \in 0..Len(s)
  PROVE  SubSeq(t, b, e) = SubSeq(s, b, e)
  <1>1. /\ t \in Seq(S) /\ Len(s) \in Nat /\ Len(t) = Len(s) + 1
        /\ \A i \in 1..Len(s) : t[i] = s[i]
    BY AppendProperties, LenProperties
  <1>2. PICK u : u = SubSeq(s, b, e)
    OBVIOUS
  <1>3. PICK v : v = SubSeq(t, b, e)
    OBVIOUS
  <1>4. PICK k : k = IF b <= e THEN e - b + 1 ELSE 0
    OBVIOUS
  <1>5. k \in Nat /\ e \in Nat
    BY <1>1, <1>4
  <1>6. u \in Seq(S) /\ Len(u) = k /\ \A i \in 1..e - b + 1 : u[i] = s[b + i - 1]
    BY <1>2, <1>4, PieceFacts
  <1>7. e \in 0..Len(t)
    BY <1>1
  <1>8. v \in Seq(S) /\ Len(v) = k /\ \A i \in 1..e - b + 1 : v[i] = t[b + i - 1]
    BY <1>1, <1>3, <1>4, <1>7, PieceFacts
  <1>9. \A i \in 1..k : u[i] = v[i]
    <2> TAKE i \in 1..k
    <2>1. i \in 1..e - b + 1 /\ b + i - 1 \in 1..Len(s)
      BY <1>1, <1>4, <1>5
    <2> QED
      BY <1>1, <1>6, <1>8, <2>1
  <1>10. u = v
    BY <1>5, <1>6, <1>8, <1>9, SamePlaces
  <1> QED
    BY <1>2, <1>3, <1>10

(* A piece at the end of a sequence grows with it.                         *)
LEMMA LongerPiece ==
  ASSUME NEW S, NEW s \in Seq(S), NEW x \in S, NEW t \in Seq(S),
         NEW b \in 1..Len(s) + 1,
         Len(t) = Len(s) + 1 /\ t[Len(s) + 1] = x,
         \A i \in 1..Len(s) : t[i] = s[i]
  PROVE  SubSeq(t, b, Len(s) + 1) = Append(SubSeq(s, b, Len(s)), x)
  <1>1. /\ t \in Seq(S) /\ Len(s) \in Nat /\ Len(t) = Len(s) + 1
        /\ \A i \in 1..Len(s) : t[i] = s[i]
        /\ t[Len(s) + 1] = x
    BY LenProperties
  <1>2. PICK u : u = SubSeq(s, b, Len(s))
    OBVIOUS
  <1>3. PICK v : v = SubSeq(t, b, Len(s) + 1)
    OBVIOUS
  <1>4. PICK k : k = Len(s) - b + 1
    OBVIOUS
  <1>5. k \in Nat /\ b \in Nat \ {0} /\ Len(s) \in 0..Len(s)
    BY <1>1, <1>4
  <1>6. u \in Seq(S) /\ Len(u) = k /\ \A i \in 1..k : u[i] = s[b + i - 1]
    <2>1. /\ u \in Seq(S) /\ Len(u) = IF b <= Len(s) THEN Len(s) - b + 1 ELSE 0
          /\ \A i \in 1..Len(s) - b + 1 : u[i] = s[b + i - 1]
      BY <1>2, <1>5, PieceFacts
    <2>2. k = IF b <= Len(s) THEN Len(s) - b + 1 ELSE 0
      BY <1>1, <1>4
    <2> QED
      BY <1>4, <2>1, <2>2
  <1>7. Len(s) + 1 \in 0..Len(t)
    BY <1>1
  <1>8. v \in Seq(S) /\ Len(v) = k + 1 /\ \A i \in 1..k + 1 : v[i] = t[b + i - 1]
    <2>1. PICK e : e = Len(s) + 1
      OBVIOUS
    <2>2. /\ e \in 0..Len(t) /\ t \in Seq(S) /\ b \in Nat \ {0}
          /\ v = SubSeq(t, b, e)
      BY <1>1, <1>3, <1>5, <1>7, <2>1, Zenon
    <2>3. /\ v \in Seq(S)
          /\ Len(v) = IF b <= e THEN e - b + 1 ELSE 0
          /\ \A i \in 1..e - b + 1 : v[i] = t[b + i - 1]
      BY <2>2, PieceFacts
    <2>4. k + 1 = e - b + 1 /\ b <= e
      BY <1>1, <1>4, <2>1
    <2> QED
      BY <2>3, <2>4
  <1>9. PICK w : w = Append(u, x)
    OBVIOUS
  <1>10. /\ w \in Seq(S) /\ Len(w) = k + 1
         /\ \A i \in 1..k : w[i] = u[i]
         /\ w[k + 1] = x
    <2>1. u \in Seq(S)
      BY <1>6
    <2>2. /\ w \in Seq(S) /\ Len(w) = Len(u) + 1
          /\ \A i \in 1..Len(u) : w[i] = u[i]
          /\ w[Len(u) + 1] = x
      BY <1>9, <2>1, AppendProperties
    <2> QED
      BY <1>6, <2>2
  <1>11. \A i \in 1..k + 1 : v[i] = w[i]
    <2> TAKE i \in 1..k + 1
    <2>1. CASE i \in 1..k
      <3>1. b + i - 1 \in 1..Len(s)
        BY <1>1, <1>4, <1>5, <2>1
      <3> QED
        BY <1>1, <1>6, <1>8, <1>10, <2>1, <3>1
    <2>2. CASE i = k + 1
      <3>1. b + i - 1 = Len(s) + 1
        BY <1>1, <1>4, <2>2
      <3> QED
        BY <1>1, <1>8, <1>10, <2>2, <3>1
    <2> QED
      BY <1>5, <2>1, <2>2
  <1>12. v = w
    BY <1>5, <1>8, <1>10, <1>11, SamePlaces
  <1> QED
    BY <1>2, <1>3, <1>9, <1>12

(* A piece at the end of the bytes grows with them.                        *)
LEMMA PieceGrows ==
  ASSUME NEW S, NEW s \in Seq(S), NEW x \in S, NEW t, t = Append(s, x),
         NEW b \in 1..Len(s) + 1
  PROVE  SubSeq(t, b, Len(s) + 1) = Append(SubSeq(s, b, Len(s)), x)
  <1>1. /\ t \in Seq(S) /\ Len(t) = Len(s) + 1
        /\ \A i \in 1..Len(s) : t[i] = s[i]
        /\ t[Len(s) + 1] = x
    BY AppendProperties
  <1> QED
    BY <1>1, LongerPiece

(* The marker is three @.                                                  *)
LEMMA MarkerFacts ==
  /\ Marker \in Seq(Bytes) /\ Len(Marker) = 3
  /\ Marker[1] = "@" /\ Marker[2] = "@" /\ Marker[3] = "@"
  <1>1. ASSUME NEW S, NEW x \in S
        PROVE  /\ <<x, x, x>> \in Seq(S) /\ Len(<<x, x, x>>) = 3
               /\ <<x, x, x>>[1] = x /\ <<x, x, x>>[2] = x /\ <<x, x, x>>[3] = x
    OBVIOUS
  <1>2. "@" \in Bytes
    BY DEF Bytes
  <1> QED
    BY <1>1, <1>2, Zenon DEF Marker

(* Where it stands in a sequence of bytes.                                 *)
LEMMA MarkerAt ==
  ASSUME NEW s \in Seq(Bytes), NEW i \in 3..Len(s)
  PROVE  SubSeq(s, i - 2, i) = Marker <=>
            s[i - 2] = "@" /\ s[i - 1] = "@" /\ s[i] = "@"
  <1>1. Len(s) \in Nat /\ i \in 0..Len(s) /\ i - 2 \in Nat \ {0}
    BY LenProperties
  <1>2. PICK u : u = SubSeq(s, i - 2, i)
    OBVIOUS
  <1>3. /\ u \in Seq(Bytes) /\ Len(u) = IF i - 2 <= i THEN i - (i - 2) + 1 ELSE 0
        /\ \A k \in 1..i - (i - 2) + 1 : u[k] = s[(i - 2) + k - 1]
    BY <1>1, <1>2, PieceFacts
  <1>4. Len(u) = 3 /\ \A k \in 1..3 : u[k] = s[(i - 2) + k - 1]
    <2>1. i - (i - 2) + 1 = 3 /\ i - 2 <= i
      BY <1>1
    <2> QED
      BY <1>3, <2>1
  <1>5. u[1] = s[i - 2] /\ u[2] = s[i - 1] /\ u[3] = s[i]
    <2>1. (i - 2) + 1 - 1 = i - 2 /\ (i - 2) + 2 - 1 = i - 1 /\ (i - 2) + 3 - 1 = i
      BY <1>1
    <2> QED
      BY <1>4, <2>1
  <1>6. ASSUME s[i - 2] = "@", s[i - 1] = "@", s[i] = "@" PROVE u = Marker
    <2>1. \A k \in 1..3 : u[k] = Marker[k]
      BY <1>5, <1>6, MarkerFacts
    <2> QED
      BY <1>3, <1>4, <2>1, MarkerFacts, SamePlaces, SMTT(30)
  <1>7. u = Marker => s[i - 2] = "@" /\ s[i - 1] = "@" /\ s[i] = "@"
    BY <1>5, MarkerFacts
  <1> QED
    BY <1>2, <1>6, <1>7

(* The ends of the markers in a sequence of bytes, byte for byte.          *)
MarksIn(s) ==
    {i \in 3..Len(s) :
        /\ s[i - 2] = "@" /\ s[i - 1] = "@" /\ s[i] = "@"
        /\ i = 3 \/ s[i - 3] = "lf"}

(* They are the ends of what reads as the marker.                          *)
LEMMA MarksFacts ==
  /\ accepted \in Seq(Bytes) => MarkerEnds = MarksIn(accepted)
  /\ accepted' \in Seq(Bytes) => MarkerEnds' = MarksIn(accepted')
  <1>1. ASSUME NEW s \in Seq(Bytes)
        PROVE  MarksIn(s) = {i \in 3..Len(s) : /\ SubSeq(s, i - 2, i) = Marker
                                               /\ i = 3 \/ s[i - 3] = "lf"}
    <2>1. \A i \in 3..Len(s) :
             SubSeq(s, i - 2, i) = Marker <=>
                s[i - 2] = "@" /\ s[i - 1] = "@" /\ s[i] = "@"
      BY MarkerAt
    <2> QED
      BY <2>1 DEF MarksIn
  <1> QED
    BY <1>1, Zenon DEF MarkerEnds

(* A byte more leaves the markers there were, and may be the third @ of    *)
(* another one.                                                            *)
LEMMA MarksGrow ==
  ASSUME NEW s \in Seq(Bytes), NEW x \in Bytes, NEW t, t = Append(s, x)
  PROVE  /\ MarksIn(s) = MarksIn(t) \cap (1..Len(s))
         /\ MarksIn(t) \subseteq 1..Len(s) + 1
         /\ Len(s) + 1 \in MarksIn(t) <=>
               /\ Len(s) >= 2 /\ x = "@"
               /\ s[Len(s)] = "@" /\ s[Len(s) - 1] = "@"
               /\ Len(s) = 2 \/ s[Len(s) - 2] = "lf"
  <1>1. /\ t \in Seq(Bytes) /\ Len(s) \in Nat /\ Len(t) = Len(s) + 1
        /\ \A i \in 1..Len(s) : t[i] = s[i]
        /\ t[Len(s) + 1] = x
    BY AppendProperties, LenProperties
  <1>2. ASSUME NEW i \in 3..Len(s)
        PROVE  /\ t[i - 2] = s[i - 2] /\ t[i - 1] = s[i - 1] /\ t[i] = s[i]
               /\ i # 3 => t[i - 3] = s[i - 3]
    BY <1>1
  <1>3. MarksIn(s) = MarksIn(t) \cap (1..Len(s))
    BY <1>1, <1>2, SMTT(30) DEF MarksIn
  <1>4. MarksIn(t) \subseteq 1..Len(s) + 1
    BY <1>1 DEF MarksIn
  <1>5. PICK n : n = Len(s)
    OBVIOUS
  <1>6. n \in Nat /\ Len(t) = n + 1 /\ t[n + 1] = x
    BY <1>1, <1>5
  <1>7. ASSUME n >= 2
        PROVE  /\ t[n - 1] = s[n - 1] /\ t[n] = s[n]
               /\ n # 2 => t[n - 2] = s[n - 2]
               /\ n + 1 \in 3..Len(t)
    <2>1. n - 1 \in 1..n /\ n \in 1..n /\ (n # 2 => n - 2 \in 1..n)
      BY <1>6, <1>7
    <2>2. n + 1 \in 3..Len(t)
      BY <1>6, <1>7
    <2> QED
      BY <1>1, <1>5, <2>1, <2>2
  <1>8. n + 1 \in MarksIn(t) <=>
               /\ n >= 2 /\ x = "@"
               /\ s[n] = "@" /\ s[n - 1] = "@"
               /\ n = 2 \/ s[n - 2] = "lf"
    <2>1. CASE n >= 2
      <3>1. PICK i : i = n + 1
        OBVIOUS
      <3>2. /\ i \in 3..Len(t)
            /\ i - 2 = n - 1 /\ i - 1 = n /\ i - 3 = n - 2 /\ (i = 3 <=> n = 2)
        BY <1>6, <1>7, <2>1, <3>1
      <3>3. i \in MarksIn(t) <=>
               /\ t[i - 2] = "@" /\ t[i - 1] = "@" /\ t[i] = "@"
               /\ i = 3 \/ t[i - 3] = "lf"
        BY <3>2 DEF MarksIn
      <3>4. i \in MarksIn(t) <=>
               /\ t[n - 1] = "@" /\ t[n] = "@" /\ t[i] = "@"
               /\ n = 2 \/ t[n - 2] = "lf"
        BY <3>2, <3>3, Zenon
      <3> QED
        BY <1>6, <1>7, <2>1, <3>1, <3>4
    <2>2. CASE ~(n >= 2)
      BY <1>6, <2>2 DEF MarksIn
    <2> QED
      BY <2>1, <2>2
  <1> QED
    BY <1>3, <1>4, <1>5, <1>8

-----------------------------------------------------------------------------
(* The line at hand                                                        *)

(* What the end of a text consists of.                                     *)
LEMMA EndFacts ==
  ASSUME NEW S, NEW s \in Seq(S), NEW b \in 1..Len(s) + 1, NEW u \in Seq(S),
         u = SubSeq(s, b, Len(s))
  PROVE  /\ Len(u) = Len(s) - b + 1
         /\ \A k \in 1..Len(u) : u[k] = s[b + k - 1]
         /\ \A i \in b..Len(s) : i - b + 1 \in 1..Len(u) /\ u[i - b + 1] = s[i]
  <1>1. Len(s) \in Nat
    BY LenProperties
  <1>2. PICK n : n = Len(s)
    OBVIOUS
  <1>3. n \in 0..Len(s) /\ b \in Nat \ {0} /\ u = SubSeq(s, b, n)
    BY <1>1, <1>2
  <1>4. /\ Len(u) = IF b <= n THEN n - b + 1 ELSE 0
        /\ \A k \in 1..n - b + 1 : u[k] = s[b + k - 1]
    BY <1>3, PieceFacts
  <1>5. Len(u) = n - b + 1 /\ n \in Nat /\ b \in 1..n + 1
    BY <1>1, <1>2, <1>4
  <1>6. ASSUME NEW i \in b..n
        PROVE  i - b + 1 \in 1..Len(u) /\ u[i - b + 1] = s[i]
    <2>1. i - b + 1 \in 1..n - b + 1 /\ b + (i - b + 1) - 1 = i
      BY <1>5
    <2> QED
      BY <1>4, <1>5, <2>1
  <1> QED
    BY <1>2, <1>4, <1>5, <1>6

(* What the line at hand is in the bytes.                                  *)
LEMMA LineInBytes ==
  ASSUME TypeOK, NEW m \in 0..Len(accepted), LineIsBehind(m)
  PROVE  \E b \in m + 1 .. Len(accepted) + 1 :
         /\ Len(line) = Len(accepted) - b + 1
         /\ LineBegins(m, b)
         /\ line = SubSeq(accepted, b, Len(accepted))
         /\ \A k \in 1..Len(line) : line[k] = accepted[b + k - 1]
         /\ \A i \in b..Len(accepted) : accepted[i] # "lf"
  <1>1. /\ accepted \in Seq(Bytes) /\ line \in Seq(Bytes)
        /\ \A i \in DOMAIN line : line[i] # "lf"
    BY DEF TypeOK
  <1>2. /\ Len(accepted) \in Nat /\ Len(line) \in Nat
        /\ DOMAIN line = 1..Len(line)
    BY <1>1, LenProperties
  <1>3. PICK b : b = Len(accepted) - Len(line) + 1
    OBVIOUS
  <1>4. /\ b \in m + 1 .. Len(accepted) + 1
        /\ Len(line) = Len(accepted) - b + 1
    BY <1>2, <1>3 DEF LineIsBehind
  <1>5. LineBegins(m, b) /\ line = SubSeq(accepted, b, Len(accepted))
    BY <1>3, Zenon DEF LineIsBehind
  <1>6. b \in 1..Len(accepted) + 1
    BY <1>2, <1>4
  <1>7. /\ \A k \in 1..Len(line) : line[k] = accepted[b + k - 1]
        /\ \A i \in b..Len(accepted) :
              i - b + 1 \in 1..Len(line) /\ line[i - b + 1] = accepted[i]
    BY <1>1, <1>5, <1>6, EndFacts
  <1>8. \A i \in b..Len(accepted) : accepted[i] # "lf"
    BY <1>1, <1>2, <1>7
  <1> QED
    BY <1>4, <1>5, <1>7, <1>8

(* A line becomes the marker when it is two @ and a third one follows.     *)
LEMMA ThirdAt ==
  ASSUME NEW l \in Seq(Bytes), NEW x \in Bytes
  PROVE  Append(l, x) = Marker <=>
            Len(l) = 2 /\ l[1] = "@" /\ l[2] = "@" /\ x = "@"
  <1>1. PICK w : w = Append(l, x)
    OBVIOUS
  <1>2. /\ w \in Seq(Bytes) /\ Len(l) \in Nat /\ Len(w) = Len(l) + 1
        /\ \A i \in 1..Len(l) : w[i] = l[i]
        /\ w[Len(l) + 1] = x
    BY <1>1, AppendProperties, LenProperties
  <1>3. ASSUME w = Marker
        PROVE  Len(l) = 2 /\ l[1] = "@" /\ l[2] = "@" /\ x = "@"
    <2>1. Len(w) = 3
      BY <1>3, MarkerFacts, Zenon
    <2>1a. Len(l) = 2
      <3>1. PICK k : k = Len(l)
        OBVIOUS
      <3>2. k \in Nat /\ k + 1 = 3
        BY <1>2, <2>1, <3>1, Zenon
      <3>3. k = 2
        BY <3>2
      <3> QED
        BY <3>1, <3>3
    <2>2. w[1] = l[1] /\ w[2] = l[2] /\ w[3] = x
      BY <1>2, <2>1a
    <2> QED
      BY <1>3, <2>1a, <2>2, MarkerFacts
  <1>4. ASSUME Len(l) = 2, l[1] = "@", l[2] = "@", x = "@"
        PROVE  w = Marker
    <2>1. w[1] = "@" /\ w[2] = "@" /\ w[3] = "@" /\ Len(w) = 3
      BY <1>2, <1>4
    <2>2. \A i \in 1..3 : w[i] = Marker[i]
      BY <2>1, MarkerFacts
    <2> QED
      BY <1>2, <2>1, <2>2, MarkerFacts, SamePlaces
  <1> QED
    BY <1>1, <1>3, <1>4

(* The next byte ends a marker exactly when the line at hand becomes one.  *)
LEMMA MarkerByLine ==
  ASSUME TypeOK, LineIsBehind(0), NEW x \in Bytes
  PROVE  Len(accepted) + 1 \in MarksIn(Append(accepted, x)) <=>
            Append(line, x) = Marker
  <1>1. accepted \in Seq(Bytes) /\ line \in Seq(Bytes)
    BY DEF TypeOK
  <1>2. PICK n : n = Len(accepted)
    OBVIOUS
  <1>3. n \in Nat /\ 0 \in 0..Len(accepted)
    BY <1>1, <1>2, LenProperties
  <1>4. PICK b \in 0 + 1 .. n + 1 :
           /\ Len(line) = n - b + 1
           /\ LineBegins(0, b)
           /\ \A k \in 1..Len(line) : line[k] = accepted[b + k - 1]
           /\ \A i \in b..n : accepted[i] # "lf"
    BY <1>2, <1>3, LineInBytes
  <1>5. n + 1 \in MarksIn(Append(accepted, x)) <=>
           /\ n >= 2 /\ x = "@"
           /\ accepted[n] = "@" /\ accepted[n - 1] = "@"
           /\ n = 2 \/ accepted[n - 2] = "lf"
    <2>1. PICK t : t = Append(accepted, x)
      OBVIOUS
    <2>2. Len(accepted) + 1 \in MarksIn(t) <=>
           /\ Len(accepted) >= 2 /\ x = "@"
           /\ accepted[Len(accepted)] = "@" /\ accepted[Len(accepted) - 1] = "@"
           /\ Len(accepted) = 2 \/ accepted[Len(accepted) - 2] = "lf"
      BY <1>1, <2>1, MarksGrow
    <2> QED
      BY <1>2, <2>1, <2>2, Zenon
  <1>6. b \in 1..n + 1 /\ (b = 1 \/ accepted[b - 1] = "lf")
    BY <1>3, <1>4 DEF LineBegins
  <1>7. Append(line, x) = Marker <=>
           Len(line) = 2 /\ line[1] = "@" /\ line[2] = "@" /\ x = "@"
    BY <1>1, ThirdAt
  <1>8. ASSUME Len(line) = 2 /\ line[1] = "@" /\ line[2] = "@" /\ x = "@"
        PROVE  /\ n >= 2 /\ accepted[n] = "@" /\ accepted[n - 1] = "@"
               /\ n = 2 \/ accepted[n - 2] = "lf"
    <2>1. b = n - 1 /\ n >= 2
      <3>1. Len(line) = n - b + 1 /\ Len(line) = 2 /\ b \in 1..n + 1
        BY <1>4, <1>6, <1>8
      <3>2. n - b + 1 = 2
        BY <3>1, Zenon
      <3> QED
        BY <1>3, <3>1, <3>2
    <2>2. b + 1 - 1 = n - 1 /\ b + 2 - 1 = n /\ b - 1 = n - 2 /\ (b = 1 => n = 2)
      BY <1>3, <2>1
    <2>3. line[1] = accepted[b + 1 - 1] /\ line[2] = accepted[b + 2 - 1]
      <3>1. 1 \in 1..Len(line) /\ 2 \in 1..Len(line)
        <4>1. Len(line) = 2
          BY <1>8
        <4> QED
          BY <4>1
      <3> QED
        BY <1>4, <3>1, Zenon
    <2>4. accepted[n - 1] = "@" /\ accepted[n] = "@"
      BY <1>8, <2>2, <2>3, Zenon
    <2>5. n = 2 \/ accepted[n - 2] = "lf"
      BY <1>6, <2>2, Zenon
    <2> QED
      BY <2>1, <2>4, <2>5, Zenon
  <1>9. ASSUME n >= 2, accepted[n] = "@", accepted[n - 1] = "@",
               n = 2 \/ accepted[n - 2] = "lf"
        PROVE  Len(line) = 2 /\ line[1] = "@" /\ line[2] = "@"
    <2>1. b = n - 1
      <3>1. ~(b < n - 1)
        <4>1. CASE n = 2
          BY <1>6, <4>1
        <4>2. CASE accepted[n - 2] = "lf"
          <5>1. ~(n - 2 \in b..n)
            BY <1>4, <4>2
          <5> QED
            BY <1>3, <1>6, <5>1
        <4> QED
          BY <1>9, <4>1, <4>2
      <3>2. b # n
        BY <1>6, <1>9
      <3>3. b # n + 1
        <4>1. b = n + 1 => b - 1 = n /\ b # 1
          BY <1>3, <1>9
        <4> QED
          BY <1>6, <1>9, <4>1
      <3> QED
        BY <1>3, <1>6, <3>1, <3>2, <3>3
    <2>2. Len(line) = 2
      BY <1>3, <1>4, <2>1
    <2>3. b + 1 - 1 = n - 1 /\ b + 2 - 1 = n
      BY <1>3, <2>1
    <2>4. line[1] = accepted[b + 1 - 1] /\ line[2] = accepted[b + 2 - 1]
      BY <1>4, <2>2, SMTT(30)
    <2> QED
      BY <1>9, <2>2, <2>3, <2>4
  <1> QED
    BY <1>2, <1>5, <1>7, <1>8, <1>9

(* A byte that ends no line belongs to the line at hand.                   *)
LEMMA LineGrows ==
  ASSUME TypeOK, NEW m \in 0..Len(accepted), LineIsBehind(m), NEW x \in Bytes,
         accepted' = Append(accepted, x), line' = Append(line, x)
  PROVE  LineIsBehind(m)'
  <1>1. accepted \in Seq(Bytes) /\ line \in Seq(Bytes)
    BY DEF TypeOK
  <1>2. /\ Len(accepted) \in Nat /\ Len(accepted') = Len(accepted) + 1
        /\ Len(line) \in Nat /\ Len(line') = Len(line) + 1
        /\ \A i \in 1..Len(accepted) : accepted'[i] = accepted[i]
    BY <1>1, AppendProperties, LenProperties
  <1>3. PICK b \in m + 1 .. Len(accepted) + 1 :
           /\ Len(line) = Len(accepted) - b + 1
           /\ LineBegins(m, b)
           /\ line = SubSeq(accepted, b, Len(accepted))
    BY LineInBytes
  <1>4. b \in 1..Len(accepted) + 1
    BY <1>2
  <1>5. line' = SubSeq(accepted', b, Len(accepted'))
    <2>1. SubSeq(accepted', b, Len(accepted) + 1)
             = Append(SubSeq(accepted, b, Len(accepted)), x)
      BY <1>1, <1>4, PieceGrows
    <2> QED
      BY <1>2, <1>3, <2>1
  <1>6. Len(accepted') - Len(line') + 1 = b /\ b >= m + 1
    BY <1>2, <1>3
  <1>7. b = m + 1 \/ accepted'[b - 1] = "lf"
    <2>1. b # m + 1 => b - 1 \in 1..Len(accepted)
      BY <1>2, <1>3
    <2> QED
      BY <1>2, <1>3, <2>1 DEF LineBegins
  <1> QED
    BY <1>5, <1>6, <1>7, Zenon DEF LineIsBehind, LineBegins

(* Behind a line feed, and behind the marker, a line begins.               *)
LEMMA LineRestarts ==
  ASSUME TypeOK, NEW x \in Bytes, accepted' = Append(accepted, x), line' = <<>>,
         NEW m \in 0..Len(accepted) + 1, x = "lf" \/ m = Len(accepted) + 1
  PROVE  LineIsBehind(m)'
  <1>1. accepted \in Seq(Bytes)
    BY DEF TypeOK
  <1>2. /\ Len(accepted) \in Nat /\ Len(accepted') = Len(accepted) + 1
        /\ accepted'[Len(accepted) + 1] = x /\ accepted' \in Seq(Bytes)
    BY <1>1, AppendProperties, LenProperties
  <1>3. PICK b : b = Len(accepted) + 2
    OBVIOUS
  <1>4. /\ Len(line') = 0 /\ Len(accepted') - 0 + 1 = b /\ b >= m + 1
        /\ b - 1 = Len(accepted) + 1
    BY <1>2, <1>3
  <1>5. b = m + 1 \/ accepted'[b - 1] = "lf"
    BY <1>2, <1>3, <1>4
  <1>6. line' = SubSeq(accepted', b, Len(accepted'))
    <2>1. b \in Nat \ {0} /\ Len(accepted') \in 0..Len(accepted')
      BY <1>2, <1>3
    <2>2. PICK u : u = SubSeq(accepted', b, Len(accepted'))
      OBVIOUS
    <2>3. /\ u \in Seq(Bytes)
          /\ Len(u) = IF b <= Len(accepted') THEN Len(accepted') - b + 1 ELSE 0
      BY <1>2, <2>1, <2>2, PieceFacts
    <2>4. u = <<>>
      <3>1. ~(b <= Len(accepted'))
        BY <1>2, <1>3
      <3> QED
        BY <2>3, <3>1, EmptySeq
    <2> QED
      BY <2>2, <2>4
  <1> QED
    BY <1>4, <1>5, <1>6, Zenon DEF LineIsBehind, LineBegins

-----------------------------------------------------------------------------
(* The lines that were dispatched                                          *)

(* There are finitely many line feeds, and each has a number among them.   *)
LEMMA FeedsFacts ==
  ASSUME accepted \in Seq(Bytes), NEW m \in Nat
  PROVE  /\ IsFiniteSet(FeedsBehind(m))
         /\ Cardinality(FeedsBehind(m)) \in Nat
         /\ \A i \in FeedsBehind(m) :
               Cardinality({j \in FeedsBehind(m) : j <= i})
                  \in 1..Cardinality(FeedsBehind(m))
  <1>1. Len(accepted) \in Nat
    BY LenProperties
  <1>2. IsFiniteSet(m + 1 .. Len(accepted))
    <2>1. m + 1 \in Int /\ Len(accepted) \in Int
      BY <1>1
    <2> QED
      BY <2>1, FS_Interval
  <1>3. FeedsBehind(m) \subseteq m + 1 .. Len(accepted)
    BY DEF FeedsBehind
  <1>4. IsFiniteSet(FeedsBehind(m)) /\ Cardinality(FeedsBehind(m)) \in Nat
    BY <1>2, <1>3, FS_Subset, FS_CardinalityType
  <1>5. ASSUME NEW i \in FeedsBehind(m)
        PROVE  Cardinality({j \in FeedsBehind(m) : j <= i})
                  \in 1..Cardinality(FeedsBehind(m))
    <2> DEFINE S == {j \in FeedsBehind(m) : j <= i}
    <2>1. S \subseteq FeedsBehind(m)
      OBVIOUS
    <2>2. i \in S
      BY <1>1, <1>3
    <2> HIDE DEF S
    <2>3. /\ IsFiniteSet(S) /\ Cardinality(S) \in Nat
          /\ Cardinality(S) <= Cardinality(FeedsBehind(m))
      BY <1>4, <2>1, FS_Subset, FS_CardinalityType
    <2>4. Cardinality(S) # 0
      BY <2>2, <2>3, FS_EmptySet
    <2>5. Cardinality(S) \in 1..Cardinality(FeedsBehind(m))
      BY <1>4, <2>3, <2>4
    <2> QED
      BY <2>5 DEF S
  <1> QED
    BY <1>4, <1>5

(* What was cut once stays cut the same.                                   *)
LEMMA CutPiece ==
  ASSUME accepted \in Seq(Bytes), NEW x \in Bytes,
         accepted' = Append(accepted, x), NEW m \in Nat,
         NEW i \in m + 1 .. Len(accepted) + 1, NEW b \in m + 1 .. i
  PROVE  /\ LineBegins(m, b)' <=> LineBegins(m, b)
         /\ \A j \in b .. i - 1 : accepted'[j] = accepted[j]
         /\ SubSeq(accepted', b, i - 1) = SubSeq(accepted, b, i - 1)
  <1>1. /\ Len(accepted) \in Nat
        /\ \A k \in 1..Len(accepted) : accepted'[k] = accepted[k]
    BY AppendProperties, LenProperties
  <1>2. b # m + 1 => b - 1 \in 1..Len(accepted)
    BY <1>1
  <1>3. LineBegins(m, b)' <=> LineBegins(m, b)
    BY <1>1, <1>2 DEF LineBegins
  <1>4. \A j \in b .. i - 1 : accepted'[j] = accepted[j]
    BY <1>1
  <1>5. PICK e : e = i - 1
    OBVIOUS
  <1>6. b \in Nat \ {0} /\ e \in 0..Len(accepted)
    BY <1>1, <1>5
  <1>7. SubSeq(accepted', b, e) = SubSeq(accepted, b, e)
    BY <1>6, PieceStays
  <1> QED
    BY <1>3, <1>4, <1>5, <1>7

(* The line that ends at a line feed, and its number.                      *)
IsCutAt(m, i) ==
    \E b \in m + 1 .. i :
       /\ LineBegins(m, b)
       /\ \A j \in b .. i - 1 : accepted[j] # "lf"
       /\ lines[Cardinality({j \in FeedsBehind(m) : j <= i})]
             = WithoutCr(SubSeq(accepted, b, i - 1))

(* The lines are cut when they are cut at each line feed.                  *)
LEMMA CutLines ==
  ASSUME NEW m
  PROVE  /\ LinesAreCutBehind(m) <=>
               /\ Len(lines) = Cardinality(FeedsBehind(m))
               /\ \A i \in FeedsBehind(m) : IsCutAt(m, i)
         /\ LinesAreCutBehind(m)' <=>
               /\ Len(lines') = Cardinality(FeedsBehind(m)')
               /\ \A i \in FeedsBehind(m)' : IsCutAt(m, i)'
  BY Zenon DEF LinesAreCutBehind, IsCutAt

(* A line that was cut keeps its place and its number.                     *)
LEMMA CutStaysAt ==
  ASSUME accepted \in Seq(Bytes), NEW x \in Bytes,
         accepted' = Append(accepted, x), NEW m \in Nat,
         NEW i \in FeedsBehind(m), IsCutAt(m, i),
         NEW k, k = Cardinality({j \in FeedsBehind(m) : j <= i}),
         k = Cardinality({j \in FeedsBehind(m)' : j <= i}),
         lines'[k] = lines[k]
  PROVE  IsCutAt(m, i)'
  <1>1. PICK b \in m + 1 .. i :
           /\ LineBegins(m, b)
           /\ \A j \in b .. i - 1 : accepted[j] # "lf"
           /\ lines[k] = WithoutCr(SubSeq(accepted, b, i - 1))
    BY Zenon DEF IsCutAt
  <1>2. i \in m + 1 .. Len(accepted) + 1
    BY LenProperties DEF FeedsBehind
  <1>3. /\ LineBegins(m, b)' <=> LineBegins(m, b)
        /\ \A j \in b .. i - 1 : accepted'[j] = accepted[j]
        /\ SubSeq(accepted', b, i - 1) = SubSeq(accepted, b, i - 1)
    BY <1>2, CutPiece
  <1>4. \A j \in b .. i - 1 : accepted'[j] # "lf"
    BY <1>1, <1>3
  <1>5. lines'[k] = WithoutCr(SubSeq(accepted', b, i - 1))
    BY <1>1, <1>3, Zenon
  <1> QED
    BY <1>1, <1>3, <1>4, <1>5, Zenon DEF IsCutAt

(* Bytes that end no line dispatch none.                                   *)
LEMMA LinesStay ==
  ASSUME accepted \in Seq(Bytes), NEW x \in Bytes, x # "lf",
         accepted' = Append(accepted, x), lines' = lines,
         NEW m \in Nat, LinesAreCutBehind(m)
  PROVE  LinesAreCutBehind(m)'
  <1>1. /\ Len(accepted) \in Nat /\ Len(accepted') = Len(accepted) + 1
        /\ \A k \in 1..Len(accepted) : accepted'[k] = accepted[k]
        /\ accepted'[Len(accepted) + 1] = x
    BY AppendProperties, LenProperties
  <1>2. FeedsBehind(m)' = FeedsBehind(m)
    <2>1. \A i \in m + 1 .. Len(accepted) : accepted'[i] = accepted[i]
      BY <1>1
    <2>2. \A i \in m + 1 .. Len(accepted') : i # Len(accepted) + 1 =>
             i \in m + 1 .. Len(accepted)
      BY <1>1
    <2>3. m + 1 .. Len(accepted) \subseteq m + 1 .. Len(accepted')
      BY <1>1
    <2> QED
      BY <1>1, <2>1, <2>2, <2>3 DEF FeedsBehind
  <1>3. /\ Len(lines) = Cardinality(FeedsBehind(m))
        /\ \A i \in FeedsBehind(m) : IsCutAt(m, i)
    BY CutLines, Zenon
  <1>4. ASSUME NEW i \in FeedsBehind(m) PROVE IsCutAt(m, i)'
    <2>1. PICK k : k = Cardinality({j \in FeedsBehind(m) : j <= i})
      OBVIOUS
    <2>2. k = Cardinality({j \in FeedsBehind(m)' : j <= i})
      BY <1>2, <2>1
    <2>3. lines'[k] = lines[k] /\ IsCutAt(m, i)
      BY <1>3, <1>4
    <2> QED
      BY <1>4, <2>1, <2>2, <2>3, CutStaysAt
  <1>5. Len(lines') = Cardinality(FeedsBehind(m)')
    BY <1>2, <1>3
  <1> QED
    BY <1>2, <1>4, <1>5, CutLines, Zenon

(* A line feed dispatches the line at hand.                                *)
LEMMA LinesGrow ==
  ASSUME TypeOK, accepted' = Append(accepted, "lf"),
         lines' = Append(lines, WithoutCr(line)),
         NEW m \in 0..Len(accepted), LinesAreCutBehind(m), LineIsBehind(m)
  PROVE  LinesAreCutBehind(m)'
  <1>0. accepted \in Seq(Bytes) /\ lines \in Seq(Seq(Bytes)) /\ line \in Seq(Bytes)
    BY DEF TypeOK
  <1>1. /\ Len(accepted) \in Nat /\ Len(accepted') = Len(accepted) + 1
        /\ \A k \in 1..Len(accepted) : accepted'[k] = accepted[k]
        /\ accepted'[Len(accepted) + 1] = "lf"
        /\ "lf" \in Bytes /\ m \in Nat
    <2>1. "lf" \in Bytes
      BY DEF Bytes, Ends
    <2> QED
      BY <1>0, <2>1, AppendProperties, LenProperties
  <1>2. WithoutCr(line) \in Seq(Bytes)
    BY <1>0, WithoutCrType
  <1>3. /\ Len(lines) \in Nat /\ Len(lines') = Len(lines) + 1
        /\ \A k \in 1..Len(lines) : lines'[k] = lines[k]
        /\ lines'[Len(lines) + 1] = WithoutCr(line)
    BY <1>0, <1>2, AppendProperties, LenProperties
  <1>4. PICK e : e = Len(accepted) + 1
    OBVIOUS
  <1>5. FeedsBehind(m)' = FeedsBehind(m) \cup {e}
    <2>1. \A i \in m + 1 .. Len(accepted) : accepted'[i] = accepted[i]
      BY <1>1
    <2>2. m + 1 .. Len(accepted') = (m + 1 .. Len(accepted)) \cup {e}
      BY <1>1, <1>4
    <2>3. accepted'[e] = "lf"
      BY <1>1, <1>4
    <2> QED
      BY <2>1, <2>2, <2>3 DEF FeedsBehind
  <1>6. /\ e \notin FeedsBehind(m) /\ e \in Nat
        /\ \A j \in FeedsBehind(m) : j \in Nat /\ j < e
    BY <1>1, <1>4 DEF FeedsBehind
  <1>7. /\ IsFiniteSet(FeedsBehind(m))
        /\ \A i \in FeedsBehind(m) :
              Cardinality({j \in FeedsBehind(m) : j <= i})
                 \in 1..Cardinality(FeedsBehind(m))
    BY <1>0, <1>1, FeedsFacts
  <1>8. Cardinality(FeedsBehind(m)') = Cardinality(FeedsBehind(m)) + 1
    BY <1>5, <1>6, <1>7, FS_AddElement
  <1>9. /\ Len(lines) = Cardinality(FeedsBehind(m))
        /\ \A i \in FeedsBehind(m) : IsCutAt(m, i)
    BY CutLines, Zenon
  <1>10. Len(lines') = Cardinality(FeedsBehind(m)')
    BY <1>3, <1>8, <1>9
  <1>11. ASSUME NEW i \in FeedsBehind(m) PROVE IsCutAt(m, i)'
    <2>1. PICK k : k = Cardinality({j \in FeedsBehind(m) : j <= i})
      OBVIOUS
    <2>2. {j \in FeedsBehind(m)' : j <= i} = {j \in FeedsBehind(m) : j <= i}
      BY <1>5, <1>6, <1>11
    <2>3. k = Cardinality({j \in FeedsBehind(m)' : j <= i})
      BY <2>1, <2>2, Zenon
    <2>4. k \in 1..Len(lines)
      BY <1>7, <1>9, <1>11, <2>1
    <2>5. lines'[k] = lines[k] /\ IsCutAt(m, i)
      BY <1>3, <1>9, <1>11, <2>4
    <2> QED
      BY <1>0, <1>1, <1>11, <2>1, <2>3, <2>5, CutStaysAt
  <1>12. IsCutAt(m, e)'
    <2>1. PICK b \in m + 1 .. Len(accepted) + 1 :
             /\ LineBegins(m, b)
             /\ line = SubSeq(accepted, b, Len(accepted))
             /\ \A i \in b..Len(accepted) : accepted[i] # "lf"
      BY LineInBytes
    <2>2. e \in m + 1 .. Len(accepted) + 1 /\ b \in m + 1 .. e
          /\ e - 1 = Len(accepted)
      BY <1>1, <1>4
    <2>3. /\ LineBegins(m, b)' <=> LineBegins(m, b)
          /\ \A j \in b .. e - 1 : accepted'[j] = accepted[j]
          /\ SubSeq(accepted', b, e - 1) = SubSeq(accepted, b, e - 1)
      BY <1>0, <1>1, <2>2, CutPiece
    <2>4. \A j \in b .. e - 1 : accepted'[j] # "lf"
      BY <2>1, <2>2, <2>3
    <2>5. SubSeq(accepted', b, e - 1) = line
      BY <2>1, <2>2, <2>3, Zenon
    <2>6. {j \in FeedsBehind(m)' : j <= e} = FeedsBehind(m)'
      BY <1>5, <1>6
    <2>7. lines'[Cardinality({j \in FeedsBehind(m)' : j <= e})]
             = WithoutCr(SubSeq(accepted', b, e - 1))
      BY <1>3, <1>8, <1>9, <2>5, <2>6
    <2> QED
      BY <2>1, <2>2, <2>3, <2>4, <2>7, Zenon DEF IsCutAt
  <1> QED
    BY <1>5, <1>10, <1>11, <1>12, CutLines

-----------------------------------------------------------------------------
(* The reader's invariant                                                  *)

(* A line begins with the marker when it begins with three @.              *)
LEMMA PrefixFacts ==
  ASSUME NEW l \in Seq(Bytes)
  PROVE  IsPrefix(Marker, l) <=>
            Len(l) >= 3 /\ l[1] = "@" /\ l[2] = "@" /\ l[3] = "@"
  <1>1. Len(l) \in Nat
    BY LenProperties
  <1>2. SubSeq(Marker, 1, 3) = Marker
    <2>1. Marker \in Seq(Bytes) /\ 3 \in 3..Len(Marker)
      BY MarkerFacts
    <2>2. 3 - 2 = 1 /\ 3 - 1 = 2
      OBVIOUS
    <2> QED
      BY <2>1, <2>2, MarkerAt, MarkerFacts
  <1>3. ASSUME Len(l) >= 3
        PROVE  SubSeq(l, 1, 3) = Marker <=> l[1] = "@" /\ l[2] = "@" /\ l[3] = "@"
    <2>1. 3 \in 3..Len(l) /\ 3 - 2 = 1 /\ 3 - 1 = 2
      BY <1>1, <1>3
    <2> QED
      BY <2>1, MarkerAt
  <1>4. Len(Marker) = 3
    BY MarkerFacts
  <1>5. IsPrefix(Marker, l) <=> 3 <= Len(l) /\ Marker = SubSeq(l, 1, 3)
    BY <1>2, <1>4, Zenon DEF IsPrefix
  <1> QED
    BY <1>1, <1>3, <1>5

(* Without its carriage return a line begins as it did.                    *)
LEMMA StillNoPrefix ==
  ASSUME NEW l \in Seq(Bytes), ~IsPrefix(Marker, l)
  PROVE  ~IsPrefix(Marker, WithoutCr(l))
  <1>1. PICK w : w = WithoutCr(l)
    OBVIOUS
  <1>2. w \in Seq(Bytes) /\ Len(w) \in Nat /\ Len(l) \in Nat
    BY <1>1, WithoutCrType, LenProperties
  <1>3. CASE w = l
    BY <1>1, <1>3
  <1>4. CASE w # l
    <2>1. l # <<>> /\ w = SubSeq(l, 1, Len(l) - 1)
      BY <1>1, <1>4 DEF WithoutCr
    <2>2. PICK e : e = Len(l) - 1
      OBVIOUS
    <2>3. Len(l) # 0
      BY <2>1, EmptySeq
    <2>4. e \in 0..Len(l) /\ 1 \in Nat \ {0} /\ w = SubSeq(l, 1, e)
      BY <1>2, <2>1, <2>2, <2>3
    <2>5. /\ Len(w) = IF 1 <= e THEN e - 1 + 1 ELSE 0
          /\ \A i \in 1..e - 1 + 1 : w[i] = l[1 + i - 1]
      BY <2>4, PieceFacts
    <2>6. ASSUME Len(w) >= 3
          PROVE  Len(l) >= 3 /\ w[1] = l[1] /\ w[2] = l[2] /\ w[3] = l[3]
      <3>1. e >= 3 /\ Len(l) >= 3
        BY <1>2, <2>2, <2>4, <2>5, <2>6
      <3>2. 1 \in 1..e - 1 + 1 /\ 2 \in 1..e - 1 + 1 /\ 3 \in 1..e - 1 + 1
        BY <2>4, <3>1
      <3>3. w[1] = l[1 + 1 - 1] /\ w[2] = l[1 + 2 - 1] /\ w[3] = l[1 + 3 - 1]
        BY <2>5, <3>2
      <3> QED
        BY <3>1, <3>3
    <2> QED
      BY <1>1, <1>2, <2>6, PrefixFacts
  <1> QED
    BY <1>3, <1>4

(* A byte that does not make the line the marker does not make it begin    *)
(* with it either.                                                         *)
LEMMA LongerNoPrefix ==
  ASSUME NEW l \in Seq(Bytes), NEW x \in Bytes, ~IsPrefix(Marker, l),
         Append(l, x) # Marker
  PROVE  ~IsPrefix(Marker, Append(l, x))
  <1>1. PICK w : w = Append(l, x)
    OBVIOUS
  <1>2. /\ w \in Seq(Bytes) /\ Len(l) \in Nat /\ Len(w) = Len(l) + 1
        /\ \A i \in 1..Len(l) : w[i] = l[i]
        /\ w[Len(l) + 1] = x
    BY <1>1, AppendProperties, LenProperties
  <1>3. ~(Len(l) = 2 /\ l[1] = "@" /\ l[2] = "@" /\ x = "@")
    BY ThirdAt
  <1>4. ~(Len(l) >= 3 /\ l[1] = "@" /\ l[2] = "@" /\ l[3] = "@")
    BY PrefixFacts
  <1>5. ~(Len(w) >= 3 /\ w[1] = "@" /\ w[2] = "@" /\ w[3] = "@")
    <2>1. CASE Len(l) >= 3
      <3>1. w[1] = l[1] /\ w[2] = l[2] /\ w[3] = l[3]
        BY <1>2, <2>1
      <3> QED
        BY <1>4, <2>1, <3>1
    <2>2. CASE Len(l) = 2
      <3>1. w[1] = l[1] /\ w[2] = l[2] /\ w[2 + 1] = x
        BY <1>2, <2>2
      <3> QED
        BY <1>3, <2>2, <3>1
    <2>3. CASE Len(l) < 2
      <3>1. PICK k : k = Len(l)
        OBVIOUS
      <3>2. k \in Nat /\ k < 2 /\ Len(w) = k + 1
        BY <1>2, <2>3, <3>1, Zenon
      <3>3. ~(k + 1 >= 3)
        BY <3>2
      <3> QED
        BY <3>2, <3>3, Zenon
    <2>4. Len(l) >= 3 \/ Len(l) = 2 \/ Len(l) < 2
      <3>1. \A k \in Nat : k >= 3 \/ k = 2 \/ k < 2
        OBVIOUS
      <3> QED
        BY <1>2, <3>1, Zenon
    <2> QED
      BY <2>1, <2>2, <2>3, <2>4, Zenon
  <1> QED
    BY <1>1, <1>2, <1>5, PrefixFacts

(* Nothing is behind the end of a marker that has just been read.          *)
LEMMA NothingBehind ==
  ASSUME NEW m, Len(accepted') \in Nat, m = Len(accepted'), lines' = <<>>
  PROVE  LinesAreCutBehind(m)'
  <1>1. FeedsBehind(m)' = {}
    BY DEF FeedsBehind
  <1>2. Len(lines') = Cardinality(FeedsBehind(m)')
    BY <1>1, FS_EmptySet
  <1> QED
    BY <1>1, <1>2, CutLines

(* Once the marker was read, what _accept_byte does with a byte keeps the  *)
(* lines cut behind it.                                                    *)
LEMMA AcceptBehind ==
  ASSUME TypeOK, AcceptByte, initialized,
         NEW m \in MarkerEnds, IsFirstMarker(m), LinesAreCutBehind(m),
         LineIsBehind(m)
  PROVE  /\ initialized' /\ m \in MarkerEnds' /\ IsFirstMarker(m)'
         /\ LinesAreCutBehind(m)' /\ LineIsBehind(m)'
  <1>1. /\ chunk # <<>> /\ chunk \in Seq(Bytes)
        /\ accepted' = Append(accepted, Head(chunk))
        /\ accepted \in Seq(Bytes) /\ line \in Seq(Bytes)
    BY DEF AcceptByte, TypeOK
  <1>2. PICK x : x = Head(chunk)
    OBVIOUS
  <1>3. x \in Bytes /\ accepted' = Append(accepted, x)
    BY <1>1, <1>2, HeadTailProperties
  <1>4. Len(accepted) \in Nat /\ accepted' \in Seq(Bytes)
    BY <1>1, <1>3, AppendProperties, LenProperties
  <1>5. MarkerEnds = MarksIn(accepted) /\ MarkerEnds' = MarksIn(accepted')
    BY <1>1, <1>4, MarksFacts
  <1>6. /\ MarksIn(accepted) = MarksIn(accepted') \cap (1..Len(accepted))
        /\ MarksIn(accepted') \subseteq 1..Len(accepted) + 1
    BY <1>1, <1>3, MarksGrow
  <1>7. m \in MarkerEnds' /\ m \in 1..Len(accepted)
    BY <1>5, <1>6
  <1>8. IsFirstMarker(m)'
    <2>1. ASSUME NEW j \in MarkerEnds' PROVE m <= j
      <3>1. CASE j \in 1..Len(accepted)
        <4>1. j \in MarkerEnds
          BY <1>5, <1>6, <2>1, <3>1
        <4> QED
          BY <4>1 DEF IsFirstMarker
      <3>2. CASE j \notin 1..Len(accepted)
        <4>1. j \in 1..Len(accepted) + 1
          BY <1>5, <1>6, <2>1
        <4> QED
          BY <1>4, <1>7, <3>2, <4>1
      <3> QED
        BY <3>1, <3>2
    <2> QED
      BY <1>7, <2>1 DEF IsFirstMarker
  <1>9. m \in 0..Len(accepted) /\ m \in Nat /\ m \in 0..Len(accepted) + 1
    BY <1>4, <1>7
  <1>10. CASE x = "lf"
    <2>1. /\ line' = <<>> /\ initialized' = initialized
          /\ lines' = Append(lines, WithoutCr(line))
      BY <1>2, <1>10 DEF AcceptByte, handleLine
    <2>2. LinesAreCutBehind(m)'
      BY <1>3, <1>9, <1>10, <2>1, LinesGrow
    <2>3. LineIsBehind(m)'
      BY <1>3, <1>9, <1>10, <2>1, LineRestarts
    <2> QED
      BY <1>7, <1>8, <2>1, <2>2, <2>3
  <1>11. CASE x # "lf"
    <2>1. /\ line' = Append(line, x) /\ initialized' = initialized /\ lines' = lines
      BY <1>2, <1>11 DEF AcceptByte, AppendByte
    <2>2. LinesAreCutBehind(m)'
      BY <1>1, <1>3, <1>9, <1>11, <2>1, LinesStay
    <2>3. LineIsBehind(m)'
      BY <1>3, <1>9, <2>1, LineGrows
    <2> QED
      BY <1>7, <1>8, <2>1, <2>2, <2>3
  <1> QED
    BY <1>10, <1>11

(* Before, it initializes the transport with the byte that ends the first  *)
(* marker and dispatches nothing.                                          *)
LEMMA AcceptBefore ==
  ASSUME TypeOK, AcceptByte, ~initialized, MarkerEnds = {}, lines = <<>>,
         LineIsBehind(0), ~IsPrefix(Marker, line), ~failed
  PROVE  Framed'
  <1>1. /\ chunk # <<>> /\ chunk \in Seq(Bytes)
        /\ accepted' = Append(accepted, Head(chunk))
        /\ accepted \in Seq(Bytes) /\ line \in Seq(Bytes)
    BY DEF AcceptByte, TypeOK
  <1>2. PICK x : x = Head(chunk)
    OBVIOUS
  <1>3. x \in Bytes /\ accepted' = Append(accepted, x)
    BY <1>1, <1>2, HeadTailProperties
  <1>4. /\ Len(accepted) \in Nat /\ accepted' \in Seq(Bytes)
        /\ Len(accepted') = Len(accepted) + 1
        /\ accepted'[Len(accepted) + 1] = x
    BY <1>1, <1>3, AppendProperties, LenProperties
  <1>5. MarkerEnds = MarksIn(accepted) /\ MarkerEnds' = MarksIn(accepted')
    BY <1>1, <1>4, MarksFacts
  <1>6. /\ MarksIn(accepted) = MarksIn(accepted') \cap (1..Len(accepted))
        /\ MarksIn(accepted') \subseteq 1..Len(accepted) + 1
    BY <1>1, <1>3, MarksGrow
  <1>6a. Len(accepted) + 1 \in MarksIn(accepted') => x = "@"
    BY <1>4 DEF MarksIn
  <1>7. \A j \in MarkerEnds' : j = Len(accepted) + 1
    BY <1>4, <1>5, <1>6
  <1>8. Len(accepted) + 1 \in MarkerEnds' <=> Append(line, x) = Marker
    BY <1>3, <1>5, MarkerByLine
  <1>9. 0 \in 0..Len(accepted) /\ 0 \in 0..Len(accepted) + 1
        /\ Len(accepted) + 1 \in 0..Len(accepted) + 1
    BY <1>4
  <1>10. CASE x = "lf"
    <2>1. /\ line' = <<>> /\ lines' = lines
          /\ initialized' = IsPrefix(Marker, WithoutCr(line))
      BY <1>2, <1>10 DEF AcceptByte, handleLine
    <2>2. ~initialized'
      BY <1>1, <2>1, StillNoPrefix
    <2>3. LineIsBehind(0)'
      BY <1>3, <1>9, <1>10, <2>1, LineRestarts
    <2>4. MarkerEnds' = {}
      BY <1>5, <1>6a, <1>7, <1>10
    <2>5. ~IsPrefix(Marker, line')
      <3>1. <<>> \in Seq(Bytes) /\ Len(<<>>) = 0
        OBVIOUS
      <3>2. ~(Len(<<>>) >= 3)
        BY <3>1
      <3>3. ~IsPrefix(Marker, <<>>)
        BY <3>1, <3>2, PrefixFacts
      <3> QED
        BY <2>1, <3>3
    <2> QED
      BY <2>1, <2>2, <2>3, <2>4, <2>5, Zenon DEF Framed
  <1>11. CASE x # "lf" /\ Append(line, x) = Marker
    <2>1. line' = <<>> /\ lines' = <<>> /\ initialized'
      BY <1>2, <1>11 DEF AcceptByte, AppendByte
    <2>2. PICK m : m = Len(accepted')
      OBVIOUS
    <2>3. m \in MarkerEnds' /\ m = Len(accepted) + 1
      BY <1>4, <1>8, <1>11, <2>2
    <2>4. IsFirstMarker(m)'
      BY <1>4, <1>7, <2>3 DEF IsFirstMarker
    <2>5. LinesAreCutBehind(m)'
      BY <1>4, <2>1, <2>2, NothingBehind
    <2>6. LineIsBehind(m)'
      BY <1>3, <1>9, <2>1, <2>3, LineRestarts
    <2> QED
      BY <2>1, <2>3, <2>4, <2>5, <2>6, Zenon DEF Framed
  <1>12. CASE x # "lf" /\ Append(line, x) # Marker
    <2>1. line' = Append(line, x) /\ lines' = <<>> /\ ~initialized'
      BY <1>2, <1>12 DEF AcceptByte, AppendByte
    <2>2. LineIsBehind(0)'
      BY <1>3, <1>9, <2>1, LineGrows
    <2>3. MarkerEnds' = {}
      BY <1>7, <1>8, <1>12
    <2>4. ~IsPrefix(Marker, line')
      BY <1>1, <1>3, <1>12, <2>1, LongerNoPrefix
    <2> QED
      BY <2>1, <2>2, <2>3, <2>4, Zenon DEF Framed
  <1> QED
    BY <1>10, <1>11, <1>12, Zenon

(* Every other step leaves the bytes and the lines alone, or fails.        *)
LEMMA StepFramed == TypeOK /\ Framed /\ [Next]_vars => Framed'
  <1> SUFFICES ASSUME TypeOK, Framed, [Next]_vars PROVE Framed'
    OBVIOUS
  <1>1. CASE AcceptByte
    <2>1. CASE failed
      BY <1>1, <2>1 DEF AcceptByte, Framed
    <2>2. CASE ~failed /\ initialized
      <3>1. PICK m \in MarkerEnds :
               IsFirstMarker(m) /\ LinesAreCutBehind(m) /\ LineIsBehind(m)
        BY <2>2, Zenon DEF Framed
      <3>2. /\ initialized' /\ m \in MarkerEnds' /\ IsFirstMarker(m)'
            /\ LinesAreCutBehind(m)' /\ LineIsBehind(m)'
        BY <1>1, <2>2, <3>1, AcceptBehind
      <3> QED
        BY <3>2, Zenon DEF Framed
    <2>3. CASE ~failed /\ ~initialized
      <3>1. /\ MarkerEnds = {} /\ lines = <<>> /\ LineIsBehind(0)
            /\ ~IsPrefix(Marker, line)
        BY <2>3, Zenon DEF Framed
      <3> QED
        BY <1>1, <2>3, <3>1, AcceptBefore
    <2> QED
      BY <2>1, <2>2, <2>3
  <1>2. CASE ~AcceptByte
    <2>1. \/ failed'
          \/ UNCHANGED <<accepted, line, lines, initialized, failed>>
      <3>1. CASE UNCHANGED vars
        BY <3>1 DEF vars, readerVars
      <3>2. CASE Arrives \/ InWaiting \/ Read \/ ReaderFails
        BY <3>2 DEF Arrives, InWaiting, Read, ReaderFails
      <3>3. CASE Initialize \/ Ready \/ \E c \in Commands : Check(c) \/ Begin(c)
        BY <3>3 DEF Initialize, Ready, Check, Begin, readerVars
      <3>4. CASE WritePart \/ WriteFails
        BY <3>4 DEF WritePart, WriteFails, readerVars
      <3> QED
        BY <1>2, <3>1, <3>2, <3>3, <3>4 DEF Next
    <2>2. CASE failed'
      BY <2>2 DEF Framed
    <2>3. CASE UNCHANGED <<accepted, line, lines, initialized, failed>>
      <3>1. MarkerEnds' = MarkerEnds
        BY <2>3 DEF MarkerEnds
      <3>2. \A m : IsFirstMarker(m)' <=> IsFirstMarker(m)
        BY <3>1, Zenon DEF IsFirstMarker
      <3>3. \A m : FeedsBehind(m)' = FeedsBehind(m)
        BY <2>3 DEF FeedsBehind
      <3>4. \A m, b : LineBegins(m, b)' <=> LineBegins(m, b)
        BY <2>3, Zenon DEF LineBegins
      <3>5. \A m : LineIsBehind(m)' <=> LineIsBehind(m)
        BY <2>3, <3>4 DEF LineIsBehind
      <3>6. \A m : LinesAreCutBehind(m)' <=> LinesAreCutBehind(m)
        <4> TAKE m
        <4>1. \A i : IsCutAt(m, i)' <=> IsCutAt(m, i)
          BY <2>3, <3>3, <3>4, Zenon DEF IsCutAt
        <4> QED
          BY <2>3, <3>3, <4>1, CutLines
      <3> QED
        BY <2>3, <3>1, <3>2, <3>5, <3>6 DEF Framed
    <2> QED
      BY <2>1, <2>2, <2>3
  <1> QED
    BY <1>1, <1>2

-----------------------------------------------------------------------------
(* What the steps of the writers do                                        *)

(* One write puts the next bytes of the holder behind the others; the last *)
(* one ends its write.                                                     *)
LEMMA PartFacts ==
  ASSUME TypeOK, WritePart
  PROVE  \E n \in 1..Len(rest) :
            /\ Len(wire) \in Nat /\ Len(wire') = Len(wire) + n
            /\ \A i \in 1..Len(wire) : wire'[i] = wire[i]
            /\ \A i \in 1..n : /\ wire'[Len(wire) + i].of = writeLock
                               /\ wire'[Len(wire) + i].byte = rest[i]
            /\ rest' = SubSeq(rest, n + 1, Len(rest))
            /\ \/ /\ rest' = <<>> /\ writeLock' = Nobody
                  /\ HolderGoesTo("returned")
               \/ /\ rest' # <<>>
                  /\ UNCHANGED <<writeLock, boot, at>>
  <1>1. PICK n \in 1..Len(rest) :
            /\ wire' = wire \o [i \in 1..n |-> [of |-> writeLock, byte |-> rest[i]]]
            /\ rest' = SubSeq(rest, n + 1, Len(rest))
    BY DEF WritePart
  <1>2. /\ writeLock \in Commands \cup {Opener} /\ rest \in Seq(Bytes)
        /\ wire \in Seq([of : Commands \cup {Opener}, byte : Bytes])
    BY DEF WritePart, TypeOK
  <1>3. /\ Len(wire) \in Nat /\ Len(wire') = Len(wire) + n
        /\ \A i \in 1..Len(wire) : wire'[i] = wire[i]
        /\ \A i \in 1..n : wire'[Len(wire) + i] = [of |-> writeLock, byte |-> rest[i]]
    BY <1>1, <1>2, WrittenFacts, SMTT(30)
  <1>4. \A i \in 1..n : /\ wire'[Len(wire) + i].of = writeLock
                        /\ wire'[Len(wire) + i].byte = rest[i]
    <2> TAKE i \in 1..n
    <2>1. PICK w : w = wire'[Len(wire) + i]
      OBVIOUS
    <2>2. w = [of |-> writeLock, byte |-> rest[i]]
      BY <1>3, <2>1
    <2>3. w.of = writeLock /\ w.byte = rest[i]
      BY <2>2
    <2> QED
      BY <2>1, <2>3
  <1>5. \/ rest' = <<>> /\ writeLock' = Nobody /\ HolderGoesTo("returned")
        \/ rest' # <<>> /\ UNCHANGED <<writeLock, boot, at>>
    BY DEF WritePart
  <1> QED
    BY <1>1, <1>3, <1>4, <1>5

(* The end of a write concerns the thread that held the lock.              *)
LEMMA HolderFacts ==
  ASSUME TypeOK, writeLock # Nobody,
         NEW s \in {"returned", "raised"}, HolderGoesTo(s)
  PROVE  \/ /\ writeLock = Opener /\ at' = at
            /\ s = "raised" => boot' = "raised"
            /\ s = "returned" /\ boot = "crlf" => boot' = "startCLI"
            /\ s = "returned" /\ boot # "crlf" => boot' = "wait"
         \/ /\ writeLock \in Commands /\ boot' = boot
            /\ at[writeLock] = "writing" /\ at'[writeLock] = s
            /\ \A c \in Commands : c # writeLock => at'[c] = at[c]
  <1>1. CASE writeLock = Opener
    <2>1. /\ at' = at
          /\ boot' = CASE s = "raised" -> "raised"
                       [] s # "raised" /\ boot = "crlf" -> "startCLI"
                       [] s # "raised" /\ boot # "crlf" -> "wait"
      BY <1>1 DEF HolderGoesTo
    <2> QED
      BY <1>1, <2>1
  <1>2. CASE writeLock # Opener
    BY <1>2 DEF HolderGoesTo, TypeOK
  <1> QED
    BY <1>1, <1>2

(* initialize() and the calls write at different times.                    *)
LEMMA WriterIs ==
  ASSUME TypeOK, OpenerFirst, writeLock # Nobody
  PROVE  \/ writeLock = Opener /\ boot \in {"crlf", "startCLI"}
         \/ writeLock \in Commands /\ at[writeLock] = "writing" /\ boot = "ready"
  BY DEF TypeOK, OpenerFirst

(* Steps of the reader, and of the port, leave the writers alone.          *)
LEMMA ReaderLeavesWriters ==
  ASSUME [Next]_vars
  PROVE  \/ Initialize \/ Ready \/ \E c \in Commands : Check(c) \/ Begin(c)
         \/ WritePart \/ WriteFails
         \/ UNCHANGED <<boot, at, writeLock, rest, slots, wire>>
  <1>1. CASE UNCHANGED vars
    BY <1>1 DEF vars, writerVars
  <1>2. CASE Arrives \/ InWaiting \/ Read \/ ReaderFails \/ AcceptByte
    BY <1>2 DEF Arrives, InWaiting, Read, ReaderFails, AcceptByte, writerVars
  <1> QED
    BY <1>1, <1>2 DEF Next

-----------------------------------------------------------------------------
(* The order of the writers                                                *)

(* initialize() is through before there are calls.                         *)
LEMMA StepOpenerFirst ==
  ASSUME TypeOK, OpenerFirst, [Next]_vars
  PROVE  OpenerFirst'
  <1>1. CASE Initialize
    <2>1. /\ boot' = boot /\ at' = at /\ wire' = wire
          /\ boot \in {"crlf", "startCLI"}
      BY <1>1 DEF Initialize
    <2> QED
      BY <2>1 DEF OpenerFirst
  <1>2. CASE Ready
    BY <1>2 DEF Ready, OpenerFirst, writerVars
  <1>3. ASSUME NEW c \in Commands, Check(c) PROVE OpenerFirst'
    BY <1>3 DEF Check, OpenerFirst
  <1>4. ASSUME NEW c \in Commands, Begin(c) PROVE OpenerFirst'
    <2>1. boot = "ready" /\ boot' = boot
      BY <1>4 DEF Begin, OpenerFirst
    <2>2. writeLock' # Opener
      BY <1>4, CommandsAssumption DEF Begin, Locks
    <2> QED
      BY <2>1, <2>2 DEF OpenerFirst
  <1>5. CASE WritePart
    <2>1. PICK n \in 1..Len(rest) :
            /\ Len(wire) \in Nat /\ Len(wire') = Len(wire) + n
            /\ \A i \in 1..Len(wire) : wire'[i] = wire[i]
            /\ \A i \in 1..n : wire'[Len(wire) + i].of = writeLock
            /\ \/ rest' = <<>> /\ writeLock' = Nobody /\ HolderGoesTo("returned")
               \/ rest' # <<>> /\ UNCHANGED <<writeLock, boot, at>>
      BY <1>5, PartFacts
    <2>2. writeLock # Nobody
      BY <1>5 DEF WritePart
    <2>3. CASE writeLock = Opener
      <3>1. /\ boot \in {"crlf", "startCLI"} /\ at' = at
            /\ writeLock' = Opener => boot' = boot
        BY <2>1, <2>2, <2>3, WriterIs, HolderFacts, CommandsAssumption
      <3>2. \A i \in 1..Len(wire') : wire'[i].of = Opener
        <4> TAKE i \in 1..Len(wire')
        <4>1. CASE i \in 1..Len(wire)
          BY <2>1, <3>1, <4>1 DEF OpenerFirst
        <4>2. CASE i \notin 1..Len(wire)
          <5>1. PICK k : k = i - Len(wire)
            OBVIOUS
          <5>2. k \in 1..n /\ i = Len(wire) + k
            BY <2>1, <4>2, <5>1
          <5> QED
            BY <2>1, <2>3, <5>2
        <4> QED
          BY <4>1, <4>2
      <3>3. \A c \in Commands : at'[c] = "idle"
        BY <3>1 DEF OpenerFirst
      <3> QED
        BY <3>1, <3>2, <3>3 DEF OpenerFirst
    <2>4. CASE writeLock # Opener
      <3>1. boot' = "ready" /\ writeLock' # Opener
        BY <2>1, <2>2, <2>4, WriterIs, HolderFacts, CommandsAssumption
      <3> QED
        BY <3>1 DEF OpenerFirst
    <2> QED
      BY <2>3, <2>4
  <1>6. CASE WriteFails
    <2>1. /\ writeLock # Nobody /\ writeLock' = Nobody /\ wire' = wire
          /\ HolderGoesTo("raised")
      BY <1>6 DEF WriteFails
    <2>2. writeLock' # Opener
      BY <2>1, CommandsAssumption
    <2>3. CASE writeLock = Opener
      <3>1. boot \in {"crlf", "startCLI"} /\ at' = at
        BY <2>1, <2>3, WriterIs, HolderFacts, CommandsAssumption
      <3> QED
        BY <2>1, <2>2, <3>1 DEF OpenerFirst
    <2>4. CASE writeLock # Opener
      <3>1. boot' = "ready"
        BY <2>1, <2>4, WriterIs, HolderFacts, CommandsAssumption
      <3> QED
        BY <2>2, <3>1 DEF OpenerFirst
    <2> QED
      BY <2>3, <2>4
  <1>7. CASE UNCHANGED <<boot, at, writeLock, rest, slots, wire>>
    BY <1>7 DEF OpenerFirst
  <1> QED
    BY <1>1, <1>2, <1>3, <1>4, <1>5, <1>6, <1>7, ReaderLeavesWriters

(* A call gets its slot when it takes the lock.                            *)
LEMMA StepSlotsOnce ==
  ASSUME TypeOK, SlotsOnce, [Next]_vars
  PROVE  SlotsOnce'
  <1>1. CASE Initialize
    <2>1. /\ slots' = slots /\ at' = at /\ wire' = wire /\ writeLock' = Opener
      BY <1>1 DEF Initialize, Locks
    <2> QED
      BY <2>1, CommandsAssumption DEF SlotsOnce, HasSlot
  <1>2. CASE Ready
    BY <1>2 DEF Ready, SlotsOnce, HasSlot, writerVars
  <1>3. ASSUME NEW c \in Commands, Check(c) PROVE SlotsOnce'
    <2>1. /\ slots' = slots /\ wire' = wire /\ writeLock' = writeLock
          /\ at[c] = "idle" /\ \A d \in Commands : d # c => at'[d] = at[d]
      BY <1>3 DEF Check, TypeOK
    <2> QED
      BY <2>1 DEF SlotsOnce, HasSlot
  <1>4. ASSUME NEW c \in Commands, Begin(c) PROVE SlotsOnce'
    <2>1. /\ at[c] = "checked" /\ at'[c] = "writing"
          /\ \A d \in Commands : d # c => at'[d] = at[d]
          /\ writeLock' = c /\ wire' = wire /\ slots' = Append(slots, c)
      BY <1>4 DEF Begin, Locks, TypeOK
    <2>2. /\ Len(slots) \in Nat /\ Len(slots') = Len(slots) + 1
          /\ \A i \in 1..Len(slots) : slots'[i] = slots[i]
          /\ slots'[Len(slots) + 1] = c /\ slots' \in Seq(Commands)
      BY <2>1, AppendProperties, LenProperties DEF TypeOK
    <2>3. ~HasSlot(c)
      BY <2>1 DEF SlotsOnce
    <2>4. \A i, j \in 1..Len(slots') : slots'[i] = slots'[j] => i = j
      <3> TAKE i, j \in 1..Len(slots')
      <3>1. CASE i \in 1..Len(slots) /\ j \in 1..Len(slots)
        BY <2>2, <3>1 DEF SlotsOnce
      <3>2. CASE i \in 1..Len(slots) /\ j \notin 1..Len(slots)
        BY <2>2, <2>3, <3>2 DEF HasSlot
      <3>3. CASE i \notin 1..Len(slots) /\ j \in 1..Len(slots)
        BY <2>2, <2>3, <3>3 DEF HasSlot
      <3>4. CASE i \notin 1..Len(slots) /\ j \notin 1..Len(slots)
        BY <2>2, <3>4
      <3> QED
        BY <3>1, <3>2, <3>3, <3>4
    <2>5. \A d \in Commands : d # c => (HasSlot(d)' <=> HasSlot(d))
      BY <2>2 DEF HasSlot
    <2>6. HasSlot(c)'
      BY <2>2 DEF HasSlot
    <2>7. \A d \in Commands : at'[d] \in {"idle", "checked"} => ~HasSlot(d)'
      BY <2>1, <2>5 DEF SlotsOnce
    <2>8. \A i \in 1..Len(wire') : wire'[i].of \in Commands =>
             \E p \in 1..Len(slots') : slots'[p] = wire'[i].of
      <3> TAKE i \in 1..Len(wire')
      <3> HAVE wire'[i].of \in Commands
      <3>1. PICK p \in 1..Len(slots) : slots[p] = wire[i].of
        BY <2>1 DEF SlotsOnce, HasSlot
      <3>2. p \in 1..Len(slots') /\ slots'[p] = wire'[i].of
        BY <2>1, <2>2, <3>1
      <3> QED
        BY <3>2
    <2>9. slots' # <<>> /\ slots'[Len(slots')] = writeLock'
      BY <2>1, <2>2, EmptySeq
    <2> QED
      BY <2>4, <2>7, <2>8, <2>9, Zenon DEF SlotsOnce, HasSlot
  <1>5. CASE WritePart \/ WriteFails
    <2>1. slots' = slots /\ writeLock # Nobody
      BY <1>5 DEF WritePart, WriteFails
    <2>2. /\ \/ writeLock' = Nobody
             \/ UNCHANGED <<writeLock, boot, at>>
          /\ \A c \in Commands : at'[c] = at[c] \/ at'[c] \in {"returned", "raised"}
      <3>1. CASE WritePart
        BY <2>1, <3>1, PartFacts, HolderFacts
      <3>2. CASE WriteFails
        BY <2>1, <3>2, HolderFacts DEF WriteFails
      <3> QED
        BY <1>5, <3>1, <3>2
    <2>3. \A c : HasSlot(c)' <=> HasSlot(c)
      BY <2>1 DEF HasSlot
    <2>4. \A i \in 1..Len(wire') : wire'[i].of \in Commands => HasSlot(wire'[i].of)
      <3>1. CASE WritePart
        <4>1. PICK n \in 1..Len(rest) :
                /\ Len(wire) \in Nat /\ Len(wire') = Len(wire) + n
                /\ \A i \in 1..Len(wire) : wire'[i] = wire[i]
                /\ \A i \in 1..n : wire'[Len(wire) + i].of = writeLock
          BY <3>1, PartFacts
        <4>2. writeLock \in Commands => HasSlot(writeLock)
          <5>1. slots \in Seq(Commands) /\ Len(slots) \in Nat
            BY LenProperties DEF TypeOK
          <5>2. slots # <<>> => Len(slots) \in 1..Len(slots)
            BY <5>1, EmptySeq
          <5> QED
            BY <5>2 DEF SlotsOnce, HasSlot
        <4> TAKE i \in 1..Len(wire')
        <4>3. CASE i \in 1..Len(wire)
          BY <4>1, <4>3 DEF SlotsOnce
        <4>4. CASE i \notin 1..Len(wire)
          <5>1. PICK k : k = i - Len(wire)
            OBVIOUS
          <5>2. k \in 1..n /\ i = Len(wire) + k
            BY <4>1, <4>4, <5>1
          <5>3. wire'[i].of = writeLock
            BY <4>1, <5>2
          <5> QED
            BY <4>2, <5>3, Zenon
        <4> QED
          BY <4>3, <4>4
      <3>2. CASE WriteFails
        BY <3>2 DEF WriteFails, SlotsOnce
      <3> QED
        BY <1>5, <3>1, <3>2
    <2>5. \A c \in Commands : at'[c] \in {"idle", "checked"} => ~HasSlot(c)
      BY <2>2 DEF SlotsOnce
    <2>6. /\ \A i, j \in 1..Len(slots') : slots'[i] = slots'[j] => i = j
          /\ writeLock' \in Commands =>
                slots' # <<>> /\ slots'[Len(slots')] = writeLock'
      BY <2>1, <2>2, CommandsAssumption DEF SlotsOnce
    <2> QED
      BY <2>3, <2>4, <2>5, <2>6, Zenon DEF SlotsOnce
  <1>6. CASE UNCHANGED <<boot, at, writeLock, rest, slots, wire>>
    BY <1>6 DEF SlotsOnce, HasSlot
  <1> QED
    BY <1>1, <1>2, <1>3, <1>4, <1>5, <1>6, ReaderLeavesWriters

(* What a holder writes comes behind what calls with earlier slots wrote.  *)
LEMMA StepOrderedWire ==
  ASSUME TypeOK, OpenerFirst, SlotsOnce, OrderedWire, [Next]_vars
  PROVE  OrderedWire'
  <1>1. CASE UNCHANGED <<slots, wire>>
    BY <1>1 DEF OrderedWire
  <1>2. ASSUME NEW c \in Commands, Begin(c) PROVE OrderedWire'
    <2>1. at[c] = "checked" /\ wire' = wire /\ slots' = Append(slots, c)
      BY <1>2 DEF Begin
    <2>2. /\ Len(slots) \in Nat /\ Len(slots') = Len(slots) + 1
          /\ \A i \in 1..Len(slots) : slots'[i] = slots[i]
          /\ slots'[Len(slots) + 1] = c
      BY <2>1, AppendProperties, LenProperties DEF TypeOK
    <2>3. \A i \in 1..Len(wire) : wire[i].of # c
      BY <2>1 DEF SlotsOnce
    <2>4. \A i \in 1..Len(wire), p \in 1..Len(slots') :
             slots'[p] = wire[i].of => p \in 1..Len(slots) /\ slots[p] = wire[i].of
      <3> TAKE i \in 1..Len(wire), p \in 1..Len(slots')
      <3> HAVE slots'[p] = wire[i].of
      <3>1. p # Len(slots) + 1
        BY <2>2, <2>3
      <3>2. p \in 1..Len(slots)
        BY <2>2, <3>1
      <3> QED
        BY <2>2, <3>2
    <2> QED
      BY <2>1, <2>4 DEF OrderedWire
  <1>3. CASE WritePart
    <2>1. PICK n \in 1..Len(rest) :
            /\ Len(wire) \in Nat /\ Len(wire') = Len(wire) + n
            /\ \A i \in 1..Len(wire) : wire'[i] = wire[i]
            /\ \A i \in 1..n : wire'[Len(wire) + i].of = writeLock
      BY <1>3, PartFacts
    <2>2. slots' = slots /\ writeLock # Nobody
      BY <1>3 DEF WritePart
    <2>3. \A i \in 1..Len(wire') : i \notin 1..Len(wire) => wire'[i].of = writeLock
      <3> TAKE i \in 1..Len(wire')
      <3> HAVE i \notin 1..Len(wire)
      <3>1. PICK k : k = i - Len(wire)
        OBVIOUS
      <3>2. k \in 1..n /\ i = Len(wire) + k
        BY <2>1, <3>1
      <3> QED
        BY <2>1, <3>2
    <2>4. ASSUME NEW i \in 1..Len(wire), wire[i].of \in Commands
          PROVE  /\ writeLock \in Commands
                 /\ \A p, q \in 1..Len(slots) :
                       slots[p] = wire[i].of /\ slots[q] = writeLock => p <= q
      <3>1. writeLock \in Commands
        BY <2>2, <2>4, WriterIs, CommandsAssumption DEF OpenerFirst
      <3>2. Len(slots) \in 1..Len(slots) /\ slots[Len(slots)] = writeLock
        <4>1. slots \in Seq(Commands) /\ Len(slots) \in Nat
          BY LenProperties DEF TypeOK
        <4> QED
          BY <3>1, <4>1, EmptySeq DEF SlotsOnce
      <3>3. \A q \in 1..Len(slots) : slots[q] = writeLock => q = Len(slots)
        BY <3>2 DEF SlotsOnce
      <3> QED
        BY <3>1, <3>2, <3>3
    <2>5. ASSUME NEW i \in 1..Len(wire'), NEW j \in 1..Len(wire'),
                 i < j, wire'[i].of \in Commands
          PROVE  /\ wire'[j].of \in Commands
                 /\ \A p, q \in 1..Len(slots) :
                       slots[p] = wire'[i].of /\ slots[q] = wire'[j].of => p <= q
      <3>1. CASE j \in 1..Len(wire)
        <4>1. i \in 1..Len(wire)
          BY <2>1, <2>5, <3>1
        <4> QED
          BY <2>1, <2>5, <3>1, <4>1, ZenonT(30) DEF OrderedWire
      <3>2. CASE j \notin 1..Len(wire) /\ i \in 1..Len(wire)
        <4>1. wire'[j].of = writeLock /\ wire'[i] = wire[i]
          BY <2>1, <2>3, <3>2
        <4> QED
          BY <2>4, <2>5, <3>2, <4>1
      <3>3. CASE j \notin 1..Len(wire) /\ i \notin 1..Len(wire)
        <4>1. wire'[j].of = writeLock /\ wire'[i].of = writeLock
          BY <2>3, <3>3
        <4>2. \A p, q \in 1..Len(slots) : slots[p] = slots[q] => p = q
          BY DEF SlotsOnce
        <4>3. \A p, q \in 1..Len(slots) :
                 slots[p] = writeLock /\ slots[q] = writeLock => p <= q
          BY <4>2
        <4> QED
          BY <2>5, <4>1, <4>3
      <3> QED
        BY <3>1, <3>2, <3>3
    <2> QED
      BY <2>2, <2>5, Zenon DEF OrderedWire
  <1>4. \/ UNCHANGED <<slots, wire>> \/ WritePart
        \/ \E c \in Commands : Begin(c)
    <2>1. CASE Initialize \/ Ready \/ \E c \in Commands : Check(c)
      BY <2>1 DEF Initialize, Ready, Check, writerVars
    <2>2. CASE WriteFails
      BY <2>2 DEF WriteFails
    <2> QED
      BY <2>1, <2>2, ReaderLeavesWriters
  <1> QED
    BY <1>1, <1>2, <1>3, <1>4

-----------------------------------------------------------------------------
(* What has been written                                                   *)

(* A text is all of itself.                                                *)
LEMMA WholeText ==
  ASSUME NEW S, NEW s \in Seq(S)
  PROVE  SubSeq(s, 1, Len(s)) = s
  <1>1. PICK n : n = Len(s)
    OBVIOUS
  <1>2. n \in Nat /\ n \in 0..Len(s) /\ 1 \in Nat \ {0}
    BY <1>1, LenProperties
  <1>3. PICK u : u = SubSeq(s, 1, n)
    OBVIOUS
  <1>4. /\ u \in Seq(S) /\ Len(u) = IF 1 <= n THEN n - 1 + 1 ELSE 0
        /\ \A i \in 1..n - 1 + 1 : u[i] = s[1 + i - 1]
    BY <1>2, <1>3, PieceFacts
  <1>5. Len(u) = n /\ \A i \in 1..n : u[i] = s[i]
    BY <1>2, <1>4
  <1>6. u = s
    BY <1>1, <1>2, <1>4, <1>5, SamePlaces
  <1> QED
    BY <1>1, <1>3, <1>6

(* What is left of the rest of a text is a rest of it.                     *)
LEMMA RestOfRest ==
  \A s \in Seq(Bytes) : \A e \in 0..Len(s) : \A a \in 0..e :
  \A r \in Seq(Bytes) : r = SubSeq(s, a + 1, e) =>
  \A n \in 1..Len(r) :
     /\ Len(r) = e - a
     /\ \A i \in 1..Len(r) : r[i] = s[a + i]
     /\ SubSeq(r, n + 1, Len(r)) = SubSeq(s, a + n + 1, e)
     /\ SubSeq(r, n + 1, Len(r)) = <<>> => a + n = e
  <1> TAKE s \in Seq(Bytes)
  <1> TAKE e \in 0..Len(s)
  <1> TAKE a \in 0..e
  <1> TAKE r \in Seq(Bytes)
  <1> HAVE r = SubSeq(s, a + 1, e)
  <1> TAKE n \in 1..Len(r)
  <1>1. e \in Nat /\ a \in Nat /\ Len(s) \in Nat /\ a + 1 \in Nat \ {0}
    BY LenProperties
  <1>2. /\ Len(r) = IF a + 1 <= e THEN e - (a + 1) + 1 ELSE 0
        /\ \A i \in 1..e - (a + 1) + 1 : r[i] = s[a + 1 + i - 1]
    BY <1>1, PieceFacts
  <1>3. PICK k : k = e - a
    OBVIOUS
  <1>4. k \in Nat /\ Len(r) = k /\ \A i \in 1..k : r[i] = s[a + i]
    <2>1. k \in Nat /\ k = (IF a + 1 <= e THEN e - (a + 1) + 1 ELSE 0)
          /\ 1..k = 1..e - (a + 1) + 1
      BY <1>1, <1>3
    <2>2. ASSUME NEW i \in 1..k PROVE r[i] = s[a + i]
      <3>1. i \in 1..e - (a + 1) + 1 /\ a + 1 + i - 1 = a + i
        BY <1>1, <2>1
      <3> QED
        BY <1>2, <3>1
    <2> QED
      BY <1>2, <2>1, <2>2
  <1>5. n \in Nat /\ n <= k /\ n + 1 \in Nat \ {0} /\ k \in 0..Len(r)
    BY <1>4
  <1>6. PICK u : u = SubSeq(r, n + 1, k)
    OBVIOUS
  <1>7. PICK v : v = SubSeq(s, a + n + 1, e)
    OBVIOUS
  <1>8. /\ u \in Seq(Bytes) /\ Len(u) = IF n + 1 <= k THEN k - (n + 1) + 1 ELSE 0
        /\ \A i \in 1..k - (n + 1) + 1 : u[i] = r[n + 1 + i - 1]
    BY <1>5, <1>6, PieceFacts
  <1>9. a + n + 1 \in Nat \ {0}
    BY <1>1, <1>5
  <1>10. /\ v \in Seq(Bytes)
         /\ Len(v) = IF a + n + 1 <= e THEN e - (a + n + 1) + 1 ELSE 0
         /\ \A i \in 1..e - (a + n + 1) + 1 : v[i] = s[a + n + 1 + i - 1]
    BY <1>7, <1>9, PieceFacts
  <1>11. PICK l : l = k - n
    OBVIOUS
  <1>12. l \in Nat /\ Len(u) = l /\ \A i \in 1..l : u[i] = s[a + n + i]
    <2>1. l \in Nat /\ l = (IF n + 1 <= k THEN k - (n + 1) + 1 ELSE 0)
      BY <1>4, <1>5, <1>11
    <2>2. ASSUME NEW i \in 1..l PROVE u[i] = s[a + n + i]
      <3>1. /\ i \in 1..k - (n + 1) + 1 /\ n + 1 + i - 1 = n + i /\ n + i \in 1..k
            /\ a + (n + i) = a + n + i
        BY <1>1, <1>4, <1>5, <1>11, <2>1
      <3>2. u[i] = r[n + i] /\ r[n + i] = s[a + (n + i)]
        BY <1>4, <1>8, <3>1
      <3> QED
        BY <3>1, <3>2
    <2> QED
      BY <1>8, <2>1, <2>2
  <1>13. Len(v) = l /\ \A i \in 1..l : v[i] = s[a + n + i]
    <2>1. l = (IF a + n + 1 <= e THEN e - (a + n + 1) + 1 ELSE 0)
      BY <1>1, <1>3, <1>5, <1>11
    <2>2. ASSUME NEW i \in 1..l PROVE v[i] = s[a + n + i]
      <3>1. i \in 1..e - (a + n + 1) + 1 /\ a + n + 1 + i - 1 = a + n + i
        BY <1>1, <1>3, <1>5, <1>11, <1>12
      <3> QED
        BY <1>10, <3>1
    <2> QED
      BY <1>10, <2>1, <2>2
  <1>14. u = v
    <2>1. \A i \in 1..l : u[i] = v[i]
      BY <1>12, <1>13
    <2> QED
      BY <1>8, <1>10, <1>12, <1>13, <2>1, SamePlaces
  <1>15. u = <<>> => a + n = e
    <2>1. u = <<>> => l = 0
      BY <1>12
    <2> QED
      BY <1>1, <1>3, <1>5, <1>11, <2>1
  <1> QED
    BY <1>3, <1>4, <1>6, <1>7, <1>14, <1>15

(* What a thread wrote stays, and is all it wrote, while others write.     *)
LEMMA StaysWritten ==
  ASSUME TypeOK, NEW who \in Commands \cup {Opener}, IsWritten(who),
         Len(wire') \in Nat, Len(wire) <= Len(wire'),
         DOMAIN wire' = 1..Len(wire'),
         \A i \in 1..Len(wire) : wire'[i] = wire[i],
         \A i \in 1..Len(wire') : i \notin 1..Len(wire) => wire'[i].of # who,
         \A b \in 0..Len(wire), n \in 0..Len(Line(who)) :
            b + n <= Len(wire) /\ Wrote(who, b, n) /\ Progress(who, b, n)
               => Progress(who, b, n)'
  PROVE  IsWritten(who)'
  <1>1. /\ Len(wire) \in Nat /\ DOMAIN wire = 1..Len(wire)
        /\ Len(Line(who)) \in Nat
    BY LenProperties, LineFacts DEF TypeOK
  <1>2. PICK b \in 0..Len(wire), n \in 0..Len(Line(who)) :
           b + n <= Len(wire) /\ Wrote(who, b, n) /\ Progress(who, b, n)
    BY Zenon DEF IsWritten
  <1>3. b \in 0..Len(wire') /\ b + n <= Len(wire') /\ b \in Nat /\ n \in Nat
    BY <1>1, <1>2
  <1>4. Wrote(who, b, n)'
    <2>1. \A i \in 1..Len(wire') : wire'[i].of = who <=> i \in b + 1 .. b + n
      <3> TAKE i \in 1..Len(wire')
      <3>1. CASE i \in 1..Len(wire)
        BY <1>1, <1>2, <3>1 DEF Wrote
      <3>2. CASE i \notin 1..Len(wire)
        BY <1>1, <1>2, <1>3, <3>2
      <3> QED
        BY <3>1, <3>2
    <2>2. \A k \in 1..n : wire'[b + k].byte = Line(who)[k]
      <3> TAKE k \in 1..n
      <3>1. b + k \in 1..Len(wire)
        BY <1>1, <1>2, <1>3
      <3>2. wire[b + k].byte = Line(who)[k]
        BY <1>2 DEF Wrote
      <3>3. wire'[b + k] = wire[b + k]
        BY <3>1
      <3> QED
        BY <3>2, <3>3
    <2> QED
      BY <2>1, <2>2, Zenon DEF Wrote
  <1>5. Progress(who, b, n)'
    BY <1>2
  <1> QED
    BY <1>2, <1>3, <1>4, <1>5, Zenon DEF IsWritten

(* Nor does it change while nobody writes.                                 *)
LEMMA StillWritten ==
  ASSUME TypeOK, NEW who \in Commands \cup {Opener}, IsWritten(who), wire' = wire,
         \A b \in 0..Len(wire), n \in 0..Len(Line(who)) :
            b + n <= Len(wire) /\ Wrote(who, b, n) /\ Progress(who, b, n)
               => Progress(who, b, n)'
  PROVE  IsWritten(who)'
  <1>1. Len(wire) \in Nat /\ DOMAIN wire = 1..Len(wire)
    BY LenProperties DEF TypeOK
  <1>2. /\ Len(wire') \in Nat /\ Len(wire) <= Len(wire')
        /\ DOMAIN wire' = 1..Len(wire')
        /\ \A i \in 1..Len(wire) : wire'[i] = wire[i]
        /\ \A i \in 1..Len(wire') : i \notin 1..Len(wire) => wire'[i].of # who
    BY <1>1
  <1> QED
    BY <1>2, StaysWritten

(* The threads that are not at it get no further.                          *)
LEMMA KeepsProgress ==
  ASSUME NEW who, NEW b, NEW n, Progress(who, b, n), writeLock' # who,
         who # Opener => at'[who] = at[who],
         who = Opener => writeLock # Opener /\ boot' \in {boot, "ready", "raised"}
  PROVE  Progress(who, b, n)'
  BY CommandsAssumption DEF Progress

(* initialize() goes on with its line where it left it.                    *)
LEMMA InitializeWritten ==
  ASSUME TypeOK, OpenerFirst, LinesAreWritten, Initialize
  PROVE  LinesAreWritten'
  <1>1. /\ writeLock = Nobody /\ writeLock' = Opener
        /\ boot \in {"crlf", "startCLI"}
        /\ \/ rest' = SubSeq(Line(Opener), 1, 2) /\ boot = "crlf"
           \/ rest' = SubSeq(Line(Opener), 3, 5) /\ boot = "startCLI"
    BY InitializeData
  <1>2. boot' = boot /\ at' = at /\ wire' = wire
    BY DEF Initialize
  <1>3. ASSUME NEW who \in Commands PROVE IsWritten(who)'
    <2>1. who \in Commands \cup {Opener} /\ who # Opener
      BY CommandsAssumption
    <2>2. \A b \in 0..Len(wire), n \in 0..Len(Line(who)) :
             b + n <= Len(wire) /\ Wrote(who, b, n) /\ Progress(who, b, n)
               => Progress(who, b, n)'
      BY <1>1, <1>2, <2>1, KeepsProgress
    <2> QED
      BY <1>2, <2>1, <2>2, StillWritten DEF LinesAreWritten
  <1>4. IsWritten(Opener)'
    <2>1. \A b \in 0..Len(wire), n \in 0..Len(Line(Opener)) :
             b + n <= Len(wire) /\ Wrote(Opener, b, n) /\ Progress(Opener, b, n)
                => Progress(Opener, b, n)'
      <3> TAKE b \in 0..Len(wire), n \in 0..Len(Line(Opener))
      <3> HAVE b + n <= Len(wire) /\ Wrote(Opener, b, n) /\ Progress(Opener, b, n)
      <3>1. Len(wire) \in Nat /\ DOMAIN wire = 1..Len(wire)
        BY LenProperties DEF TypeOK
      <3>2. Len(Line(Opener)) = 5
        BY LineFacts
      <3>3. n \in Nat /\ b \in 0..Len(wire)
        BY <3>2
      <3>4. (boot = "crlf" => n = 0) /\ (boot = "startCLI" => n = 2)
        BY <1>1, CommandsAssumption DEF Progress
      <3>5. \A i \in 1..Len(wire) : i \in b + 1 .. b + n
        BY <1>1, <3>1 DEF OpenerFirst, Wrote
      <3>6. b + n = Len(wire)
        <4>1. CASE Len(wire) = 0
          BY <3>1, <3>3, <4>1
        <4>2. CASE Len(wire) # 0
          <5>1. Len(wire) \in b + 1 .. b + n
            BY <3>1, <3>5, <4>2
          <5>2. \A w, c, d \in Nat : c + d <= w /\ w \in c + 1 .. c + d => c + d = w
            OBVIOUS
          <5>3. b \in Nat /\ n \in Nat /\ Len(wire) \in Nat
            BY <3>1, <3>3
          <5> QED
            BY <5>1, <5>2, <5>3, Zenon
        <4> QED
          BY <4>1, <4>2
      <3>7. rest' = SubSeq(Line(Opener), n + 1, Upto(Opener)')
        <4>1. CASE boot = "crlf"
          <5>1. n + 1 = 1 /\ rest' = SubSeq(Line(Opener), 1, 2)
            BY <1>1, <3>4, <4>1
          <5>2. Upto(Opener)' = 2
            BY <1>2, <4>1 DEF Upto
          <5> QED
            BY <5>1, <5>2, Zenon
        <4>2. CASE boot # "crlf"
          <5>1. n + 1 = 3 /\ rest' = SubSeq(Line(Opener), 3, 5)
            BY <1>1, <3>4, <4>2
          <5>2. Upto(Opener)' = 5
            BY <1>2, <3>2, <4>2 DEF Upto
          <5> QED
            BY <5>1, <5>2, Zenon
        <4> QED
          BY <4>1, <4>2
      <3>8. b + n = Len(wire')
        BY <1>2, <3>6
      <3> QED
        BY <1>1, <3>7, <3>8, CommandsAssumption, Zenon DEF Progress
    <2> QED
      BY <1>2, <2>1, StillWritten DEF LinesAreWritten
  <1> QED
    BY <1>3, <1>4, Zenon DEF LinesAreWritten

(* What initialize() and command() do besides writing writes nothing.      *)
LEMMA CallWritten ==
  ASSUME TypeOK, OpenerFirst, SlotsOnce, LinesAreWritten,
         Ready \/ \E c \in Commands : Check(c) \/ Begin(c)
  PROVE  LinesAreWritten'
  <1>1. CASE Ready
    <2>1. /\ boot = "wait" /\ boot' \in {"ready", "raised"}
          /\ UNCHANGED <<at, writeLock, rest, wire>>
      BY <1>1 DEF Ready, writerVars
    <2>2. writeLock # Opener
      BY <2>1 DEF OpenerFirst
    <2> SUFFICES ASSUME NEW who \in Commands \cup {Opener} PROVE IsWritten(who)'
      BY Zenon DEF LinesAreWritten
    <2>3. ASSUME NEW b, NEW n, Progress(who, b, n) PROVE Progress(who, b, n)'
      <3>1. Upto(who)' = Upto(who) \/ who = Opener
        BY DEF Upto
      <3> QED
        BY <2>1, <2>2, <2>3, <3>1 DEF Progress
    <2> QED
      BY <2>1, <2>3, StillWritten DEF LinesAreWritten
  <1>2. ASSUME NEW c \in Commands, Check(c) PROVE LinesAreWritten'
    <2>1. /\ at[c] = "idle" /\ at'[c] \in {"raised", "checked"}
          /\ \A d \in Commands : d # c => at'[d] = at[d]
          /\ UNCHANGED <<boot, writeLock, rest, wire>>
      BY <1>2 DEF Check, TypeOK
    <2> SUFFICES ASSUME NEW who \in Commands \cup {Opener} PROVE IsWritten(who)'
      BY Zenon DEF LinesAreWritten
    <2>2. ASSUME NEW b, NEW n, Progress(who, b, n) PROVE Progress(who, b, n)'
      <3>1. Upto(who)' = Upto(who)
        BY <2>1 DEF Upto
      <3> QED
        BY <2>1, <2>2, <3>1 DEF Progress
    <2> QED
      BY <2>1, <2>2, StillWritten DEF LinesAreWritten
  <1>3. ASSUME NEW c \in Commands, Begin(c) PROVE LinesAreWritten'
    <2>1. /\ at[c] = "checked" /\ at'[c] = "writing" /\ boot' = boot /\ wire' = wire
          /\ \A d \in Commands : d # c => at'[d] = at[d]
          /\ writeLock = Nobody /\ writeLock' = c /\ rest' = LineOf(Text[c])
      BY <1>3 DEF Begin, Locks, TypeOK
    <2>2. c # Opener /\ Nobody # Opener /\ c \in Commands \cup {Opener}
      BY CommandsAssumption
    <2>3. ASSUME NEW who \in Commands \cup {Opener}, who # c PROVE IsWritten(who)'
      <3>1. ASSUME NEW b, NEW n, Progress(who, b, n) PROVE Progress(who, b, n)'
        <4>1. who # Opener => at'[who] = at[who]
          BY <2>1, <2>3
        <4>2. who = Opener => writeLock # Opener /\ boot' \in {boot, "ready", "raised"}
          BY <2>1, <2>2
        <4> QED
          BY <2>1, <2>3, <3>1, <4>1, <4>2, KeepsProgress
      <3>2. IsWritten(who)
        BY <2>3 DEF LinesAreWritten
      <3> QED
        BY <2>1, <2>3, <3>1, <3>2, StillWritten
    <2>4. IsWritten(c)'
      <3>1. Len(wire) \in Nat /\ DOMAIN wire = 1..Len(wire)
        BY LenProperties DEF TypeOK
      <3>2. /\ Line(c) \in Seq(Bytes) /\ Len(Line(c)) \in Nat
            /\ Line(c) = LineOf(Text[c])
        BY <2>2, LineFacts
      <3>3. PICK b : b = Len(wire)
        OBVIOUS
      <3>4. b \in 0..Len(wire') /\ 0 \in 0..Len(Line(c)) /\ b + 0 <= Len(wire')
            /\ b + 0 = Len(wire')
        BY <2>1, <3>1, <3>2, <3>3
      <3>5. \A i \in 1..Len(wire) : wire[i].of # c
        BY <2>1 DEF SlotsOnce
      <3>6. Wrote(c, b, 0)'
        <4>1. \A i \in 1..Len(wire) : ~(i \in b + 1 .. b + 0)
          BY <3>1, <3>3
        <4>2. \A k \in 1..0 : wire[b + k].byte = Line(c)[k]
          OBVIOUS
        <4> QED
          BY <2>1, <3>1, <3>5, <4>1, <4>2 DEF Wrote
      <3>7. Progress(c, b, 0)'
        <4>1. Upto(c)' = Len(Line(c))
          BY <2>2 DEF Upto
        <4>2. SubSeq(Line(c), 1, Len(Line(c))) = Line(c)
          BY <3>2, WholeText
        <4>3. rest' = SubSeq(Line(c), 0 + 1, Upto(c)')
          <5>1. 0 + 1 = 1
            OBVIOUS
          <5> QED
            BY <2>1, <3>2, <4>1, <4>2, <5>1, Zenon
        <4>4. at'[c] \notin {"idle", "checked"} /\ at'[c] # "returned"
          BY <2>1
        <4> QED
          BY <2>2, <3>4, <4>3, <4>4, Zenon DEF Progress
      <3> QED
        BY <3>4, <3>6, <3>7, Zenon DEF IsWritten
    <2> QED
      BY <2>3, <2>4, Zenon DEF LinesAreWritten
  <1> QED
    BY <1>1, <1>2, <1>3

(* One that raises leaves a beginning of the line.                         *)
LEMMA FailWritten ==
  ASSUME TypeOK, LinesAreWritten, WriteFails
  PROVE  LinesAreWritten'
  <1>1. /\ writeLock # Nobody /\ writeLock' = Nobody /\ wire' = wire
        /\ HolderGoesTo("raised")
    BY DEF WriteFails
  <1> SUFFICES ASSUME NEW who \in Commands \cup {Opener} PROVE IsWritten(who)'
    BY Zenon DEF LinesAreWritten
  <1>2. ASSUME NEW b, NEW n, Progress(who, b, n) PROVE Progress(who, b, n)'
    <2>1. writeLock' # who
      BY <1>1, CommandsAssumption
    <2>2. \/ writeLock = Opener /\ at' = at /\ boot' = "raised"
          \/ /\ writeLock \in Commands /\ boot' = boot /\ at'[writeLock] = "raised"
             /\ \A c \in Commands : c # writeLock => at'[c] = at[c]
      BY <1>1, HolderFacts
    <2> QED
      BY <1>2, <2>1, <2>2, CommandsAssumption DEF Progress
  <1> QED
    BY <1>1, <1>2, StillWritten DEF LinesAreWritten

(* One write takes the holder on to the next bytes of its line, and the    *)
(* last one to the end of what it wants to write.                          *)
LEMMA PartWritten ==
  ASSUME TypeOK, OpenerFirst, LinesAreWritten, WritePart
  PROVE  LinesAreWritten'
  <1>1. PICK n \in 1..Len(rest) :
            /\ Len(wire) \in Nat /\ Len(wire') = Len(wire) + n
            /\ \A i \in 1..Len(wire) : wire'[i] = wire[i]
            /\ \A i \in 1..n : /\ wire'[Len(wire) + i].of = writeLock
                               /\ wire'[Len(wire) + i].byte = rest[i]
            /\ rest' = SubSeq(rest, n + 1, Len(rest))
            /\ \/ /\ rest' = <<>> /\ writeLock' = Nobody
                  /\ HolderGoesTo("returned")
               \/ /\ rest' # <<>>
                  /\ UNCHANGED <<writeLock, boot, at>>
    BY PartFacts
  <1>2. /\ writeLock # Nobody /\ writeLock \in Commands \cup {Opener}
        /\ rest \in Seq(Bytes)
    BY DEF WritePart, TypeOK
  <1>3. TypeOK'
    BY WriteTypes
  <1>4. /\ DOMAIN wire = 1..Len(wire) /\ DOMAIN wire' = 1..Len(wire')
        /\ Len(wire') \in Nat /\ Len(wire) <= Len(wire') /\ n \in Nat
    BY <1>1, <1>3, LenProperties DEF TypeOK
  <1>5. \A i \in 1..Len(wire') : i \notin 1..Len(wire) =>
           /\ i - Len(wire) \in 1..n /\ i = Len(wire) + (i - Len(wire))
           /\ wire'[i].of = writeLock
    <2> TAKE i \in 1..Len(wire')
    <2> HAVE i \notin 1..Len(wire)
    <2>1. PICK k : k = i - Len(wire)
      OBVIOUS
    <2>2. k \in 1..n /\ i = Len(wire) + k
      BY <1>1, <2>1
    <2> QED
      BY <1>1, <2>1, <2>2
  <1>6. ASSUME NEW who \in Commands \cup {Opener}, who # writeLock
        PROVE  IsWritten(who)'
    <2>1. ASSUME NEW b, NEW m, Progress(who, b, m) PROVE Progress(who, b, m)'
      <3>1. writeLock' # who
        BY <1>1, <1>6, CommandsAssumption
      <3>2. CASE UNCHANGED <<writeLock, boot, at>>
        BY <1>6, <2>1, <3>1, <3>2, KeepsProgress
      <3>3. CASE HolderGoesTo("returned")
        <4>1. \/ writeLock = Opener /\ at' = at
              \/ /\ writeLock \in Commands /\ boot' = boot
                 /\ \A c \in Commands : c # writeLock => at'[c] = at[c]
          BY <1>2, <3>3, HolderFacts
        <4> QED
          BY <1>6, <2>1, <3>1, <4>1, KeepsProgress
      <3> QED
        BY <1>1, <3>2, <3>3
    <2>2. \A i \in 1..Len(wire') : i \notin 1..Len(wire) => wire'[i].of # who
      BY <1>5, <1>6
    <2>3. IsWritten(who)
      BY <1>6 DEF LinesAreWritten
    <2> QED
      BY <1>1, <1>4, <1>6, <2>1, <2>2, <2>3, StaysWritten
  <1>7. PICK h : h = writeLock
    OBVIOUS
  <1>8. IsWritten(h)'
    <2>1. /\ h \in Commands \cup {Opener} /\ h # Nobody
          /\ Line(h) \in Seq(Bytes) /\ Len(Line(h)) \in Nat /\ Len(Line(h)) >= 2
      BY <1>2, <1>7, LineFacts
    <2>2. PICK b \in 0..Len(wire), m \in 0..Len(Line(h)) :
             b + m <= Len(wire) /\ Wrote(h, b, m) /\ Progress(h, b, m)
      BY <2>1, Zenon DEF LinesAreWritten, IsWritten
    <2>3. b + m = Len(wire) /\ rest = SubSeq(Line(h), m + 1, Upto(h))
      BY <1>7, <2>2, Zenon DEF Progress
    <2>4. PICK e : e = Upto(h)
      OBVIOUS
    <2>5. /\ e \in 0..Len(Line(h)) /\ b \in Nat /\ m \in Nat
          /\ e = Len(Line(h)) \/ (h = Opener /\ boot = "crlf" /\ e = 2)
      BY <1>4, <2>1, <2>2, <2>4 DEF Upto
    <2>6. m \in 0..e
      <3>1. m + 1 \in Nat \ {0} /\ rest = SubSeq(Line(h), m + 1, e)
        BY <2>3, <2>4, <2>5
      <3>2. Len(rest) = IF m + 1 <= e THEN e - (m + 1) + 1 ELSE 0
        BY <2>1, <2>5, <3>1, PieceFacts
      <3>3. m + 1 <= e
        BY <1>1, <3>2
      <3> QED
        BY <2>1, <2>5, <3>3
    <2>7. /\ Len(rest) = e - m
          /\ \A i \in 1..Len(rest) : rest[i] = Line(h)[m + i]
          /\ rest' = SubSeq(Line(h), m + n + 1, e)
          /\ rest' = <<>> => m + n = e
      <3>1. PICK l : l = Line(h)
        OBVIOUS
      <3>2. PICK r : r = rest
        OBVIOUS
      <3>3. /\ l \in Seq(Bytes) /\ e \in 0..Len(l) /\ m \in 0..e
            /\ r \in Seq(Bytes) /\ r = SubSeq(l, m + 1, e) /\ n \in 1..Len(r)
        BY <1>1, <1>2, <2>1, <2>3, <2>4, <2>5, <2>6, <3>1, <3>2, Zenon
      <3>4. /\ Len(r) = e - m
            /\ \A i \in 1..Len(r) : r[i] = l[m + i]
            /\ SubSeq(r, n + 1, Len(r)) = SubSeq(l, m + n + 1, e)
            /\ SubSeq(r, n + 1, Len(r)) = <<>> => m + n = e
        <4>1. \A a \in 0..e :
                 \A r1 \in Seq(Bytes) : r1 = SubSeq(l, a + 1, e) =>
                 \A n1 \in 1..Len(r1) :
                    /\ Len(r1) = e - a
                    /\ \A i \in 1..Len(r1) : r1[i] = l[a + i]
                    /\ SubSeq(r1, n1 + 1, Len(r1)) = SubSeq(l, a + n1 + 1, e)
                    /\ SubSeq(r1, n1 + 1, Len(r1)) = <<>> => a + n1 = e
          BY <3>3, RestOfRest, Zenon
        <4>2. \A n1 \in 1..Len(r) :
                    /\ Len(r) = e - m
                    /\ \A i \in 1..Len(r) : r[i] = l[m + i]
                    /\ SubSeq(r, n1 + 1, Len(r)) = SubSeq(l, m + n1 + 1, e)
                    /\ SubSeq(r, n1 + 1, Len(r)) = <<>> => m + n1 = e
          BY <3>3, <4>1, Zenon
        <4> QED
          BY <3>3, <4>2, Zenon
      <3> QED
        BY <1>1, <3>1, <3>2, <3>4, Zenon
    <2>8. PICK k : k = m + n
      OBVIOUS
    <2>9. /\ k \in 0..Len(Line(h)) /\ b + k = Len(wire') /\ b \in 0..Len(wire')
          /\ b + k <= Len(wire')
      <3>1. n <= e - m
        <4>1. PICK l : l = Len(rest)
          OBVIOUS
        <4>2. n \in 1..l /\ l = e - m
          BY <2>7, <4>1, Zenon
        <4> QED
          BY <2>5, <4>2
      <3>2. k \in 0..Len(Line(h))
        BY <1>4, <2>1, <2>5, <2>8, <3>1
      <3>3. b + k = Len(wire')
        <4>1. Len(wire') = Len(wire) + n
          BY <1>1, Zenon
        <4>2. Len(wire') = (b + m) + n
          BY <2>3, <4>1, Zenon
        <4>3. b + k = (b + m) + n
          BY <1>4, <2>5, <2>8
        <4> QED
          BY <4>2, <4>3, Zenon
      <3>4. b \in 0..Len(wire') /\ b + k <= Len(wire')
        BY <1>4, <2>5, <3>2, <3>3
      <3> QED
        BY <3>2, <3>3, <3>4, Zenon
    <2>10. Wrote(h, b, k)'
      <3>1. \A i \in 1..Len(wire') : wire'[i].of = h <=> i \in b + 1 .. b + k
        <4> TAKE i \in 1..Len(wire')
        <4>1. CASE i \in 1..Len(wire)
          <5>1. wire'[i].of = h <=> i \in b + 1 .. b + m
            BY <1>1, <1>4, <2>2, <4>1 DEF Wrote
          <5>2. i \in b + 1 .. b + m <=> i \in b + 1 .. b + k
            BY <1>1, <1>4, <2>3, <2>5, <2>8, <4>1, SMTT(30)
          <5> QED
            BY <5>1, <5>2
        <4>2. CASE i \notin 1..Len(wire)
          <5>1. wire'[i].of = h
            BY <1>5, <1>7, <4>2
          <5>2. i \in b + 1 .. b + k
            BY <1>1, <1>4, <2>3, <2>5, <2>9, <4>2
          <5> QED
            BY <5>1, <5>2
        <4> QED
          BY <4>1, <4>2
      <3>2. \A j \in 1..k : wire'[b + j].byte = Line(h)[j]
        <4> TAKE j \in 1..k
        <4>1. CASE j <= m
          <5>1. j \in 1..m /\ b + j \in 1..Len(wire)
            BY <1>1, <2>3, <2>5, <2>8, <4>1
          <5>2. wire[b + j].byte = Line(h)[j] /\ wire'[b + j] = wire[b + j]
            BY <1>1, <2>2, <5>1 DEF Wrote
          <5> QED
            BY <5>2
        <4>2. CASE ~(j <= m)
          <5>1. PICK i : i = j - m
            OBVIOUS
          <5>1a. Len(rest) \in Nat
            BY <1>2, LenProperties
          <5>2. i \in 1..n /\ Len(wire) + i = b + j /\ m + i = j /\ i \in 1..Len(rest)
            <6>1. i \in 1..n /\ b + m + i = b + j /\ m + i = j
              BY <1>4, <2>5, <2>8, <4>2, <5>1
            <6>2. i \in 1..Len(rest)
              BY <5>1a, <6>1
            <6> QED
              BY <2>3, <6>1, <6>2
          <5>3. wire'[Len(wire) + i].byte = rest[i] /\ rest[i] = Line(h)[m + i]
            BY <1>1, <2>7, <5>2
          <5> QED
            BY <5>2, <5>3
        <4> QED
          BY <4>1, <4>2
      <3> QED
        BY <1>4, <3>1, <3>2, Zenon DEF Wrote
    <2>11. Progress(h, b, k)'
      <3>1. CASE rest' # <<>> /\ UNCHANGED <<writeLock, boot, at>>
        <4>1. Upto(h)' = e
          BY <2>4, <3>1 DEF Upto
        <4>2. h \in Commands => at'[h] = "writing"
          BY <1>7, <3>1 DEF TypeOK
        <4>3. rest' = SubSeq(Line(h), k + 1, e) /\ writeLock' = h
          BY <1>7, <2>7, <2>8, <3>1
        <4> QED
          BY <2>9, <4>1, <4>2, <4>3 DEF Progress
      <3>2. CASE /\ rest' = <<>> /\ writeLock' = Nobody
                 /\ HolderGoesTo("returned")
        <4>1. k = e /\ writeLock' # h
          BY <2>1, <2>7, <2>8, <3>2
        <4>2. CASE h = Opener
          <5>1. boot \in {"crlf", "startCLI"} /\ h \notin Commands
            BY <1>2, <1>7, <4>2, WriterIs, CommandsAssumption
          <5>2. /\ boot = "crlf" => boot' = "startCLI" /\ e = 2
                /\ boot # "crlf" => boot' = "wait"
            BY <1>2, <1>7, <2>4, <3>2, <4>2, HolderFacts, CommandsAssumption DEF Upto
          <5> QED
            BY <4>1, <5>1, <5>2 DEF Progress
        <4>3. CASE h # Opener
          <5>1. h \in Commands /\ at'[h] = "returned"
            BY <1>2, <1>7, <3>2, <4>3, HolderFacts
          <5>2. e = Len(Line(h))
            BY <2>5, <4>3
          <5> QED
            BY <4>1, <4>3, <5>1, <5>2 DEF Progress
        <4> QED
          BY <4>2, <4>3
      <3> QED
        BY <1>1, <3>1, <3>2
    <2> QED
      BY <2>9, <2>10, <2>11, Zenon DEF IsWritten
  <1> QED
    BY <1>6, <1>7, <1>8, Zenon DEF LinesAreWritten

(* The other steps write nothing.                                          *)
LEMMA StepWritten ==
  ASSUME TypeOK, OpenerFirst, SlotsOnce, LinesAreWritten, [Next]_vars
  PROVE  LinesAreWritten'
  <1>1. CASE UNCHANGED <<boot, at, writeLock, rest, slots, wire>>
    <2> SUFFICES ASSUME NEW who \in Commands \cup {Opener} PROVE IsWritten(who)'
      BY Zenon DEF LinesAreWritten
    <2>1. ASSUME NEW b, NEW n, Progress(who, b, n) PROVE Progress(who, b, n)'
      <3>1. Upto(who)' = Upto(who)
        BY <1>1 DEF Upto
      <3> QED
        BY <1>1, <2>1, <3>1 DEF Progress
    <2> QED
      BY <1>1, <2>1, StillWritten DEF LinesAreWritten
  <1> QED
    BY <1>1, ReaderLeavesWriters, InitializeWritten, CallWritten, FailWritten,
       PartWritten

-----------------------------------------------------------------------------
(* The theorems                                                            *)

(* Nothing has been accepted or written when a transport is made.          *)
LEMMA InitInvariant == Init => IInv
  <1> SUFFICES ASSUME Init PROVE IInv
    OBVIOUS
  <1>1. TypeOK
    BY InitTypes
  <1>2. /\ <<>> \in Seq(Bytes) /\ Len(<<>>) = 0 /\ DOMAIN <<>> = {} /\ 1..0 = {}
        /\ SubSeq(<<>>, 1, 0) = <<>>
    OBVIOUS
  <1>3. Framed
    <2>1. MarkerEnds = {}
      BY <1>2 DEF Init, MarkerEnds
    <2>2. LineIsBehind(0)
      <3>1. Len(accepted) = 0 /\ Len(line) = 0 /\ 0 - 0 + 1 = 1 /\ 1 >= 0 + 1
        BY <1>2 DEF Init
      <3>2. line = SubSeq(accepted, 1, 0)
        BY <1>2 DEF Init
      <3>3. LineBegins(0, 1)
        BY DEF LineBegins
      <3> QED
        BY <3>1, <3>2, <3>3, Zenon DEF LineIsBehind
    <2>3. ~IsPrefix(Marker, line)
      <3>1. line \in Seq(Bytes) /\ ~(Len(line) >= 3)
        BY <1>2 DEF Init
      <3> QED
        BY <3>1, PrefixFacts
    <2> QED
      BY <2>1, <2>2, <2>3 DEF Framed, Init
  <1>4. OpenerFirst /\ SlotsOnce /\ OrderedWire
    BY <1>2, CommandsAssumption DEF Init, OpenerFirst, SlotsOnce, OrderedWire, HasSlot
  <1>5. LinesAreWritten
    <2> SUFFICES ASSUME NEW who \in Commands \cup {Opener} PROVE IsWritten(who)
      BY Zenon DEF LinesAreWritten
    <2>1. 0 \in 0..Len(wire) /\ 0 \in 0..Len(Line(who)) /\ 0 + 0 <= Len(wire)
      BY <1>2, LineFacts DEF Init
    <2>2. Wrote(who, 0, 0)
      BY <1>2 DEF Wrote, Init
    <2>3. Progress(who, 0, 0)
      BY CommandsAssumption DEF Progress, Init
    <2> QED
      BY <2>1, <2>2, <2>3, Zenon DEF IsWritten
  <1> QED
    BY <1>1, <1>3, <1>4, <1>5 DEF IInv

(* Every step keeps the invariant.                                         *)
LEMMA StepInvariant == IInv /\ [Next]_vars => IInv'
  <1> SUFFICES ASSUME IInv, [Next]_vars PROVE IInv'
    OBVIOUS
  <1>1. TypeOK /\ Framed /\ OpenerFirst /\ SlotsOnce /\ OrderedWire /\ LinesAreWritten
    BY DEF IInv
  <1> QED
    BY <1>1, StepTypes, StepFramed, StepOpenerFirst, StepSlotsOnce,
       StepOrderedWire, StepWritten DEF IInv

(* For every stream, all texts and every size of reads and writes: the     *)
(* line at hand is what was accepted behind the last line feed, or the     *)
(* marker, and nothing before the marker was dispatched; initialize() is   *)
(* through before a call writes; a call takes the lock and its slot        *)
(* together, so that the wire is in the order of the slots; and what the   *)
(* holder has yet to write is the rest of its line.                        *)
THEOREM Invariance == Spec => []IInv
  BY InitInvariant, StepInvariant, PTL DEF Spec

(* The lines are those of the bytes behind the first marker.               *)
LEMMA LinesFromFrames == IInv => LinesAreTheBytes
  <1> SUFFICES ASSUME IInv, ~failed
               PROVE  /\ initialized <=> MarkerEnds # {}
                      /\ IF MarkerEnds = {} THEN lines = <<>>
                         ELSE LinesAreCutBehind(MarkerEnd)
    BY Zenon DEF LinesAreTheBytes
  <1>1. Framed
    BY DEF IInv
  <1>2. CASE ~initialized
    BY <1>1, <1>2, Zenon DEF Framed
  <1>3. CASE initialized
    <2>1. PICK m \in MarkerEnds : IsFirstMarker(m) /\ LinesAreCutBehind(m)
      BY <1>1, <1>3, Zenon DEF Framed
    <2>2. \A i \in MarkerEnds : i \in Int
      BY DEF MarkerEnds
    <2>3. \A i \in MarkerEnds : (\A j \in MarkerEnds : i <= j) => i = m
      <3> TAKE i \in MarkerEnds
      <3> HAVE \A j \in MarkerEnds : i <= j
      <3>1. i <= m /\ m <= i /\ i \in Int /\ m \in Int
        BY <2>1, <2>2 DEF IsFirstMarker
      <3> QED
        BY <3>1
    <2>4. \E i \in MarkerEnds : \A j \in MarkerEnds : i <= j
      BY <2>1 DEF IsFirstMarker
    <2>5. MarkerEnd = m
      BY <2>3, <2>4 DEF MarkerEnd
    <2> QED
      BY <1>3, <2>1, <2>5, Zenon
  <1> QED
    BY <1>2, <1>3

(* Wherever the reads are cut, and with whatever line endings: the         *)
(* transport is initialized by the first three @ that begin a line, and    *)
(* what _handle_line is given are the lines behind them, each with one     *)
(* carriage return taken off.                                              *)
THEOREM LinesFollowTheBytes == Spec => []LinesAreTheBytes
  BY Invariance, LinesFromFrames, PTL

(* The order of the slots is that of the wire.                             *)
LEMMA OrderFromSlots == IInv => WireIsInSlotOrder
  <1> SUFFICES ASSUME IInv PROVE WireIsInSlotOrder
    OBVIOUS
  <1>1. TypeOK /\ SlotsOnce /\ OrderedWire /\ LinesAreWritten
    BY DEF IInv
  <1>2. /\ DOMAIN wire = 1..Len(wire) /\ DOMAIN slots = 1..Len(slots)
        /\ Len(slots) \in Nat
        /\ \A i \in 1..Len(wire) : wire[i].of \in Commands \cup {Opener}
    <2>1. /\ wire \in Seq([of : Commands \cup {Opener}, byte : Bytes])
          /\ slots \in Seq(Commands)
      BY <1>1 DEF TypeOK
    <2>2. \A i \in 1..Len(wire) : wire[i] \in [of : Commands \cup {Opener}, byte : Bytes]
      BY <2>1, ElementOfSeq
    <2> QED
      BY <2>1, <2>2, LenProperties
  <1>3. ASSUME NEW i \in 1..Len(wire), wire[i].of \in Commands
        PROVE  /\ SlotOf(wire[i].of) \in 1..Len(slots)
               /\ slots[SlotOf(wire[i].of)] = wire[i].of
    <2>1. PICK c \in Commands : c = wire[i].of
      BY <1>3
    <2>2. \E p \in DOMAIN slots : slots[p] = c
      BY <1>1, <1>2, <1>3, <2>1 DEF SlotsOnce, HasSlot
    <2>3. c # Opener
      BY CommandsAssumption
    <2>4. SlotOf(c) = CHOOSE p \in DOMAIN slots : slots[p] = c
      BY <2>3 DEF SlotOf
    <2>5. SlotOf(c) \in DOMAIN slots /\ slots[SlotOf(c)] = c
      BY <2>2, <2>4
    <2> QED
      BY <1>2, <2>1, <2>5
  <1>4. ASSUME NEW i \in 1..Len(wire), NEW j \in 1..Len(wire), i < j
        PROVE  SlotOf(wire[i].of) <= SlotOf(wire[j].of)
    <2>1. CASE wire[i].of \in Commands
      <3>1. /\ wire[j].of \in Commands
            /\ \A p, q \in 1..Len(slots) :
                  slots[p] = wire[i].of /\ slots[q] = wire[j].of => p <= q
        BY <1>1, <1>4, <2>1 DEF OrderedWire
      <3> QED
        BY <1>3, <2>1, <3>1
    <2>2. CASE wire[i].of \notin Commands
      <3>1. SlotOf(wire[i].of) = 0
        BY <1>2, <2>2 DEF SlotOf
      <3>2. SlotOf(wire[j].of) \in 0..Len(slots)
        <4>1. CASE wire[j].of \in Commands
          BY <1>2, <1>3, <4>1
        <4>2. CASE wire[j].of \notin Commands
          <5>1. SlotOf(wire[j].of) = 0
            BY <1>2, <4>2 DEF SlotOf
          <5> QED
            BY <1>2, <5>1
        <4> QED
          BY <4>1, <4>2
      <3> QED
        BY <1>2, <3>1, <3>2
    <2> QED
      BY <2>1, <2>2
  <1>5. ASSUME NEW who \in Commands \cup {Opener}
        PROVE  \E b \in 0..Len(wire) : \E n \in 0..Len(Line(who)) :
                  /\ b + n <= Len(wire)
                  /\ Wrote(who, b, n)
                  /\ who \in Commands /\ at[who] = "returned" => n = Len(Line(who))
    BY <1>1, Zenon DEF LinesAreWritten, IsWritten, Progress
  <1> QED
    BY <1>2, <1>4, <1>5, Zenon DEF WireIsInSlotOrder

(* However many writes a line takes and whichever of them fails: no line   *)
(* is mixed up with another, they follow each other as the slots in        *)
(* _pending do, and a call that returned has written all of its own.       *)
THEOREM WireKeepsSlotOrder == Spec => []WireIsInSlotOrder
  BY Invariance, OrderFromSlots, PTL
=============================================================================
