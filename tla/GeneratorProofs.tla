-------------------------- MODULE GeneratorProofs --------------------------
(***************************************************************************)
(* What holds of Generator for any API directory.                          *)
(***************************************************************************)
EXTENDS Generator, SequenceTheorems, WellFoundedInduction, TLAPS

-----------------------------------------------------------------------------
(* The inductive invariant.                                                *)

(* A sequence, whatever its elements.                                      *)
IsList(s) == Len(s) \in Nat /\ s = [i \in 1..Len(s) |-> s[i]]

(* What the decoder makes of a subscription.                               *)
Decoded(d) ==
    /\ d.subscription.kind \in {"none", "value", "bitset"}
    /\ d.subscription.kind = "bitset" => \A e \in ToSet(d.subscription.entries) : IsInt(e.mask)

(* What is collected has been validated.                                   *)
Validated ==
    /\ \A d \in ToSet(definitions) : validateIoDefinition(d) /\ Decoded(d)
    /\ \A d \in ToSet(metas) : d.name \in {"controller", "swarm"} /\ validateMembers(d.members)

AreLists == IsList(definitions) /\ IsList(metas) /\ IsList(written)

(* A unit that was written is the one whose turn it was.                   *)
WrittenInOrder ==
    CASE phase = "clear" -> TRUE
      [] phase \in {"collectIo", "collectMeta", "rejected"} -> written = <<>>
      [] OTHER -> /\ Len(written) <= Len(Units)
                  /\ \A i \in 1..Len(written) : written[i] = Units[i]

FailsAtAUnit == phase = "failed" => Len(written) < Len(Units) /\ ~Renders(NextUnit)

IInv ==
    /\ api \in ApiDefs
    /\ TypeOK
    /\ AreLists
    /\ Validated
    /\ WrittenInOrder
    /\ FailsAtAUnit

-----------------------------------------------------------------------------
(* Sequences                                                               *)

LEMMA EmptyList == IsList(<<>>) /\ Len(<<>>) = 0 /\ ToSet(<<>>) = {}
  BY DEF IsList, ToSet

LEMMA ListFacts ==
  ASSUME NEW s, IsList(s)
  PROVE  /\ DOMAIN s = 1..Len(s)
         /\ s \in Seq(ToSet(s))
         /\ \A i \in 1..Len(s) : s[i] \in ToSet(s)
  <1>1. DOMAIN s = 1..Len(s)
    BY DEF IsList
  <1>2. \A i \in 1..Len(s) : s[i] \in ToSet(s)
    BY <1>1 DEF ToSet
  <1>3. s \in Seq(ToSet(s))
    BY <1>1, <1>2, SeqDef DEF IsList
  <1> QED
    BY <1>1, <1>2, <1>3

LEMMA SequenceIsList ==
  ASSUME NEW S, NEW s \in Seq(S)
  PROVE  IsList(s) /\ \A x \in ToSet(s) : x \in S
  <1>1. Len(s) \in Nat /\ DOMAIN s = 1..Len(s) /\ s \in [1..Len(s) -> S]
    OBVIOUS
  <1> QED
    BY <1>1 DEF IsList, ToSet

LEMMA AppendList ==
  ASSUME NEW s, NEW x, IsList(s)
  PROVE  /\ IsList(Append(s, x))
         /\ Len(Append(s, x)) = Len(s) + 1
         /\ \A i \in 1..Len(s) : Append(s, x)[i] = s[i]
         /\ Append(s, x)[Len(s) + 1] = x
  <1> DEFINE S == ToSet(s) \cup {x}
  <1>1. s \in Seq(S)
    BY ListFacts, SeqDef
  <1> HIDE DEF S
  <1>2. x \in S
    BY DEF S
  <1>3. Append(s, x) \in Seq(S)
    BY <1>1, <1>2
  <1>4. IsList(Append(s, x))
    BY <1>3, SequenceIsList
  <1>5. /\ Len(Append(s, x)) = Len(s) + 1
        /\ \A i \in 1..Len(s) : Append(s, x)[i] = s[i]
        /\ Append(s, x)[Len(s) + 1] = x
    BY <1>1, <1>2
  <1> QED
    BY <1>4, <1>5

(* A function on the domain of a list is a list of the same length.        *)
LEMMA MappedList ==
  ASSUME NEW n \in Nat, NEW s, s = [i \in 1..n |-> s[i]]
  PROVE  IsList(s) /\ Len(s) = n
  <1>1. s \in Seq({s[i] : i \in 1..n})
    BY SeqDef
  <1>2. Len(s) = n
    BY <1>1
  <1> QED
    BY <1>2 DEF IsList

-----------------------------------------------------------------------------
(* Induction over the numbers, as facts about sets of them                 *)

(* The numbers are well-founded by their order as a set of pairs.          *)
LEMMA SmallerIsWellFounded ==
  IsWellFoundedOn({p \in Nat \X Nat : p[1] < p[2]}, Nat)
  <1>1. ASSUME NEW f \in [Nat -> Nat], \A n \in Nat : f[n + 1] < f[n]
        PROVE  FALSE
    <2>1. ASSUME NEW n \in Nat
          PROVE  <<f[n + 1], f[n]>> \in OpToRel(<, Nat)
      <3>1. f[n + 1] \in Nat /\ f[n] \in Nat /\ f[n + 1] < f[n]
        BY <1>1
      <3> DEFINE pair == <<f[n + 1], f[n]>>
      <3>2. pair \in Nat \X Nat /\ pair[1] < pair[2]
        BY <3>1
      <3> HIDE DEF pair
      <3>3. pair \in OpToRel(<, Nat)
        BY <3>2, Zenon DEF OpToRel
      <3> QED
        BY <3>3 DEF pair
    <2> QED
      BY <2>1, NatLessThanWellFounded, Zenon DEF IsWellFoundedOn
  <1>2. ASSUME NEW f \in [Nat -> Nat],
               \A n \in Nat : <<f[n + 1], f[n]>> \in {p \in Nat \X Nat : p[1] < p[2]}
        PROVE  FALSE
    BY <1>1, <1>2
  <1> QED
    BY <1>2 DEF IsWellFoundedOn

LEMMA LeastNumber ==
  ASSUME NEW S, S \subseteq Nat, S # {}
  PROVE  \E k \in S : \A j \in S : k <= j
  <1> DEFINE R == {p \in Nat \X Nat : p[1] < p[2]}
  <1>1. IsWellFoundedOn(R, Nat)
    BY SmallerIsWellFounded
  <1>2. \A j \in Nat : \A k \in Nat : ~ (<<j, k>> \in R) => k <= j
    OBVIOUS
  <1> HIDE DEF R
  <1>3. PICK k \in S : \A j \in S : ~ (<<j, k>> \in R)
    BY <1>1, WFMin
  <1> QED
    BY <1>2, <1>3

(* A set that has zero and with every number the next one has them all.    *)
LEMMA SetInduction ==
  ASSUME NEW S, 0 \in S, \A n \in Nat : n \in S => n + 1 \in S
  PROVE  \A n \in Nat : n \in S
  <1> SUFFICES ASSUME Nat \ S # {} PROVE FALSE
    OBVIOUS
  <1>1. PICK k \in Nat \ S : \A j \in Nat \ S : k <= j
    BY LeastNumber
  <1>2. k # 0 /\ k - 1 \in Nat /\ (k - 1) + 1 = k
    OBVIOUS
  <1>3. k - 1 \in S
    BY <1>1, <1>2
  <1> QED
    BY <1>2, <1>3

-----------------------------------------------------------------------------
(* Bits                                                                    *)

(* Shifted is defined by recursion: it exists because every beginning of   *)
(* it does, and two of them agree as far as both go.                       *)
LEMMA ShiftedFacts ==
  ASSUME NEW int \in Int
  PROVE  /\ \A i \in Nat : Shifted(int)[i] \in Int
         /\ Shifted(int)[0] = int
         /\ \A i \in Nat : Shifted(int)[i + 1] = Shifted(int)[i] \div 2
  <1> DEFINE Begins(g, n) == /\ g \in [0..n -> Int]
                             /\ g[0] = int
                             /\ \A i \in 1..n : g[i] = g[i - 1] \div 2
             Lengths == {n \in Nat : \E g : Begins(g, n)}
             Same == {i \in Nat : \A m, n \in Nat : \A g, h :
                        Begins(g, m) /\ Begins(h, n) /\ i <= m /\ i <= n => g[i] = h[i]}
  <1>1. \A n \in Nat : n \in Lengths
    <2>1. Begins([i \in 0..0 |-> int], 0)
      OBVIOUS
    <2>2. ASSUME NEW n \in Nat, NEW g, Begins(g, n)
          PROVE  \E h : Begins(h, n + 1)
      <3> DEFINE h == [i \in 0..(n + 1) |-> IF i <= n THEN g[i] ELSE g[n] \div 2]
      <3>1. h \in [0..(n + 1) -> Int]
        BY <2>2
      <3>2. h[0] = int
        BY <2>2
      <3>3. ASSUME NEW i \in 1..(n + 1)
            PROVE  h[i] = h[i - 1] \div 2
        BY <2>2
      <3> QED
        BY <3>1, <3>2, <3>3
    <2> HIDE DEF Begins
    <2>3. 0 \in Lengths /\ \A n \in Nat : n \in Lengths => n + 1 \in Lengths
      BY <2>1, <2>2
    <2> HIDE DEF Lengths
    <2> QED
      BY <2>3, SetInduction
  <1>2. \A i \in Nat : i \in Same
    <2>1. 0 \in Same
      OBVIOUS
    <2>2. ASSUME NEW i \in Nat, i \in Same
          PROVE  i + 1 \in Same
      <3>1. ASSUME NEW m \in Nat, NEW n \in Nat, NEW g, NEW h,
                   Begins(g, m), Begins(h, n), i + 1 <= m, i + 1 <= n
            PROVE  g[i + 1] = h[i + 1]
        <4>1. i <= m /\ i <= n
          BY <3>1
        <4> HIDE DEF Begins
        <4>2. g[i] = h[i]
          BY <2>2, <3>1, <4>1
        <4> USE DEF Begins
        <4>3. g[i + 1] = g[i] \div 2 /\ h[i + 1] = h[i] \div 2
          <5>1. i + 1 \in 1..m /\ i + 1 \in 1..n /\ (i + 1) - 1 = i
            BY <3>1
          <5> QED
            BY <3>1, <5>1
        <4> QED
          BY <4>2, <4>3
      <3> HIDE DEF Begins
      <3> QED
        BY <3>1
    <2> HIDE DEF Same
    <2> QED
      BY <2>1, <2>2, SetInduction
  <1> DEFINE Upto(n) == CHOOSE g : Begins(g, n)
             limit == [i \in Nat |-> Upto(i)[i]]
  <1>3. \A n \in Nat : Begins(Upto(n), n)
    <2> HIDE DEF Begins
    <2> QED
      BY <1>1
  <1> HIDE DEF Upto
  <1>4. limit \in [Nat -> Int] /\ limit[0] = int
    BY <1>3
  <1>5. ASSUME NEW i \in Nat
        PROVE  limit[i + 1] = limit[i] \div 2
    <2>1. Begins(Upto(i), i) /\ Begins(Upto(i + 1), i + 1)
      BY <1>3
    <2>2. Upto(i + 1)[i] = Upto(i)[i]
      <3> HIDE DEF Begins
      <3> QED
        BY <1>2, <2>1
    <2>3. Upto(i + 1)[i + 1] = Upto(i + 1)[i] \div 2
      BY <2>1
    <2> QED
      BY <2>2, <2>3
  <1> DEFINE Next1(g) == [i \in Nat |-> IF i = 0 THEN int ELSE g[i - 1] \div 2]
  <1>6. limit = Next1(limit)
    <2>1. ASSUME NEW i \in Nat
          PROVE  limit[i] = Next1(limit)[i]
      <3>1. CASE i = 0
        BY <1>4, <3>1
      <3>2. CASE i # 0
        <4>1. i - 1 \in Nat /\ (i - 1) + 1 = i
          BY <3>2
        <4>2. limit[i] = limit[i - 1] \div 2
          BY <1>5, <4>1
        <4> HIDE DEF limit
        <4> QED
          BY <3>2, <4>2
      <3> QED
        BY <3>1, <3>2
    <2> QED
      BY <2>1
  <1> HIDE DEF limit
  <1>7. Shifted(int) = CHOOSE g : g = Next1(g)
    BY DEF Shifted
  <1>8. Shifted(int) = Next1(Shifted(int))
    <2> HIDE DEF Next1
    <2> QED
      BY <1>6, <1>7
  <1> DEFINE shifted == Shifted(int)
  <1> HIDE DEF shifted
  <1>9. shifted = [i \in Nat |-> IF i = 0 THEN int ELSE shifted[i - 1] \div 2]
    BY <1>8 DEF shifted
  <1>10. shifted[0] = int /\ \A i \in Nat : shifted[i + 1] = shifted[i] \div 2
    <2>1. \A i \in Nat : shifted[i + 1] = shifted[(i + 1) - 1] \div 2
      BY <1>9
    <2> QED
      BY <1>9, <2>1
  <1>11. \A i \in Nat : i \in {j \in Nat : shifted[j] \in Int}
    <2> DEFINE S == {j \in Nat : shifted[j] \in Int}
    <2>1. 0 \in S /\ \A n \in Nat : n \in S => n + 1 \in S
      BY <1>10
    <2> HIDE DEF S
    <2>2. \A i \in Nat : i \in S
      BY <2>1, SetInduction
    <2> QED
      BY <2>2 DEF S
  <1> QED
    BY <1>10, <1>11 DEF shifted

LEMMA Halves ==
  ASSUME NEW int \in Int, NEW i \in Nat
  PROVE  /\ Shifted(int)[i] % 2 \in {0, 1}
         /\ Shifted(int)[i] = 2 * Shifted(int)[i + 1] + (Shifted(int)[i] % 2)
  <1>1. Shifted(int)[i] \in Int /\ Shifted(int)[i + 1] = Shifted(int)[i] \div 2
    BY ShiftedFacts
  <1> QED
    BY <1>1

(* Of a number that is positive, nothing is left to shift out of an Int.   *)
LEMMA PositiveFacts ==
  ASSUME NEW int, IsInt(int), int > 0
  PROVE  int \in Int /\ Width - 1 \in Nat /\ Shifted(int)[Width - 1] = 0
  <1> DEFINE S == {i \in Nat : Shifted(int)[i] >= 0}
  <1>1. int \in Int /\ Width - 1 \in Nat
    BY WidthAssumption DEF IsInt
  <1>2. 0 \in S /\ \A i \in Nat : i \in S => i + 1 \in S
    BY <1>1, ShiftedFacts
  <1> HIDE DEF S
  <1>3. \A i \in Nat : i \in S
    BY <1>2, SetInduction
  <1>4. Shifted(int)[Width - 1] >= 0
    BY <1>1, <1>3 DEF S
  <1> QED
    BY <1>1, <1>4 DEF IsInt

(* The bits of a number determine it.                                      *)
LEMMA SameBits ==
  ASSUME NEW m, NEW n, IsInt(m), IsInt(n), m > 0, n > 0, Bits(m) = Bits(n)
  PROVE  m = n
  <1> DEFINE W == Width - 1
             S == {i \in Nat : i <= W => Shifted(m)[W - i] = Shifted(n)[W - i]}
  <1>1. /\ m \in Int /\ n \in Int /\ W \in Nat
        /\ Shifted(m)[W] = 0 /\ Shifted(n)[W] = 0
    BY PositiveFacts
  <1>2. 0 \in S
    BY <1>1
  <1>3. ASSUME NEW i \in Nat, i \in S
        PROVE  i + 1 \in S
    <2> SUFFICES ASSUME i + 1 <= W
                 PROVE  Shifted(m)[W - (i + 1)] = Shifted(n)[W - (i + 1)]
      OBVIOUS
    <2> DEFINE j == W - (i + 1)
    <2>1. j \in Nat /\ j \in 0..W /\ j + 1 = W - i /\ i <= W
      BY <1>1
    <2>2. Shifted(m)[j + 1] = Shifted(n)[j + 1]
      BY <1>3, <2>1
    <2>3. Shifted(m)[j] % 2 = 1 <=> Shifted(n)[j] % 2 = 1
      BY <2>1 DEF Bits
    <2> HIDE DEF j
    <2>4. /\ Shifted(m)[j] % 2 \in {0, 1} /\ Shifted(n)[j] % 2 \in {0, 1}
          /\ Shifted(m)[j] = 2 * Shifted(m)[j + 1] + (Shifted(m)[j] % 2)
          /\ Shifted(n)[j] = 2 * Shifted(n)[j + 1] + (Shifted(n)[j] % 2)
      BY <1>1, <2>1, Halves
    <2>5. Shifted(m)[j] % 2 = Shifted(n)[j] % 2
      BY <2>3, <2>4
    <2>6. Shifted(m)[j] = Shifted(n)[j]
      BY <2>2, <2>4, <2>5
    <2> QED
      BY <2>6 DEF j
  <1> HIDE DEF S
  <1>4. W \in S
    BY <1>1, <1>2, <1>3, SetInduction
  <1>5. Shifted(m)[0] = Shifted(n)[0]
    BY <1>1, <1>4 DEF S
  <1> QED
    BY <1>1, <1>5, ShiftedFacts

LEMMA PositiveHasBits ==
  ASSUME NEW m, IsInt(m), m > 0
  PROVE  Bits(m) # {}
  <1> SUFFICES ASSUME Bits(m) = {} PROVE FALSE
    OBVIOUS
  <1> DEFINE W == Width - 1
             S == {i \in Nat : i <= W => Shifted(m)[W - i] = 0}
  <1>1. m \in Int /\ W \in Nat /\ Shifted(m)[W] = 0
    BY PositiveFacts
  <1>2. 0 \in S
    BY <1>1
  <1>3. ASSUME NEW i \in Nat, i \in S
        PROVE  i + 1 \in S
    <2> SUFFICES ASSUME i + 1 <= W
                 PROVE  Shifted(m)[W - (i + 1)] = 0
      OBVIOUS
    <2> DEFINE j == W - (i + 1)
    <2>1. j \in Nat /\ j \in 0..W /\ j + 1 = W - i /\ i <= W
      BY <1>1
    <2>2. Shifted(m)[j + 1] = 0
      BY <1>3, <2>1
    <2>3. Shifted(m)[j] % 2 # 1
      BY <2>1 DEF Bits
    <2> HIDE DEF j
    <2>4. /\ Shifted(m)[j] % 2 \in {0, 1}
          /\ Shifted(m)[j] = 2 * Shifted(m)[j + 1] + (Shifted(m)[j] % 2)
      BY <1>1, <2>1, Halves
    <2>5. Shifted(m)[j] = 0
      BY <2>2, <2>3, <2>4
    <2> QED
      BY <2>5 DEF j
  <1> HIDE DEF S
  <1>4. W \in S
    BY <1>1, <1>2, <1>3, SetInduction
  <1>5. Shifted(m)[0] = 0
    BY <1>1, <1>4 DEF S
  <1> QED
    BY <1>1, <1>5, ShiftedFacts

(* What isOneBit accepts has one bit indeed: taking one away changes the   *)
(* bits up to the least and leaves those above it.                         *)
LEMMA OneBitFacts ==
  ASSUME NEW m, IsInt(m), IsOneBit(m)
  PROVE  \E k : Bits(m) = {k}
  <1> DEFINE a == Shifted(m)
             b == Shifted(m - 1)
  <1>1. m \in Int /\ m - 1 \in Int /\ m > 0
    BY DEF IsInt, IsOneBit
  <1>2. Bits(m) \subseteq Nat /\ Bits(m) # {}
    BY <1>1, PositiveHasBits DEF Bits
  <1>3. PICK k \in Bits(m) : \A j \in Bits(m) : k <= j
    BY <1>2, LeastNumber
  <1>4. k \in Nat /\ k \in 0..(Width - 1) /\ a[k] % 2 = 1
    BY <1>3 DEF Bits
  <1>5. \A i \in Nat : /\ a[i] \in Int /\ a[i + 1] = a[i] \div 2
                       /\ b[i] \in Int /\ b[i + 1] = b[i] \div 2
    BY <1>1, ShiftedFacts
  <1>6. a[0] = m /\ b[0] = m - 1
    BY <1>1, ShiftedFacts
  <1>7. \A i \in Nat : i < k => a[i] % 2 = 0
    <2> TAKE i \in Nat
    <2> HAVE i < k
    <2>1. i \notin Bits(m) /\ i \in 0..(Width - 1)
      BY <1>3, <1>4, WidthAssumption
    <2>2. a[i] % 2 # 1
      BY <2>1 DEF Bits
    <2>3. a[i] \in Int
      BY <1>5
    <2> HIDE DEF a
    <2> QED
      BY <2>2, <2>3
  <1> HIDE DEF a, b
  <1>8. b[k] = a[k] - 1
    <2> DEFINE S == {i \in Nat : i <= k => b[i] = a[i] - 1}
    <2>1. 0 \in S
      BY <1>6
    <2>2. ASSUME NEW i \in Nat, i \in S PROVE i + 1 \in S
      <3> SUFFICES ASSUME i + 1 <= k PROVE b[i + 1] = a[i + 1] - 1
        OBVIOUS
      <3>1. i < k /\ i <= k
        BY <1>4
      <3>2. b[i] = a[i] - 1 /\ a[i] % 2 = 0
        BY <1>7, <2>2, <3>1
      <3> QED
        BY <1>5, <3>2
    <2> HIDE DEF S
    <2>3. k \in S
      BY <1>4, <2>1, <2>2, SetInduction
    <2> QED
      BY <1>4, <2>3 DEF S
  <1>9. \A i \in Nat : b[k + 1 + i] = a[k + 1 + i]
    <2> DEFINE S == {i \in Nat : b[k + 1 + i] = a[k + 1 + i]}
    <2>1. 0 \in S
      <3>1. /\ a[k] \in Int /\ a[k + 1] = a[k] \div 2 /\ b[k + 1] = b[k] \div 2
            /\ k + 1 + 0 = k + 1
        BY <1>4, <1>5
      <3>2. b[k + 1] = a[k + 1]
        BY <1>4, <1>8, <3>1
      <3> QED
        BY <3>1, <3>2
    <2>2. ASSUME NEW i \in Nat, i \in S PROVE i + 1 \in S
      <3>1. k + 1 + i \in Nat /\ (k + 1 + i) + 1 = k + 1 + (i + 1)
        BY <1>4
      <3> QED
        BY <1>5, <2>2, <3>1
    <2> HIDE DEF S
    <2>3. \A i \in Nat : i \in S
      BY <2>1, <2>2, SetInduction
    <2> QED
      BY <2>3 DEF S
  <1>10. ASSUME NEW j \in Bits(m), j # k PROVE FALSE
    <2>1. j \in Nat /\ j \in 0..(Width - 1) /\ a[j] % 2 = 1 /\ j > k
      BY <1>3, <1>4, <1>10 DEF Bits, a
    <2>2. j - (k + 1) \in Nat /\ k + 1 + (j - (k + 1)) = j
      BY <1>4, <2>1
    <2>3. b[j] = a[j]
      BY <1>9, <2>2
    <2>4. j \in Bits(m - 1)
      BY <2>1, <2>3 DEF Bits, b
    <2> QED
      BY <2>4 DEF IsOneBit
  <1> QED
    BY <1>3, <1>10

(* Two entries of an accepted bitset have no bit in common.                *)
LEMMA EntriesShareNoBit ==
  ASSUME NEW entries, validateBitset(entries), \A e \in ToSet(entries) : IsInt(e.mask),
         NEW e \in ToSet(entries), NEW f \in ToSet(entries), Bits(e.mask) \cap Bits(f.mask) # {}
  PROVE  e = f
  <1>1. /\ IsInt(e.mask) /\ IsInt(f.mask) /\ IsOneBit(e.mask) /\ IsOneBit(f.mask)
        /\ AllDiffer(entries, "mask")
    BY DEF validateBitset
  <1>2. Bits(e.mask) = Bits(f.mask)
    BY <1>1, OneBitFacts
  <1>3. e.mask = f.mask
    BY <1>1, <1>2, SameBits DEF IsOneBit
  <1>4. PICK i \in DOMAIN entries, j \in DOMAIN entries : e = entries[i] /\ f = entries[j]
    BY DEF ToSet
  <1>5. \A x, y \in DOMAIN entries : entries[x].mask = entries[y].mask => x = y
    <2> DEFINE masks == [n \in DOMAIN entries |-> entries[n]["mask"]]
    <2>1. \A x, y \in DOMAIN entries : masks[x] = masks[y] => x = y
      BY <1>1 DEF AllDiffer, IsInjective
    <2> QED
      BY <2>1
  <1> QED
    BY <1>3, <1>4, <1>5

(* So a mask put together of some of them says of each whether it is one.  *)
LEMMA MaskFacts ==
  ASSUME NEW entries, validateBitset(entries), \A e \in ToSet(entries) : IsInt(e.mask),
         NEW selection, selection \subseteq ToSet(entries), NEW e \in ToSet(entries)
  PROVE  (subscriptionMask(entries, selection) \cap Bits(e.mask) # {})
            <=> (e.enabled = "always" \/ e \in selection)
  <1>1. Bits(e.mask) # {}
    BY PositiveHasBits DEF validateBitset, IsOneBit
  <1>2. ASSUME NEW some, some \subseteq ToSet(entries)
        PROVE  (Or(some) \cap Bits(e.mask) # {}) <=> e \in some
    <2>1. ASSUME e \in some PROVE Or(some) \cap Bits(e.mask) # {}
      BY <1>1, <2>1 DEF Or
    <2>2. ASSUME NEW bit \in Or(some), bit \in Bits(e.mask) PROVE e \in some
      <3>1. PICK f \in some : bit \in Bits(f.mask)
        BY DEF Or
      <3>2. Bits(e.mask) \cap Bits(f.mask) # {}
        BY <2>2, <3>1
      <3>3. e = f
        BY <1>2, <3>2, EntriesShareNoBit
      <3> QED
        BY <3>3
    <2> QED
      BY <2>1, <2>2
  <1> DEFINE always == {f \in ToSet(entries) : f.enabled = "always"}
  <1>3. subscriptionMask(entries, selection) = Or(always) \cup Or(selection)
    BY DEF subscriptionMask
  <1>4. (Or(always) \cap Bits(e.mask) # {}) <=> e.enabled = "always"
    <2>1. always \subseteq ToSet(entries) /\ (e \in always <=> e.enabled = "always")
      OBVIOUS
    <2> HIDE DEF always
    <2> QED
      BY <1>2, <2>1
  <1>5. (Or(selection) \cap Bits(e.mask) # {}) <=> e \in selection
    BY <1>2
  <1> QED
    BY <1>3, <1>4, <1>5

-----------------------------------------------------------------------------
(* Paths                                                                   *)

LEMMA ListsEqual ==
  ASSUME NEW s, NEW t, IsList(s), IsList(t), Len(s) = Len(t), \A i \in 1..Len(s) : s[i] = t[i]
  PROVE  s = t
  BY DEF IsList

LEMMA BeginningFacts ==
  ASSUME NEW p, IsList(p), NEW l \in 0..Len(p)
  PROVE  /\ IsList(SubSeq(p, 1, l)) /\ Len(SubSeq(p, 1, l)) = l
         /\ \A i \in 1..l : SubSeq(p, 1, l)[i] = p[i]
  <1> DEFINE S == ToSet(p)
  <1>1. p \in Seq(S) /\ Len(p) \in Nat
    BY ListFacts DEF IsList
  <1> HIDE DEF S
  <1>2. \A i \in 1..l : p[i] \in S
    BY <1>1
  <1>3. /\ SubSeq(p, 1, l) \in Seq(S) /\ Len(SubSeq(p, 1, l)) = l
        /\ \A i \in 1..l : SubSeq(p, 1, l)[i] = p[i]
    BY <1>1
  <1> QED
    BY <1>3, SequenceIsList

LEMMA StepFacts ==
  ASSUME NEW q, NEW s, IsList(q)
  PROVE  /\ IsList(Append(q, s)) /\ Len(Append(q, s)) = Len(q) + 1 /\ Len(q) \in Nat
         /\ Append(q, s) # <<>>
         /\ Front(Append(q, s)) = q /\ Last(Append(q, s)) = s
         /\ Prefixes(Append(q, s)) = Prefixes(q) \cup {Append(q, s)}
  <1> DEFINE p == Append(q, s)
             n == Len(q)
  <1>1. /\ IsList(p) /\ Len(p) = n + 1 /\ n \in Nat /\ p[n + 1] = s
        /\ \A i \in 1..n : p[i] = q[i]
    BY AppendList DEF IsList
  <1>2. p # <<>>
    BY <1>1, EmptyList
  <1> HIDE DEF p
  <1>3. ASSUME NEW l \in 0..n
        PROVE  SubSeq(p, 1, l) = SubSeq(q, 1, l)
    <2>1. l \in 0..Len(p) /\ l \in 0..Len(q)
      BY <1>1
    <2>2. /\ IsList(SubSeq(p, 1, l)) /\ Len(SubSeq(p, 1, l)) = l
          /\ \A i \in 1..l : SubSeq(p, 1, l)[i] = p[i]
      BY <1>1, <2>1, BeginningFacts
    <2>3. /\ IsList(SubSeq(q, 1, l)) /\ Len(SubSeq(q, 1, l)) = l
          /\ \A i \in 1..l : SubSeq(q, 1, l)[i] = q[i]
      BY <2>1, BeginningFacts
    <2>4. \A i \in 1..l : SubSeq(p, 1, l)[i] = SubSeq(q, 1, l)[i]
      BY <1>1, <2>2, <2>3
    <2> QED
      BY <2>2, <2>3, <2>4, ListsEqual
  <1>4. ASSUME NEW x, IsList(x)
        PROVE  SubSeq(x, 1, Len(x)) = x
    <2>1. Len(x) \in 0..Len(x)
      BY <1>4 DEF IsList
    <2> QED
      BY <1>4, <2>1, BeginningFacts, ListsEqual
  <1>5. SubSeq(p, 1, n + 1) = p /\ SubSeq(p, 1, n) = q
    BY <1>1, <1>3, <1>4
  <1>6. Front(p) = q /\ Last(p) = s
    <2>1. (n + 1) - 1 = n
      BY <1>1
    <2> QED
      BY <1>1, <1>5, <2>1 DEF Front, Last
  <1>7. Prefixes(p) = Prefixes(q) \cup {p}
    <2>1. 0..Len(p) = (0..n) \cup {n + 1}
      BY <1>1
    <2>2. Prefixes(p) = {SubSeq(p, 1, l) : l \in 0..n} \cup {p}
      BY <1>5, <2>1 DEF Prefixes
    <2>3. {SubSeq(p, 1, l) : l \in 0..n} = Prefixes(q)
      BY <1>3 DEF Prefixes
    <2> QED
      BY <2>2, <2>3
  <1> QED
    BY <1>1, <1>2, <1>6, <1>7 DEF p

LEMMA RootFacts == IsList(<<>>) /\ Len(<<>>) = 0 /\ Prefixes(<<>>) = {<<>>}
  <1>1. 0..0 = {0} /\ SubSeq(<<>>, 1, 0) = <<>>
    BY EmptyList, BeginningFacts, ListsEqual
  <1> QED
    BY <1>1, EmptyList DEF Prefixes

(* A path is the root, or a step from another.                             *)
LEMMA PathSplits ==
  ASSUME NEW p, IsList(p), p # <<>>
  PROVE  IsList(Front(p)) /\ p = Append(Front(p), Last(p)) /\ Len(Front(p)) + 1 = Len(p)
  <1> DEFINE n == Len(p) - 1
             q == Front(p)
  <1>1. Len(p) \in Nat /\ Len(p) # 0
    <2>1. Len(p) = 0 => p = <<>>
      BY EmptyList, ListsEqual
    <2> QED
      BY <2>1 DEF IsList
  <1>2. n \in 0..Len(p) /\ n + 1 = Len(p) /\ n \in Nat
    BY <1>1
  <1>3. IsList(q) /\ Len(q) = n /\ \A i \in 1..n : q[i] = p[i]
    BY <1>2, BeginningFacts DEF Front
  <1> HIDE DEF q
  <1>4. /\ IsList(Append(q, p[n + 1])) /\ Len(Append(q, p[n + 1])) = n + 1
        /\ \A i \in 1..n : Append(q, p[n + 1])[i] = p[i]
        /\ Append(q, p[n + 1])[n + 1] = p[n + 1]
    BY <1>3, AppendList
  <1>5. \A i \in 1..(n + 1) : i \in 1..n \/ i = n + 1
    <2> HIDE DEF n
    <2> QED
      BY <1>2
  <1>6. Append(q, p[n + 1]) = p
    BY <1>2, <1>4, <1>5, ListsEqual
  <1> QED
    BY <1>2, <1>3, <1>6 DEF Last, q

(* What holds of the root, and of every path of a set if it does of the    *)
(* one before, holds of all in the set.                                    *)
LEMMA PathInduction ==
  ASSUME NEW U, NEW S, <<>> \in S,
         \A p \in U : IsList(p) /\ (p # <<>> => Front(p) \in U),
         \A q \in U : q \in S => \A s : Append(q, s) \in U => Append(q, s) \in S
  PROVE  U \subseteq S
  <1> DEFINE N == {n \in Nat : \A p \in U : Len(p) = n => p \in S}
  <1>1. 0 \in N
    BY EmptyList, ListsEqual
  <1>2. ASSUME NEW n \in Nat, n \in N
        PROVE  n + 1 \in N
    <2> SUFFICES ASSUME NEW p \in U, Len(p) = n + 1 PROVE p \in S
      OBVIOUS
    <2>1. p # <<>>
      BY EmptyList
    <2>2. IsList(Front(p)) /\ p = Append(Front(p), Last(p)) /\ Len(Front(p)) + 1 = n + 1
      BY <2>1, PathSplits
    <2>3. Len(Front(p)) = n /\ Front(p) \in U
      BY <2>1, <2>2 DEF IsList
    <2>4. Front(p) \in S
      BY <1>2, <2>3
    <2> QED
      BY <2>2, <2>3, <2>4
  <1> HIDE DEF N
  <1>3. \A n \in Nat : n \in N
    BY <1>1, <1>2, SetInduction
  <1> QED
    BY <1>3 DEF N, IsList

-----------------------------------------------------------------------------
(* Merging                                                                 *)

(* One step of mergeYaml, with merge for what is below.                    *)
MergedWith(merge, base, concrete) ==
    CASE IsMap(base) /\ IsMap(concrete) -> MergedMaps(merge, base, concrete)
      [] IsTagged(base) /\ IsTagged(concrete) /\ base.tag = concrete.tag ->
            Tagged(concrete.tag, merge[base.innerNode][concrete.innerNode])
      [] OTHER -> concrete

(* It asks merge for nothing but what is below.                            *)
LEMMA MergesBelow ==
  ASSUME NEW base \in Nodes, NEW concrete \in Nodes, NEW g, NEW h,
         \A b, c \in Nodes : Height[b] < Height[base] => g[b][c] = h[b][c]
  PROVE  MergedWith(g, base, concrete) = MergedWith(h, base, concrete)
  <1>1. CASE IsMap(base) /\ IsMap(concrete)
    <2>1. \A k \in DOMAIN base.entries \cap DOMAIN concrete.entries :
             g[base.entries[k]][concrete.entries[k]] = h[base.entries[k]][concrete.entries[k]]
      BY <1>1, NodesAssumption
    <2>2. MergedMaps(g, base, concrete) = MergedMaps(h, base, concrete)
      BY <2>1 DEF MergedMaps, Mapping
    <2> QED
      BY <1>1, <2>2 DEF MergedWith
  <1>2. CASE /\ IsTagged(base) /\ IsTagged(concrete) /\ base.tag = concrete.tag
             /\ ~(IsMap(base) /\ IsMap(concrete))
    <2>1. g[base.innerNode][concrete.innerNode] = h[base.innerNode][concrete.innerNode]
      BY <1>2, NodesAssumption
    <2> QED
      BY <1>2, <2>1 DEF MergedWith, Tagged
  <1>3. CASE /\ ~(IsTagged(base) /\ IsTagged(concrete) /\ base.tag = concrete.tag)
             /\ ~(IsMap(base) /\ IsMap(concrete))
    BY <1>3 DEF MergedWith
  <1> QED
    BY <1>1, <1>2, <1>3

(* Documents are finite, so merging them ends: there is a function which   *)
(* does as the definition of mergeYaml says.                               *)
LEMMA MergeFacts ==
  \A base, concrete \in Nodes :
     mergeYaml[base][concrete] = MergedWith(mergeYaml, base, concrete)
  <1> DEFINE Merges(g, n) == \A b, c \in Nodes : Height[b] < n => g[b][c] = MergedWith(g, b, c)
             Done == {n \in Nat : \E g : Merges(g, n)}
             Same == {i \in Nat : \A m, n \in Nat : \A g, h :
                        Merges(g, m) /\ Merges(h, n) /\ i <= m /\ i <= n =>
                           \A b, c \in Nodes : Height[b] < i => g[b][c] = h[b][c]}
  <1>1. \A b \in Nodes : Height[b] \in Nat
    BY NodesAssumption
  <1>2. \A n \in Nat : \E g : Merges(g, n)
    <2>1. Merges([b \in Nodes |-> [c \in Nodes |-> 0]], 0)
      BY <1>1
    <2>2. ASSUME NEW n \in Nat, NEW g, Merges(g, n)
          PROVE  \E h : Merges(h, n + 1)
      <3> DEFINE h == [b \in Nodes |-> [c \in Nodes |-> MergedWith(g, b, c)]]
      <3>1. ASSUME NEW b \in Nodes, NEW c \in Nodes, Height[b] < n + 1
            PROVE  h[b][c] = MergedWith(h, b, c)
        <4>1. ASSUME NEW x \in Nodes, NEW y \in Nodes, Height[x] < Height[b]
              PROVE  g[x][y] = h[x][y]
          <5>1. Height[x] < n
            BY <1>1, <3>1, <4>1
          <5>2. g[x][y] = MergedWith(g, x, y)
            BY <2>2, <5>1
          <5> QED
            BY <5>2
        <4>2. h[b][c] = MergedWith(g, b, c)
          OBVIOUS
        <4> HIDE DEF h
        <4> QED
          BY <4>1, <4>2, MergesBelow
      <3> HIDE DEF h
      <3>2. Merges(h, n + 1)
        BY <3>1
      <3> QED
        BY <3>2
    <2> HIDE DEF Merges
    <2>3. 0 \in Done /\ \A n \in Nat : n \in Done => n + 1 \in Done
      BY <2>1, <2>2
    <2> HIDE DEF Done
    <2>4. \A n \in Nat : n \in Done
      BY <2>3, SetInduction
    <2> QED
      BY <2>4 DEF Done
  <1>3. \A i \in Nat : i \in Same
    <2>1. 0 \in Same
      BY <1>1
    <2>2. ASSUME NEW i \in Nat, i \in Same
          PROVE  i + 1 \in Same
      <3>1. ASSUME NEW m \in Nat, NEW n \in Nat, NEW g, NEW h, Merges(g, m), Merges(h, n),
                   i + 1 <= m, i + 1 <= n, NEW b \in Nodes, NEW c \in Nodes, Height[b] < i + 1
            PROVE  g[b][c] = h[b][c]
        <4>1. i <= m /\ i <= n /\ Height[b] < m /\ Height[b] < n
              /\ \A x \in Nodes : Height[x] < Height[b] => Height[x] < i
          BY <1>1, <3>1
        <4>2. g[b][c] = MergedWith(g, b, c) /\ h[b][c] = MergedWith(h, b, c)
          BY <3>1, <4>1
        <4> HIDE DEF Merges
        <4>3. \A x, y \in Nodes : Height[x] < i => g[x][y] = h[x][y]
          BY <2>2, <3>1, <4>1
        <4>4. \A x, y \in Nodes : Height[x] < Height[b] => g[x][y] = h[x][y]
          BY <4>1, <4>3
        <4> QED
          BY <4>2, <4>4, MergesBelow
      <3> HIDE DEF Merges
      <3> QED
        BY <3>1
    <2> HIDE DEF Same
    <2> QED
      BY <2>1, <2>2, SetInduction
  <1> DEFINE Upto(n) == CHOOSE g : Merges(g, n)
             limit == [b \in Nodes |-> [c \in Nodes |-> Upto(Height[b] + 1)[b][c]]]
             NextMerge(g) == [b \in Nodes |-> [c \in Nodes |-> MergedWith(g, b, c)]]
  <1>4. \A n \in Nat : Merges(Upto(n), n)
    <2> HIDE DEF Merges
    <2> QED
      BY <1>2
  <1> HIDE DEF Upto
  <1>5. ASSUME NEW b \in Nodes, NEW c \in Nodes
        PROVE  limit[b][c] = MergedWith(limit, b, c)
    <2>1. Height[b] + 1 \in Nat /\ Height[b] < Height[b] + 1
      BY <1>1
    <2>2. limit[b][c] = Upto(Height[b] + 1)[b][c]
      OBVIOUS
    <2>3. Merges(Upto(Height[b] + 1), Height[b] + 1)
      BY <1>4, <2>1
    <2>4. limit[b][c] = MergedWith(Upto(Height[b] + 1), b, c)
      BY <2>1, <2>2, <2>3
    <2>5. ASSUME NEW x \in Nodes, NEW y \in Nodes, Height[x] < Height[b]
          PROVE  Upto(Height[b] + 1)[x][y] = limit[x][y]
      <3>1. /\ Height[x] + 1 \in Nat /\ Height[x] < Height[x] + 1
            /\ Height[x] + 1 <= Height[b] + 1 /\ Height[x] + 1 <= Height[x] + 1
        BY <1>1, <2>5
      <3>2. Merges(Upto(Height[x] + 1), Height[x] + 1)
        BY <1>4, <3>1
      <3> HIDE DEF Merges
      <3>3. Height[x] + 1 \in Same
        BY <1>3, <3>1
      <3>4. Upto(Height[b] + 1)[x][y] = Upto(Height[x] + 1)[x][y]
        BY <2>1, <2>3, <3>1, <3>2, <3>3
      <3> QED
        BY <3>4
    <2> HIDE DEF limit
    <2> QED
      BY <2>4, <2>5, MergesBelow
  <1>6. limit = NextMerge(limit)
    <2>1. limit = [b \in Nodes |-> [c \in Nodes |-> limit[b][c]]]
      OBVIOUS
    <2> HIDE DEF limit
    <2> QED
      BY <1>5, <2>1
  <1> HIDE DEF limit
  <1>7. mergeYaml = CHOOSE g : g = NextMerge(g)
    BY DEF mergeYaml, MergedWith
  <1>8. mergeYaml = NextMerge(mergeYaml)
    <2> HIDE DEF NextMerge
    <2> QED
      BY <1>6, <1>7
  <1> DEFINE merge == mergeYaml
  <1> HIDE DEF merge
  <1>9. merge = [b \in Nodes |-> [c \in Nodes |-> MergedWith(merge, b, c)]]
    BY <1>8 DEF merge
  <1>10. \A b, c \in Nodes : merge[b][c] = MergedWith(merge, b, c)
    BY <1>9
  <1> QED
    BY <1>10 DEF merge

-----------------------------------------------------------------------------
(* Trees by their paths                                                    *)

(* One level more of a tree.                                               *)
Deeper(root, above) ==
    LET below == UNION {{Append(p, s) : s \in Steps(above[p])} : p \in DOMAIN above}
    IN  [p \in {<<>>} \cup below |->
            IF p = <<>> THEN root ELSE Child(above[Front(p)], Last(p))]

(* A tree as far as Depth: a path goes on by the steps of its node.        *)
IsFlat(tree, root) ==
    /\ \A p \in DOMAIN tree : IsList(p) /\ (p # <<>> => Front(p) \in DOMAIN tree)
    /\ <<>> \in DOMAIN tree
    /\ tree[<<>>] = root
    /\ \A q, s : IsList(q) =>
          /\ Append(q, s) \in DOMAIN tree
                <=> q \in DOMAIN tree /\ Len(q) < Depth /\ s \in Steps(tree[q])
          /\ Append(q, s) \in DOMAIN tree => tree[Append(q, s)] = Child(tree[q], s)

LEMMA DeeperFacts ==
  ASSUME NEW root, NEW above, \A p \in DOMAIN above : IsList(p)
  PROVE  /\ \A p \in DOMAIN Deeper(root, above) :
               IsList(p) /\ (p # <<>> => Front(p) \in DOMAIN above)
         /\ <<>> \in DOMAIN Deeper(root, above)
         /\ Deeper(root, above)[<<>>] = root
         /\ \A q, s : IsList(q) =>
               /\ Append(q, s) \in DOMAIN Deeper(root, above)
                     <=> q \in DOMAIN above /\ s \in Steps(above[q])
               /\ Append(q, s) \in DOMAIN Deeper(root, above)
                     => Deeper(root, above)[Append(q, s)] = Child(above[q], s)
  <1> DEFINE below == UNION {{Append(p, s) : s \in Steps(above[p])} : p \in DOMAIN above}
             deeper == [p \in {<<>>} \cup below |->
                          IF p = <<>> THEN root ELSE Child(above[Front(p)], Last(p))]
  <1>1. Deeper(root, above) = deeper
    BY DEF Deeper
  <1>2. ASSUME NEW p \in below
        PROVE  IsList(p) /\ Front(p) \in DOMAIN above
    <2>1. PICK q \in DOMAIN above : \E s \in Steps(above[q]) : p = Append(q, s)
      OBVIOUS
    <2>2. PICK s \in Steps(above[q]) : p = Append(q, s)
      BY <2>1
    <2>3. IsList(Append(q, s)) /\ Front(Append(q, s)) = q
      BY StepFacts
    <2> QED
      BY <2>2, <2>3
  <1>3. ASSUME NEW q, NEW s, IsList(q)
        PROVE  Append(q, s) \in below <=> q \in DOMAIN above /\ s \in Steps(above[q])
    <2>1. ASSUME Append(q, s) \in below PROVE q \in DOMAIN above /\ s \in Steps(above[q])
      <3>1. PICK p \in DOMAIN above : \E t \in Steps(above[p]) : Append(q, s) = Append(p, t)
        BY <2>1
      <3>2. PICK t \in Steps(above[p]) : Append(q, s) = Append(p, t)
        BY <3>1
      <3>3. /\ Front(Append(p, t)) = p /\ Last(Append(p, t)) = t
            /\ Front(Append(q, s)) = q /\ Last(Append(q, s)) = s
        BY <1>3, StepFacts
      <3>4. p = q /\ t = s
        BY <3>2, <3>3
      <3> QED
        BY <3>4
    <2>2. ASSUME q \in DOMAIN above, s \in Steps(above[q]) PROVE Append(q, s) \in below
      BY <2>2
    <2> QED
      BY <2>1, <2>2
  <1> HIDE DEF below
  <1>4. DOMAIN deeper = {<<>>} \cup below /\ deeper[<<>>] = root
    OBVIOUS
  <1>5. ASSUME NEW q, NEW s, IsList(q)
        PROVE  /\ Append(q, s) \in DOMAIN deeper <=> Append(q, s) \in below
               /\ Append(q, s) \in DOMAIN deeper => deeper[Append(q, s)] = Child(above[q], s)
    <2>1. Append(q, s) # <<>> /\ Front(Append(q, s)) = q /\ Last(Append(q, s)) = s
      BY <1>5, StepFacts
    <2> QED
      BY <2>1
  <1> HIDE DEF deeper
  <1> QED
    BY <1>1, <1>2, <1>3, <1>4, <1>5, EmptyList

(* The levels of a tree exist, and Flat has the last of them.              *)
LEMMA LevelFacts ==
  ASSUME NEW root
  PROVE  \E level : /\ level[0] = [p \in {<<>>} |-> root]
                    /\ \A n \in Nat : level[n + 1] = Deeper(root, level[n])
                    /\ Flat(root) = level[Depth]
  <1> DEFINE top == [p \in {<<>>} |-> root]
  <1> HIDE DEF top
  <1> DEFINE Begins(g, n) == g[0] = top /\ \A i \in 1..n : g[i] = Deeper(root, g[i - 1])
             Lengths == {n \in Nat : \E g : Begins(g, n)}
             Same == {i \in Nat : \A m, n \in Nat : \A g, h :
                        Begins(g, m) /\ Begins(h, n) /\ i <= m /\ i <= n => g[i] = h[i]}
  <1>1. \A n \in Nat : \E g : Begins(g, n)
    <2>1. Begins([i \in 0..0 |-> top], 0)
      OBVIOUS
    <2>2. ASSUME NEW n \in Nat, NEW g, Begins(g, n)
          PROVE  \E h : Begins(h, n + 1)
      <3> DEFINE h == [i \in 0..(n + 1) |-> IF i <= n THEN g[i] ELSE Deeper(root, g[n])]
      <3>1. h[0] = top
        BY <2>2
      <3>2. ASSUME NEW i \in 1..(n + 1)
            PROVE  h[i] = Deeper(root, h[i - 1])
        BY <2>2
      <3> QED
        BY <3>1, <3>2
    <2> HIDE DEF Begins
    <2>3. 0 \in Lengths /\ \A n \in Nat : n \in Lengths => n + 1 \in Lengths
      BY <2>1, <2>2
    <2> HIDE DEF Lengths
    <2>4. \A n \in Nat : n \in Lengths
      BY <2>3, SetInduction
    <2> QED
      BY <2>4 DEF Lengths
  <1>2. \A i \in Nat : i \in Same
    <2>1. 0 \in Same
      OBVIOUS
    <2>2. ASSUME NEW i \in Nat, i \in Same
          PROVE  i + 1 \in Same
      <3>1. ASSUME NEW m \in Nat, NEW n \in Nat, NEW g, NEW h,
                   Begins(g, m), Begins(h, n), i + 1 <= m, i + 1 <= n
            PROVE  g[i + 1] = h[i + 1]
        <4>1. i <= m /\ i <= n /\ i + 1 \in 1..m /\ i + 1 \in 1..n /\ (i + 1) - 1 = i
          BY <3>1
        <4>2. g[i + 1] = Deeper(root, g[i]) /\ h[i + 1] = Deeper(root, h[i])
          BY <3>1, <4>1
        <4> HIDE DEF Begins
        <4>3. g[i] = h[i]
          BY <2>2, <3>1, <4>1
        <4> QED
          BY <4>2, <4>3
      <3> HIDE DEF Begins
      <3> QED
        BY <3>1
    <2> HIDE DEF Same
    <2> QED
      BY <2>1, <2>2, SetInduction
  <1> DEFINE Upto(n) == CHOOSE g : Begins(g, n)
             limit == [n \in Nat |-> Upto(n)[n]]
             NextLevel(g) == [n \in Nat |-> IF n = 0 THEN top ELSE Deeper(root, g[n - 1])]
  <1>3. \A n \in Nat : Begins(Upto(n), n)
    <2> HIDE DEF Begins
    <2> QED
      BY <1>1
  <1> HIDE DEF Upto
  <1>4. limit[0] = top
    BY <1>3
  <1>5. ASSUME NEW n \in Nat
        PROVE  limit[n + 1] = Deeper(root, limit[n])
    <2>1. Begins(Upto(n), n) /\ Begins(Upto(n + 1), n + 1)
      BY <1>3
    <2>2. Upto(n + 1)[n] = Upto(n)[n]
      <3> HIDE DEF Begins
      <3> QED
        BY <1>2, <2>1
    <2>3. Upto(n + 1)[n + 1] = Deeper(root, Upto(n + 1)[n])
      <3>1. n + 1 \in 1..(n + 1) /\ (n + 1) - 1 = n
        OBVIOUS
      <3> QED
        BY <2>1, <3>1
    <2> QED
      BY <2>2, <2>3
  <1>6. limit = NextLevel(limit)
    <2>1. ASSUME NEW n \in Nat
          PROVE  limit[n] = NextLevel(limit)[n]
      <3>1. CASE n = 0
        BY <1>4, <3>1
      <3>2. CASE n # 0
        <4>1. n - 1 \in Nat /\ (n - 1) + 1 = n
          BY <3>2
        <4>2. limit[n] = Deeper(root, limit[n - 1])
          BY <1>5, <4>1
        <4> HIDE DEF limit
        <4> QED
          BY <3>2, <4>2
      <3> QED
        BY <3>1, <3>2
    <2> QED
      BY <2>1
  <1> HIDE DEF limit
  <1> DEFINE flat == CHOOSE g : g = NextLevel(g)
  <1>7. Flat(root) = flat[Depth]
    BY DEF Flat, Deeper, top
  <1>8. flat = NextLevel(flat)
    <2> HIDE DEF NextLevel
    <2> QED
      BY <1>6
  <1> HIDE DEF flat
  <1>9. flat = [n \in Nat |-> IF n = 0 THEN top ELSE Deeper(root, flat[n - 1])]
    BY <1>8
  <1>10. flat[0] = top /\ \A n \in Nat : flat[n + 1] = Deeper(root, flat[n])
    <2>1. flat[0] = top
      BY <1>9
    <2>2. \A n \in Nat : flat[n + 1] = Deeper(root, flat[(n + 1) - 1])
      BY <1>9
    <2>3. \A n \in Nat : (n + 1) - 1 = n
      OBVIOUS
    <2> QED
      BY <2>1, <2>2, <2>3
  <1> QED
    BY <1>7, <1>10 DEF top

LEMMA FlatFacts ==
  ASSUME NEW root
  PROVE  IsFlat(Flat(root), root)
  <1>1. PICK level : /\ level[0] = [p \in {<<>>} |-> root]
                     /\ \A n \in Nat : level[n + 1] = Deeper(root, level[n])
                     /\ Flat(root) = level[Depth]
    BY LevelFacts
  <1> DEFINE Lists(n) == /\ \A p \in DOMAIN level[n] :
                              IsList(p) /\ (p # <<>> => Front(p) \in DOMAIN level[n])
                         /\ <<>> \in DOMAIN level[n] /\ level[n][<<>>] = root
             Keeps(n) == \A p : IsList(p) =>
                           /\ p \in DOMAIN level[n] <=> p \in DOMAIN level[n + 1] /\ Len(p) <= n
                           /\ p \in DOMAIN level[n] => level[n + 1][p] = level[n][p]
             S == {n \in Nat : Lists(n) /\ Keeps(n)}
  <1>2. DOMAIN level[0] = {<<>>} /\ level[0][<<>>] = root
    BY <1>1
  <1>3. Lists(0)
    BY <1>2, EmptyList
  <1> DEFINE Grows(n) == \A q, s : IsList(q) =>
                           /\ Append(q, s) \in DOMAIN level[n + 1]
                                 <=> q \in DOMAIN level[n] /\ s \in Steps(level[n][q])
                           /\ Append(q, s) \in DOMAIN level[n + 1]
                                 => level[n + 1][Append(q, s)] = Child(level[n][q], s)
  <1>4. ASSUME NEW n \in Nat, Lists(n)
        PROVE  /\ \A p \in DOMAIN level[n + 1] :
                     IsList(p) /\ (p # <<>> => Front(p) \in DOMAIN level[n])
               /\ <<>> \in DOMAIN level[n + 1] /\ level[n + 1][<<>>] = root
               /\ Grows(n)
    <2>1. level[n + 1] = Deeper(root, level[n])
      BY <1>1
    <2>2. \A p \in DOMAIN level[n] : IsList(p)
      BY <1>4
    <2> QED
      BY <2>1, <2>2, DeeperFacts
  <1>5. ASSUME NEW n \in Nat, Lists(n), Keeps(n)
        PROVE  Lists(n + 1)
    <2>1. \A p : IsList(p) /\ p \in DOMAIN level[n] => p \in DOMAIN level[n + 1]
      BY <1>5
    <2>2. \A p \in DOMAIN level[n] : IsList(p)
      BY <1>5
    <2> QED
      BY <1>4, <1>5, <2>1, <2>2
  <1>6. Keeps(0)
    <2> SUFFICES ASSUME NEW p, IsList(p)
                 PROVE  /\ p \in DOMAIN level[0] <=> p \in DOMAIN level[0 + 1] /\ Len(p) <= 0
                        /\ p \in DOMAIN level[0] => level[0 + 1][p] = level[0][p]
      OBVIOUS
    <2>1. <<>> \in DOMAIN level[0 + 1] /\ level[0 + 1][<<>>] = root
      BY <1>3, <1>4
    <2>2. Len(p) <= 0 <=> p = <<>>
      BY EmptyList, ListsEqual DEF IsList
    <2> QED
      BY <1>2, <2>1, <2>2
  <1> HIDE DEF Lists
  <1>7. ASSUME NEW n \in Nat, Lists(n), Keeps(n)
        PROVE  Keeps(n + 1)
    <2> DEFINE m == n + 1
    <2> SUFFICES ASSUME NEW p, IsList(p)
                 PROVE  /\ p \in DOMAIN level[m] <=> p \in DOMAIN level[m + 1] /\ Len(p) <= m
                        /\ p \in DOMAIN level[m] => level[m + 1][p] = level[m][p]
      OBVIOUS
    <2>1. Lists(m) /\ m \in Nat
      BY <1>5, <1>7
    <2>2. Grows(n) /\ Grows(m) /\ <<>> \in DOMAIN level[m] /\ level[m][<<>>] = root
          /\ <<>> \in DOMAIN level[m + 1] /\ level[m + 1][<<>>] = root
      BY <1>4, <1>7, <2>1
    <2>3. CASE p = <<>>
      BY <2>1, <2>2, <2>3, EmptyList
    <2>4. CASE p # <<>>
      <3> DEFINE q == Front(p)
                 s == Last(p)
      <3>1. IsList(q) /\ p = Append(q, s) /\ Len(q) + 1 = Len(p) /\ Len(q) \in Nat
        BY <2>4, PathSplits DEF IsList
      <3> HIDE DEF q, s
      <3>2. Len(p) <= m <=> Len(q) <= n
        BY <3>1
      <3> HIDE DEF m
      <3>3. /\ q \in DOMAIN level[n] <=> q \in DOMAIN level[m] /\ Len(q) <= n
            /\ q \in DOMAIN level[n] => level[m][q] = level[n][q]
        BY <1>7, <3>1 DEF m
      <3>4. /\ p \in DOMAIN level[m] <=> q \in DOMAIN level[n] /\ s \in Steps(level[n][q])
            /\ p \in DOMAIN level[m] => level[m][p] = Child(level[n][q], s)
        BY <2>2, <3>1 DEF m
      <3>5. /\ p \in DOMAIN level[m + 1] <=> q \in DOMAIN level[m] /\ s \in Steps(level[m][q])
            /\ p \in DOMAIN level[m + 1] => level[m + 1][p] = Child(level[m][q], s)
        BY <2>2, <3>1
      <3> QED
        BY <3>2, <3>3, <3>4, <3>5
    <2> QED
      BY <2>3, <2>4
  <1>8. \A n \in Nat : Lists(n) /\ Keeps(n)
    <2> HIDE DEF Keeps
    <2>1. 0 \in S
      BY <1>3, <1>6
    <2>2. \A n \in Nat : n \in S => n + 1 \in S
      BY <1>5, <1>7
    <2> HIDE DEF S
    <2>3. \A n \in Nat : n \in S
      BY <2>1, <2>2, SetInduction
    <2> QED
      BY <2>3 DEF S
  <1> DEFINE tree == level[Depth]
  <1>9. /\ \A p \in DOMAIN tree : IsList(p) /\ (p # <<>> => Front(p) \in DOMAIN tree)
        /\ <<>> \in DOMAIN tree /\ tree[<<>>] = root
    BY <1>8, NodesAssumption DEF Lists
  <1>10. ASSUME NEW q, NEW s, IsList(q)
         PROVE  /\ Append(q, s) \in DOMAIN tree
                      <=> q \in DOMAIN tree /\ Len(q) < Depth /\ s \in Steps(tree[q])
                /\ Append(q, s) \in DOMAIN tree => tree[Append(q, s)] = Child(tree[q], s)
    <2>1. CASE Depth = 0
      <3>1. Append(q, s) # <<>> /\ Len(q) \in Nat
        BY <1>10, StepFacts
      <3>2. ~(Len(q) < Depth)
        BY <2>1, <3>1
      <3> QED
        BY <1>2, <2>1, <3>1, <3>2
    <2>2. CASE Depth # 0
      <3> DEFINE n == Depth - 1
      <3>1. n \in Nat /\ n + 1 = Depth /\ Len(q) \in Nat
        BY <2>2, NodesAssumption, <1>10 DEF IsList
      <3>2. Len(q) < Depth <=> Len(q) <= n
        BY <3>1
      <3> HIDE DEF n
      <3>3. Keeps(n) /\ Grows(n)
        BY <1>4, <1>8, <3>1
      <3>4. /\ q \in DOMAIN level[n] <=> q \in DOMAIN tree /\ Len(q) <= n
            /\ q \in DOMAIN level[n] => tree[q] = level[n][q]
        BY <1>10, <3>1, <3>3
      <3>5. /\ Append(q, s) \in DOMAIN tree <=> q \in DOMAIN level[n] /\ s \in Steps(level[n][q])
            /\ Append(q, s) \in DOMAIN tree => tree[Append(q, s)] = Child(level[n][q], s)
        BY <1>10, <3>1, <3>3
      <3> QED
        BY <3>2, <3>4, <3>5
    <2> QED
      BY <2>1, <2>2
  <1> HIDE DEF tree
  <1>11. IsFlat(tree, root)
    BY <1>9, <1>10 DEF IsFlat
  <1> QED
    BY <1>1, <1>11 DEF tree

(* What is before a path of a tree is a path of the tree.                  *)
LEMMA PrefixesInside ==
  ASSUME NEW tree, NEW root, IsFlat(tree, root), NEW p \in DOMAIN tree
  PROVE  Prefixes(p) \subseteq DOMAIN tree
  <1> DEFINE S == {q \in DOMAIN tree : Prefixes(q) \subseteq DOMAIN tree}
  <1>1. <<>> \in S
    BY RootFacts DEF IsFlat
  <1>2. ASSUME NEW q \in DOMAIN tree, q \in S, NEW s, Append(q, s) \in DOMAIN tree
        PROVE  Append(q, s) \in S
    <2>1. Prefixes(Append(q, s)) = Prefixes(q) \cup {Append(q, s)}
      BY StepFacts DEF IsFlat
    <2> QED
      BY <1>2, <2>1
  <1>3. DOMAIN tree \subseteq S
    <2> HIDE DEF S
    <2> QED
      BY <1>1, <1>2, PathInduction DEF IsFlat
  <1> QED
    BY <1>3

LEMMA NodeFacts ==
  ASSUME NEW node
  PROVE  /\ IsMap(node) => /\ ~IsTagged(node) /\ Steps(node) = DOMAIN node.entries
                           /\ \A s : Child(node, s) = node.entries[s]
         /\ IsTagged(node) => /\ ~IsMap(node) /\ Steps(node) = {"!"}
                              /\ \A s : Child(node, s) = node.innerNode
         /\ ~IsMap(node) /\ ~IsTagged(node) => Steps(node) = {}
  BY DEF IsMap, IsTagged, Steps, Child

(* Below a mapping of Nodes there are Nodes.                               *)
LEMMA NodesBelow ==
  ASSUME NEW tree, NEW root, IsFlat(tree, root),
         IsMap(root), \A k \in DOMAIN root.entries : root.entries[k] \in Nodes,
         NEW p \in DOMAIN tree, p # <<>>
  PROVE  tree[p] \in Nodes
  <1> DEFINE S == {q \in DOMAIN tree : q = <<>> \/ tree[q] \in Nodes}
  <1>1. <<>> \in S
    BY DEF IsFlat
  <1>2. ASSUME NEW q \in DOMAIN tree, q \in S, NEW s, Append(q, s) \in DOMAIN tree
        PROVE  Append(q, s) \in S
    <2>1. s \in Steps(tree[q]) /\ tree[Append(q, s)] = Child(tree[q], s)
      BY <1>2 DEF IsFlat
    <2>2. Child(tree[q], s) \in Nodes
      <3>1. CASE q = <<>>
        <4>1. tree[q] = root
          BY <3>1 DEF IsFlat
        <4> QED
          BY <2>1, <4>1, NodeFacts
      <3>2. CASE q # <<>> /\ IsMap(tree[q])
        <4>1. tree[q] \in Nodes /\ s \in DOMAIN tree[q].entries
              /\ Child(tree[q], s) = tree[q].entries[s]
          BY <1>2, <2>1, <3>2, NodeFacts
        <4> QED
          BY <3>2, <4>1, NodesAssumption
      <3>3. CASE q # <<>> /\ ~IsMap(tree[q])
        <4>1. tree[q] \in Nodes /\ IsTagged(tree[q]) /\ Child(tree[q], s) = tree[q].innerNode
          BY <1>2, <2>1, <3>3, NodeFacts
        <4> QED
          BY <4>1, NodesAssumption
      <3> QED
        BY <3>1, <3>2, <3>3
    <2> QED
      BY <1>2, <2>1, <2>2
  <1>3. DOMAIN tree \subseteq S
    <2> HIDE DEF S
    <2> QED
      BY <1>1, <1>2, PathInduction DEF IsFlat
  <1> QED
    BY <1>3

-----------------------------------------------------------------------------
(* Merging by paths                                                        *)

(* Both trees have a mapping, or nodes of one tag, at a path.              *)
SharedAt(base, concrete, q) ==
    /\ q \in DOMAIN base \cap DOMAIN concrete
    /\ Shape(base[q]) = Shape(concrete[q])
    /\ IsMap(base[q]) \/ IsTagged(base[q])

(* What IsMergeOf calls deleted, own and inherited.                        *)
Deleted(base, concrete) ==
    {p \in DOMAIN concrete \ {<<>>} :
        /\ concrete[p] = Null
        /\ IsMap(concrete[Front(p)])
        /\ Shared(base, concrete, Front(p))}

Own(base, concrete) == DOMAIN concrete \ Deleted(base, concrete)

Inherited(base, concrete) ==
    {p \in DOMAIN base \ DOMAIN concrete :
        \E q \in Prefixes(p) : /\ q # <<>>
                               /\ Shared(base, concrete, Front(q))
                               /\ q \notin DOMAIN concrete}

(* Two nodes that are merged with each other, and what becomes of them.    *)
Meet(base, concrete, p) ==
    /\ p \in DOMAIN base \cap DOMAIN concrete
    /\ p # <<>> => Shared(base, concrete, Front(p))

MergedAt(base, concrete, p) ==
    IF p = <<>> THEN MergedMaps(mergeYaml, base[p], concrete[p])
    ELSE mergeYaml[base[p]][concrete[p]]

(* Two documents with Nodes below their roots, and their merge.            *)
Documents(result, base, concrete) ==
    /\ \A tree \in {base, concrete} :
          /\ IsFlat(tree, tree[<<>>])
          /\ IsMap(tree[<<>>])
          /\ \A k \in DOMAIN tree[<<>>].entries : tree[<<>>].entries[k] \in Nodes
    /\ IsFlat(result, MergedMaps(mergeYaml, base[<<>>], concrete[<<>>]))

(* Down to a path, the result is what IsMergeOf demands.                   *)
Follows(result, base, concrete, p) ==
    /\ p \in DOMAIN result <=> p \in Own(base, concrete) \cup Inherited(base, concrete)
    /\ p \in Own(base, concrete) =>
          result[p] = IF Meet(base, concrete, p) THEN MergedAt(base, concrete, p) ELSE concrete[p]
    /\ p \in Inherited(base, concrete) => result[p] = base[p]

LEMMA SameShape ==
  ASSUME NEW b, NEW c
  PROVE  (Shape(b) = Shape(c) /\ (IsMap(b) \/ IsTagged(b)))
            <=> \/ IsMap(b) /\ IsMap(c)
                \/ IsTagged(b) /\ IsTagged(c) /\ b.tag = c.tag
  <1>1. /\ IsMap(b) => Shape(b) = [kind |-> "map"]
        /\ IsMap(c) => Shape(c) = [kind |-> "map"]
        /\ IsTagged(b) => Shape(b) = [kind |-> "tagged", tag |-> b.tag] /\ ~IsMap(b)
        /\ IsTagged(c) => Shape(c) = [kind |-> "tagged", tag |-> c.tag] /\ ~IsMap(c)
        /\ ~IsMap(c) /\ ~IsTagged(c) => Shape(c) = c
    BY DEF Shape, IsMap, IsTagged
  <1>2. /\ [kind |-> "map"].kind = "map"
        /\ [kind |-> "tagged", tag |-> b.tag].kind = "tagged"
        /\ [kind |-> "tagged", tag |-> c.tag].kind = "tagged"
        /\ [kind |-> "tagged", tag |-> b.tag].tag = b.tag
        /\ [kind |-> "tagged", tag |-> c.tag].tag = c.tag
    OBVIOUS
  <1>3. CASE IsMap(b)
    <2>1. ASSUME Shape(b) = Shape(c) PROVE IsMap(c)
      BY <1>1, <1>2, <1>3, <2>1 DEF IsMap
    <2> QED
      BY <1>1, <1>3, <2>1
  <1>4. CASE IsTagged(b)
    <2>1. ASSUME Shape(b) = Shape(c) PROVE IsTagged(c) /\ b.tag = c.tag
      <3>1. Shape(c).kind = "tagged" /\ Shape(c).tag = b.tag
        BY <1>1, <1>2, <1>4, <2>1
      <3>2. ~IsMap(c)
        BY <1>1, <1>2, <3>1
      <3>3. IsTagged(c)
        BY <1>1, <3>1, <3>2 DEF IsTagged
      <3> QED
        BY <1>1, <1>2, <3>1, <3>3
    <2> QED
      BY <1>1, <1>4, <2>1
  <1> QED
    BY <1>3, <1>4

LEMMA SharedFacts ==
  ASSUME NEW base, NEW concrete, NEW p, IsList(p)
  PROVE  Shared(base, concrete, p)
            <=> /\ SharedAt(base, concrete, p)
                /\ p # <<>> => Shared(base, concrete, Front(p))
  <1>1. CASE p = <<>>
    BY <1>1, RootFacts DEF Shared, SharedAt
  <1>2. CASE p # <<>>
    <2>1. Prefixes(p) = Prefixes(Front(p)) \cup {p}
      <3>1. IsList(Front(p)) /\ p = Append(Front(p), Last(p))
        BY <1>2, PathSplits
      <3>2. Prefixes(Append(Front(p), Last(p))) = Prefixes(Front(p)) \cup {Append(Front(p), Last(p))}
        BY <3>1, StepFacts
      <3> QED
        BY <3>1, <3>2
    <2> QED
      BY <1>2, <2>1 DEF Shared, SharedAt
  <1> QED
    BY <1>1, <1>2

(* The sets of paths, one step further.                                    *)
LEMMA StepSets ==
  ASSUME NEW result, NEW base, NEW concrete, Documents(result, base, concrete),
         NEW q, IsList(q), NEW s
  PROVE  LET p == Append(q, s)
         IN  /\ p \in Deleted(base, concrete)
                   <=> /\ p \in DOMAIN concrete
                       /\ concrete[p] = Null
                       /\ IsMap(concrete[q])
                       /\ Shared(base, concrete, q)
             /\ p \in Inherited(base, concrete)
                   <=> /\ p \in DOMAIN base \ DOMAIN concrete
                       /\ q \in Inherited(base, concrete) \/ Shared(base, concrete, q)
             /\ Meet(base, concrete, p)
                   <=> p \in DOMAIN base \cap DOMAIN concrete /\ Shared(base, concrete, q)
             /\ Shared(base, concrete, q)
                   => SharedAt(base, concrete, q) /\ Meet(base, concrete, q) /\ q \in Own(base, concrete)
             /\ Meet(base, concrete, q) /\ ~Shared(base, concrete, q)
                   => ~SharedAt(base, concrete, q)
  <1> DEFINE p == Append(q, s)
  <1>1. /\ IsList(p) /\ p # <<>> /\ Front(p) = q /\ Prefixes(p) = Prefixes(q) \cup {p}
    BY StepFacts
  <1>2. Shared(base, concrete, q)
           <=> SharedAt(base, concrete, q) /\ (q # <<>> => Shared(base, concrete, Front(q)))
    BY SharedFacts
  <1>3. p \in DOMAIN base => q \in DOMAIN base
    BY DEF Documents, IsFlat
  <1> HIDE DEF p
  <1>4. p \in Deleted(base, concrete)
           <=> /\ p \in DOMAIN concrete
               /\ concrete[p] = Null
               /\ IsMap(concrete[q])
               /\ Shared(base, concrete, q)
    BY <1>1 DEF Deleted
  <1>5. Meet(base, concrete, p)
           <=> p \in DOMAIN base \cap DOMAIN concrete /\ Shared(base, concrete, q)
    BY <1>1 DEF Meet
  <1>6. Meet(base, concrete, q) /\ ~Shared(base, concrete, q) => ~SharedAt(base, concrete, q)
    BY <1>2 DEF Meet
  <1>7. ASSUME Shared(base, concrete, q)
        PROVE  SharedAt(base, concrete, q) /\ Meet(base, concrete, q) /\ q \in Own(base, concrete)
    <2>1. SharedAt(base, concrete, q) /\ Meet(base, concrete, q)
      BY <1>2, <1>7 DEF SharedAt, Meet
    <2>2. concrete[q] # Null
      BY <2>1, SameShape DEF SharedAt, IsMap, IsTagged, Null
    <2> QED
      BY <2>1, <2>2 DEF Own, Deleted, SharedAt
  <1>8. ASSUME p \in DOMAIN base \ DOMAIN concrete
        PROVE  p \in Inherited(base, concrete)
                  <=> q \in Inherited(base, concrete) \/ Shared(base, concrete, q)
    <2>1. ASSUME NEW x \in Prefixes(q), x # <<>>, Shared(base, concrete, Front(x)),
                 x \notin DOMAIN concrete
          PROVE  q \in Inherited(base, concrete)
      <3>1. q \notin DOMAIN concrete
        BY <2>1, PrefixesInside DEF Documents
      <3> QED
        BY <1>3, <1>8, <2>1, <3>1 DEF Inherited
    <2>2. ASSUME p \in Inherited(base, concrete)
          PROVE  q \in Inherited(base, concrete) \/ Shared(base, concrete, q)
      <3>1. PICK x \in Prefixes(p) : /\ x # <<>>
                                     /\ Shared(base, concrete, Front(x))
                                     /\ x \notin DOMAIN concrete
        BY <2>2 DEF Inherited
      <3>2. x \in Prefixes(q) \/ x = p
        BY <1>1
      <3> QED
        BY <1>1, <2>1, <3>1, <3>2
    <2>3. ASSUME q \in Inherited(base, concrete) PROVE p \in Inherited(base, concrete)
      BY <1>1, <1>8, <2>3 DEF Inherited
    <2>4. ASSUME Shared(base, concrete, q) PROVE p \in Inherited(base, concrete)
      BY <1>1, <1>8, <2>4 DEF Inherited
    <2> QED
      BY <2>2, <2>3, <2>4
  <1>9. p \in Inherited(base, concrete) => p \in DOMAIN base \ DOMAIN concrete
    BY DEF Inherited
  <1>10. p \in Inherited(base, concrete)
            <=> /\ p \in DOMAIN base \ DOMAIN concrete
                /\ q \in Inherited(base, concrete) \/ Shared(base, concrete, q)
    BY <1>8, <1>9
  <1> QED
    BY <1>4, <1>5, <1>6, <1>7, <1>10 DEF p

(* What becomes of two nodes that meet.                                    *)
LEMMA MeetFacts ==
  ASSUME NEW result, NEW base, NEW concrete, Documents(result, base, concrete),
         NEW q, IsList(q), Meet(base, concrete, q)
  PROVE  LET b == base[q]
             c == concrete[q]
         IN  \/ /\ SharedAt(base, concrete, q)
                /\ IsMap(b) /\ IsMap(c)
                /\ MergedAt(base, concrete, q) = MergedMaps(mergeYaml, b, c)
             \/ /\ SharedAt(base, concrete, q)
                /\ IsTagged(b) /\ IsTagged(c)
                /\ MergedAt(base, concrete, q)
                      = Tagged(c.tag, mergeYaml[b.innerNode][c.innerNode])
             \/ ~SharedAt(base, concrete, q) /\ MergedAt(base, concrete, q) = c
  <1> DEFINE b == base[q]
             c == concrete[q]
  <1>1. q \in DOMAIN base /\ q \in DOMAIN concrete
    BY DEF Meet
  <1>2. SharedAt(base, concrete, q) <=> \/ IsMap(b) /\ IsMap(c)
                                        \/ IsTagged(b) /\ IsTagged(c) /\ b.tag = c.tag
    BY <1>1, SameShape DEF SharedAt
  <1>3. IsMap(b) => ~IsTagged(b)
    BY DEF IsMap, IsTagged
  <1>4. CASE q = <<>>
    BY <1>2, <1>4 DEF Documents, MergedAt
  <1>5. CASE q # <<>>
    <2>1. b \in Nodes /\ c \in Nodes
      BY <1>1, <1>5, NodesBelow DEF Documents
    <2>2. MergedAt(base, concrete, q) = MergedWith(mergeYaml, b, c)
      BY <1>5, <2>1, MergeFacts DEF MergedAt
    <2> HIDE DEF b, c
    <2> QED
      BY <1>2, <1>3, <2>2 DEF MergedWith, b, c
  <1> QED
    BY <1>4, <1>5

LEMMA MapFacts ==
  ASSUME NEW merge, NEW b, NEW c, IsMap(b), IsMap(c)
  PROVE  LET m == MergedMaps(merge, b, c)
         IN  /\ IsMap(m)
             /\ \A k : k \in DOMAIN m.entries
                          <=> \/ k \in DOMAIN c.entries /\ c.entries[k] # Null
                              \/ k \in DOMAIN b.entries /\ k \notin DOMAIN c.entries
             /\ \A k \in DOMAIN m.entries :
                   m.entries[k] = IF k \notin DOMAIN c.entries THEN b.entries[k]
                                  ELSE IF k \notin DOMAIN b.entries THEN c.entries[k]
                                  ELSE merge[b.entries[k]][c.entries[k]]
  <1> DEFINE keys == (DOMAIN b.entries \ DOMAIN c.entries)
                        \cup {o \in DOMAIN c.entries : c.entries[o] # Null}
             entries == [k \in keys |->
                           IF k \in DOMAIN b.entries \ DOMAIN c.entries THEN b.entries[k]
                           ELSE IF k \notin DOMAIN b.entries THEN c.entries[k]
                           ELSE merge[b.entries[k]][c.entries[k]]]
  <1>1. MergedMaps(merge, b, c) = [kind |-> "map", entries |-> entries]
    BY DEF MergedMaps, Mapping
  <1>2. DOMAIN entries = keys
    OBVIOUS
  <1>3. \A k \in keys : entries[k] = IF k \notin DOMAIN c.entries THEN b.entries[k]
                                     ELSE IF k \notin DOMAIN b.entries THEN c.entries[k]
                                     ELSE merge[b.entries[k]][c.entries[k]]
    OBVIOUS
  <1>4. IsMap(MergedMaps(merge, b, c)) /\ MergedMaps(merge, b, c).entries = entries
    <2> HIDE DEF entries
    <2> QED
      BY <1>1 DEF IsMap
  <1> HIDE DEF entries
  <1> QED
    BY <1>2, <1>3, <1>4

(* The result follows the two documents from a path to the next.           *)
LEMMA FollowsStep ==
  ASSUME NEW result, NEW base, NEW concrete, Documents(result, base, concrete),
         NEW q, IsList(q), NEW s, Follows(result, base, concrete, q)
  PROVE  Follows(result, base, concrete, Append(q, s))
  <1> DEFINE p == Append(q, s)
             b == base[q]
             c == concrete[q]
             r == result[q]
             own == Own(base, concrete)
             inherited == Inherited(base, concrete)
             shared == Shared(base, concrete, q)
             goesOn == Len(q) < Depth
  <1>1. /\ p \in DOMAIN base <=> q \in DOMAIN base /\ goesOn /\ s \in Steps(b)
        /\ p \in DOMAIN base => base[p] = Child(b, s)
        /\ p \in DOMAIN concrete <=> q \in DOMAIN concrete /\ goesOn /\ s \in Steps(c)
        /\ p \in DOMAIN concrete => concrete[p] = Child(c, s)
        /\ p \in DOMAIN result <=> q \in DOMAIN result /\ goesOn /\ s \in Steps(r)
        /\ p \in DOMAIN result => result[p] = Child(r, s)
    <2>1. \A tree, root : IsFlat(tree, root) =>
             /\ p \in DOMAIN tree <=> q \in DOMAIN tree /\ goesOn /\ s \in Steps(tree[q])
             /\ p \in DOMAIN tree => tree[p] = Child(tree[q], s)
      BY DEF IsFlat
    <2> HIDE DEF p, goesOn
    <2> QED
      BY <2>1 DEF Documents
  <1>2. /\ p \in own <=> p \in DOMAIN concrete /\ ~(concrete[p] = Null /\ IsMap(c) /\ shared)
        /\ p \in inherited <=> p \in DOMAIN base /\ p \notin DOMAIN concrete /\ (q \in inherited \/ shared)
        /\ Meet(base, concrete, p) <=> p \in DOMAIN base /\ p \in DOMAIN concrete /\ shared
        /\ shared => SharedAt(base, concrete, q) /\ Meet(base, concrete, q) /\ q \in own
        /\ Meet(base, concrete, q) /\ ~shared => ~SharedAt(base, concrete, q)
    BY StepSets DEF Own
  <1>3. /\ q \in own => q \in DOMAIN concrete
        /\ q \in inherited => q \in DOMAIN base /\ q \notin DOMAIN concrete
        /\ q \in DOMAIN concrete /\ q \notin own => c = Null
    BY DEF Own, Inherited, Deleted
  <1>4. /\ q \in DOMAIN result <=> q \in own \/ q \in inherited
        /\ q \in own => r = IF Meet(base, concrete, q) THEN MergedAt(base, concrete, q) ELSE c
        /\ q \in inherited => r = b
    BY DEF Follows
  <1>5. p # <<>>
    BY StepFacts
  <1>6. p \in DOMAIN base /\ p \in DOMAIN concrete =>
           MergedAt(base, concrete, p) = mergeYaml[Child(b, s)][Child(c, s)]
    BY <1>1, <1>5 DEF MergedAt
  <1> HIDE DEF p, b, c, r, own, inherited, shared, goesOn
  <1> SUFFICES /\ p \in DOMAIN result <=> p \in own \/ p \in inherited
               /\ p \in own => result[p] = IF Meet(base, concrete, p)
                                           THEN MergedAt(base, concrete, p) ELSE concrete[p]
               /\ p \in inherited => result[p] = base[p]
    BY DEF Follows, p, own, inherited
  <1>7. CASE shared /\ IsMap(c)
    <2>1. IsMap(b) /\ r = MergedMaps(mergeYaml, b, c) /\ q \in DOMAIN base /\ q \in DOMAIN concrete
      BY <1>2, <1>4, <1>7, MeetFacts DEF SharedAt, b, c, IsMap, IsTagged
    <2>2. /\ IsMap(r)
          /\ s \in DOMAIN r.entries <=> \/ s \in DOMAIN c.entries /\ c.entries[s] # Null
                                        \/ s \in DOMAIN b.entries /\ s \notin DOMAIN c.entries
          /\ s \in DOMAIN r.entries =>
                r.entries[s] = IF s \notin DOMAIN c.entries THEN b.entries[s]
                               ELSE IF s \notin DOMAIN b.entries THEN c.entries[s]
                               ELSE mergeYaml[b.entries[s]][c.entries[s]]
      BY <1>7, <2>1, MapFacts
    <2>3. /\ Steps(b) = DOMAIN b.entries /\ Child(b, s) = b.entries[s]
          /\ Steps(c) = DOMAIN c.entries /\ Child(c, s) = c.entries[s]
          /\ Steps(r) = DOMAIN r.entries /\ Child(r, s) = r.entries[s]
      BY <1>7, <2>1, <2>2, NodeFacts
    <2> QED
      BY <1>1, <1>2, <1>3, <1>4, <1>6, <1>7, <2>1, <2>2, <2>3
  <1>8. CASE shared /\ ~IsMap(c)
    <2>1. /\ IsTagged(b) /\ IsTagged(c) /\ r = Tagged(c.tag, mergeYaml[b.innerNode][c.innerNode])
          /\ q \in DOMAIN base /\ q \in DOMAIN concrete
      BY <1>2, <1>4, <1>8, MeetFacts DEF SharedAt, b, c
    <2>2. IsTagged(r) /\ r.innerNode = mergeYaml[b.innerNode][c.innerNode]
      BY <2>1 DEF IsTagged, Tagged
    <2>3. /\ Steps(b) = {"!"} /\ Child(b, s) = b.innerNode
          /\ Steps(c) = {"!"} /\ Child(c, s) = c.innerNode
          /\ Steps(r) = {"!"} /\ Child(r, s) = r.innerNode
      BY <2>1, <2>2, NodeFacts
    <2> QED
      BY <1>1, <1>2, <1>3, <1>4, <1>6, <1>8, <2>1, <2>2, <2>3
  <1>9. CASE ~shared /\ q \in own
    <2>1. r = c
      BY <1>2, <1>4, <1>9, MeetFacts DEF c
    <2> QED
      BY <1>1, <1>2, <1>3, <1>4, <1>9, <2>1
  <1>10. CASE q \in inherited
    BY <1>1, <1>2, <1>3, <1>4, <1>10
  <1>11. CASE ~shared /\ q \notin own /\ q \notin inherited
    <2>1. Steps(Null) = {}
      BY NodeFacts DEF Null, IsMap, IsTagged
    <2>2. p \notin DOMAIN concrete
      BY <1>1, <1>3, <1>11, <2>1
    <2> QED
      BY <1>1, <1>2, <1>4, <1>11, <2>2
  <1> QED
    BY <1>7, <1>8, <1>9, <1>10, <1>11

(* mergeYamlMaps makes of two documents what IsMergeOf describes.          *)
LEMMA MergeIsMerge ==
  ASSUME NEW result, NEW base, NEW concrete, Documents(result, base, concrete)
  PROVE  IsMergeOf(result, base, concrete)
  <1> DEFINE U == DOMAIN result \cup DOMAIN base \cup DOMAIN concrete
             S == {p \in U : Follows(result, base, concrete, p)}
  <1>1. \A p \in U : IsList(p) /\ (p # <<>> => Front(p) \in U)
    BY DEF Documents, IsFlat
  <1>2. <<>> \in S
    <2>1. /\ <<>> \in DOMAIN base /\ <<>> \in DOMAIN concrete /\ <<>> \in DOMAIN result
          /\ result[<<>>] = MergedMaps(mergeYaml, base[<<>>], concrete[<<>>])
      BY DEF Documents, IsFlat
    <2>2. /\ <<>> \in Own(base, concrete) /\ <<>> \notin Inherited(base, concrete)
          /\ Meet(base, concrete, <<>>)
      BY <2>1 DEF Own, Deleted, Inherited, Meet
    <2>3. Follows(result, base, concrete, <<>>)
      BY <2>1, <2>2 DEF Follows, MergedAt
    <2> QED
      BY <2>1, <2>3
  <1>3. \A q \in U : q \in S => \A s : Append(q, s) \in U => Append(q, s) \in S
    BY <1>1, FollowsStep
  <1> HIDE DEF U
  <1>4. \A p \in U : Follows(result, base, concrete, p)
    <2>1. U \subseteq S
      <3> HIDE DEF S
      <3> QED
        BY <1>1, <1>2, <1>3, PathInduction
    <2> QED
      BY <2>1
  <1>5. DOMAIN result = Own(base, concrete) \cup Inherited(base, concrete)
    <2>1. /\ DOMAIN result \subseteq U
          /\ Own(base, concrete) \subseteq U /\ Inherited(base, concrete) \subseteq U
      BY DEF U, Own, Inherited
    <2> QED
      BY <1>4, <2>1 DEF Follows
  <1>6. ASSUME NEW p \in Own(base, concrete)
        PROVE  Shape(result[p]) = Shape(concrete[p])
    <2>1. p \in U /\ p \in DOMAIN concrete
      BY DEF U, Own
    <2>2. result[p] = IF Meet(base, concrete, p) THEN MergedAt(base, concrete, p) ELSE concrete[p]
      BY <1>4, <2>1 DEF Follows
    <2>3. ASSUME Meet(base, concrete, p)
          PROVE  Shape(MergedAt(base, concrete, p)) = Shape(concrete[p])
      <3>1. IsList(p)
        BY <1>1, <2>1
      <3>2. \/ IsMap(MergedAt(base, concrete, p)) /\ IsMap(concrete[p])
            \/ /\ IsTagged(MergedAt(base, concrete, p)) /\ IsTagged(concrete[p])
               /\ MergedAt(base, concrete, p).tag = concrete[p].tag
            \/ MergedAt(base, concrete, p) = concrete[p]
        BY <2>3, <3>1, MeetFacts, MapFacts DEF Tagged, IsTagged
      <3> QED
        BY <3>2, SameShape
    <2> QED
      BY <2>2, <2>3
  <1>7. ASSUME NEW p \in Inherited(base, concrete)
        PROVE  Shape(result[p]) = Shape(base[p])
    <2>1. p \in U
      BY DEF U, Inherited
    <2> QED
      BY <1>4, <2>1 DEF Follows
  <1> QED
    BY <1>5, <1>6, <1>7 DEF IsMergeOf, Own, Deleted, Inherited

(* A mapping whose entries are Nodes.                                      *)
IsDocument(root) == IsMap(root) /\ \A k \in DOMAIN root.entries : root.entries[k] \in Nodes

LEMMA MergedDocuments ==
  ASSUME NEW base, NEW concrete, IsDocument(base), IsDocument(concrete)
  PROVE  IsMergeOf(Flat(mergeYamlMaps(base, concrete)), Flat(base), Flat(concrete))
  <1> DEFINE b == Flat(base)
             c == Flat(concrete)
             r == Flat(mergeYamlMaps(base, concrete))
  <1>1. IsFlat(b, base) /\ IsFlat(c, concrete) /\ IsFlat(r, MergedMaps(mergeYaml, base, concrete))
    BY FlatFacts DEF mergeYamlMaps
  <1>2. b[<<>>] = base /\ c[<<>>] = concrete
    BY <1>1 DEF IsFlat
  <1> HIDE DEF b, c, r
  <1>3. Documents(r, b, c)
    BY <1>1, <1>2 DEF Documents, IsDocument
  <1>4. IsMergeOf(r, b, c)
    BY <1>3, MergeIsMerge
  <1> QED
    BY <1>4 DEF b, c, r

LEMMA NodesAreDocuments ==
  ASSUME NEW node \in Nodes, IsMap(node)
  PROVE  IsDocument(node)
  BY NodesAssumption DEF IsDocument

LEMMA WithoutFacts ==
  ASSUME NEW root, IsDocument(root), NEW key
  PROVE  IsDocument(Without(root, key))
  <1> DEFINE entries == Restrict(root.entries, DOMAIN root.entries \ {key})
  <1>1. /\ DOMAIN entries \subseteq DOMAIN root.entries
        /\ \A k \in DOMAIN entries : entries[k] = root.entries[k]
    BY DEF Restrict
  <1>2. Without(root, key) = [kind |-> "map", entries |-> entries]
    BY DEF Without, Mapping
  <1> HIDE DEF entries
  <1> QED
    BY <1>1, <1>2 DEF IsDocument, IsMap

LEMMA TemplateFacts ==
  ASSUME api \in ApiDefs, loadTemplates(api.templates) # Rejected
  PROVE  \A t \in DOMAIN loadTemplates(api.templates).entries :
            IsDocument(loadTemplates(api.templates).entries[t])
  <1> DEFINE roots == [t \in DOMAIN api.templates |-> readRootMap(api.templates[t], TRUE)]
  <1>1. ASSUME NEW t \in DOMAIN api.templates
        PROVE  roots[t] = Rejected \/ IsDocument(roots[t])
    <2>1. api.templates[t] \in Nodes
      BY ApiAssumption
    <2>2. IsDocument(Mapping(<<>>))
      BY DEF IsDocument, Mapping, IsMap
    <2> QED
      BY <2>1, <2>2, NodesAreDocuments DEF readRootMap
  <1>2. /\ loadTemplates(api.templates) = Mapping(roots)
        /\ \A t \in DOMAIN roots : roots[t] # Rejected
    BY DEF loadTemplates
  <1>3. DOMAIN roots = DOMAIN api.templates
    OBVIOUS
  <1> HIDE DEF roots
  <1>4. loadTemplates(api.templates).entries = roots
    BY <1>2 DEF Mapping
  <1> QED
    BY <1>1, <1>2, <1>3, <1>4

(* The tree of a file, when it has one.                                    *)
LEMMA ResolvedFacts ==
  ASSUME NEW file, NEW templates, resolveTemplate(file, templates) # Rejected
  PROVE  /\ IsMap(file)
         /\ ~Has(file, "extends") => resolveTemplate(file, templates) = Without(file, "extends")
         /\ Has(file, "extends") =>
               /\ file.entries["extends"].content \in DOMAIN templates.entries
               /\ resolveTemplate(file, templates)
                     = mergeYamlMaps(templates.entries[file.entries["extends"].content],
                                     Without(file, "extends"))
  <1>1. IsMap(file) /\ file # Rejected /\ readRootMap(file, FALSE) = file
    <2>1. ~IsMap(Rejected)
      BY DEF IsMap, Rejected
    <2>2. readRootMap(file, FALSE) # Rejected
      BY DEF resolveTemplate
    <2> QED
      BY <2>1, <2>2 DEF readRootMap
  <1>2. CASE ~Has(file, "extends")
    BY <1>1, <1>2 DEF resolveTemplate, Has
  <1>3. CASE Has(file, "extends")
    <2> DEFINE name == file.entries["extends"]
    <2>1. resolveTemplate(file, templates) =
             IF name.kind # "scalar" \/ name.content \notin DOMAIN templates.entries
             THEN Rejected
             ELSE mergeYamlMaps(templates.entries[name.content], Without(file, "extends"))
      BY <1>1, <1>3 DEF resolveTemplate, Has
    <2> HIDE DEF name
    <2>2. /\ name.content \in DOMAIN templates.entries
          /\ resolveTemplate(file, templates)
                = mergeYamlMaps(templates.entries[name.content], Without(file, "extends"))
      BY <2>1
    <2> QED
      BY <1>1, <1>3, <2>2 DEF name
  <1> QED
    BY <1>2, <1>3

-----------------------------------------------------------------------------
(* Renderers accept what has been validated                                *)

(* No parameter of a validated function has a type that cannot be sent.    *)
LEMMA FunctionFacts ==
  ASSUME NEW function, validateFunction(function)
  PROVE  /\ \A p \in ToSet(function.parameters) : p.type \notin {"joystick", "ok"}
         /\ \A p \in ToSet(function.constantParameters) :
               p.type \notin {"joystick", "microstep_mode", "ok"} /\ HasText(p.value)
  <1>1. ASSUME NEW p, validateConstantParameter(p)
        PROVE  p.type # "microstep_mode"
    BY <1>1 DEF validateConstantParameter, acceptsLiteral
  <1> QED
    BY <1>1 DEF validateFunction, validateParameter, validateConstantParameter

LEMMA MemberFacts ==
  ASSUME NEW d, validateMembers(d.members)
  PROVE  KotlinCommandsRender(d) /\ PythonMetaRenders(d)
  <1>1. /\ \A p \in Parameters(d) : p.type \notin {"joystick", "ok"}
        /\ \A p \in Constants(d) :
              p.type \notin {"joystick", "microstep_mode", "ok"} /\ HasText(p.value)
    BY FunctionFacts DEF validateMembers, Parameters, Constants
  <1> QED
    BY <1>1 DEF KotlinCommandsRender, PythonMetaRenders

LEMMA IoFacts ==
  ASSUME NEW d, validateIoDefinition(d), Decoded(d)
  PROVE  KotlinIoRenders(d) /\ PythonIoRenders(d)
  <1> DEFINE s == d.subscription
  <1>1. /\ validateMembers(d.members)
        /\ \A t \in ToSet(SetIoTypes(d.init)) :
              \A p \in ToSet(t.parameters) : validateParameter(p)
        /\ s.kind = "value" => validateState(s.parser, s.initialValue)
        /\ s.kind = "bitset" =>
              \A e \in ToSet(s.entries) : validateState(e.parser, e.initialValue)
    BY DEF validateIoDefinition, validateBitset
  <1>2. s.kind = "none" \/ s.kind = "value" \/ (s.kind = "bitset" /\ s.kind # "none" /\ s.kind # "value")
    BY DEF Decoded
  <1>3. "ok" \notin Parsers(s)
    BY <1>1, <1>2 DEF Parsers, validateState
  <1>4. \A q \in Queries(s) : validateFunction(q)
    BY <1>1, <1>2 DEF Queries, validateState
  <1>5. \A t \in ToSet(SetIoTypes(d.init)) :
           \A p \in ToSet(t.parameters) : p.type \notin {"joystick", "ok"}
    BY <1>1 DEF validateParameter
  <1>6. KotlinCommandsRender(d) /\ PythonMetaRenders(d)
    BY <1>1, MemberFacts
  <1>7. \A q \in Queries(s) : \A p \in ToSet(q.constantParameters) : HasText(p.value)
    BY <1>4, FunctionFacts
  <1> QED
    BY <1>3, <1>5, <1>6, <1>7 DEF KotlinIoRenders, PythonIoRenders, PythonMetaRenders

LEMMA ConcatLists ==
  ASSUME NEW s, NEW t, IsList(s), IsList(t)
  PROVE  IsList(s \o t) /\ ToSet(s \o t) \subseteq ToSet(s) \cup ToSet(t)
  <1> DEFINE S == ToSet(s) \cup ToSet(t)
  <1>1. s \in Seq(ToSet(s)) /\ t \in Seq(ToSet(t))
    BY ListFacts
  <1>2. s \in Seq(S) /\ t \in Seq(S)
    BY <1>1, SeqMonotonic
  <1> HIDE DEF S
  <1>3. s \o t \in Seq(S)
    BY <1>2
  <1>4. IsList(s \o t) /\ \A x \in ToSet(s \o t) : x \in S
    BY <1>3, SequenceIsList
  <1> QED
    BY <1>4 DEF S

(* Units of one kind, one for each definition of a list.                   *)
LEMMA UnitsOf ==
  ASSUME NEW kind, NEW all, IsList(all)
  PROVE  /\ IsList(Of(kind, all))
         /\ \A u \in ToSet(Of(kind, all)) : u.unit = kind /\ u.of \in ToSet(all)
  <1>1. /\ Len(all) \in Nat /\ DOMAIN all = 1..Len(all)
        /\ \A i \in 1..Len(all) : all[i] \in ToSet(all)
    BY ListFacts DEF IsList
  <1>2. Of(kind, all) = [i \in 1..Len(all) |-> [unit |-> kind, of |-> all[i]]]
    BY <1>1 DEF Of
  <1>3. IsList(Of(kind, all))
    BY <1>1, <1>2, MappedList
  <1> QED
    BY <1>1, <1>2, <1>3 DEF ToSet

(* What the units of a task are.                                           *)
LEMMA UnitFacts ==
  ASSUME IsList(definitions), IsList(metas)
  PROVE  /\ IsList(Units)
         /\ \A u \in ToSet(Units) :
               \/ u.unit \in {"VendorIdSet", "IOTypes", "MicrostepMode",
                              "types", "objects", "__init__"}
               \/ u.unit = "io object" /\ u.of \in ToSet(definitions)
               \/ u.unit = "meta object" /\ u.of \in ToSet(metas)
  <1> DEFINE first == <<[unit |-> "VendorIdSet"], [unit |-> "IOTypes"], [unit |-> "MicrostepMode"]>>
             others == <<[unit |-> "types"], [unit |-> "objects"], [unit |-> "__init__"]>>
             io == Of("io object", definitions)
             meta == Of("meta object", metas)
  <1>1. /\ IsList(first) /\ \A u \in ToSet(first) : u.unit \in {"VendorIdSet", "IOTypes", "MicrostepMode"}
        /\ IsList(others) /\ \A u \in ToSet(others) : u.unit \in {"types", "objects", "__init__"}
    BY DEF IsList, ToSet
  <1>2. /\ IsList(io) /\ \A u \in ToSet(io) : u.unit = "io object" /\ u.of \in ToSet(definitions)
        /\ IsList(meta) /\ \A u \in ToSet(meta) : u.unit = "meta object" /\ u.of \in ToSet(metas)
    BY UnitsOf
  <1>3. Units = IF task = "kotlin" THEN first \o io \o meta ELSE others
    BY DEF Units
  <1> HIDE DEF first, others, io, meta
  <1>4. IsList(first \o io) /\ ToSet(first \o io) \subseteq ToSet(first) \cup ToSet(io)
    BY <1>1, <1>2, ConcatLists
  <1>5. /\ IsList(first \o io \o meta)
        /\ ToSet(first \o io \o meta) \subseteq ToSet(first) \cup ToSet(io) \cup ToSet(meta)
    BY <1>2, <1>4, ConcatLists
  <1> QED
    BY <1>1, <1>2, <1>3, <1>5

(* Of what was collected, every unit renders but those that read a file    *)
(* of their own.                                                           *)
LEMMA ObjectsRender ==
  ASSUME IInv, NEW i \in 1..Len(Units),
         Units[i].unit \notin {"VendorIdSet", "IOTypes", "MicrostepMode", "types"}
  PROVE  Renders(Units[i])
  <1> DEFINE u == Units[i]
  <1>1. /\ \A d \in ToSet(definitions) : KotlinIoRenders(d) /\ PythonIoRenders(d)
        /\ \A d \in ToSet(metas) : /\ d.name \in {"controller", "swarm"}
                                   /\ KotlinCommandsRender(d) /\ PythonMetaRenders(d)
    BY IoFacts, MemberFacts DEF IInv, Validated
  <1>2. \/ u.unit = "objects" \/ u.unit = "__init__"
        \/ u.unit = "io object" /\ u.of \in ToSet(definitions)
        \/ u.unit = "meta object" /\ u.of \in ToSet(metas)
    <2>1. u \in ToSet(Units)
      BY UnitFacts, ListFacts DEF IInv, AreLists
    <2> QED
      BY <2>1, UnitFacts DEF IInv, AreLists
  <1> HIDE DEF u
  <1>3. Renders(u)
    BY <1>1, <1>2 DEF Renders
  <1> QED
    BY <1>3 DEF u

-----------------------------------------------------------------------------
(* The tasks                                                               *)

(* Every file becomes one tree, and every tree one definition.             *)
LEMMA CollectedList ==
  ASSUME NEW files, Len(files) \in Nat, DOMAIN files = 1..Len(files), NEW all,
         all = [i \in DOMAIN files |-> all[i]]
  PROVE  IsList(all) /\ Len(all) = Len(files)
  BY MappedList

LEMMA ApiFacts ==
  ASSUME api \in ApiDefs
  PROVE  /\ Len(api.io) \in Nat /\ DOMAIN api.io = 1..Len(api.io)
         /\ Len(api.meta) \in Nat /\ DOMAIN api.meta = 1..Len(api.meta)
  BY ApiAssumption

(* What was written so far is a prefix of what is to be written.           *)
LEMMA PrefixFacts ==
  ASSUME IsList(definitions), IsList(metas), IsList(written),
         Len(written) <= Len(Units), \A i \in 1..Len(written) : written[i] = Units[i]
  PROVE  IsPrefix(written, Units)
  <1>1. IsList(Units)
    BY UnitFacts
  <1>2. Len(written) \in Nat /\ Len(Units) \in Nat /\ \A i \in 1..Len(written) : i \in 1..Len(Units)
    BY <1>1 DEF IsList
  <1>3. SubSeq(written, 1, Len(written)) = SubSeq(Units, 1, Len(written))
    BY <1>2
  <1> QED
    BY <1>2, <1>3 DEF IsPrefix

LEMMA InitInvariant == Init => IInv
  <1> SUFFICES ASSUME Init PROVE IInv
    OBVIOUS
  <1>1. /\ api \in ApiDefs /\ phase = "clear" /\ definitions = <<>> /\ metas = <<>>
        /\ task \in {"kotlin", "python"} /\ written = <<Stale>>
    BY DEF Init
  <1>2. IsList(written)
    BY <1>1 DEF IsList
  <1>3. TypeOK
    BY <1>1, EmptyList DEF TypeOK
  <1> QED
    BY <1>1, <1>2, <1>3, EmptyList DEF IInv, AreLists, Validated, WrittenInOrder, FailsAtAUnit

LEMMA PrefixFactsNext ==
  /\ IsList(definitions)' /\ IsList(metas)' /\ IsList(written)'
  /\ (Len(written) <= Len(Units))' /\ (\A i \in 1..Len(written) : written[i] = Units[i])'
  => IsPrefix(written, Units)'
  <1>1. /\ IsList(definitions) /\ IsList(metas) /\ IsList(written)
        /\ Len(written) <= Len(Units) /\ \A i \in 1..Len(written) : written[i] = Units[i]
        => IsPrefix(written, Units)
    BY PrefixFacts
  <1> QED
    BY <1>1, PTL

LEMMA UnitsAreList == IsList(definitions) /\ IsList(metas) => IsList(Units)
  BY UnitFacts

LEMMA UnitsAreListNext == IsList(definitions)' /\ IsList(metas)' => IsList(Units)'
  BY UnitsAreList, PTL

(* The collecting steps write nothing.                                     *)
LEMMA CollectingStep ==
  ASSUME IInv, task' = task, api' = api, phase' \in {"collectIo", "collectMeta", "rejected"},
         written' = <<>>, IsList(definitions'), IsList(metas'), Validated',
         Len(definitions') \in {0, Len(api.io)}, Len(metas') \in {0, Len(api.meta)}
  PROVE  IInv'
  <1>1. IsPrefix(<<>>, Units')
    <2>1. IsList(Units)'
      BY UnitsAreListNext
    <2>2. Len(<<>>) <= Len(Units') /\ SubSeq(<<>>, 1, Len(<<>>)) = SubSeq(Units', 1, Len(<<>>))
      BY <2>1 DEF IsList
    <2> QED
      BY <2>2 DEF IsPrefix
  <1>2. TypeOK'
    BY <1>1 DEF TypeOK, IInv
  <1> QED
    BY <1>2, EmptyList DEF IInv, AreLists, WrittenInOrder, FailsAtAUnit

LEMMA ClearOutputStep == IInv /\ ClearOutput => IInv'
  <1> SUFFICES ASSUME IInv, ClearOutput PROVE IInv'
    OBVIOUS
  <1>1. /\ UNCHANGED <<task, api, definitions, metas>>
        /\ phase' = "collectIo" /\ written' = <<>>
    BY DEF ClearOutput, Goes
  <1>2. Validated' /\ IsList(definitions') /\ IsList(metas')
    BY <1>1 DEF IInv, Validated, AreLists, Decoded
  <1> QED
    BY <1>1, <1>2, CollectingStep DEF IInv, TypeOK

(* A node that the decoder accepts.                                        *)
LEMMA DecodedFacts ==
  ASSUME NEW node, IsIoDefinition(node)
  PROVE  Decoded(IoDefinition(node))
  <1> DEFINE subscription == IF Has(node, "subscription") THEN node.entries["subscription"] ELSE Null
  <1>1. subscription = Null \/ IsSubscription(subscription)
    BY DEF IsIoDefinition
  <1>2. IoDefinition(node).subscription = SubscriptionOf(subscription)
    BY DEF IoDefinition
  <1> HIDE DEF subscription
  <1>3. CASE subscription = Null
    BY <1>2, <1>3 DEF SubscriptionOf, Decoded
  <1>4. CASE subscription # Null /\ IsTagged(subscription) /\ subscription.tag = "value"
    BY <1>2, <1>4 DEF SubscriptionOf, Decoded
  <1>5. CASE subscription # Null /\ ~(IsTagged(subscription) /\ subscription.tag = "value")
    <2>1. SubscriptionOf(subscription) = [kind |-> "bitset", entries |-> subscription.innerNode.items]
      BY <1>5 DEF SubscriptionOf
    <2>2. \A e \in ToSet(subscription.innerNode.items) : IsInt(e.mask)
      BY <1>1, <1>5 DEF IsSubscription
    <2> QED
      BY <1>2, <2>1, <2>2 DEF Decoded
  <1> QED
    BY <1>3, <1>4, <1>5

LEMMA CollectIoStep == IInv /\ CollectIo => IInv'
  <1> SUFFICES ASSUME IInv, CollectIo PROVE IInv'
    OBVIOUS
  <1> DEFINE trees == Resolved(api.io)
             all == [i \in DOMAIN trees |-> IoDefinition(trees[i])]
  <1>1. /\ UNCHANGED <<task, api, metas, written>> /\ phase' = "collectMeta"
        /\ definitions' = all /\ validateIoDefinitions(all) /\ written = <<>>
    BY DEF CollectIo, Collectable, Goes, IInv, WrittenInOrder
  <1>2. DOMAIN trees = DOMAIN api.io
    BY DEF Resolved
  <1>3. \A i \in DOMAIN trees : Decoded(IoDefinition(trees[i]))
    BY DecodedFacts DEF CollectIo, Collectable
  <1> HIDE DEF trees
  <1>4. \A d \in ToSet(all) : validateIoDefinition(d) /\ Decoded(d)
    BY <1>1, <1>3 DEF validateIoDefinitions, ToSet
  <1>5. all = [i \in DOMAIN api.io |-> all[i]]
    BY <1>2
  <1> HIDE DEF all
  <1>6. IsList(all) /\ Len(all) = Len(api.io)
    BY <1>5, ApiFacts, CollectedList DEF IInv
  <1>7. Validated'
    BY <1>1, <1>4 DEF Validated, IInv, Decoded
  <1> QED
    BY <1>1, <1>6, <1>7, CollectingStep DEF IInv, TypeOK, AreLists

LEMMA CollectMetaStep == IInv /\ CollectMeta => IInv'
  <1> SUFFICES ASSUME IInv, CollectMeta PROVE IInv'
    OBVIOUS
  <1> DEFINE all == [i \in DOMAIN api.meta |-> MetaDefinition(MetaTrees[i])]
  <1>1. /\ UNCHANGED <<task, api, definitions, written>> /\ phase' = "write"
        /\ metas' = all /\ written = <<>>
    BY DEF CollectMeta, Goes, IInv, WrittenInOrder
  <1>2. \A d \in ToSet(all) : d.name \in {"controller", "swarm"} /\ validateMembers(d.members)
    BY DEF CollectMeta, CollectableMeta, validateMetaDefinition, ToSet
  <1>3. all = [i \in DOMAIN api.meta |-> all[i]]
    OBVIOUS
  <1> HIDE DEF all
  <1>4. IsList(all) /\ Len(all) = Len(api.meta)
    BY <1>3, ApiFacts, CollectedList DEF IInv
  <1>5. Validated'
    BY <1>1, <1>2 DEF Validated, IInv, Decoded
  <1>6. IsList(Units') /\ AreLists'
    BY <1>1, <1>4, UnitsAreListNext DEF IInv, AreLists
  <1>7. WrittenInOrder'
    BY <1>1, <1>6, EmptyList DEF WrittenInOrder, IsList
  <1>8. TypeOK'
    BY <1>1, <1>4, <1>6, <1>7, PrefixFactsNext DEF IInv, TypeOK, AreLists, WrittenInOrder
  <1> QED
    BY <1>1, <1>5, <1>6, <1>7, <1>8 DEF IInv, FailsAtAUnit

LEMMA RejectStep == IInv /\ (RejectIo \/ RejectMeta) => IInv'
  <1> SUFFICES ASSUME IInv, RejectIo \/ RejectMeta PROVE IInv'
    OBVIOUS
  <1>1. /\ UNCHANGED <<task, api, definitions, metas, written>>
        /\ phase' = "rejected" /\ written = <<>>
    BY DEF RejectIo, RejectMeta, Goes, IInv, WrittenInOrder
  <1>2. Validated' /\ IsList(definitions') /\ IsList(metas')
    BY <1>1 DEF IInv, Validated, AreLists, Decoded
  <1> QED
    BY <1>1, <1>2, CollectingStep DEF IInv, TypeOK

(* While units are written, what they are does not change.                 *)
LEMMA SameUnits ==
  ASSUME UNCHANGED <<task, api, definitions, metas>>
  PROVE  Units' = Units /\ (Validated => Validated')
  BY DEF Units, Of, Validated, Decoded

LEMMA WriteUnitStep == IInv /\ WriteUnit => IInv'
  <1> SUFFICES ASSUME IInv, WriteUnit PROVE IInv'
    OBVIOUS
  <1>1. /\ UNCHANGED <<task, api, phase, definitions, metas>> /\ phase = "write"
        /\ Len(written) < Len(Units) /\ written' = Append(written, Units[Len(written) + 1])
    BY DEF WriteUnit, NextUnit
  <1>2. Units' = Units /\ Validated'
    BY <1>1, SameUnits DEF IInv
  <1>3. /\ IsList(written') /\ Len(written') = Len(written) + 1
        /\ \A i \in 1..Len(written) : written'[i] = written[i]
        /\ written'[Len(written) + 1] = Units[Len(written) + 1]
    BY <1>1, AppendList DEF IInv, AreLists
  <1>4. AreLists'
    BY <1>1, <1>3 DEF IInv, AreLists
  <1>5. Len(written) \in Nat /\ Len(Units) \in Nat
    BY UnitsAreList DEF IInv, AreLists, IsList
  <1>6. Len(written') <= Len(Units') /\ \A i \in 1..Len(written') : written'[i] = Units'[i]
    BY <1>1, <1>2, <1>3, <1>5 DEF IInv, WrittenInOrder
  <1>7. WrittenInOrder' /\ FailsAtAUnit'
    BY <1>1, <1>6 DEF WrittenInOrder, FailsAtAUnit
  <1>8. TypeOK'
    BY <1>1, <1>4, <1>6, PrefixFactsNext DEF IInv, TypeOK, AreLists
  <1> QED
    BY <1>1, <1>2, <1>4, <1>7, <1>8 DEF IInv

(* The last steps change nothing but the phase.                            *)
LEMMA EndStep == IInv /\ (FailUnit \/ Finish) => IInv'
  <1> SUFFICES ASSUME IInv, FailUnit \/ Finish PROVE IInv'
    OBVIOUS
  <1>1. /\ UNCHANGED <<task, api, definitions, metas, written>>
        /\ phase = "write" /\ phase' \in {"failed", "done"}
        /\ phase' = "failed" => Len(written) < Len(Units) /\ ~Renders(NextUnit)
    BY DEF FailUnit, Finish, Goes
  <1>2. Units' = Units /\ Validated'
    BY <1>1, SameUnits DEF IInv
  <1>3. NextUnit' = NextUnit /\ Renders(NextUnit)' = Renders(NextUnit)
    BY <1>1, <1>2 DEF NextUnit, Renders
  <1>4. WrittenInOrder' /\ FailsAtAUnit' /\ TypeOK'
    BY <1>1, <1>2, <1>3 DEF IInv, WrittenInOrder, FailsAtAUnit, TypeOK
  <1> QED
    BY <1>1, <1>2, <1>4 DEF IInv, AreLists

LEMMA Stutter == IInv /\ UNCHANGED vars => IInv'
  <1> SUFFICES ASSUME IInv, UNCHANGED vars PROVE IInv'
    OBVIOUS
  <1>1. UNCHANGED <<task, api, phase, definitions, metas, written>>
    BY DEF vars
  <1>2. Units' = Units /\ Validated'
    BY <1>1, SameUnits DEF IInv
  <1>3. NextUnit' = NextUnit /\ Renders(NextUnit)' = Renders(NextUnit)
    BY <1>1, <1>2 DEF NextUnit, Renders
  <1>4. WrittenInOrder' /\ FailsAtAUnit' /\ TypeOK'
    BY <1>1, <1>2, <1>3 DEF IInv, WrittenInOrder, FailsAtAUnit, TypeOK
  <1> QED
    BY <1>1, <1>2, <1>4 DEF IInv, AreLists

(* Whatever the directory, the tasks go through their phases as IInv says. *)
THEOREM Invariance == Spec => []IInv
  <1>1. IInv /\ [Next]_vars => IInv'
    BY ClearOutputStep, CollectIoStep, CollectMetaStep, RejectStep, WriteUnitStep, EndStep,
       Stutter DEF Next
  <1> QED
    BY InitInvariant, <1>1, PTL DEF Spec

(* Units are written from the first on, and nothing of an earlier run is   *)
(* left beside them (deleteRecursively, CodeGenUnit.write).                *)
THEOREM TypeCorrect == Spec => []TypeOK
  <1>1. IInv => TypeOK
    BY DEF IInv
  <1> QED
    BY Invariance, <1>1, PTL

(* What the collector accepts, the renderers of objects can render: a task *)
(* fails only at a unit that reads a file of its own.                      *)
THEOREM AcceptedObjectsRender == Spec => []RenderersNeverFail
  <1>1. IInv => RenderersNeverFail
    <2> SUFFICES ASSUME IInv, phase = "failed"
                 PROVE  NextUnit.unit \in {"VendorIdSet", "IOTypes", "MicrostepMode", "types"}
      BY DEF RenderersNeverFail
    <2>1. Len(written) + 1 \in 1..Len(Units) /\ ~Renders(Units[Len(written) + 1])
      <3>1. Len(written) \in Nat /\ Len(Units) \in Nat
        BY UnitsAreList DEF IInv, AreLists, IsList
      <3> QED
        BY <3>1 DEF IInv, FailsAtAUnit, NextUnit
    <2> QED
      BY <2>1, ObjectsRender DEF NextUnit
  <1> QED
    BY Invariance, <1>1, PTL
(* Whatever the width of an Int: in every bitset that was accepted, the    *)
(* mask that is sent says of each entry whether it is wanted               *)
(* (validateBitset, appendSubscriptionMask).                               *)
THEOREM MasksAreExact == Spec => []MasksSelectEntries
  <1>1. IInv => MasksSelectEntries
    <2> SUFFICES ASSUME IInv, NEW d \in ToSet(definitions), d.subscription.kind = "bitset",
                        NEW selection \in SUBSET Selectable(d.subscription.entries),
                        NEW e \in ToSet(d.subscription.entries)
                 PROVE  (subscriptionMask(d.subscription.entries, selection) \cap Bits(e.mask) # {})
                           <=> (e.enabled = "always" \/ e \in selection)
      BY Zenon DEF MasksSelectEntries
    <2>1. /\ validateBitset(d.subscription.entries)
          /\ \A f \in ToSet(d.subscription.entries) : IsInt(f.mask)
      BY DEF IInv, Validated, Decoded, validateIoDefinition
    <2>2. selection \subseteq ToSet(d.subscription.entries)
      BY DEF Selectable
    <2> QED
      BY <2>1, <2>2, MaskFacts
  <1> QED
    BY Invariance, <1>1, PTL
(* Whatever the trees, and however deep they are compared: a file and its  *)
(* template are merged as IsMergeOf says (mergeYamlMaps, mergeYaml).       *)
THEOREM MergesAreByPath == Spec => []MergeIsByPath
  <1>1. IInv => MergeIsByPath
    <2> DEFINE templates == loadTemplates(api.templates)
    <2> SUFFICES ASSUME api \in ApiDefs, templates # Rejected, NEW file \in ToSet(api.io),
                        resolveTemplate(file, templates) # Rejected
                 PROVE  IF Has(file, "extends")
                        THEN IsMergeOf(Flat(resolveTemplate(file, templates)),
                                       Flat(templates.entries[file.entries["extends"].content]),
                                       Flat(Without(file, "extends")))
                        ELSE resolveTemplate(file, templates) = Without(file, "extends")
      BY Zenon DEF IInv, MergeIsByPath
    <2>1. CASE ~Has(file, "extends")
      BY <2>1, ResolvedFacts
    <2>2. CASE Has(file, "extends")
      <3>1. IsMap(file) /\ file \in Nodes
        BY <2>2, ResolvedFacts, ApiAssumption DEF Has
      <3>2. IsDocument(Without(file, "extends"))
        BY <3>1, NodesAreDocuments, WithoutFacts
      <3>3. IsDocument(templates.entries[file.entries["extends"].content])
        BY <2>2, ResolvedFacts, TemplateFacts
      <3> HIDE DEF templates
      <3> QED
        BY <2>2, <3>2, <3>3, ResolvedFacts, MergedDocuments
    <2> QED
      BY <2>1, <2>2
  <1> QED
    BY Invariance, <1>1, PTL
=============================================================================
