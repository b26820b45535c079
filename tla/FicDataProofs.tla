--------------------------- MODULE FicDataProofs ----------------------------
(***************************************************************************)
(* What holds of the parts of the FIC, and of the date in it, for all      *)
(* blocks, however short the transfer, and for all days of the years the   *)
(* formula is good for.                                                    *)
(***************************************************************************)
EXTENDS FicBlock, DateTime, WellFoundedInduction, TLAPS

-----------------------------------------------------------------------------
(* Tools. *)

\* Among numbers there is a least one, so that a first counterexample may be looked at.
LEMMA Least ==
    ASSUME NEW T \in SUBSET Nat, T # {}
    PROVE  \E x \in T : \A y \in T : x <= y
  <1> DEFINE R == {ss \in Nat \X Nat : ss[1] < ss[2]}
  <1>1. R = OpToRel(<, Nat)
    BY Zenon DEF OpToRel
  <1>2. IsWellFoundedOn(R, Nat)
    BY <1>1, NatLessThanWellFounded
  <1> HIDE DEF R
  <1>3. PICK x \in T : \A y \in T : ~(<<y, x>> \in R)
    BY <1>2, WFMin
  <1>4. \A y \in T : ~(y < x)
    BY <1>3 DEF R
  <1> QED  BY <1>3, <1>4

\* The elements of a sequence.
LEMMA ElementOf ==
    ASSUME NEW S, NEW s \in Seq(S), NEW k \in 1..Len(s)
    PROVE  s[k] \in S
  OBVIOUS

\* A set of the elements of a sequence, with one more.
LEMMA OneMore ==
    ASSUME NEW s, NEW t, NEW e, Len(s) \in Nat, Len(t) = Len(s) + 1,
           t[Len(s) + 1] = e, \A n \in 1..Len(s) : t[n] = s[n]
    PROVE  {t[n] : n \in 1..Len(t)} = {s[n] : n \in 1..Len(s)} \cup {e}
  <1>1. Len(s) + 1 \in 1..Len(t)
    OBVIOUS
  <1>2. ASSUME NEW n \in 1..Len(t)
        PROVE  t[n] \in {s[k] : k \in 1..Len(s)} \cup {e}
    <2>1. n \in 1..Len(s) \/ n = Len(s) + 1
      BY <1>1
    <2> QED  BY <1>1, <2>1
  <1>3. ASSUME NEW n \in 1..Len(s)
        PROVE  s[n] \in {t[k] : k \in 1..Len(t)}
    <2>1. n \in 1..Len(t) /\ t[n] = s[n]
      BY <1>1
    <2> QED  BY <2>1
  <1>4. e \in {t[k] : k \in 1..Len(t)}
    <2>1. Len(s) + 1 \in 1..Len(t)
      BY <1>1
    <2> QED  BY <1>1, <2>1
  <1>5. {t[n] : n \in 1..Len(t)} = {s[n] : n \in 1..Len(s)} \cup {e}
    BY <1>2, <1>3, <1>4
  <1> QED  BY <1>5

-----------------------------------------------------------------------------
(* The parts of a FIB. *)

\* The offsets of FIGs.
Starts == {s \in Seq(0..30) : FigStarts(s)}

\* They are numbers up to 30, the first 0.
LEMMA StartsAre ==
    ASSUME NEW s \in Starts
    PROVE  /\ s \in Seq(0..30) /\ Len(s) \in Nat \ {0} /\ s[1] = 0
           /\ \A k \in 1..Len(s) : s[k] \in Nat /\ s[k] <= 30
           /\ \A k \in 2..Len(s) : s[k - 1] < s[k]
  <1>1. s \in Seq(0..30) /\ Len(s) \in Nat /\ FigStarts(s)
    BY DEF Starts
  <1>2. ASSUME NEW k \in 1..Len(s)
        PROVE  s[k] \in Nat /\ s[k] <= 30
    <2>1. s[k] \in 0..30
      BY <1>1, ElementOf
    <2>2. \A x \in 0..30 : x \in Nat /\ x <= 30
      OBVIOUS
    <2> QED  BY <2>1, <2>2, Zenon
  <1>3. Len(s) # 0
    BY <1>1 DEF FigStarts
  <1> QED  BY <1>1, <1>2, <1>3 DEF FigStarts

\* A FIG begins behind all those before it.
LEMMA StartsRise ==
    ASSUME NEW s \in Starts, NEW m \in 1..Len(s), NEW n \in 1..Len(s), m < n
    PROVE  s[m] < s[n]
  <1>1. Len(s) \in Nat /\ \A k \in 2..Len(s) : s[k - 1] < s[k]
    BY StartsAre
  <1>2. \A k \in 1..Len(s) : s[k] \in Nat
    BY StartsAre
  <1> DEFINE T == {k \in (m + 1)..Len(s) : ~(s[m] < s[k])}
  <1>3. SUFFICES ASSUME T # {}
                 PROVE  FALSE
    BY <1>1
  <1>4. T \in SUBSET Nat
    BY <1>1
  <1> HIDE DEF T
  <1>5. PICK k \in T : \A j \in T : k <= j
    BY <1>3, <1>4, Least
  <1>6. k \in (m + 1)..Len(s) /\ ~(s[m] < s[k])
    BY <1>5 DEF T
  <1>7. k \in 2..Len(s) /\ k - 1 \in 1..Len(s) /\ k \in 1..Len(s) /\ m \in 1..Len(s)
    BY <1>1, <1>6
  <1>8. s[k - 1] < s[k]
    BY <1>1, <1>7
  <1>9. CASE k - 1 = m
    BY <1>6, <1>8, <1>9
  <1>10. CASE k - 1 # m
    <2>1. k - 1 \in (m + 1)..Len(s) /\ k - 1 < k
      BY <1>1, <1>6, <1>10
    <2>2. k - 1 \notin T
      BY <1>1, <1>4, <1>5, <1>7, <2>1
    <2>3. s[m] < s[k - 1]
      BY <2>1, <2>2 DEF T
    <2> QED  BY <1>2, <1>6, <1>7, <1>8, <2>3
  <1> QED  BY <1>9, <1>10

\* What is read where a FIG begins, and behind the last.
LEMMA LenAtStart ==
    ASSUME NEW s \in Starts, NEW n \in 1..Len(s)
    PROVE  LenAt(s, s[n]) = IF n = Len(s) THEN 255 ELSE s[n + 1] - s[n] - 1
  <1>1. Len(s) \in Nat /\ s \in Seq(0..30)
    BY StartsAre
  <1>2. \A k \in 1..Len(s) : s[k] \in Nat
    BY StartsAre
  <1>3. CASE n = Len(s)
    BY <1>3 DEF LenAt
  <1>4. CASE n # Len(s)
    <2>1. n < Len(s) /\ Len(s) \in 1..Len(s) /\ n + 1 \in 1..Len(s) /\ n \in 1..(Len(s) - 1)
      BY <1>1, <1>4
    <2>2. s[n] < s[Len(s)] /\ s[n] < s[n + 1]
      BY <2>1, StartsRise
    <2>3. s[n] # s[Len(s)]
      BY <1>2, <2>1, <2>2
    <2> DEFINE P(k) == s[k] <= s[n] /\ s[n] < s[k + 1]
               c == CHOOSE k \in 1..(Len(s) - 1) : P(k)
    <2>4. P(n)
      BY <1>2, <2>2
    <2>5. ASSUME NEW k \in 1..(Len(s) - 1), P(k)
          PROVE  k = n
      <3>1. k \in 1..Len(s) /\ k + 1 \in 1..Len(s) /\ k \in Nat /\ n \in Nat
        BY <1>1
      <3>2. CASE k < n
        <4>1. k + 1 = n \/ s[k + 1] < s[n]
          <5>1. CASE k + 1 = n
            BY <5>1
          <5>2. CASE k + 1 # n
            <6>1. k + 1 < n
              BY <3>1, <3>2, <5>2
            <6> QED  BY <3>1, <6>1, StartsRise
          <5> QED  BY <5>1, <5>2
        <4> QED  BY <1>2, <2>5, <3>1, <4>1
      <3>3. CASE n < k
        <4>1. s[n] < s[k]
          BY <3>1, <3>3, StartsRise
        <4> QED  BY <1>2, <2>5, <3>1, <4>1
      <3> QED  BY <3>1, <3>2, <3>3
    <2>6. c = n
      <3>1. \E k \in 1..(Len(s) - 1) : P(k)
        BY <2>1, <2>4
      <3> HIDE DEF P
      <3>2. c \in 1..(Len(s) - 1) /\ P(c)
        BY <3>1
      <3> QED  BY <2>5, <3>2
    <2>7. LenAt(s, s[n]) = s[c + 1] - s[c] - 1
      BY <2>3 DEF LenAt
    <2> QED  BY <1>4, <2>6, <2>7
  <1> QED  BY <1>3, <1>4

\* What ProcessFIB makes of a FIB.
FigSet(k, s) == {<<k, s[n], s[n + 1] - s[n] - 1>> : n \in 1..(Len(s) - 1)}

\* All of them begin before the checksum, and before the end of the last.
LEMMA FigSetWithin ==
    ASSUME NEW s \in Starts, NEW k \in Nat, NEW f \in FigSet(k, s)
    PROVE  f[1] = k /\ f[2] < s[Len(s)] /\ f[2] < 30 /\ f[2] \in Nat
  <1>1. Len(s) \in Nat
    BY StartsAre
  <1>2. PICK n \in 1..(Len(s) - 1) : f = <<k, s[n], s[n + 1] - s[n] - 1>>
    BY DEF FigSet
  <1>3. n \in 1..Len(s) /\ Len(s) \in 1..Len(s) /\ n < Len(s)
    BY <1>1
  <1>4. s[n] < s[Len(s)]
    BY <1>3, StartsRise
  <1>5. s[n] \in Nat /\ s[Len(s)] \in Nat /\ s[Len(s)] <= 30
    BY <1>3, StartsAre
  <1>6. f[1] = k /\ f[2] = s[n]
    BY <1>2
  <1> QED  BY <1>4, <1>5, <1>6

\* Those before the one at the n-th start, and with that one.
LEMMA FigSetUpTo ==
    ASSUME NEW s \in Starts, NEW k \in Nat, NEW n \in 1..(Len(s) - 1)
    PROVE  {f \in FigSet(k, s) : f[2] < s[n + 1]} =
               {f \in FigSet(k, s) : f[2] < s[n]} \cup {<<k, s[n], s[n + 1] - s[n] - 1>>}
  <1>1. Len(s) \in Nat /\ s \in Seq(0..30)
    BY StartsAre
  <1>2. \A j \in 1..Len(s) : s[j] \in Nat
    BY StartsAre
  <1>3. n \in 1..Len(s) /\ n + 1 \in 1..Len(s) /\ n < n + 1
    BY <1>1
  <1>4. s[n] < s[n + 1]
    BY <1>3, StartsRise
  <1>5. ASSUME NEW j \in 1..(Len(s) - 1), s[j] < s[n + 1]
        PROVE  j = n \/ s[j] < s[n]
    <2>1. j \in 1..Len(s) /\ j \in Nat /\ n \in Nat
      BY <1>1
    <2>2. CASE j > n
      <3>1. j = n + 1 \/ n + 1 < j
        BY <2>1, <2>2
      <3>2. j = n + 1 \/ s[n + 1] < s[j]
        BY <1>3, <2>1, <3>1, StartsRise
      <3> QED  BY <1>2, <1>3, <1>5, <2>1, <3>2
    <2>3. CASE j < n
      BY <1>3, <2>1, <2>3, StartsRise
    <2> QED  BY <2>1, <2>2, <2>3
  <1>6. ASSUME NEW f \in FigSet(k, s), f[2] < s[n + 1]
        PROVE  f[2] < s[n] \/ f = <<k, s[n], s[n + 1] - s[n] - 1>>
    <2>1. PICK j \in 1..(Len(s) - 1) : f = <<k, s[j], s[j + 1] - s[j] - 1>>
      BY DEF FigSet
    <2>2. s[j] < s[n + 1]
      BY <1>6, <2>1
    <2> QED  BY <1>5, <2>1, <2>2
  <1>7. ASSUME NEW f \in FigSet(k, s), f[2] < s[n]
        PROVE  f[2] < s[n + 1]
    <2>1. f[2] \in Nat
      BY FigSetWithin
    <2> QED  BY <1>2, <1>3, <1>4, <1>7, <2>1
  <1>8. <<k, s[n], s[n + 1] - s[n] - 1>> \in FigSet(k, s)
    BY DEF FigSet
  <1> QED  BY <1>4, <1>6, <1>7, <1>8

-----------------------------------------------------------------------------
(* The invariant. *)

\* The types of the variables.
FicTypeOK ==
    /\ block \in Blocks \cup {<< >>}
    /\ bytesTransfered \in Tame
    /\ len \in Nat /\ i \in Nat
    /\ figs \in Seq(Nat \X Nat \X Nat)

\* Process looks at whole FIBs only, each within what it was called with.
WholeFibs ==
    /\ len % 32 = 0
    /\ len = 0 \/ len = SizeOf(bytesTransfered)
    /\ i > 0 => 32 * (i - 1) < len

\* ProcessFIB is at a start of a FIB with a right checksum, or done with it.
AtStart ==
    \/ offset = 30
    \/ /\ i > 0 /\ Filled(i) /\ block[i].good
       /\ \E n \in 1..Len(block[i].starts) : offset = block[i].starts[n]

\* The FIGs before that place are those the handlers have got.
Before(f, j, at) == \E k \in 1..j : f \in FigsOf(k) /\ (k < j \/ f[2] < at)
FigsSoFar == \A f : f \in {figs[n] : n \in 1..Len(figs)} <=> Before(f, i, offset)

\* In order.
InOrder ==
    \A n \in 2..Len(figs) :
        \/ figs[n - 1][1] < figs[n][1]
        \/ figs[n - 1][1] = figs[n][1] /\ figs[n - 1][2] < figs[n][2]

FicInv == FicTypeOK /\ WholeFibs /\ AtStart /\ FigsSoFar /\ InOrder

\* What a transfer may leave.
LEMMA TameIs ==
    ASSUME NEW t \in Tame
    PROVE  t \in Int /\ 3 - SizeMax <= t /\ (t \in 0..400 \/ (t - 4) % 32 # 0)
  <1>1. t \in (3 - SizeMax)..SizeMax /\ (t \in 0..400 \/ (t - 4) % 32 # 0)
    BY Zenon DEF Tame
  <1> QED  BY <1>1, SizeMaxAssumption

LEMMA SmallIsTame == 0..400 \subseteq Tame
  BY SizeMaxAssumption DEF Tame

\* After less than a header, what is left of it is no number of FIBs.
LEMMA NotWhole ==
    ASSUME NEW t \in Tame, t < 4
    PROVE  SizeOf(t) \in Nat /\ SizeOf(t) % 32 # 0
  <1>1. SizeMax \in Nat /\ SizeMax >= 400 /\ SizeMax % 32 = 31
    BY SizeMaxAssumption
  <1>2. PICK q \in Nat : SizeMax = 32 * q + 31
    <2>1. SizeMax = 32 * (SizeMax \div 32) + 31 /\ SizeMax \div 32 \in Nat
      BY <1>1
    <2> QED  BY <2>1
  <1>3. t \in Int /\ 3 - SizeMax <= t /\ (t - 4) % 32 # 0
    <2>1. t \in Int /\ 3 - SizeMax <= t /\ (t \in 0..400 \/ (t - 4) % 32 # 0)
      BY TameIs
    <2>2. CASE t \in 0..400
      <3>1. t \in 0..3
        BY <2>2
      <3> QED  BY <2>1, <3>1
    <2> QED  BY <2>1, <2>2
  <1>4. SizeOf(t) = SizeMax + 1 - (4 - t)
    <2>1. ~(t >= 4)
      BY <1>3
    <2> QED  BY <2>1 DEF SizeOf
  <1>5. PICK a \in Int, b \in 1..31 : t - 4 = 32 * a + b
    <2> DEFINE a == (t - 4) \div 32
               b == (t - 4) % 32
    <2>1. a \in Int /\ b \in 0..31 /\ t - 4 = 32 * a + b
      BY <1>3
    <2>2. b \in 1..31
      BY <1>3, <2>1
    <2> HIDE DEF a, b
    <2> QED  BY <2>1, <2>2
  <1>6. SizeOf(t) = 32 * (q + 1 + a) + b
    BY <1>2, <1>3, <1>4, <1>5
  <1>7. SizeOf(t) \in Nat
    BY <1>1, <1>3, <1>4
  <1> QED  BY <1>5, <1>6, <1>7

\* A size is a number.
LEMMA SizeType == \A t \in Tame : SizeOf(t) \in Nat
  <1> SUFFICES ASSUME NEW t \in Tame
               PROVE  SizeOf(t) \in Nat
    OBVIOUS
  <1>1. CASE t < 4
    BY <1>1, NotWhole
  <1>2. CASE ~(t < 4)
    <2>1. t \in Int
      BY TameIs
    <2> QED  BY <1>2, <2>1 DEF SizeOf
  <1> QED  BY <1>1, <1>2

\* A FIB that is looked for lies within the transfer.
LEMMA Within ==
    ASSUME FicTypeOK, WholeFibs, i > 0
    PROVE  4 + 32 * i <= bytesTransfered
  <1>1. /\ len \in Nat /\ i \in Nat /\ bytesTransfered \in Tame /\ bytesTransfered \in Int
        /\ len % 32 = 0 /\ 32 * (i - 1) < len
    <2>1. bytesTransfered \in Tame
      BY DEF FicTypeOK
    <2>2. bytesTransfered \in Int
      BY <2>1, TameIs
    <2>3. i > 0 /\ i \in Nat /\ len \in Nat
      BY DEF FicTypeOK
    <2> QED  BY <2>1, <2>2, <2>3 DEF WholeFibs
  <1>2. len # 0
    BY <1>1
  <1>3. len = SizeOf(bytesTransfered)
    BY <1>2 DEF WholeFibs
  <1>4. ~(bytesTransfered < 4)
    BY <1>1, <1>3, NotWhole
  <1>5. len = bytesTransfered - 4
    BY <1>1, <1>3, <1>4 DEF SizeOf
  <1>6. PICK q \in Nat : len = 32 * q
    BY <1>1
  <1>7. 32 * i <= len
    BY <1>1, <1>6
  <1> QED  BY <1>1, <1>4, <1>5, <1>7

\* The FIBs of a block.
LEMMA FibOf ==
    ASSUME FicTypeOK, NEW k \in Nat \ {0}, Filled(k)
    PROVE  block[k].starts \in Starts
  <1>1. block \in Blocks
    <2>1. CASE block = << >>
      BY <2>1 DEF Filled
    <2> QED  BY <2>1 DEF FicTypeOK
  <1>2. block \in Seq([good : BOOLEAN, starts : Starts])
    BY <1>1, BlocksAssumption DEF Starts
  <1>3. k \in 1..Len(block)
    BY <1>2 DEF Filled
  <1>4. block[k] \in [good : BOOLEAN, starts : Starts]
    BY <1>2, <1>3, ElementOf
  <1> QED  BY <1>4

\* All FIGs of a FIB begin in it.
LEMMA FigsOfWithin ==
    ASSUME FicTypeOK, NEW k \in Nat \ {0}, NEW f \in FigsOf(k)
    PROVE  f[1] = k /\ f[2] \in Nat /\ f[2] < 30
  <1>1. Filled(k) /\ f \in FigSet(k, block[k].starts)
    BY DEF FigsOf, FigSet
  <1>2. block[k].starts \in Starts
    BY <1>1, FibOf
  <1> QED  BY <1>1, <1>2, FigSetWithin

\* And where ProcessFIB is, is a number.
LEMMA OffsetType ==
    ASSUME FicTypeOK, AtStart
    PROVE  offset \in Nat /\ offset <= 30
  <1>1. CASE offset = 30
    BY <1>1
  <1>2. CASE offset # 30
    <2>1. i > 0 /\ Filled(i) /\ \E n \in 1..Len(block[i].starts) : offset = block[i].starts[n]
      BY <1>2 DEF AtStart
    <2>2. block[i].starts \in Starts
      BY <2>1, FibOf DEF FicTypeOK
    <2> QED  BY <2>1, <2>2, StartsAre
  <1> QED  BY <1>1, <1>2

\* A transfer.
LEMMA ReadDataInv ==
    ASSUME NEW t \in Tame, ReadData(t), block' \in Blocks \cup {<< >>}
    PROVE  FicInv'
  <1>1. /\ bytesTransfered' = t
        /\ len' = IF WholeCount(SizeOf(t)) THEN SizeOf(t) ELSE 0
        /\ i' = 0 /\ offset' = 30 /\ figs' = << >>
    BY DEF ReadData
  <1>2. << >> \in Seq(Nat \X Nat \X Nat) /\ Len(<< >>) = 0
    OBVIOUS
  <1>3. FicTypeOK'
    <2>1. SizeOf(t) \in Nat
      BY SizeType
    <2>2. len' \in Nat
      BY <1>1, <2>1
    <2>3. bytesTransfered' \in Tame /\ i' \in Nat
      BY <1>1
    <2> QED  BY <1>1, <1>2, <2>2, <2>3 DEF FicTypeOK
  <1>4. WholeFibs'
    <2>1. len' % 32 = 0 /\ (len' = 0 \/ len' = SizeOf(t))
      BY <1>1 DEF WholeCount
    <2>2. SizeOf(bytesTransfered') = SizeOf(t)
      BY <1>1
    <2> QED  BY <1>1, <2>1, <2>2 DEF WholeFibs
  <1>5. AtStart'
    BY <1>1 DEF AtStart
  <1>6. FigsSoFar'
    <2>1. 1..i' = {} /\ 1..Len(figs') = {}
      BY <1>1
    <2>2. {figs'[n] : n \in 1..Len(figs')} = {}
      BY <2>1
    <2> QED  BY <2>1, <2>2 DEF FigsSoFar, Before
  <1>7. InOrder'
    <2>1. 2..Len(figs') = {}
      BY <1>1
    <2> QED  BY <2>1 DEF InOrder
  <1> QED  BY <1>3, <1>4, <1>5, <1>6, <1>7 DEF FicInv

\* The next FIB.
LEMMA BeginFibInv ==
    ASSUME FicInv, BeginFib
    PROVE  FicInv'
  <1>1. /\ offset >= 30 /\ 32 * i < len /\ i' = i + 1
        /\ offset' = IF Filled(i + 1) /\ block[i + 1].good THEN 0 ELSE 30
        /\ block' = block /\ bytesTransfered' = bytesTransfered /\ len' = len /\ figs' = figs
    <2>1. \A k : Filled(k)' = Filled(k)
      BY DEF BeginFib, Filled
    <2> QED  BY <2>1 DEF BeginFib, Filled
  <1>2. i \in Nat /\ i + 1 \in Nat \ {0} /\ FicTypeOK
    BY DEF FicInv, FicTypeOK
  <1>3. FicTypeOK'
    BY <1>1, <1>2 DEF FicTypeOK
  <1>4. WholeFibs'
    BY <1>1, <1>2 DEF FicInv, WholeFibs
  <1>5. \A k : (Filled(k)' <=> Filled(k)) /\ FigsOf(k)' = FigsOf(k)
    BY <1>1 DEF Filled, FigsOf
  <1>6. AtStart'
    <2>1. CASE Filled(i + 1) /\ block[i + 1].good
      <3>1. block[i + 1].starts \in Starts
        BY <1>2, <2>1, FibOf
      <3>2. 1 \in 1..Len(block[i + 1].starts) /\ block[i + 1].starts[1] = 0
        BY <3>1, StartsAre
      <3>3. offset' = 0 /\ i' > 0
        BY <1>1, <1>2, <2>1
      <3> QED  BY <1>1, <1>5, <2>1, <3>2, <3>3 DEF AtStart
    <2>2. CASE ~(Filled(i + 1) /\ block[i + 1].good)
      <3>1. offset' = 30
        BY <1>1, <2>2
      <3> QED  BY <3>1 DEF AtStart
    <2> QED  BY <2>1, <2>2
  <1>7. FigsSoFar'
    <2> SUFFICES ASSUME NEW f
                 PROVE  Before(f, i, offset) <=>
                            \E k \in 1..(i + 1) : f \in FigsOf(k) /\ (k < i + 1 \/ f[2] < offset')
      BY <1>1, <1>5 DEF FicInv, FigsSoFar, Before
    <2>1. ASSUME NEW k \in 1..i, f \in FigsOf(k)
          PROVE  f[2] < offset
      <3>1. f[2] \in Nat /\ f[2] < 30
        BY <1>2, <2>1, FigsOfWithin
      <3> QED  BY <1>1, <1>2, <3>1, OffsetType DEF FicInv
    <2>2. ASSUME f \in FigsOf(i + 1)
          PROVE  ~(f[2] < offset')
      <3>1. f[2] \in Nat
        BY <1>2, <2>2, FigsOfWithin
      <3>2. Filled(i + 1) /\ block[i + 1].good
        BY <2>2 DEF FigsOf
      <3>3. offset' = 0
        BY <1>1, <3>2
      <3> QED  BY <3>1, <3>3
    <2>3. ASSUME NEW k \in 1..(i + 1)
          PROVE  (k \in 1..i /\ k < i + 1) \/ (k = i + 1 /\ ~(k < i + 1))
      BY <1>2
    <2>4. ASSUME NEW k \in 1..i
          PROVE  k \in 1..(i + 1) /\ k < i + 1
      BY <1>2
    <2> QED  BY <2>1, <2>2, <2>3, <2>4 DEF Before
  <1>8. InOrder'
    BY <1>1 DEF FicInv, InOrder
  <1> QED  BY <1>3, <1>4, <1>6, <1>7, <1>8 DEF FicInv

\* A FIG is handed on, or the end of the FIB is found.
LEMMA TakeFigInv ==
    ASSUME FicInv, TakeFig
    PROVE  FicInv'
  <1> DEFINE s == block[i].starts
  <1>1. /\ offset < 30
        /\ block' = block /\ bytesTransfered' = bytesTransfered /\ len' = len /\ i' = i
        /\ IF BeforeChecksum(offset) /\ LenAt(s, offset) # 255
           THEN /\ figs' = Append(figs, <<i, offset, LenAt(s, offset)>>)
                /\ offset' = offset + 1 + LenAt(s, offset)
           ELSE offset' = 30 /\ figs' = figs
    BY DEF TakeFig
  <1>2. offset # 30
    BY <1>1
  <1>3. i > 0 /\ Filled(i) /\ block[i].good /\ \E n \in 1..Len(s) : offset = s[n]
    BY <1>2 DEF FicInv, AtStart
  <1>4. i \in Nat \ {0} /\ FicTypeOK /\ figs \in Seq(Nat \X Nat \X Nat)
    BY <1>3 DEF FicInv, FicTypeOK
  <1>5. s \in Starts
    BY <1>3, <1>4, FibOf
  <1>6. FigsOf(i) = FigSet(i, s)
    BY <1>3 DEF FigsOf, FigSet
  <1>7. \A k : (Filled(k)' <=> Filled(k)) /\ FigsOf(k)' = FigsOf(k)
    BY <1>1 DEF Filled, FigsOf
  <1>8. WholeFibs'
    BY <1>1 DEF FicInv, WholeFibs
  <1>9. i' > 0 /\ Filled(i)' /\ block'[i'].good /\ block'[i'].starts = s
    BY <1>1, <1>3, <1>7
  <1> HIDE DEF s
  <1>10. PICK n \in 1..Len(s) : offset = s[n]
    BY <1>3
  <1>11. /\ Len(s) \in Nat /\ s[n] \in Nat /\ n \in Nat
         /\ LenAt(s, offset) = IF n = Len(s) THEN 255 ELSE s[n + 1] - s[n] - 1
    BY <1>5, <1>10, StartsAre, LenAtStart
  <1>12. CASE n = Len(s)
    <2>1. offset' = 30 /\ figs' = figs
      BY <1>1, <1>11, <1>12
    <2>2. FicTypeOK' /\ AtStart' /\ InOrder'
      BY <1>1, <2>1 DEF FicInv, FicTypeOK, AtStart, InOrder
    <2>3. FigsSoFar'
      <3>a. i' = i
        BY <1>1
      <3> SUFFICES ASSUME NEW f
                   PROVE  Before(f, i, offset) <=>
                              \E k \in 1..i : f \in FigsOf(k) /\ (k < i \/ f[2] < offset')
        BY <1>7, <2>1, <3>a DEF FicInv, FigsSoFar, Before
      <3>1. ASSUME f \in FigsOf(i)
            PROVE  f[2] < offset /\ f[2] < offset'
        BY <1>4, <1>5, <1>6, <1>10, <1>12, <2>1, <3>1, FigSetWithin
      <3>2. \A k \in 1..i : k < i \/ k = i
        BY <1>4
      <3> QED  BY <3>1, <3>2 DEF Before
    <2> QED  BY <1>8, <2>2, <2>3 DEF FicInv
  <1>13. CASE n # Len(s)
    <2> DEFINE length == s[n + 1] - s[n] - 1
               e == <<i, s[n], length>>
    <2>1. n \in 1..(Len(s) - 1) /\ n + 1 \in 1..Len(s) /\ n < n + 1
      BY <1>11, <1>13
    <2>2. s[n] < s[n + 1] /\ s[n + 1] \in Nat /\ s[n + 1] <= 30
      BY <1>5, <2>1, StartsAre, StartsRise
    <2>3. length \in Nat /\ length # 255 /\ s[n] + 1 + length = s[n + 1]
      BY <1>11, <2>2
    <2>4. LenAt(s, offset) = length
      BY <1>11, <1>13
    <2> HIDE DEF length
    <2>5. figs' = Append(figs, e) /\ offset' = s[n + 1]
      BY <1>1, <1>10, <2>3, <2>4 DEF BeforeChecksum
    <2>6. e \in Nat \X Nat \X Nat
      BY <1>4, <1>11, <2>3
    <2>7. FicTypeOK'
      <3>1. figs' \in Seq(Nat \X Nat \X Nat)
        BY <1>4, <2>5, <2>6
      <3> QED  BY <1>1, <3>1 DEF FicInv, FicTypeOK
    <2>8. AtStart'
      BY <1>1, <1>9, <2>1, <2>5 DEF AtStart
    <2>9. {figs'[m] : m \in 1..Len(figs')} = {figs[m] : m \in 1..Len(figs)} \cup {e}
      <3> HIDE DEF e
      <3>1. /\ Len(figs) \in Nat /\ Len(figs') = Len(figs) + 1
            /\ figs'[Len(figs) + 1] = e /\ \A m \in 1..Len(figs) : figs'[m] = figs[m]
        BY <1>4, <2>5, <2>6
      <3> QED  BY <3>1, OneMore
    <2>10. FigsSoFar'
      <3> SUFFICES ASSUME NEW f
                   PROVE  (f \in {figs[m] : m \in 1..Len(figs)} \cup {e}) <=>
                              \E k \in 1..i : f \in FigsOf(k) /\ (k < i \/ f[2] < s[n + 1])
        BY <1>1, <1>7, <2>5, <2>9 DEF FigsSoFar, Before
      <3>1. f \in {figs[m] : m \in 1..Len(figs)} <=>
                \E k \in 1..i : f \in FigsOf(k) /\ (k < i \/ f[2] < s[n])
        BY <1>10 DEF FicInv, FigsSoFar, Before
      <3>2. {g \in FigsOf(i) : g[2] < s[n + 1]} = {g \in FigsOf(i) : g[2] < s[n]} \cup {e}
        BY <1>4, <1>5, <1>6, <2>1, FigSetUpTo DEF length
      <3>3. f \in FigsOf(i) /\ f[2] < s[n + 1] <=> (f \in FigsOf(i) /\ f[2] < s[n]) \/ f = e
        BY <3>2
      <3>4. i \in 1..i /\ ~(i < i) /\ \A k \in 1..i : k < i \/ k = i
        BY <1>4
      <3> HIDE DEF e
      <3>5. f \in {figs[m] : m \in 1..Len(figs)} \cup {e} <=>
                (\E k \in 1..i : f \in FigsOf(k) /\ (k < i \/ f[2] < s[n])) \/ f = e
        BY <3>1
      <3> QED  BY <3>3, <3>4, <3>5
    <2>11. InOrder'
      <3>1. ASSUME NEW m \in 1..Len(figs)
            PROVE  /\ figs[m][1] \in Nat /\ figs[m][2] \in Nat
                   /\ figs[m][1] < i \/ (figs[m][1] = i /\ figs[m][2] < s[n])
        <4>1. PICK k \in 1..i : figs[m] \in FigsOf(k) /\ (k < i \/ figs[m][2] < s[n])
          BY <1>10 DEF FicInv, FigsSoFar, Before
        <4>2. k \in Nat \ {0} /\ (k < i \/ k = i)
          BY <1>4
        <4>3. figs[m][1] = k /\ figs[m][2] \in Nat
          BY <1>4, <4>1, <4>2, FigsOfWithin
        <4> QED  BY <4>1, <4>2, <4>3
      <3>2. /\ Len(figs) \in Nat /\ Len(figs') = Len(figs) + 1
            /\ figs'[Len(figs) + 1] = e /\ \A m \in 1..Len(figs) : figs'[m] = figs[m]
        <4> HIDE DEF e
        <4> QED  BY <1>4, <2>5, <2>6
      <3>3. e[1] = i /\ e[2] = s[n]
        OBVIOUS
      <3> HIDE DEF e
      <3> SUFFICES ASSUME NEW m \in 2..Len(figs')
                   PROVE  \/ figs'[m - 1][1] < figs'[m][1]
                          \/ figs'[m - 1][1] = figs'[m][1] /\ figs'[m - 1][2] < figs'[m][2]
        BY DEF InOrder
      <3>4. CASE m = Len(figs) + 1
        <4>1. m - 1 = Len(figs) /\ m - 1 \in 1..Len(figs)
          BY <3>2, <3>4
        <4>2. figs'[m - 1] = figs[m - 1] /\ figs'[m] = e
          BY <3>2, <3>4, <4>1
        <4> QED  BY <3>1, <3>3, <4>1, <4>2
      <3>5. CASE m # Len(figs) + 1
        <4>1. m \in 2..Len(figs) /\ m - 1 \in 1..Len(figs) /\ m \in 1..Len(figs)
          BY <3>2, <3>5
        <4>2. figs'[m - 1] = figs[m - 1] /\ figs'[m] = figs[m]
          BY <3>2, <4>1
        <4> QED  BY <4>1, <4>2 DEF FicInv, InOrder
      <3> QED  BY <3>4, <3>5
    <2> QED  BY <1>8, <2>7, <2>8, <2>10, <2>11 DEF FicInv
  <1> QED  BY <1>12, <1>13

\* Every step preserves the invariant.
LEMMA FicInductive == FicInv /\ [FicBlockNext]_ficBlockVars => FicInv'
  <1> SUFFICES ASSUME FicInv, [FicBlockNext]_ficBlockVars
               PROVE  FicInv'
    OBVIOUS
  <1>1. ASSUME NEW b \in Blocks, NEW transfered \in Transfers, ReadFicBlock(b, transfered)
        PROVE  FicInv'
    <2>1. transfered \in Tame
      BY TransfersAssumption, SmallIsTame, Zenon
    <2>2. ReadData(transfered) /\ block' \in Blocks \cup {<< >>}
      BY <1>1 DEF ReadFicBlock
    <2> QED  BY <2>1, <2>2, ReadDataInv
  <1>2. ASSUME NEW unset \in Unset, ReadNothing(unset)
        PROVE  FicInv'
    <2>1. unset \in Tame
      BY UnsetAssumption, Zenon
    <2>2. ReadData(unset) /\ block' \in Blocks \cup {<< >>}
      BY <1>2 DEF ReadNothing
    <2> QED  BY <2>1, <2>2, ReadDataInv
  <1>3. CASE UNCHANGED ficBlockVars
    <2>1. /\ block' = block /\ bytesTransfered' = bytesTransfered /\ len' = len /\ i' = i
          /\ offset' = offset /\ figs' = figs
      BY <1>3 DEF ficBlockVars
    <2>2. \A k : (Filled(k)' <=> Filled(k)) /\ FigsOf(k)' = FigsOf(k)
      BY <2>1 DEF Filled, FigsOf
    <2>3. FicTypeOK' /\ WholeFibs' /\ InOrder'
      BY <2>1 DEF FicInv, FicTypeOK, WholeFibs, InOrder
    <2>4. AtStart'
      BY <2>1, <2>2 DEF FicInv, AtStart
    <2>5. FigsSoFar'
      BY <2>1, <2>2 DEF FicInv, FigsSoFar, Before
    <2> QED  BY <2>3, <2>4, <2>5 DEF FicInv
  <1> QED  BY <1>1, <1>2, <1>3, BeginFibInv, TakeFigInv DEF FicBlockNext

\* The first state.
LEMMA FicInitially == FicBlockInit => FicInv
  <1> SUFFICES ASSUME FicBlockInit
               PROVE  FicInv
    OBVIOUS
  <1>1. /\ block = << >> /\ bytesTransfered = 4 /\ len = 0 /\ i = 0 /\ offset = 30 /\ figs = << >>
    BY DEF FicBlockInit
  <1>2. << >> \in Seq(Nat \X Nat \X Nat) /\ Len(<< >>) = 0
    OBVIOUS
  <1>3. FicTypeOK /\ WholeFibs /\ AtStart /\ InOrder
    <2>1. bytesTransfered \in Tame
      BY <1>1, SmallIsTame
    <2> QED  BY <1>1, <1>2, <2>1 DEF FicTypeOK, WholeFibs, AtStart, InOrder
  <1>4. FigsSoFar
    <2>1. 1..i = {} /\ {figs[n] : n \in 1..Len(figs)} = {}
      BY <1>1
    <2> QED  BY <2>1 DEF FigsSoFar, Before
  <1> QED  BY <1>3, <1>4 DEF FicInv

LEMMA FicAlways == FicBlockSpec => []FicInv
  BY FicInitially, FicInductive, PTL DEF FicBlockSpec

\* Whatever a transfer was cut to, Process looks for FIBs only in what it has filled:
\* for less than the header, bytesTransfered - 4 wraps around, and is then no integer
\* count of FIBs.
THEOREM FibsTransferred == FicBlockSpec => []OnlyTransferred
  <1>1. FicInv => OnlyTransferred
    BY Within DEF FicInv, OnlyTransferred
  <1> QED  BY <1>1, FicAlways, PTL

\* From any block, however it is cut, the loops of Process and ProcessFIB hand on
\* every FIG of the FIBs that are whole and right, in order, each once, and no other.
THEOREM FigsHandedOn == FicBlockSpec => []EveryFigOnce
  <1>1. FicInv => EveryFigOnce
    <2> SUFFICES ASSUME FicInv, Idle
                 PROVE  {figs[n] : n \in 1..Len(figs)} = UNION {FigsOf(k) : k \in 1..i}
      BY DEF FicInv, InOrder, EveryFigOnce
    <2>1. ASSUME NEW k \in 1..i, NEW f \in FigsOf(k)
          PROVE  f[2] < offset
      <3>1. k \in Nat \ {0}
        OBVIOUS
      <3>2. f[2] \in Nat /\ f[2] < 30
        BY <3>1, FigsOfWithin DEF FicInv
      <3>3. offset >= 30 /\ offset \in Nat
        BY OffsetType DEF FicInv, Idle
      <3> QED  BY <3>2, <3>3
    <2>2. ASSUME NEW f
          PROVE  Before(f, i, offset) <=> f \in UNION {FigsOf(k) : k \in 1..i}
      BY <2>1 DEF Before
    <2> QED  BY <2>2 DEF FicInv, FigsSoFar
  <1> QED  BY <1>1, FicAlways, PTL

-----------------------------------------------------------------------------
(* The date. *)

\* Division by the powers of two that occur.
LEMMA Divided ==
    ASSUME NEW n \in Nat
    PROVE  /\ n \div 4 \in Nat /\ n % 4 \in Nat /\ n % 4 <= 3 /\ n = 4 * (n \div 4) + (n % 4)
           /\ n \div 256 \in Nat /\ n % 256 \in Nat /\ n % 256 <= 255
           /\ n = 256 * (n \div 256) + (n % 256)
  OBVIOUS

\* The day is received as it was sent.
LEMMA Sends ==
    ASSUME NEW n \in Nat, n < 131072
    PROVE  mjd(Sent(n)) = n
  <1> DEFINE q == n \div 4
             a == q \div 256
             b == q % 256
             c == n % 4
  <1>1. q \in Nat /\ c \in Nat /\ c <= 3 /\ n = 4 * q + c
    BY Divided
  <1>2. a \in Nat /\ b \in Nat /\ b <= 255 /\ q = 256 * a + b
    <2> HIDE DEF q
    <2> QED  BY <1>1, Divided
  <1>3. (64 * c + 63) \div 64 = c
    BY <1>1
  <1>4. n \div 1024 = a
    <2> HIDE DEF a, b, c, q
    <2>1. n = 1024 * a + (4 * b + c) /\ 4 * b + c < 1024 /\ 4 * b + c \in Nat
      BY <1>1, <1>2
    <2> QED  BY <1>2, <2>1
  <1>5. (128 + a) % 128 = a
    <2> HIDE DEF a, b, c, q
    <2>1. a < 128
      BY <1>1, <1>2
    <2> QED  BY <1>2, <2>1
  <1>6. mjd(Sent(n)) = ((128 + (n \div 1024)) % 128) * 1024 + b * 4 + ((64 * c + 63) \div 64)
    BY DEF mjd, Sent
  <1>7. mjd(Sent(n)) = a * 1024 + b * 4 + c
    BY <1>3, <1>4, <1>5, <1>6
  <1> HIDE DEF a, b, c, q
  <1> QED  BY <1>1, <1>2, <1>7

\* The days of a year before a month.
DaysBefore(y, m) ==
    <<0, 31, 59, 90, 120, 151, 181, 212, 243, 273, 304, 334>>[m]
        + (IF m > 2 /\ Leap(y) THEN 1 ELSE 0)

\* The modified Julian day.
DayNumber(y, m, d) == FirstDay(y) + DaysBefore(y, m) + d - 1

\* A day as the handler is to store it.
Stored(y, m, d) == [tm_year |-> y - 1900, tm_mon |-> m - 1, tm_mday |-> d]

\* A day of the calendar.
IsDay(y, m, d) == y \in 1901..2099 /\ m \in 1..12 /\ d \in 1..DaysOf(y, m)

\* A year is that of the era of four years it is in.
LEMMA YearIs ==
    ASSUME NEW y \in 1901..2099
    PROVE  \E q \in 0..49, r \in 1..4 :
               /\ y = 1900 + 4 * q + r
               /\ Leap(y) <=> r = 4
               /\ FirstDay(y) = 15020 + 365 * (4 * q + r) + q
  <1>1. PICK q \in 0..49, r \in 1..4 : y = 1900 + 4 * q + r
    <2>1. ((y - 1901) \div 4) \in 0..49 /\ ((y - 1901) % 4) + 1 \in 1..4
      OBVIOUS
    <2>2. y = 1900 + 4 * ((y - 1901) \div 4) + (((y - 1901) % 4) + 1)
      OBVIOUS
    <2> QED  BY <2>1, <2>2
  <1>2. y % 4 = 0 <=> r = 4
    BY <1>1
  <1>3. y % 4 = 0 => (y % 100 # 0 \/ y % 400 = 0)
    OBVIOUS
  <1>4. (y - 1901) \div 4 = q
    BY <1>1
  <1> QED  BY <1>1, <1>2, <1>3, <1>4 DEF Leap, FirstDay

\* The formula's year begins with March: the days from then on.
LEMMA FromMarch ==
    ASSUME NEW q \in 0..50, NEW r \in 0..3, NEW days \in 123..488, 4 * q + r < 200,
           days <= 487 \/ r = 3
    PROVE  LET n == 14956 + 365 * (4 * q + r) + q + days
               y0 == (100 * n - 1507820) \div 36525
           IN  y0 = 4 * q + r /\ n - 14956 - ((y0 * 36525) \div 100) = days
  <1> DEFINE n == 14956 + 365 * (4 * q + r) + q + days
             y0 == (100 * n - 1507820) \div 36525
  <1>1. y0 = 4 * q + r
    OBVIOUS
  <1>2. ((4 * q + r) * 36525) \div 100 = 365 * (4 * q + r) + q
    OBVIOUS
  <1> HIDE DEF y0
  <1>3. (y0 * 36525) \div 100 = 365 * (4 * q + r) + q
    BY <1>1, <1>2
  <1> QED  BY <1>1, <1>3 DEF y0

\* From March on, a year is the formula's.
LEMMA MarchOn ==
    ASSUME NEW y, NEW m, NEW d, IsDay(y, m, d), m > 2
    PROVE  Date(DayNumber(y, m, d)) = Stored(y, m, d)
  <1> USE DEF IsDay
  <1>1. PICK q \in 0..49, r \in 1..4 :
            /\ y = 1900 + 4 * q + r
            /\ Leap(y) <=> r = 4
            /\ FirstDay(y) = 15020 + 365 * (4 * q + r) + q
    BY YearIs
  <1> DEFINE p == IF r = 4 THEN q + 1 ELSE q
             s == IF r = 4 THEN 0 ELSE r
             b == <<0, 31, 59, 90, 120, 151, 181, 212, 243, 273, 304, 334>>[m]
             days == b + d + 63
             n == DayNumber(y, m, d)
  <1>2. /\ b \in 59..334 /\ d \in 1..31 /\ DaysOf(y, m) \in 30..31
        /\ (10000 * days - 1000) \div 306001 = m + 1
        /\ days - (((m + 1) * 306001) \div 10000) = d
    <2>1. DaysOf(y, m) = IF m \in {4, 6, 9, 11} THEN 30 ELSE 31
      BY DEF DaysOf
    <2>2. CASE m = 3
      BY <2>1, <2>2
    <2>3. CASE m = 4
      BY <2>1, <2>3
    <2>4. CASE m = 5
      BY <2>1, <2>4
    <2>5. CASE m = 6
      BY <2>1, <2>5
    <2>6. CASE m = 7
      BY <2>1, <2>6
    <2>7. CASE m = 8
      BY <2>1, <2>7
    <2>8. CASE m = 9
      BY <2>1, <2>8
    <2>9. CASE m = 10
      BY <2>1, <2>9
    <2>10. CASE m = 11
      BY <2>1, <2>10
    <2>11. CASE m = 12
      BY <2>1, <2>11
    <2> QED  BY <2>2, <2>3, <2>4, <2>5, <2>6, <2>7, <2>8, <2>9, <2>10, <2>11
  <1>3. DaysBefore(y, m) = b + (IF r = 4 THEN 1 ELSE 0)
    BY <1>1 DEF DaysBefore
  <1> HIDE DEF b
  <1>4. p \in 0..50 /\ s \in 0..3 /\ 4 * p + s = 4 * q + r /\ 4 * p + s < 200
    BY <1>1
  <1>5. days \in 123..428
    BY <1>2
  <1>6. n = 14956 + 365 * (4 * p + s) + p + days
    BY <1>1, <1>2, <1>3 DEF DayNumber
  <1> HIDE DEF p, s, days
  <1> DEFINE y0 == (100 * n - 1507820) \div 36525
  <1>7. y0 = 4 * p + s /\ n - 14956 - ((y0 * 36525) \div 100) = days
    BY <1>4, <1>5, <1>6, FromMarch
  <1> HIDE DEF n, y0
  <1>8. y0 = y - 1900
    BY <1>1, <1>4, <1>7
  <1>9. Date(n) = [tm_year |-> y0, tm_mon |-> m + 1 - 2, tm_mday |-> d]
    <2>1. m + 1 \notin {14, 15} /\ y0 \in Int
      BY <1>8
    <2> QED  BY <1>2, <1>7, <2>1 DEF Date, y0
  <1> QED  BY <1>8, <1>9 DEF n, Stored

\* January and February belong to the formula's year before.
LEMMA BeforeMarch ==
    ASSUME NEW y, NEW m, NEW d, IsDay(y, m, d), m <= 2
    PROVE  Date(DayNumber(y, m, d)) = Stored(y, m, d)
  <1> USE DEF IsDay
  <1>1. PICK q \in 0..49, r \in 1..4 :
            /\ y = 1900 + 4 * q + r
            /\ Leap(y) <=> r = 4
            /\ FirstDay(y) = 15020 + 365 * (4 * q + r) + q
    BY YearIs
  <1> DEFINE s == r - 1
             b == DaysBefore(y, m)
             days == b + d + 428
             n == DayNumber(y, m, d)
  <1>2. /\ b \in 0..31 /\ d \in 1..31
        /\ (10000 * days - 1000) \div 306001 = m + 13
        /\ days - (((m + 13) * 306001) \div 10000) = d
        /\ b + d <= 60 /\ (b + d <= 59 \/ r = 4)
    <2>1. CASE m = 1
      <3>1. b = 0 /\ DaysOf(y, m) = 31
        BY <2>1 DEF DaysBefore, DaysOf
      <3> QED  BY <2>1, <3>1
    <2>2. CASE m = 2
      <3>1. b = 31 /\ DaysOf(y, m) = IF r = 4 THEN 29 ELSE 28
        BY <1>1, <2>2 DEF DaysBefore, DaysOf
      <3> QED  BY <2>2, <3>1
    <2> QED  BY <2>1, <2>2
  <1> HIDE DEF b, n
  <1>3. q \in 0..50 /\ s \in 0..3 /\ 4 * q + s < 200 /\ 4 * q + s = 4 * q + r - 1
    BY <1>1
  <1>4. days \in 123..488 /\ (days <= 487 \/ s = 3)
    <2>1. b \in Nat /\ d \in Nat /\ b + d <= 60
      BY <1>2
    <2>2. 123 <= days /\ days <= 488 /\ days \in Nat
      BY <2>1
    <2>3. days <= 487 \/ r = 4
      BY <1>2, <2>1
    <2>4. r = 4 => s = 3
      OBVIOUS
    <2> HIDE DEF days, s
    <2> QED  BY <2>2, <2>3, <2>4
  <1>5. n = 14956 + 365 * (4 * q + s) + q + days
    BY <1>1, <1>2 DEF b, n, DayNumber
  <1> HIDE DEF s, days
  <1> DEFINE y0 == (100 * n - 1507820) \div 36525
  <1>6. y0 = 4 * q + s /\ n - 14956 - ((y0 * 36525) \div 100) = days
    BY <1>3, <1>4, <1>5, FromMarch
  <1> HIDE DEF y0
  <1>7. y0 = y - 1901
    BY <1>1, <1>3, <1>6
  <1>8. Date(n) = [tm_year |-> y0 + 1, tm_mon |-> m + 13 - 2 - 12, tm_mday |-> d]
    <2>1. m + 13 \in {14, 15} /\ y0 \in Int
      BY <1>7
    <2> QED  BY <1>2, <1>6, <2>1 DEF Date, y0
  <1> QED  BY <1>7, <1>8 DEF n, Stored

-----------------------------------------------------------------------------
(* The year. *)

\* The day that is sent is the calendar's.
DateInv ==
    /\ year \in Years /\ month \in 1..12 /\ day \in 1..DaysOf(year, month)
    /\ mjd(fig) = DayNumber(year, month, day)
    /\ DateIsCalendar

\* A year's days, among those of 17 bits.
LEMMA InYear ==
    ASSUME NEW y \in Years, NEW m \in 1..12, NEW d \in 1..DaysOf(y, m)
    PROVE  /\ y \in 1901..2099
           /\ DayNumber(y, m, d) \in Nat /\ DayNumber(y, m, d) < 131072
  <1>1. y \in 1901..2099
    BY YearsAssumption
  <1>2. FirstDay(y) \in Nat /\ FirstDay(y) < 100000
    <2>1. PICK q \in 0..49, r \in 1..4 : FirstDay(y) = 15020 + 365 * (4 * q + r) + q
      BY <1>1, YearIs
    <2> QED  BY <2>1
  <1>3. DaysBefore(y, m) \in 0..335
    BY DEF DaysBefore
  <1>4. d \in 1..31
    BY DEF DaysOf
  <1> QED  BY <1>1, <1>2, <1>3, <1>4 DEF DayNumber

\* A day is received as it was sent, and decoded as it is in the calendar.
LEMMA Decoded ==
    ASSUME NEW y \in Years, NEW m \in 1..12, NEW d \in 1..DaysOf(y, m)
    PROVE  /\ mjd(Sent(DayNumber(y, m, d))) = DayNumber(y, m, d)
           /\ Date(DayNumber(y, m, d)) = Stored(y, m, d)
  <1>1. /\ y \in 1901..2099
        /\ DayNumber(y, m, d) \in Nat /\ DayNumber(y, m, d) < 131072
    BY InYear
  <1>2. mjd(Sent(DayNumber(y, m, d))) = DayNumber(y, m, d)
    BY <1>1, Sends
  <1>3. IsDay(y, m, d) /\ (m > 2 \/ m <= 2)
    BY <1>1 DEF IsDay
  <1>4. Date(DayNumber(y, m, d)) = Stored(y, m, d)
    BY <1>3, MarchOn, BeforeMarch, Zenon
  <1> QED  BY <1>2, <1>4, Zenon

\* The day after the last of a month is the first of the next.
LEMMA NextMonth ==
    ASSUME NEW y, NEW m \in 1..11
    PROVE  DaysBefore(y, m + 1) = DaysBefore(y, m) + DaysOf(y, m) /\ DaysOf(y, m + 1) \in 28..31
  BY DEF DaysBefore, DaysOf

\* 1 January.
LEMMA DateInitially == DateInit => DateInv
  <1> SUFFICES ASSUME DateInit
               PROVE  DateInv
    OBVIOUS
  <1>1. year \in Years /\ month = 1 /\ day = 1 /\ fig = Sent(FirstDay(year)) /\ tm = Date(mjd(fig))
    BY DEF DateInit
  <1>2. year \in 1901..2099 /\ DaysOf(year, 1) = 31 /\ DaysBefore(year, 1) = 0
    BY <1>1, YearsAssumption DEF DaysOf, DaysBefore
  <1>3. DayNumber(year, 1, 1) = FirstDay(year)
    <2>1. FirstDay(year) \in Int
      BY <1>2 DEF FirstDay
    <2> QED  BY <1>2, <2>1 DEF DayNumber
  <1>4. /\ mjd(Sent(FirstDay(year))) = FirstDay(year)
        /\ Date(FirstDay(year)) = Stored(year, 1, 1)
    <2>1. 1 \in 1..12 /\ 1 \in 1..DaysOf(year, 1)
      BY <1>2
    <2>2. /\ mjd(Sent(DayNumber(year, 1, 1))) = DayNumber(year, 1, 1)
          /\ Date(DayNumber(year, 1, 1)) = Stored(year, 1, 1)
      BY <1>1, <2>1, Decoded
    <2> QED  BY <1>3, <2>2
  <1> QED  BY <1>1, <1>2, <1>3, <1>4 DEF DateInv, DateIsCalendar, Stored

\* A day more.
LEMMA NextDayInv == DateInv /\ [NextDay]_dateVars => DateInv'
  <1> SUFFICES ASSUME DateInv, [NextDay]_dateVars
               PROVE  DateInv'
    OBVIOUS
  <1> DEFINE n == DayNumber(year, month, day)
  <1>1. /\ year \in Years /\ year \in 1901..2099 /\ month \in 1..12 /\ day \in 1..DaysOf(year, month)
        /\ mjd(fig) = n
    BY YearsAssumption DEF DateInv
  <1>2. /\ FirstDay(year) \in Int /\ DaysBefore(year, month) \in Int /\ DaysOf(year, month) \in 28..31
    BY <1>1 DEF FirstDay, DaysBefore, DaysOf
  <1>3. CASE NextDay
    <2>1. /\ year' = year /\ fig' = Sent(n + 1) /\ tm' = Date(mjd(fig'))
          /\ IF day < DaysOf(year, month) THEN day' = day + 1 /\ month' = month
             ELSE month < 12 /\ day' = 1 /\ month' = month + 1
      BY <1>1, <1>3 DEF NextDay
    <2>2. /\ month' \in 1..12 /\ day' \in 1..DaysOf(year, month')
          /\ n + 1 = DayNumber(year, month', day')
      <3>1. CASE day < DaysOf(year, month)
        BY <1>1, <1>2, <2>1, <3>1 DEF DayNumber
      <3>2. CASE ~(day < DaysOf(year, month))
        <4>1. month \in 1..11 /\ day = DaysOf(year, month) /\ day' = 1 /\ month' = month + 1
          BY <1>1, <1>2, <2>1, <3>2
        <4>2. /\ DaysBefore(year, month') = DaysBefore(year, month) + DaysOf(year, month)
              /\ DaysOf(year, month') \in 28..31
          BY <4>1, NextMonth
        <4> QED  BY <1>1, <1>2, <4>1, <4>2 DEF DayNumber
      <3> QED  BY <3>1, <3>2
    <2> HIDE DEF n
    <2>3. /\ mjd(Sent(n + 1)) = n + 1
          /\ Date(n + 1) = Stored(year, month', day')
      BY <1>1, <2>2, Decoded
    <2>4. mjd(fig)' = n + 1
      <3>1. mjd(fig') = n + 1
        BY <2>1, <2>3
      <3> QED  BY <3>1 DEF mjd
    <2>5. DateIsCalendar'
      BY <2>1, <2>3 DEF DateIsCalendar, Stored
    <2> QED  BY <1>1, <2>1, <2>2, <2>4, <2>5 DEF DateInv
  <1>4. CASE UNCHANGED dateVars
    BY <1>4 DEF dateVars, DateInv, DateIsCalendar, mjd
  <1> QED  BY <1>3, <1>4

\* For whatever years until 2099, ProcessFIG0_10 stores the calendar's date on every
\* day of them: the arithmetic is right at the ends of months, in leap years and about
\* the turn of a year.
THEOREM DatesDecoded == DateSpec => []DateIsCalendar
  <1>1. DateInv => DateIsCalendar
    BY DEF DateInv
  <1> QED  BY <1>1, DateInitially, NextDayInv, PTL DEF DateSpec

=============================================================================
