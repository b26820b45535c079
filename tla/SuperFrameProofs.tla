-------------------------- MODULE SuperFrameProofs --------------------------
(***************************************************************************)
(* What holds of super frames for all bit rates, AU starts, PAD and        *)
(* reception: first that the numbers keep their bounds, then, on top of    *)
(* it, that what is forwarded is what was sent.                            *)
(***************************************************************************)
EXTENDS SuperFrame, FiniteSetTheorems, TLAPS

\* The elements of a sequence.
LEMMA ElementOf ==
    ASSUME NEW S, NEW s \in Seq(S), NEW i \in 1..Len(s)
    PROVE  s[i] \in S
  OBVIOUS

\* A uint16_t and a start are numbers.
LEMMA Numbers ==
    /\ \A x \in Uint16 : x \in Nat /\ x <= 65535
    /\ \A x \in Nat : x <= 65535 => x \in Uint16
    /\ \A x \in Start : x \in Nat /\ x <= 4095
  BY DEF Uint16, Start

-----------------------------------------------------------------------------
(* Operators. *)

\* setSubchannelBitrate: both sizes fit their uint16_t.
LEMMA Sizes == \A b \in Bitrates : FrameSize(b) \in Uint16 /\ SuperFrameSize(b) \in Uint16
  <1> SUFFICES ASSUME NEW b \in Bitrates
               PROVE  FrameSize(b) \in Uint16 /\ SuperFrameSize(b) \in Uint16
      OBVIOUS
  <1>1. b \in Uint16 BY BitratesAssumption, Zenon
  <1>2. b \in Nat BY <1>1 DEF Uint16
  <1>3. (b * 3) % 65536 \in Uint16 BY <1>2 DEF Uint16
  <1>4. ((b \div 8) * 110) % 65536 \in Uint16 BY <1>2 DEF Uint16
  <1> QED BY <1>3, <1>4 DEF FrameSize, SuperFrameSize

\* A half byte of the starts as they are sent.
LEMMA NibbleType == \A s \in Seq(Start), k \in Nat : SentNibble(s, k) \in 0..15
  <1> SUFFICES ASSUME NEW s \in Seq(Start), NEW k \in Nat PROVE SentNibble(s, k) \in 0..15
      BY Zenon
  <1> DEFINE i == k \div 3 + 1
             p == <<256, 16, 1>>[(k % 3) + 1]
  <1>1. i \in Nat /\ i >= 1 BY SMT
  <1>2. p \in {1, 16, 256}
      <2>1. k % 3 = 0 \/ k % 3 = 1 \/ k % 3 = 2 BY SMT
      <2> QED BY <2>1
  <1>3. SentNibble(s, k) = IF i > Len(s) THEN 0 ELSE (s[i] \div p) % 16
      BY DEF SentNibble
  <1> HIDE DEF i, p
  <1>4. CASE i > Len(s) BY <1>3, <1>4
  <1>5. CASE ~(i > Len(s))
      <2>1. i \in 1..Len(s) BY <1>1, <1>5
      <2>2. s[i] \in Start BY <2>1, ElementOf
      <2> DEFINE v == s[i]
                 w == v \div p
      <2>3. v \in Nat BY <2>2, Numbers
      <2>4. SentNibble(s, k) = w % 16 BY <1>3, <1>5
      <2>5. w \in Nat
          <3> HIDE DEF v
          <3>1. v \div 1 \in Nat /\ v \div 16 \in Nat /\ v \div 256 \in Nat BY <2>3
          <3> QED BY <1>2, <3>1
      <2> HIDE DEF w
      <2>6. w % 16 \in 0..15 BY <2>5
      <2> QED BY <2>4, <2>6
  <1> QED BY <1>4, <1>5

\* A byte of the header.
LEMMA HeaderByteType == \A s \in Seq(Start), k \in Nat : HeaderByte(s, k) \in 0..255
  <1> SUFFICES ASSUME NEW s \in Seq(Start), NEW k \in Nat PROVE HeaderByte(s, k) \in 0..255
      BY Zenon
  <1> DEFINE high == SentNibble(s, 2 * k)
             low == SentNibble(s, 2 * k + 1)
  <1>1. high \in 0..15 /\ low \in 0..15
      <2>1. 2 * k \in Nat /\ 2 * k + 1 \in Nat OBVIOUS
      <2> QED BY <2>1, NibbleType
  <1>2. HeaderByte(s, k) = 16 * high + low BY DEF HeaderByte
  <1> HIDE DEF high, low
  <1> QED BY <1>1, <1>2

\* An AU start has twelve bits, whichever operand comes first.
LEMMA AuStartType ==
    \A s \in Seq(Start), i \in Nat \ {0}, first \in BOOLEAN : AuStart(s, i, first) \in Start
  <1> SUFFICES ASSUME NEW s \in Seq(Start), NEW i \in Nat \ {0}, NEW first \in BOOLEAN
               PROVE  AuStart(s, i, first) \in Start
      BY Zenon
  <1> DEFINE here == HeaderByte(s, FrameIter(i))
             there == HeaderByte(s, FrameIter(i) + 1)
  <1>1. here \in 0..255 /\ there \in 0..255
      <2>1. FrameIter(i) \in Nat /\ FrameIter(i) + 1 \in Nat BY DEF FrameIter
      <2> QED BY <2>1, HeaderByteType
  <1>2. AuStart(s, i, first) =
            IF i % 2 = 1 THEN here * 16 + (IF first THEN there ELSE here) \div 16
            ELSE IF first THEN (here % 16) * 256 + there
            ELSE (there % 16) * 256 + here
      BY DEF AuStart
  <1> HIDE DEF here, there
  <1>3. /\ here * 16 + there \div 16 \in Start /\ here * 16 + here \div 16 \in Start
        /\ (here % 16) * 256 + there \in Start
        /\ (there % 16) * 256 + here \in Start
      BY <1>1 DEF Start
  <1> QED BY <1>2, <1>3

\* The starts that processData looks at.
LEMMA StartsReadType ==
    ASSUME NEW n \in {2, 3, 4, 6}, NEW layout \in Layouts, leftFirst \in [0..1 -> BOOLEAN]
    PROVE  /\ StartsRead(n, layout) \in Seq(Uint16)
           /\ Len(StartsRead(n, layout)) = n
  <1>1. layout \in Seq(Start) BY LayoutsAssumption, Zenon
  <1>2. FirstStart(n) \in Uint16 BY DEF FirstStart, Uint16
  <1> DEFINE others == [i \in 1..(n - 1) |-> AuStart(layout, i, leftFirst[i % 2])]
  <1>3. ASSUME NEW i \in 1..(n - 1) PROVE AuStart(layout, i, leftFirst[i % 2]) \in Uint16
      <2>1. i \in Nat \ {0} /\ leftFirst[i % 2] \in BOOLEAN
          <3>1. i % 2 \in 0..1 OBVIOUS
          <3> QED BY <3>1
      <2>2. AuStart(layout, i, leftFirst[i % 2]) \in Start BY <1>1, <2>1, AuStartType
      <2> QED BY <2>2 DEF Start, Uint16
  <1>4. others \in Seq(Uint16) /\ Len(others) = n - 1 BY <1>3
  <1> HIDE DEF others
  <1>5. StartsRead(n, layout) = <<FirstStart(n)>> \o others BY DEF StartsRead, others
  <1> QED BY <1>2, <1>4, <1>5

\* The sanity checks keep all starts only if each is larger than the one before and
\* none is behind the end; otherwise fewer.
LEMMA SanePrefixType ==
    ASSUME NEW s \in Seq(Uint16), NEW size \in Uint16,
           NEW n \in {2, 3, 4, 6}, Len(s) = n
    PROVE  /\ SanePrefix(s, size) \in Seq(Uint16)
           /\ Len(SanePrefix(s, size)) = Len(s) =>
                  /\ SanePrefix(s, size) = s
                  /\ \A i \in 2..Len(s) : s[i] <= size /\ s[i - 1] < s[i]
  <1> DEFINE insane == {i \in 2..Len(s) : Insane(s, i, size)}
             least == CHOOSE i \in insane : \A j \in insane : i <= j
  <1>1. CASE insane = {}
      <2>1. SanePrefix(s, size) = s BY <1>1 DEF SanePrefix
      <2>2. ASSUME NEW i \in 2..Len(s) PROVE s[i] <= size /\ s[i - 1] < s[i]
          <3>1. ~Insane(s, i, size) BY <1>1
          <3>2. i \in 1..Len(s) /\ i - 1 \in 1..Len(s) OBVIOUS
          <3>3. s[i] \in Uint16 /\ s[i - 1] \in Uint16 BY <3>2, ElementOf
          <3>4. s[i] \in Nat /\ s[i - 1] \in Nat /\ size \in Nat BY <3>3, Numbers
          <3> QED BY <3>1, <3>4 DEF Insane
      <2> QED BY <2>1, <2>2
  <1>2. CASE insane # {}
      <2>1. Len(s) \in Nat /\ Len(s) <= 6
          <3> n \in Nat /\ n <= 6 OBVIOUS
          <3> QED OBVIOUS
      <2>2. \E i \in insane : \A j \in insane : i <= j
          <3>1. \A i \in insane : i \in {2, 3, 4, 5, 6} BY <2>1
          <3> HIDE DEF insane, least
          <3>2. PICK i \in insane : TRUE BY <1>2
          <3>3. CASE 2 \in insane BY <3>1, <3>3
          <3>4. CASE 2 \notin insane /\ 3 \in insane BY <3>1, <3>4
          <3>5. CASE 2 \notin insane /\ 3 \notin insane /\ 4 \in insane BY <3>1, <3>5
          <3>6. CASE 2 \notin insane /\ 3 \notin insane /\ 4 \notin insane /\ 5 \in insane
              BY <3>1, <3>6
          <3>7. CASE 2 \notin insane /\ 3 \notin insane /\ 4 \notin insane /\ 5 \notin insane
              BY <3>1, <3>2, <3>7
          <3> QED BY <3>3, <3>4, <3>5, <3>6, <3>7
      <2>3. least \in insane BY <2>2, Zenon
      <2>4. least \in 2..Len(s) BY <2>3
      <2>5. SanePrefix(s, size) = SubSeq(s, 1, least - 1) BY <1>2 DEF SanePrefix
      <2> HIDE DEF least, insane
      <2>6. /\ SubSeq(s, 1, least - 1) \in Seq(Uint16)
            /\ Len(SubSeq(s, 1, least - 1)) = least - 1
          BY <2>4
      <2> QED BY <2>4, <2>5, <2>6
  <1> QED BY <1>1, <1>2

\* A sequence over a set is one over a larger set.
LEMMA SeqOver ==
    ASSUME NEW S, NEW T, \A x \in S : x \in T, NEW s \in Seq(S)
    PROVE  s \in Seq(T)
  OBVIOUS

\* The difference of two uint16_t, and what is left where it does not wrap around.
LEMMA Difference ==
    ASSUME NEW a \in Uint16, NEW b \in Uint16, a <= b
    PROVE  (b + 65536 - a) % 65536 \in Uint16 /\ a + ((b + 65536 - a) % 65536) = b
  <1>1. a \in Nat /\ b \in Nat /\ b <= 65535 BY Numbers
  <1>2. PICK d \in Nat : b = a + d BY <1>1
  <1>3. d <= 65535 BY <1>1, <1>2
  <1>4. (d + 65536) % 65536 = d BY <1>3
  <1>5. b + 65536 - a = d + 65536 BY <1>1, <1>2
  <1>6. d \in Uint16 BY <1>3, Numbers
  <1>7. (b + 65536 - a) % 65536 = d BY <1>4, <1>5
  <1> QED BY <1>2, <1>6, <1>7

\* Where starts rise up to the size, each AU ends where the next begins.
LEMMA LengthsType ==
    ASSUME NEW n \in {2, 3, 4, 6}, NEW s \in Seq(Uint16), Len(s) = n + 1,
           NEW size \in Uint16,
           \A i \in 2..(n + 1) : s[i - 1] <= s[i] /\ s[i] <= size
    PROVE  /\ Lengths(s) \in Seq(Uint16) /\ Len(Lengths(s)) = n
           /\ \A i \in 1..n : /\ s[i] + Lengths(s)[i] = s[i + 1]
                             /\ s[i] + Lengths(s)[i] <= size
  <1>1. ASSUME NEW i \in 1..n
        PROVE  /\ (s[i + 1] + 65536 - s[i]) % 65536 \in Uint16
               /\ s[i] + ((s[i + 1] + 65536 - s[i]) % 65536) = s[i + 1]
               /\ s[i + 1] <= size
      <2>1. i \in 1..Len(s) /\ i + 1 \in 1..Len(s) /\ i + 1 \in 2..(n + 1) OBVIOUS
      <2>2. s[i] \in Uint16 /\ s[i + 1] \in Uint16 BY <2>1, ElementOf
      <2>3. (i + 1) - 1 = i OBVIOUS
      <2>4. s[i] <= s[i + 1] /\ s[i + 1] <= size BY <2>1, <2>3
      <2>5. /\ (s[i + 1] + 65536 - s[i]) % 65536 \in Uint16
            /\ s[i] + ((s[i + 1] + 65536 - s[i]) % 65536) = s[i + 1]
          BY <2>2, <2>4, Difference
      <2> QED BY <2>4, <2>5
  <1>2. Lengths(s) = [i \in 1..n |-> (s[i + 1] + 65536 - s[i]) % 65536] BY DEF Lengths
  <1> QED BY <1>1, <1>2

\* What processData keeps of starts that pass the sanity checks.
LEMMA Accepted ==
    ASSUME NEW n \in {2, 3, 4, 6}, NEW read \in Seq(Uint16), Len(read) = n,
           NEW size \in Uint16, Len(SanePrefix(read, size)) = n
    PROVE  LET all == Append(read, size)
           IN  /\ SanePrefix(read, size) = read
               /\ all \in Seq(Uint16) /\ Len(all) = n + 1
               /\ Lengths(all) \in Seq(Uint16) /\ Len(Lengths(all)) = n
               /\ \A i \in 1..n : /\ all[i] + Lengths(all)[i] = all[i + 1]
                                 /\ all[i] + Lengths(all)[i] <= size
  <1> DEFINE all == Append(read, size)
  <1>1. /\ SanePrefix(read, size) = read
        /\ \A i \in 2..n : read[i] <= size /\ read[i - 1] < read[i]
      BY SanePrefixType
  <1>2. all = Append(read, size) OBVIOUS
  <1>3. all \in Seq(Uint16) /\ Len(all) = n + 1 BY <1>2
  <1>4. ASSUME NEW i \in 2..(n + 1) PROVE all[i - 1] <= all[i] /\ all[i] <= size
      <2>1. n \in Nat OBVIOUS
      <2>2. CASE i = n + 1
          <3>1. all[i] = size /\ all[i - 1] = read[n] BY <1>2, <2>1, <2>2
          <3>2. n \in 2..n OBVIOUS
          <3>3. read[n] <= size BY <1>1, <3>2
          <3>4. size <= size BY Numbers
          <3> QED BY <3>1, <3>3, <3>4
      <2>3. CASE i # n + 1
          <3>1. i \in 2..n /\ i \in 1..n /\ i - 1 \in 1..n BY <2>1, <2>3
          <3>2. all[i] = read[i] /\ all[i - 1] = read[i - 1] BY <1>2, <2>1, <3>1
          <3>3. read[i] \in Nat /\ read[i - 1] \in Nat BY <3>1, ElementOf, Numbers
          <3>4. read[i] <= size /\ read[i - 1] < read[i] BY <1>1, <3>1
          <3> QED BY <3>2, <3>3, <3>4
      <2> QED BY <2>2, <2>3
  <1>5. /\ Lengths(all) \in Seq(Uint16) /\ Len(Lengths(all)) = n
        /\ \A i \in 1..n : /\ all[i] + Lengths(all)[i] = all[i + 1]
                          /\ all[i] + Lengths(all)[i] <= size
      BY <1>3, <1>4, LengthsType
  <1> QED BY <1>1, <1>3, <1>5

-----------------------------------------------------------------------------
(* The invariant. *)

\* AUs yet to be examined end within the super frame: the assignments of processData
\* keep InBounds only because they do.
AusWithin ==
    m_dabSuperFrameCount > 0 =>
        \A i \in (examined + 1)..numAUs : auStarts[i] + auLengths[i] <= m_superFrameSize

\* An AU is forwarded from a complete super frame only.
ForwardedWithin ==
    forwarded # << >> =>
        /\ m_dabSuperFrameCount = 5
        /\ forwarded.from <= forwarded.to /\ forwarded.to < superFrameDataSize

SuperFrameInv == TypeOK /\ AusWithin /\ ForwardedWithin

\* The first frame of a super frame.
LEMMA FirstFrameInv ==
    ASSUME SuperFrameInv, NEW dacRate \in BOOLEAN, NEW sbr \in BOOLEAN,
           NEW layout \in Layouts, FirstFrame(dacRate, sbr, layout)
    PROVE  SuperFrameInv'
  <1> DEFINE n == NumAUs(dacRate, sbr)
             size == m_superFrameSize
             read == StartsRead(n, layout)
             starts == SanePrefix(read, size)
  <1>1. n \in {2, 3, 4, 6} BY DEF NumAUs
  <1>2. size \in Uint16 BY Sizes DEF SuperFrameInv, TypeOK, m_superFrameSize
  <1>3. layout \in Seq(Uint16)
      <2>1. layout \in Seq(Start) BY LayoutsAssumption, Zenon
      <2>2. \A x \in Start : x \in Uint16 BY DEF Start, Uint16
      <2> QED BY <2>1, <2>2, SeqOver
  <1>4. FirstStart(n) \in Uint16 BY <1>1 DEF FirstStart, Uint16
  <1>5. read \in Seq(Uint16) /\ Len(read) = n
      BY <1>1, StartsReadType DEF SuperFrameInv, TypeOK
  <1>6. /\ m_dabSuperFrameCount = 0
        /\ sent' = <<FirstStart(n)>> \o layout \o <<size>>
        /\ wrong' = {} /\ examined' = 0
        /\ bitrate' = bitrate /\ leftFirst' = leftFirst /\ forwarded' = forwarded
        /\ pad' = pad /\ burst' = burst
        /\ IF Len(starts) = n
           THEN /\ auStarts' = Append(starts, size)
                /\ auLengths' = Lengths(auStarts')
                /\ m_dabSuperFrameCount' = 1
           ELSE /\ auStarts' = starts
                /\ auLengths' = << >>
                /\ m_dabSuperFrameCount' = m_dabSuperFrameCount
      BY DEF FirstFrame, buildVars
  <1> HIDE DEF n, read
  <1>7. starts \in Seq(Uint16) BY <1>1, <1>2, <1>5, SanePrefixType
  <1> HIDE DEF starts
  <1>8. size' = size BY <1>6 DEF m_superFrameSize
  <1> HIDE DEF size
  <1>9. sent' \in Seq(Uint16) BY <1>2, <1>3, <1>4, <1>6
  <1>10. /\ auStarts' \in Seq(Uint16) /\ auLengths' \in Seq(Uint16)
         /\ m_dabSuperFrameCount' > 0 =>
                /\ Len(auLengths') = n /\ Len(auStarts') = n + 1
                /\ \A i \in 1..n : auStarts'[i] + auLengths'[i] <= size
         /\ m_dabSuperFrameCount' \in 0..5
      <2>1. CASE Len(starts) # n 
          <3>1. auStarts' = starts /\ auLengths' = << >> /\ m_dabSuperFrameCount' = 0
              BY <1>6, <2>1
          <3> QED BY <1>7, <3>1
      <2>2. CASE Len(starts) = n
          <3> DEFINE all == Append(read, size)
          <3>1. Len(SanePrefix(read, size)) = n BY <2>2 DEF starts
          <3>2. /\ SanePrefix(read, size) = read
                /\ all \in Seq(Uint16) /\ Len(all) = n + 1
                /\ Lengths(all) \in Seq(Uint16) /\ Len(Lengths(all)) = n
                /\ \A i \in 1..n : /\ all[i] + Lengths(all)[i] = all[i + 1]
                                  /\ all[i] + Lengths(all)[i] <= size
              BY <1>1, <1>2, <1>5, <3>1, Accepted
          <3>3. /\ auStarts' = all /\ auLengths' = Lengths(all)
                /\ m_dabSuperFrameCount' = 1
              BY <1>6, <2>2, <3>2 DEF starts
          <3> QED BY <3>2, <3>3
      <2> QED BY <2>1, <2>2
  <1>11. forwarded = << >> BY <1>6 DEF SuperFrameInv, ForwardedWithin
  <1>12. examined' \in 0..numAUs'
      <2>1. Len(auLengths') \in Nat BY <1>10
      <2> QED BY <1>6, <2>1 DEF numAUs
  <1>13. TypeOK'
      BY <1>1, <1>6, <1>9, <1>10, <1>12 DEF SuperFrameInv, TypeOK, numAUs
  <1>14. AusWithin'
      <2>1. m_superFrameSize' = size BY <1>8 DEF size
      <2>2. CASE m_dabSuperFrameCount' > 0
          <3>1. (examined' + 1)..numAUs' = 1..n BY <1>1, <1>6, <1>10, <2>2 DEF numAUs
          <3> QED BY <1>10, <2>1, <2>2, <3>1 DEF AusWithin
      <2> QED BY <2>2 DEF AusWithin
  <1>15. ForwardedWithin' BY <1>6, <1>11 DEF ForwardedWithin
  <1> QED BY <1>13, <1>14, <1>15 DEF SuperFrameInv

\* A frame between the first and the last.
LEMMA NextFrameInv ==
    ASSUME SuperFrameInv, NextFrame
    PROVE  SuperFrameInv'
  <1>1. /\ m_dabSuperFrameCount \in 1..3 /\ m_dabSuperFrameCount' = m_dabSuperFrameCount + 1
        /\ bitrate' = bitrate /\ leftFirst' = leftFirst /\ auStarts' = auStarts
        /\ auLengths' = auLengths /\ wrong' = wrong /\ examined' = examined
        /\ forwarded' = forwarded /\ sent' = sent /\ pad' = pad /\ burst' = burst
      BY DEF NextFrame, buildVars, airVars
  <1>2. m_dabSuperFrameCount' \in 0..5 /\ m_dabSuperFrameCount > 0 BY <1>1
  <1>3. TypeOK' BY <1>1, <1>2 DEF SuperFrameInv, TypeOK, numAUs
  <1>4. AusWithin' BY <1>1, <1>2 DEF SuperFrameInv, AusWithin, numAUs, m_superFrameSize
  <1>5. forwarded = << >> BY <1>1 DEF SuperFrameInv, ForwardedWithin
  <1> QED BY <1>1, <1>3, <1>4, <1>5 DEF SuperFrameInv, ForwardedWithin

\* The last frame, with the correction.
LEMMA LastFrameInv ==
    ASSUME SuperFrameInv, NEW b \in Bursts, LastFrame(b)
    PROVE  SuperFrameInv'
  <1>1. /\ m_dabSuperFrameCount = 4 /\ m_dabSuperFrameCount' = 5
        /\ burst' = b /\ wrong' = DecodeSuperframe(BytesOf(b), Received(bitrate))
        /\ BytesOf(b) \subseteq 11..(Received(bitrate) - 1)
        /\ bitrate' = bitrate /\ leftFirst' = leftFirst /\ auStarts' = auStarts
        /\ auLengths' = auLengths /\ examined' = examined
        /\ forwarded' = forwarded /\ sent' = sent /\ pad' = pad
      BY DEF LastFrame, buildVars
  <1>2. wrong' \subseteq Nat
      <2>1. wrong' \subseteq BytesOf(b) BY <1>1 DEF DecodeSuperframe
      <2>2. 11..(Received(bitrate) - 1) \subseteq Nat
          <3> SUFFICES ASSUME NEW x \in 11..(Received(bitrate) - 1) PROVE x \in Nat
              OBVIOUS
          <3> QED OBVIOUS
      <2> QED BY <1>1, <2>1, <2>2, Zenon
  <1>3. TypeOK' BY <1>1, <1>2 DEF SuperFrameInv, TypeOK, numAUs
  <1>4. AusWithin' BY <1>1 DEF SuperFrameInv, AusWithin, numAUs, m_superFrameSize
  <1>5. forwarded = << >> BY <1>1 DEF SuperFrameInv, ForwardedWithin
  <1> QED BY <1>1, <1>3, <1>4, <1>5 DEF SuperFrameInv, ForwardedWithin

\* What is cut off for a PAD that fits leaves at least the checksum.
LEMMA PadCut ==
    ASSUME NEW p \in PadSizes, NEW len \in Nat, PadFits(p, len)
    PROVE  PadSpan(p) \in Nat /\ PadSpan(p) + 2 <= len
  <1>1. p \in 0..510 BY PadSizesAssumption, Zenon
  <1>2. CASE p < 255 BY <1>1, <1>2 DEF PadFits, PadHeader, PadSpan
  <1>3. CASE ~(p < 255)
      <2>1. p % 256 \in Nat /\ p % 256 <= p BY <1>1
      <2> QED BY <1>1, <1>3, <2>1 DEF PadFits, PadHeader, PadSpan
  <1> QED BY <1>2, <1>3

\* An AU that is passed over, or forwarded without its PAD.
LEMMA ExamineAuInv ==
    ASSUME SuperFrameInv, ExamineAu
    PROVE  SuperFrameInv'
  <1> DEFINE i == examined + 1
             a == auStarts[i]
             len == auLengths[i]
             cut == IF pad' = << >> THEN 0 ELSE PadSpan(pad'[1])
  <1>1. /\ m_dabSuperFrameCount = 5 /\ m_dabSuperFrameCount' = 5
        /\ superFrameDataSize >= m_superFrameSize
        /\ examined < numAUs /\ examined' = i
        /\ bitrate' = bitrate /\ leftFirst' = leftFirst /\ wrong' = wrong
        /\ sent' = sent /\ burst' = burst
      BY DEF ExamineAu, buildVars
  <1>2. /\ Len(auStarts) = numAUs + 1 /\ numAUs \in {2, 3, 4, 6} /\ numAUs = Len(auLengths)
        /\ auStarts \in Seq(Uint16) /\ auLengths \in Seq(Uint16) /\ examined \in 0..numAUs
      BY <1>1 DEF SuperFrameInv, TypeOK, numAUs
  <1>3. i \in 1..numAUs /\ i \in 1..Len(auStarts) /\ i \in 1..Len(auLengths) BY <1>1, <1>2
  <1>4. a \in Uint16 /\ len \in Uint16 BY <1>2, <1>3, ElementOf
  <1>5. m_superFrameSize \in Uint16 BY Sizes DEF SuperFrameInv, TypeOK, m_superFrameSize
  <1>6. superFrameDataSize' = superFrameDataSize /\ m_superFrameSize' = m_superFrameSize
      BY <1>1 DEF superFrameDataSize, m_superFrameSize
  <1>7. \A j \in i..numAUs : auStarts[j] + auLengths[j] <= m_superFrameSize
      BY <1>1 DEF SuperFrameInv, AusWithin
  <1>8. a + len <= m_superFrameSize
      <2>1. i \in i..numAUs BY <1>2, <1>3
      <2> QED BY <1>7, <2>1
  <1>9. CASE ~CRC_CCITT_CHECK(a, len)
      <2>1. pad' = << >> /\ forwarded' = << >> /\ auStarts' = auStarts /\ auLengths' = auLengths
          BY <1>9 DEF ExamineAu
      <2>2. TypeOK' BY <1>1, <1>3, <2>1 DEF SuperFrameInv, TypeOK, numAUs
      <2>3. AusWithin'
          <3>1. \A j \in (i + 1)..numAUs : auStarts[j] + auLengths[j] <= m_superFrameSize
              BY <1>2, <1>3, <1>7
          <3> QED BY <1>1, <1>6, <2>1, <3>1 DEF AusWithin, numAUs
      <2> QED BY <2>1, <2>2, <2>3 DEF SuperFrameInv, ForwardedWithin
  <1>10. CASE CRC_CCITT_CHECK(a, len)
      <2>1. /\ pad' \in {<< >>} \cup {<<p>> : p \in {q \in PadSizes : PadFits(q, len)}}
            /\ auStarts' = [auStarts EXCEPT ![i] = a + cut]
            /\ auLengths' = [auLengths EXCEPT ![i] = (len + 65536 - cut) % 65536]
            /\ forwarded' = [from |-> auStarts'[i], to |-> auStarts'[i] + auLengths'[i] - 2]
          BY <1>10 DEF ExamineAu
      <2>2. len >= 2 BY <1>10 DEF CRC_CCITT_CHECK
      <2>3. pad' = << >> \/ \E p \in PadSizes : pad' = <<p>> /\ PadFits(p, len) BY <2>1
      <2>4. len \in Nat /\ a \in Nat /\ m_superFrameSize \in Nat /\ m_superFrameSize <= 65535
          BY <1>4, <1>5, Numbers
      <2>5. cut \in Nat /\ cut + 2 <= len
          <3>1. CASE pad' = << >> BY <2>2, <2>4, <3>1
          <3>2. ASSUME NEW p \in PadSizes, pad' = <<p>>, PadFits(p, len)
                PROVE  cut \in Nat /\ cut + 2 <= len
              <4>1. cut = PadSpan(p) BY <3>2
              <4>2. PadSpan(p) \in Nat /\ PadSpan(p) + 2 <= len BY <2>4, <3>2, PadCut
              <4> QED BY <4>1, <4>2
          <3> QED BY <2>3, <3>1, <3>2
      <2> HIDE DEF a, len, cut
      <2>6. cut \in Uint16 /\ a + cut \in Uint16 BY <1>8, <2>4, <2>5, Numbers
      <2> DEFINE rest == (len + 65536 - cut) % 65536
      <2>7. rest \in Uint16 /\ cut + rest = len
          <3>1. len \in Uint16 /\ cut \in Uint16 /\ cut <= len
              BY <1>4, <2>4, <2>5, <2>6
          <3> QED BY <3>1, Difference
      <2>8. /\ auStarts' = [auStarts EXCEPT ![i] = a + cut]
            /\ auLengths' = [auLengths EXCEPT ![i] = rest]
          BY <2>1
      <2> HIDE DEF rest, i
      <2>9. /\ auStarts' \in Seq(Uint16) /\ Len(auStarts') = Len(auStarts)
            /\ auStarts'[i] = a + cut /\ \A j \in 1..Len(auStarts) : j # i => auStarts'[j] = auStarts[j]
          BY <1>2, <1>3, <2>6, <2>8
      <2>10. /\ auLengths' \in Seq(Uint16) /\ Len(auLengths') = Len(auLengths)
             /\ auLengths'[i] = rest
              /\ \A j \in 1..Len(auLengths) : j # i => auLengths'[j] = auLengths[j]
          BY <1>2, <1>3, <2>7, <2>8
      <2>11. forwarded' = [from |-> a + cut, to |-> a + cut + rest - 2]
          BY <2>1, <2>9, <2>10
      <2>12. rest \in Nat BY <2>7, Numbers
      <2>13. a + cut + rest - 2 = a + len - 2 BY <2>4, <2>5, <2>7, <2>12
      <2>14. a + cut <= a + len - 2 /\ a + len - 2 < m_superFrameSize /\ a + len - 2 \in Nat
          BY <1>8, <2>2, <2>4, <2>5
      <2>15. a + len - 2 \in Uint16 BY <2>4, <2>14, Numbers
      <2>16. forwarded' \in [from : Uint16, to : Uint16] BY <2>6, <2>11, <2>13, <2>15
      <2>17. pad' = << >> \/ pad' \in {<<p>> : p \in PadSizes} BY <2>3
      <2>18. TypeOK'
          BY <1>1, <1>2, <1>3, <2>9, <2>10, <2>16, <2>17 DEF SuperFrameInv, TypeOK, numAUs
      <2>19. AusWithin'
          <3>1. ASSUME NEW j \in (i + 1)..numAUs
                PROVE  auStarts'[j] + auLengths'[j] <= m_superFrameSize
              <4>1. /\ j \in i..numAUs /\ j # i
                    /\ j \in 1..Len(auStarts) /\ j \in 1..Len(auLengths)
                  BY <1>2, <1>3
              <4>2. auStarts'[j] = auStarts[j] /\ auLengths'[j] = auLengths[j]
                  BY <2>9, <2>10, <4>1
              <4> QED BY <1>7, <4>1, <4>2
          <3>2. numAUs' = numAUs BY <2>10 DEF numAUs
          <3> QED BY <1>1, <1>6, <3>1, <3>2 DEF AusWithin
      <2>20. ForwardedWithin'
          <3>1. forwarded'.from <= forwarded'.to /\ forwarded'.to < m_superFrameSize
              BY <2>11, <2>13, <2>14
          <3>2. superFrameDataSize \in Nat
              <4>1. FrameSize(bitrate) \in Nat
                  BY Sizes, Numbers DEF SuperFrameInv, TypeOK
              <4> QED BY <1>1, <4>1 DEF superFrameDataSize
          <3>3. forwarded'.to \in Nat BY <2>11, <2>13, <2>14
          <3> QED BY <1>1, <1>6, <2>4, <3>1, <3>2, <3>3 DEF ForwardedWithin
      <2> QED BY <2>18, <2>19, <2>20 DEF SuperFrameInv
  <1> QED BY <1>9, <1>10

\* The end of a super frame.
LEMMA EndOfSuperFrameInv ==
    ASSUME SuperFrameInv, EndOfSuperFrame
    PROVE  SuperFrameInv'
  <1>1. /\ m_dabSuperFrameCount' = 0 /\ forwarded' = << >> /\ sent' = << >> /\ pad' = << >>
        /\ burst' = NoBurst
        /\ bitrate' = bitrate /\ leftFirst' = leftFirst /\ auStarts' = auStarts
        /\ auLengths' = auLengths /\ wrong' = wrong /\ examined' = examined
      BY DEF EndOfSuperFrame, buildVars
  <1>2. sent' \in Seq(Uint16) BY <1>1
  <1>3. TypeOK' BY <1>1, <1>2 DEF SuperFrameInv, TypeOK, numAUs
  <1> QED BY <1>1, <1>3 DEF SuperFrameInv, AusWithin, ForwardedWithin

\* Every step preserves the invariant.
LEMMA SuperFrameInductive == SuperFrameInv /\ [Next]_vars => SuperFrameInv'
  <1> SUFFICES ASSUME SuperFrameInv, [Next]_vars PROVE SuperFrameInv'
      OBVIOUS
  <1>1. ASSUME NEW dacRate \in BOOLEAN, NEW sbr \in BOOLEAN, NEW layout \in Layouts,
               FirstFrame(dacRate, sbr, layout)
        PROVE  SuperFrameInv'
      BY <1>1, FirstFrameInv
  <1>2. ASSUME NEW b \in Bursts, LastFrame(b) PROVE SuperFrameInv'
      BY <1>2, LastFrameInv
  <1>3. CASE UNCHANGED vars
      BY <1>3 DEF vars, buildVars, airVars, SuperFrameInv, TypeOK, AusWithin, ForwardedWithin,
                  numAUs, m_superFrameSize, superFrameDataSize
  <1> QED BY <1>1, <1>2, <1>3, NextFrameInv, ExamineAuInv, EndOfSuperFrameInv DEF Next

\* The first state.
LEMMA SuperFrameInitially == Init => SuperFrameInv
  <1> SUFFICES ASSUME Init PROVE SuperFrameInv
      OBVIOUS
  <1>1. << >> \in Seq(Uint16) /\ Len(<< >>) = 0 OBVIOUS
  <1>2. TypeOK BY <1>1 DEF Init, TypeOK, numAUs
  <1> QED BY <1>2 DEF Init, SuperFrameInv, AusWithin, ForwardedWithin

\* For every bit rate, whatever starts are sent and PAD is in the AUs: the numbers keep
\* their widths, and neither an AU that is checked nor one that is forwarded reaches
\* beyond the bytes of the super frame.
THEOREM SuperFrameSafe == Spec => [](TypeOK /\ InBounds)
  <1>1. SuperFrameInv => TypeOK /\ InBounds
      <2> SUFFICES ASSUME SuperFrameInv PROVE InBounds
          BY DEF SuperFrameInv
      <2>1. ASSUME m_dabSuperFrameCount = 5, superFrameDataSize >= m_superFrameSize,
                   NEW i \in (examined + 1)..numAUs
            PROVE  auStarts[i] + auLengths[i] <= superFrameDataSize
          <3>1. auStarts[i] + auLengths[i] <= m_superFrameSize
              BY <2>1 DEF SuperFrameInv, AusWithin
          <3>2. /\ Len(auStarts) = numAUs + 1 /\ numAUs \in {2, 3, 4, 6}
                /\ numAUs = Len(auLengths) /\ examined \in 0..numAUs
                /\ auStarts \in Seq(Uint16) /\ auLengths \in Seq(Uint16)
              BY <2>1 DEF SuperFrameInv, TypeOK, numAUs
          <3>3. i \in 1..Len(auStarts) /\ i \in 1..Len(auLengths) BY <3>2
          <3>4. auStarts[i] \in Nat /\ auLengths[i] \in Nat
              BY <3>2, <3>3, ElementOf, Numbers
          <3>5. m_superFrameSize \in Nat /\ FrameSize(bitrate) \in Nat
              BY Sizes, Numbers DEF SuperFrameInv, TypeOK, m_superFrameSize
          <3>6. superFrameDataSize \in Nat BY <2>1, <3>5 DEF superFrameDataSize
          <3> QED BY <2>1, <3>1, <3>4, <3>5, <3>6
      <2> QED BY <2>1 DEF InBounds, SuperFrameInv, ForwardedWithin
  <1> QED BY <1>1, SuperFrameInitially, SuperFrameInductive, PTL DEF Spec

\* The part of it that the runs check by itself: whatever processData meets, sizes, counts
\* and starts keep the widths the code gives them.
THEOREM TypeCorrect == Spec => []TypeOK
  BY SuperFrameSafe, PTL

-----------------------------------------------------------------------------
(* The starts as they are read. *)

\* The quotient and the remainder, where the dividend shows them.
LEMMA ThreeParts ==
    ASSUME NEW m \in Nat, NEW r \in 0..2
    PROVE  (3 * m + r) \div 3 = m /\ (3 * m + r) % 3 = r
  OBVIOUS

\* The three half bytes of a start are its own.
LEMMA Nibbles ==
    ASSUME NEW s \in Seq(Start), NEW i \in 1..Len(s), NEW k \in Nat, k = 3 * (i - 1)
    PROVE  /\ SentNibble(s, k) = (s[i] \div 256) % 16
           /\ SentNibble(s, k + 1) = (s[i] \div 16) % 16
           /\ SentNibble(s, k + 2) = s[i] % 16
  <1>1. s[i] \in Nat
    BY ElementOf, Numbers
  <1>2. ASSUME NEW r \in 0..2
        PROVE  SentNibble(s, k + r) = (s[i] \div <<256, 16, 1>>[r + 1]) % 16
    <2>1. i - 1 \in Nat /\ k + r = 3 * (i - 1) + r
      OBVIOUS
    <2>2. (k + r) \div 3 = i - 1 /\ (k + r) % 3 = r
      BY <2>1, ThreeParts
    <2>3. (k + r) \div 3 + 1 = i
      BY <2>2
    <2> QED  BY <2>2, <2>3 DEF SentNibble
  <1>3. SentNibble(s, k + 0) = (s[i] \div 256) % 16
    BY <1>2
  <1>4. SentNibble(s, k + 1) = (s[i] \div 16) % 16
    BY <1>2
  <1>5. SentNibble(s, k + 2) = (s[i] \div 1) % 16
    BY <1>2
  <1>6. s[i] \div 1 = s[i] /\ k + 0 = k
    BY <1>1
  <1> QED  BY <1>3, <1>4, <1>5, <1>6

\* A number of twelve bits is made of its half bytes.
LEMMA TwelveBits ==
    \A v \in Start : ((v \div 256) % 16) * 256 + ((v \div 16) % 16) * 16 + (v % 16) = v
  BY DEF Start

\* The header is read as it is written where the left operand comes first.
LEMMA AuStartIsSent ==
    ASSUME NEW s \in Seq(Start), NEW i \in 1..Len(s)
    PROVE  AuStart(s, i, TRUE) = s[i]
  <1> DEFINE k == 3 * (i - 1)
             h == SentNibble(s, k)
             m == SentNibble(s, k + 1)
             l == SentNibble(s, k + 2)
             before == SentNibble(s, k - 1)
             after == SentNibble(s, k + 3)
  <1>1. k \in Nat /\ FrameIter(i) = k \div 2
    BY DEF FrameIter
  <1>2. h \in 0..15 /\ m \in 0..15 /\ l \in 0..15 /\ after \in 0..15
    <2>1. k + 1 \in Nat /\ k + 2 \in Nat /\ k + 3 \in Nat
      BY <1>1
    <2> HIDE DEF k
    <2> QED  BY <1>1, <2>1, NibbleType
  <1>3. s[i] \in Start
    BY ElementOf
  <1>4. h * 256 + m * 16 + l = s[i]
    BY <1>1, <1>3, Nibbles, TwelveBits
  <1>5. CASE i % 2 = 1
    <2>1. 2 * FrameIter(i) = k
      BY <1>1, <1>5
    <2>2. 2 * (FrameIter(i) + 1) = k + 2
      BY <1>1, <2>1
    <2>3. HeaderByte(s, FrameIter(i)) = 16 * h + m
      BY <2>1 DEF HeaderByte
    <2>4. HeaderByte(s, FrameIter(i) + 1) = 16 * l + after
      <3>1. k + 2 + 1 = k + 3
        BY <1>1
      <3> QED  BY <2>2, <3>1 DEF HeaderByte
    <2>5. AuStart(s, i, TRUE) = (16 * h + m) * 16 + (16 * l + after) \div 16
      BY <1>5, <2>3, <2>4 DEF AuStart
    <2> HIDE DEF h, m, l, after
    <2>6. (16 * h + m) * 16 + (16 * l + after) \div 16 = h * 256 + m * 16 + l
      <3>1. (16 * l + after) \div 16 = l
        BY <1>2
      <3> QED  BY <1>2, <3>1
    <2> QED  BY <1>4, <2>5, <2>6, Zenon
  <1>6. CASE i % 2 # 1
    <2>1. 2 * FrameIter(i) = k - 1 /\ k - 1 \in Nat
      BY <1>1, <1>6
    <2>2. 2 * (FrameIter(i) + 1) = k + 1
      BY <1>1, <2>1
    <2>3. HeaderByte(s, FrameIter(i)) = 16 * before + h
      <3>1. (k - 1) + 1 = k
        BY <1>1
      <3> QED  BY <2>1, <3>1 DEF HeaderByte
    <2>4. HeaderByte(s, FrameIter(i) + 1) = 16 * m + l
      <3>1. (k + 1) + 1 = k + 2
        BY <1>1
      <3> QED  BY <2>2, <3>1 DEF HeaderByte
    <2>5. AuStart(s, i, TRUE) = ((16 * before + h) % 16) * 256 + (16 * m + l)
      BY <1>6, <2>3, <2>4 DEF AuStart
    <2>6. before \in 0..15
      BY <2>1, NibbleType
    <2> HIDE DEF h, m, l, before
    <2>7. ((16 * before + h) % 16) * 256 + (16 * m + l) = h * 256 + m * 16 + l
      <3>1. (16 * before + h) % 16 = h
        BY <1>2, <2>6
      <3> QED  BY <1>2, <3>1
    <2> QED  BY <1>4, <2>5, <2>7, Zenon
  <1> QED  BY <1>5, <1>6

\* What processData reads is what was sent.
LEMMA ReadsSent ==
    ASSUME NEW n \in {2, 3, 4, 6}, NEW layout \in Layouts, Len(layout) = n - 1, LeftToRight
    PROVE  StartsRead(n, layout) = <<FirstStart(n)>> \o layout
  <1>1. layout \in Seq(Start)
    BY LayoutsAssumption, Zenon
  <1>2. ASSUME NEW i \in 1..(n - 1)
        PROVE  AuStart(layout, i, leftFirst[i % 2]) = layout[i]
    <2>1. leftFirst[i % 2] = TRUE
      <3>1. i % 2 = 0 \/ i % 2 = 1
        OBVIOUS
      <3> QED  BY <3>1 DEF LeftToRight
    <2> QED  BY <1>1, <2>1, AuStartIsSent
  <1>3. [i \in 1..(n - 1) |-> AuStart(layout, i, leftFirst[i % 2])] = [i \in 1..(n - 1) |-> layout[i]]
    BY <1>2, Zenon
  <1>4. layout = [i \in 1..(n - 1) |-> layout[i]]
    BY <1>1
  <1> QED  BY <1>3, <1>4 DEF StartsRead

-----------------------------------------------------------------------------
(* The correction of bursts. *)

\* A set of five has no more than five elements.
LEMMA UpToFive ==
    ASSUME NEW a, NEW b, NEW c, NEW d, NEW e, NEW S \in SUBSET {a, b, c, d, e}
    PROVE  IsFiniteSet(S) /\ Cardinality(S) <= 5
  <1> DEFINE A == {a}
             B == A \cup {b}
             C == B \cup {c}
             D == C \cup {d}
             E == D \cup {e}
  <1>2. IsFiniteSet(A) /\ Cardinality(A) = 1
    BY FS_Singleton
  <1> HIDE DEF A
  <1>3. IsFiniteSet(B) /\ Cardinality(B) \in 1..2
    BY <1>2, FS_AddElement
  <1> HIDE DEF B
  <1>4. IsFiniteSet(C) /\ Cardinality(C) \in 1..3
    BY <1>3, FS_AddElement
  <1> HIDE DEF C
  <1>5. IsFiniteSet(D) /\ Cardinality(D) \in 1..4
    BY <1>4, FS_AddElement
  <1> HIDE DEF D
  <1>6. IsFiniteSet(E) /\ Cardinality(E) \in 1..5
    BY <1>5, FS_AddElement
  <1>7. E = {a, b, c, d, e}
    BY DEF A, B, C, D, E
  <1> HIDE DEF E
  <1>8. S \in SUBSET E
    BY <1>7
  <1>9. IsFiniteSet(S) /\ Cardinality(S) <= Cardinality(E)
    BY <1>6, <1>8, FS_Subset
  <1>10. Cardinality(S) \in Nat /\ Cardinality(E) \in Nat
    BY <1>6, <1>9, FS_CardinalityType
  <1> QED  BY <1>6, <1>9, <1>10

\* Multiples of s, by their distance.
LEMMA ByDistance ==
    ASSUME NEW s \in Nat \ {0}, NEW p \in Nat, NEW q \in Nat, p * s < q * s
    PROVE  p < q
  <1>1. CASE p < q
    BY <1>1
  <1>2. CASE p >= q
    <2>1. PICK d \in Nat : p = q + d
      BY <1>2
    <2>2. p * s = q * s + d * s
      BY <2>1
    <2>3. d * s \in Nat /\ q * s \in Nat
      OBVIOUS
    <2> QED  BY <2>2, <2>3
  <1> QED  BY <1>1, <1>2

\* A run of bytes has at most five in a packet if it is no longer than five for each.
LEMMA Spread ==
    ASSUME NEW s \in Nat \ {0}, NEW f \in Nat, NEW l \in Nat, l <= 5 * s, NEW i \in 0..(s - 1)
    PROVE  Cardinality((f..(f + l - 1)) \cap Packet(i, s)) <= 5
  <1> DEFINE t == f + s - 1 - i
             q == t \div s
             S == (f..(f + l - 1)) \cap Packet(i, s)
  <1>1. t \in Nat
    OBVIOUS
  <1> HIDE DEF t
  <1>2. q \in Nat /\ t % s \in 0..(s - 1) /\ t = s * q + (t % s)
    BY <1>1
  <1> HIDE DEF q
  <1>3. q * s \in Nat /\ s * q = q * s
    BY <1>2
  <1>4. q * s <= t /\ t < q * s + s
    BY <1>1, <1>2, <1>3
  <1>5. ASSUME NEW x \in S
        PROVE  x \in {q * s + i, (q + 1) * s + i, (q + 2) * s + i, (q + 3) * s + i, (q + 4) * s + i}
    <2>1. PICK p \in 0..119 : x = p * s + i
      BY DEF Packet
    <2>2. x \in Nat /\ f <= x /\ x < f + l
      OBVIOUS
    <2>3. p \in Nat /\ p + 1 \in Nat /\ q + 5 \in Nat /\ p * s \in Nat
      BY <1>2
    <2>4. q * s < (p + 1) * s
      <3>1. (p + 1) * s = p * s + s
        BY <2>3
      <3> QED  BY <1>3, <1>4, <2>1, <2>2, <2>3, <3>1 DEF t
    <2>5. p * s < (q + 5) * s
      <3>1. (q + 5) * s = q * s + 5 * s
        BY <1>2
      <3>2. p * s + i < f + 5 * s
        BY <2>1, <2>2, <2>3
      <3> QED  BY <1>3, <1>4, <2>3, <3>1, <3>2 DEF t
    <2>6. q < p + 1
      BY <1>2, <2>3, <2>4, ByDistance
    <2>7. p < q + 5
      BY <1>2, <2>3, <2>5, ByDistance
    <2>8. p \in {q, q + 1, q + 2, q + 3, q + 4}
      BY <1>2, <2>3, <2>6, <2>7
    <2> QED  BY <2>1, <2>8
  <1> HIDE DEF S
  <1>6. S \in SUBSET {q * s + i, (q + 1) * s + i, (q + 2) * s + i, (q + 3) * s + i, (q + 4) * s + i}
    BY <1>5
  <1>7. Cardinality(S) <= 5
    BY <1>6, UpToFive
  <1> QED  BY <1>7 DEF S

\* What such a run has hit is right again, up to the last packet.
LEMMA Corrected ==
    ASSUME NEW len \in Nat, NEW b \in Nat \X Nat, b[2] <= 5 * SubchIndex(len),
           NEW x \in Nat, x < 120 * SubchIndex(len)
    PROVE  x \notin DecodeSuperframe(BytesOf(b), len)
  <1> DEFINE s == SubchIndex(len)
             i == x % s
             pos == x \div s
  <1>1. s \in Nat \ {0}
    BY DEF SubchIndex
  <1>2. b[1] \in Nat /\ b[2] \in Nat
    OBVIOUS
  <1>3. DecodeSuperframe(BytesOf(b), len) =
            BytesOf(b) \ UNION {Packet(j, s) :
                 j \in {k \in 0..(s - 1) : Cardinality(BytesOf(b) \cap Packet(k, s)) <= 5}}
    BY DEF DecodeSuperframe
  <1>4. b[2] <= 5 * s /\ x < 120 * s
    OBVIOUS
  <1> HIDE DEF s
  <1>5. pos \in Nat /\ i \in 0..(s - 1) /\ x = s * pos + i
    BY <1>1
  <1> HIDE DEF i, pos
  <1>6. pos \in 0..119
    <2>1. s * pos = pos * s /\ pos * s \in Nat
      BY <1>1, <1>5
    <2>2. pos * s < 120 * s
      BY <1>1, <1>4, <1>5, <2>1
    <2>3. pos < 120
      BY <1>1, <1>5, <2>2, ByDistance
    <2> QED  BY <1>5, <2>3
  <1>7. x \in Packet(i, s)
    <2>1. x = pos * s + i
      BY <1>1, <1>5
    <2> QED  BY <1>6, <2>1 DEF Packet
  <1>8. Cardinality(BytesOf(b) \cap Packet(i, s)) <= 5
    BY <1>1, <1>2, <1>4, <1>5, Spread DEF BytesOf
  <1> QED  BY <1>3, <1>5, <1>7, <1>8

\* A super frame that is long enough ends in the last packet or before it, even where
\* the sizes have wrapped around.
LEMMA InPackets ==
    ASSUME NEW b \in Bitrates, b % 8 = 0, SuperFrameSize(b) <= Received(b)
    PROVE  SuperFrameSize(b) <= 120 * SubchIndex(Received(b))
  <1>1. b \in Nat /\ b < 65536
    <2>1. b \in Uint16
      BY BitratesAssumption, Zenon
    <2> QED  BY <2>1 DEF Uint16
  <1> DEFINE k == b \div 8
             size == (k * 110) % 65536
             v == (k * 110) \div 65536
             frame == (b * 3) % 65536
             w == (b * 3) \div 65536
  <1>2. k \in Nat /\ b = 8 * k
    BY <1>1
  <1>3. /\ size \in Nat /\ v \in Nat /\ k * 110 = 65536 * v + size /\ size < 65536
        /\ frame \in Nat /\ w \in Nat /\ b * 3 = 65536 * w + frame /\ frame < 65536
    BY <1>1, <1>2
  <1>4. SuperFrameSize(b) = size /\ Received(b) = 5 * frame
    BY DEF SuperFrameSize, Received, FrameSize
  <1> HIDE DEF k, size, v, frame, w
  <1>5. 120 * SubchIndex(5 * frame) <= 5 * frame /\ 5 * frame < 120 * SubchIndex(5 * frame) + 120
    BY <1>3 DEF SubchIndex
  <1>6. w \in 0..2 /\ v \in 0..13
    BY <1>1, <1>2, <1>3
  <1> DEFINE s == SubchIndex(5 * frame)
  <1>7. s \in Nat
    BY <1>3 DEF SubchIndex
  <1> HIDE DEF s
  <1>8. 5 * frame = 120 * k - 327680 * w
    BY <1>2, <1>3
  <1>9. size <= 5 * frame => size <= 120 * s
    <2>1. 120 * s <= 5 * frame /\ 5 * frame < 120 * s + 120
      BY <1>5 DEF s
    <2>2. CASE w = 0
      BY <1>2, <1>3, <1>7, <1>8, <2>1, <2>2
    <2>3. CASE w = 1
      BY <1>2, <1>3, <1>6, <1>7, <1>8, <2>1, <2>3
    <2>4. CASE w = 2
      BY <1>2, <1>3, <1>6, <1>7, <1>8, <2>1, <2>4
    <2> QED  BY <1>6, <2>2, <2>3, <2>4
  <1> QED  BY <1>4, <1>9 DEF s

-----------------------------------------------------------------------------
(* What is forwarded is what was sent. *)

\* Each AU yet to be examined ends where the next begins, and, if the compiler does
\* what was meant, both are as they were sent.
StartsKept ==
    m_dabSuperFrameCount > 0 =>
        /\ Len(sent) = numAUs + 1
        /\ \A i \in (examined + 1)..numAUs : auStarts[i] + auLengths[i] = auStarts[i + 1]
        /\ LeftToRight => \A i \in (examined + 1)..(numAUs + 1) : auStarts[i] = sent[i]

\* A super frame is dropped whole only if its starts cannot be right.
DroppedWrong ==
    LeftToRight /\ m_dabSuperFrameCount = 0 /\ sent # << >> => ~Rising(sent)

\* What is wrong is what the correction has left of the burst.
WrongIsLeft ==
    /\ m_dabSuperFrameCount \in 1..4 => examined = 0
    /\ m_dabSuperFrameCount = 5 =>
           wrong = DecodeSuperframe(BytesOf(burst), Received(bitrate))

AirInv == StartsKept /\ DroppedWrong /\ WrongIsLeft /\ OnlySentAus /\ NothingLost

\* Starts that rise pass the sanity checks.
LEMMA RisingIsSane ==
    ASSUME NEW n \in {2, 3, 4, 6}, NEW s \in Seq(Uint16), Len(s) = n,
           NEW size \in Uint16, Rising(Append(s, size))
    PROVE  SanePrefix(s, size) = s
  <1> DEFINE all == Append(s, size)
  <1>1. Len(all) = n + 1 /\ all[n + 1] = size /\ \A i \in 1..n : all[i] = s[i]
    OBVIOUS
  <1>2. n \in 2..6
    OBVIOUS
  <1>3. ASSUME NEW i \in 2..n
        PROVE  s[i - 1] < s[i]
    <2>1. i - 1 \in 1..n /\ i \in 1..n
      BY <1>2
    <2>2. all[i - 1] < all[i]
      BY <1>1, <1>2 DEF Rising
    <2> QED  BY <1>1, <2>1, <2>2
  <1>4. s[n] <= size
    <2>1. all[n] <= all[n + 1]
      BY <1>1, <1>2 DEF Rising
    <2>2. n \in 1..n
      BY <1>2
    <2> QED  BY <1>1, <2>1, <2>2
  <1>5. \A i \in 1..n : s[i] \in Nat
    BY ElementOf, Numbers
  <1>6. size \in Nat
    BY Numbers
  <1>7. \A i \in 2..n : s[i] <= size
    <2>1. /\ 2 <= n => s[1] < s[2]
          /\ 3 <= n => s[2] < s[3]
          /\ 4 <= n => s[3] < s[4]
          /\ 5 <= n => s[4] < s[5]
          /\ 6 <= n => s[5] < s[6]
      <3>1. /\ 2 <= n => 2 \in 2..n
            /\ 3 <= n => 3 \in 2..n
            /\ 4 <= n => 4 \in 2..n
            /\ 5 <= n => 5 \in 2..n
            /\ 6 <= n => 6 \in 2..n
        BY <1>2
      <3> QED  BY <1>3, <3>1
    <2> QED  BY <1>2, <1>4, <1>5, <1>6, <2>1
  <1>8. \A i \in 2..n : ~Insane(s, i, size)
    <2> SUFFICES ASSUME NEW i \in 2..n
                 PROVE  ~Insane(s, i, size)
      OBVIOUS
    <2>1. i \in 1..n /\ i - 1 \in 1..n
      BY <1>2
    <2>2. s[i] \in Nat /\ s[i - 1] \in Nat /\ s[i - 1] < s[i] /\ s[i] <= size
      BY <1>3, <1>5, <1>7, <2>1
    <2> QED  BY <1>6, <2>2 DEF Insane
  <1>9. {i \in 2..Len(s) : Insane(s, i, size)} = {}
    BY <1>8
  <1> QED  BY <1>9 DEF SanePrefix

\* The first frame: either its starts are kept, or they were wrong as they were sent.
LEMMA FirstFrameAir ==
    ASSUME SuperFrameInv, AirInv, NEW dacRate \in BOOLEAN, NEW sbr \in BOOLEAN,
           NEW layout \in Layouts, FirstFrame(dacRate, sbr, layout)
    PROVE  AirInv'
  <1> DEFINE n == NumAUs(dacRate, sbr)
             size == m_superFrameSize
             read == StartsRead(n, layout)
             all == Append(read, size)
  <1>1. n \in {2, 3, 4, 6}
    BY DEF NumAUs
  <1>2. size \in Uint16
    BY Sizes DEF SuperFrameInv, TypeOK, m_superFrameSize
  <1>3. layout \in Seq(Uint16)
    <2>1. layout \in Seq(Start)
      BY LayoutsAssumption, Zenon
    <2>2. \A x \in Start : x \in Uint16
      BY DEF Start, Uint16
    <2> QED  BY <2>1, <2>2, SeqOver
  <1>4. FirstStart(n) \in Uint16
    BY <1>1 DEF FirstStart, Uint16
  <1>5. read \in Seq(Uint16) /\ Len(read) = n
    BY <1>1, StartsReadType DEF SuperFrameInv, TypeOK
  <1>6. /\ m_dabSuperFrameCount = 0 /\ Len(layout) = n - 1
        /\ sent' = <<FirstStart(n)>> \o layout \o <<size>>
        /\ wrong' = {} /\ examined' = 0
        /\ leftFirst' = leftFirst /\ forwarded' = forwarded
        /\ IF Len(SanePrefix(read, size)) = n
           THEN /\ auStarts' = Append(SanePrefix(read, size), size)
                /\ auLengths' = Lengths(auStarts')
                /\ m_dabSuperFrameCount' = 1
           ELSE m_dabSuperFrameCount' = m_dabSuperFrameCount
    BY DEF FirstFrame, buildVars
  <1>7. LeftToRight' <=> LeftToRight
    BY <1>6 DEF LeftToRight
  <1>8. ASSUME LeftToRight
        PROVE  sent' = all
    <2>1. read = <<FirstStart(n)>> \o layout
      BY <1>1, <1>6, <1>8, ReadsSent
    <2> HIDE DEF read, n, size
    <2>2. (<<FirstStart(n)>> \o layout) \o <<size>> = Append(<<FirstStart(n)>> \o layout, size)
      BY <1>2, <1>3, <1>4
    <2> QED  BY <1>6, <2>1, <2>2
  <1>9. Len(sent') = n + 1
    <2> HIDE DEF n, size
    <2> QED  BY <1>1, <1>2, <1>3, <1>4, <1>6
  <1> HIDE DEF n, read, size
  <1>10. CASE Len(SanePrefix(read, size)) = n
    <2>1. /\ SanePrefix(read, size) = read
          /\ Len(all) = n + 1 /\ Len(Lengths(all)) = n
          /\ \A i \in 1..n : /\ all[i] + Lengths(all)[i] = all[i + 1]
                            /\ all[i] + Lengths(all)[i] <= size
      BY <1>1, <1>2, <1>5, <1>10, Accepted
    <2>2. auStarts' = all /\ auLengths' = Lengths(all) /\ m_dabSuperFrameCount' = 1
      BY <1>6, <1>10, <2>1
    <2> HIDE DEF all
    <2>3. numAUs' = n
      BY <2>1, <2>2 DEF numAUs
    <2>4. StartsKept'
      <3>1. (examined' + 1)..numAUs' = 1..n
        BY <1>1, <1>6, <2>3
      <3>2. LeftToRight' => auStarts' = sent'
        BY <1>7, <1>8, <2>2
      <3> QED  BY <1>9, <2>1, <2>2, <2>3, <3>1, <3>2 DEF StartsKept
    <2> QED
      BY <1>6, <2>2, <2>4
      DEF AirInv, DroppedWrong, WrongIsLeft, OnlySentAus, NothingLost, SuperFrameInv, ForwardedWithin
  <1>11. CASE Len(SanePrefix(read, size)) # n
    <2>1. m_dabSuperFrameCount' = 0
      BY <1>6, <1>11
    <2>2. ASSUME LeftToRight
          PROVE  ~Rising(sent')
      <3>1. SUFFICES ASSUME Rising(all)
                     PROVE  FALSE
        BY <1>8, <2>2
      <3>2. SanePrefix(read, size) = read
        BY <1>1, <1>2, <1>5, <3>1, RisingIsSane
      <3> QED  BY <1>5, <1>11, <3>2
    <2>3. DroppedWrong'
      BY <1>7, <2>2 DEF DroppedWrong
    <2> QED
      BY <1>6, <2>1, <2>3
      DEF AirInv, StartsKept, WrongIsLeft, OnlySentAus, NothingLost, SuperFrameInv, ForwardedWithin
  <1> QED  BY <1>10, <1>11

\* A frame between the first and the last.
LEMMA NextFrameAir ==
    ASSUME SuperFrameInv, AirInv, NextFrame
    PROVE  AirInv'
  <1>1. /\ m_dabSuperFrameCount \in 1..3 /\ m_dabSuperFrameCount' = m_dabSuperFrameCount + 1
        /\ leftFirst' = leftFirst /\ auStarts' = auStarts /\ auLengths' = auLengths
        /\ examined' = examined /\ forwarded' = forwarded /\ sent' = sent
    BY DEF NextFrame, buildVars, airVars
  <1>2. m_dabSuperFrameCount > 0 /\ m_dabSuperFrameCount \in 1..4 /\ m_dabSuperFrameCount' \in 2..4
    BY <1>1
  <1>3. forwarded = << >> /\ examined = 0
    BY <1>1, <1>2 DEF SuperFrameInv, ForwardedWithin, AirInv, WrongIsLeft
  <1>4. StartsKept'
    BY <1>1, <1>2 DEF AirInv, StartsKept, numAUs, LeftToRight
  <1>5. WrongIsLeft'
    BY <1>1, <1>2, <1>3 DEF WrongIsLeft
  <1> QED  BY <1>1, <1>2, <1>3, <1>4, <1>5 DEF AirInv, DroppedWrong, OnlySentAus, NothingLost

\* The last frame, with the correction.
LEMMA LastFrameAir ==
    ASSUME SuperFrameInv, AirInv, NEW b \in Bursts, LastFrame(b)
    PROVE  AirInv'
  <1>1. /\ m_dabSuperFrameCount = 4 /\ m_dabSuperFrameCount' = 5
        /\ burst' = b /\ wrong' = DecodeSuperframe(BytesOf(b), Received(bitrate))
        /\ bitrate' = bitrate /\ leftFirst' = leftFirst /\ auStarts' = auStarts
        /\ auLengths' = auLengths /\ examined' = examined
        /\ forwarded' = forwarded /\ sent' = sent
    BY DEF LastFrame, buildVars
  <1>2. forwarded = << >> /\ examined = 0
    BY <1>1 DEF SuperFrameInv, ForwardedWithin, AirInv, WrongIsLeft
  <1>3. StartsKept'
    BY <1>1 DEF AirInv, StartsKept, numAUs, LeftToRight
  <1>4. WrongIsLeft'
    BY <1>1 DEF WrongIsLeft
  <1> QED  BY <1>1, <1>2, <1>3, <1>4 DEF AirInv, DroppedWrong, OnlySentAus, NothingLost

\* A PAD is cut off but for what padDataLen leaves of it.
LEMMA PadCutIs ==
    ASSUME NEW p \in PadSizes
    PROVE  /\ PadSpan(p) + PadLeft(p) = PadHeader(p) + p
           /\ PadSpan(p) \in Nat /\ PadLeft(p) \in Nat /\ PadHeader(p) \in Nat /\ p \in Nat
  <1>1. p \in 0..510
    BY PadSizesAssumption
  <1>2. CASE p < 255
    BY <1>1, <1>2 DEF PadSpan, PadHeader, PadLeft
  <1>3. CASE p = 255
    BY <1>3 DEF PadSpan, PadHeader, PadLeft
  <1>4. CASE p > 255
    <2>1. p % 256 = p - 256
      BY <1>1, <1>4
    <2> QED  BY <1>1, <1>4, <2>1 DEF PadSpan, PadHeader, PadLeft
  <1> QED  BY <1>1, <1>2, <1>3, <1>4

\* An AU: it is one that was sent, and if it is lost, that is the burst's fault.
LEMMA ExamineAuAir ==
    ASSUME SuperFrameInv, AirInv, ExamineAu
    PROVE  AirInv'
  <1> DEFINE i == examined + 1
             a == auStarts[i]
             len == auLengths[i]
             cut == IF pad' = << >> THEN 0 ELSE PadSpan(pad'[1])
  <1>1. /\ m_dabSuperFrameCount = 5 /\ m_dabSuperFrameCount' = 5
        /\ superFrameDataSize >= m_superFrameSize
        /\ examined < numAUs /\ examined' = i
        /\ bitrate' = bitrate /\ leftFirst' = leftFirst /\ wrong' = wrong
        /\ sent' = sent /\ burst' = burst
    BY DEF ExamineAu, buildVars
  <1>2. /\ Len(auStarts) = numAUs + 1 /\ numAUs \in {2, 3, 4, 6} /\ numAUs = Len(auLengths)
        /\ auStarts \in Seq(Uint16) /\ auLengths \in Seq(Uint16) /\ examined \in 0..numAUs
        /\ sent \in Seq(Uint16) /\ Len(sent) = numAUs + 1
    BY <1>1 DEF SuperFrameInv, TypeOK, numAUs, AirInv, StartsKept
  <1>3. i \in 1..numAUs /\ i \in 1..Len(auStarts) /\ i \in 1..Len(auLengths) /\ i + 1 \in 1..(numAUs + 1)
    BY <1>1, <1>2
  <1>4. a \in Nat /\ len \in Nat /\ len <= 65535
    BY <1>2, <1>3, ElementOf, Numbers
  <1>5. a + len = auStarts[i + 1] /\ a + len <= m_superFrameSize
    <2>1. i \in i..numAUs
      BY <1>2, <1>3
    <2> QED  BY <1>1, <2>1 DEF AirInv, StartsKept, SuperFrameInv, AusWithin
  <1>6. ASSUME LeftToRight
        PROVE  a = sent[i] /\ a + len = sent[i + 1]
    <2>1. i \in i..(numAUs + 1) /\ i + 1 \in i..(numAUs + 1)
      BY <1>2, <1>3
    <2> QED  BY <1>1, <1>5, <1>6, <2>1 DEF AirInv, StartsKept
  <1>7. LeftToRight' <=> LeftToRight
    BY <1>1 DEF LeftToRight
  <1>8. WrongIsLeft'
    BY <1>1 DEF AirInv, WrongIsLeft
  <1>9. /\ \A j \in 1..(numAUs + 1) : j # i => auStarts'[j] = auStarts[j]
        /\ \A j \in 1..numAUs : j # i => auLengths'[j] = auLengths[j]
        /\ Len(auLengths') = Len(auLengths)
    <2>1. CASE CRC_CCITT_CHECK(a, len)
      <3>1. /\ auStarts' = [auStarts EXCEPT ![i] = a + cut]
            /\ auLengths' = [auLengths EXCEPT ![i] = (len + 65536 - cut) % 65536]
        BY <2>1 DEF ExamineAu
      <3> HIDE DEF a, len, cut, i
      <3> QED  BY <1>2, <1>3, <3>1
    <2>2. CASE ~CRC_CCITT_CHECK(a, len)
      <3>1. auStarts' = auStarts /\ auLengths' = auLengths
        BY <2>2 DEF ExamineAu
      <3> QED  BY <3>1
    <2> QED  BY <2>1, <2>2
  <1>10. StartsKept'
    <2>1. numAUs' = numAUs
      BY <1>9 DEF numAUs
    <2>2. ASSUME NEW j \in (i + 1)..numAUs
          PROVE  auStarts'[j] + auLengths'[j] = auStarts'[j + 1]
      <3>1. /\ j \in i..numAUs /\ j # i /\ j + 1 # i
            /\ j \in 1..numAUs /\ j \in 1..(numAUs + 1) /\ j + 1 \in 1..(numAUs + 1)
        BY <1>2, <1>3
      <3>2. auStarts[j] + auLengths[j] = auStarts[j + 1]
        BY <1>1, <3>1 DEF AirInv, StartsKept
      <3> QED  BY <1>9, <3>1, <3>2
    <2>3. ASSUME LeftToRight, NEW j \in (i + 1)..(numAUs + 1)
          PROVE  auStarts'[j] = sent[j]
      <3>1. j \in i..(numAUs + 1) /\ j # i /\ j \in 1..(numAUs + 1)
        BY <1>2, <1>3
      <3>2. auStarts[j] = sent[j]
        BY <1>1, <2>3, <3>1 DEF AirInv, StartsKept
      <3> QED  BY <1>9, <3>1, <3>2
    <2> HIDE DEF i
    <2> QED  BY <1>1, <1>2, <1>7, <2>1, <2>2, <2>3 DEF StartsKept
  <1>11. OnlySentAus'
    <2> SUFFICES ASSUME forwarded' # << >>
                 PROVE  /\ \E j \in 1..(Len(sent) - 1) :
                               /\ LeftToRight => j = i
                               /\ forwarded'.to = sent[j + 1] - 2
                               /\ pad' = << >> => forwarded'.from = sent[j]
                               /\ \A p \in PadSizes :
                                      pad' = <<p>> =>
                                          forwarded'.from + PadLeft(p) = sent[j] + PadHeader(p) + p
                        /\ wrong \cap (forwarded'.from..(forwarded'.to - 1)) = {}
      BY <1>1, <1>7 DEF OnlySentAus
    <2>1. CRC_CCITT_CHECK(a, len)
      BY DEF ExamineAu
    <2>2. /\ pad' \in {<< >>} \cup {<<p>> : p \in {q \in PadSizes : PadFits(q, len)}}
          /\ auStarts' = [auStarts EXCEPT ![i] = a + cut]
          /\ auLengths' = [auLengths EXCEPT ![i] = (len + 65536 - cut) % 65536]
          /\ forwarded' = [from |-> auStarts'[i], to |-> auStarts'[i] + auLengths'[i] - 2]
      BY <2>1 DEF ExamineAu
    <2>3. /\ len >= 2 /\ wrong \cap (a..(a + len - 1)) = {}
          /\ \E j \in 1..(Len(sent) - 1) : a = sent[j] /\ a + len = sent[j + 1]
      BY <2>1 DEF CRC_CCITT_CHECK, SentAus
    <2>4. PICK j \in 1..(Len(sent) - 1) :
              (LeftToRight => j = i) /\ a = sent[j] /\ a + len = sent[j + 1]
      <3>1. CASE LeftToRight
        <4>1. i \in 1..(Len(sent) - 1)
          BY <1>2, <1>3
        <4> QED  BY <1>6, <3>1, <4>1
      <3>2. CASE ~LeftToRight
        BY <2>3, <3>2
      <3> QED  BY <3>1, <3>2
    <2>5. cut \in Nat /\ cut + 2 <= len
      <3>1. CASE pad' = << >>
        BY <1>4, <2>3, <3>1
      <3>2. ASSUME NEW p \in PadSizes, pad' = <<p>>, PadFits(p, len)
            PROVE  cut \in Nat /\ cut + 2 <= len
        <4>1. cut = PadSpan(p)
          BY <3>2
        <4>2. PadSpan(p) \in Nat /\ PadSpan(p) + 2 <= len
          BY <1>4, <3>2, PadCut
        <4> QED  BY <4>1, <4>2
      <3> QED  BY <2>2, <3>1, <3>2
    <2>6. (pad' = << >> => cut = 0) /\ \A p \in PadSizes : pad' = <<p>> => cut = PadSpan(p)
      <3>1. pad' = << >> => cut = 0
        OBVIOUS
      <3>2. ASSUME NEW p \in PadSizes, pad' = <<p>>
            PROVE  cut = PadSpan(p)
        BY <3>2
      <3> QED  BY <3>1, <3>2
    <2> DEFINE rest == (len + 65536 - cut) % 65536
    <2> HIDE DEF a, len, cut
    <2>7. rest \in Nat /\ cut + rest = len
      <3>1. len \in Uint16 /\ cut \in Uint16 /\ cut <= len
        BY <1>4, <2>5, Numbers
      <3>2. rest \in Uint16 /\ cut + rest = len
        BY <3>1, Difference
      <3> QED  BY <3>2, Numbers
    <2> HIDE DEF rest
    <2>8. auStarts'[i] = a + cut /\ auLengths'[i] = rest
      <3>1. auLengths' = [auLengths EXCEPT ![i] = rest]
        BY <2>2 DEF rest
      <3> HIDE DEF i
      <3> QED  BY <1>2, <1>3, <2>2, <3>1
    <2>9. forwarded' = [from |-> a + cut, to |-> a + len - 2]
      <3>1. a + cut + rest - 2 = a + len - 2
        BY <1>4, <2>5, <2>7
      <3>2. forwarded' = [from |-> a + cut, to |-> a + cut + rest - 2]
        BY <2>2, <2>8
      <3> QED  BY <3>1, <3>2
    <2>10. forwarded'.from = a + cut /\ forwarded'.to = a + len - 2
      BY <2>9
    <2>11. wrong \cap (forwarded'.from..(forwarded'.to - 1)) = {}
      <3>1. (a + cut)..((a + len - 2) - 1) \subseteq a..(a + len - 1)
        BY <1>4, <2>5
      <3> QED  BY <2>3, <2>10, <3>1
    <2>12. \A p \in PadSizes :
               pad' = <<p>> => forwarded'.from + PadLeft(p) = sent[j] + PadHeader(p) + p
      <3> SUFFICES ASSUME NEW p \in PadSizes, pad' = <<p>>
                   PROVE  forwarded'.from + PadLeft(p) = sent[j] + PadHeader(p) + p
        OBVIOUS
      <3>1. cut = PadSpan(p)
        BY <2>6
      <3>2. forwarded'.from = sent[j] + PadSpan(p) /\ sent[j] \in Nat
        BY <1>4, <2>4, <2>10, <3>1
      <3> QED  BY <3>2, PadCutIs
    <2>13. pad' = << >> => forwarded'.from = sent[j]
      BY <1>4, <2>4, <2>6, <2>10
    <2>14. forwarded'.to = sent[j + 1] - 2
      BY <1>4, <2>4, <2>10
    <2>15. LeftToRight => j = i
      BY <2>4, Zenon
    <2> HIDE DEF i
    <2> QED  BY <2>11, <2>12, <2>13, <2>14, <2>15, Zenon
  <1>12. NothingLost'
    <2> SUFFICES ASSUME LeftToRight, bitrate % 8 = 0, forwarded' = << >>, len >= 2
                 PROVE  /\ burst[2] > 5 * SubchIndex(superFrameDataSize)
                        /\ BytesOf(burst) \cap (a..(a + len - 1)) # {}
      <3>1. superFrameDataSize' = superFrameDataSize
        BY <1>1 DEF superFrameDataSize
      <3>2. (a + len) - a = len
        BY <1>4
      <3>3. LeftToRight => sent[i + 1] - sent[i] = len /\ sent[i]..(sent[i + 1] - 1) = a..(a + len - 1)
        <4> SUFFICES ASSUME LeftToRight
                     PROVE  sent[i + 1] - sent[i] = len /\ sent[i]..(sent[i + 1] - 1) = a..(a + len - 1)
          OBVIOUS
        <4>1. a = sent[i] /\ a + len = sent[i + 1]
          BY <1>6
        <4> DEFINE from == sent[i]
                   to == sent[i + 1]
        <4>2. a = from /\ a + len = to
          BY <4>1
        <4> HIDE DEF a, len, i, from, to
        <4>3. to - from = len /\ from..(to - 1) = a..(a + len - 1)
          BY <1>4, <3>2, <4>2
        <4> QED  BY <4>3 DEF from, to
      <3>4. len < 2 \/ len >= 2
        BY <1>4
      <3> HIDE DEF a, len, i
      <3> QED  BY <1>1, <1>7, <3>1, <3>3, <3>4 DEF NothingLost
    <2>1. ~CRC_CCITT_CHECK(a, len)
      BY DEF ExamineAu
    <2>2. [from |-> a, to |-> a + len] \in SentAus
      <3>1. i \in 1..(Len(sent) - 1)
        BY <1>2, <1>3
      <3>2. a = sent[i] /\ a + len = sent[i + 1]
        BY <1>6
      <3> HIDE DEF a, len, i
      <3> QED  BY <3>1, <3>2 DEF SentAus
    <2>3. PICK x \in wrong : x \in a..(a + len - 1)
      BY <2>1, <2>2 DEF CRC_CCITT_CHECK
    <2>4. superFrameDataSize = Received(bitrate)
      BY <1>1 DEF superFrameDataSize, Received
    <2>5. x \in DecodeSuperframe(BytesOf(burst), Received(bitrate))
      BY <1>1 DEF AirInv, WrongIsLeft
    <2>6. x \in BytesOf(burst)
      BY <2>5 DEF DecodeSuperframe
    <2>7. burst \in Nat \X Nat
      BY BurstsAssumption DEF SuperFrameInv, TypeOK, NoBurst
    <2>8. bitrate \in Bitrates /\ FrameSize(bitrate) \in Nat /\ Received(bitrate) \in Nat
      <3>1. bitrate \in Bitrates
        BY DEF SuperFrameInv, TypeOK
      <3>2. FrameSize(bitrate) \in Nat
        BY <3>1, Sizes, Numbers
      <3> QED  BY <3>1, <3>2 DEF Received
    <2>9. x \in Nat /\ x < 120 * SubchIndex(Received(bitrate))
      <3>1. x \in Nat /\ x < m_superFrameSize
        <4>1. m_superFrameSize \in Nat
          BY <2>8, Sizes, Numbers DEF m_superFrameSize
        <4> HIDE DEF a, len
        <4> QED  BY <1>4, <1>5, <2>3, <4>1
      <3>2. SuperFrameSize(bitrate) <= Received(bitrate)
        <4>1. SuperFrameSize(bitrate) \in Nat
          BY <2>8, Sizes, Numbers
        <4> QED  BY <1>1, <2>4, <2>8, <4>1 DEF m_superFrameSize
      <3>3. SuperFrameSize(bitrate) <= 120 * SubchIndex(Received(bitrate))
        BY <2>8, <3>2, InPackets
      <3>4. SubchIndex(Received(bitrate)) \in Nat /\ SuperFrameSize(bitrate) \in Nat
        BY <2>8, Sizes, Numbers DEF SubchIndex
      <3> QED  BY <3>1, <3>3, <3>4 DEF m_superFrameSize
    <2>10. burst[2] > 5 * SubchIndex(Received(bitrate))
      <3>1. ~(burst[2] <= 5 * SubchIndex(Received(bitrate)))
        BY <2>5, <2>7, <2>8, <2>9, Corrected
      <3>2. burst[2] \in Nat /\ SubchIndex(Received(bitrate)) \in Nat
        BY <2>7, <2>8 DEF SubchIndex
      <3> QED  BY <3>1, <3>2
    <2> QED  BY <2>3, <2>4, <2>6, <2>10
  <1>13. DroppedWrong'
    BY <1>1 DEF DroppedWrong
  <1> QED  BY <1>8, <1>10, <1>11, <1>12, <1>13 DEF AirInv

\* The end of a super frame.
LEMMA EndOfSuperFrameAir ==
    ASSUME EndOfSuperFrame
    PROVE  AirInv'
  <1>1. m_dabSuperFrameCount' = 0 /\ forwarded' = << >> /\ sent' = << >>
    BY DEF EndOfSuperFrame
  <1> QED
    BY <1>1 DEF AirInv, StartsKept, DroppedWrong, WrongIsLeft, OnlySentAus, NothingLost

\* Every step preserves both.
LEMMA AirInductive ==
    SuperFrameInv /\ AirInv /\ [Next]_vars => AirInv'
  <1> SUFFICES ASSUME SuperFrameInv, AirInv, [Next]_vars
               PROVE  AirInv'
    OBVIOUS
  <1>1. ASSUME NEW dacRate \in BOOLEAN, NEW sbr \in BOOLEAN, NEW layout \in Layouts,
               FirstFrame(dacRate, sbr, layout)
        PROVE  AirInv'
    BY <1>1, FirstFrameAir
  <1>2. ASSUME NEW b \in Bursts, LastFrame(b)
        PROVE  AirInv'
    BY <1>2, LastFrameAir
  <1>3. CASE UNCHANGED vars
    <2>1. /\ bitrate' = bitrate /\ leftFirst' = leftFirst
          /\ m_dabSuperFrameCount' = m_dabSuperFrameCount /\ auStarts' = auStarts
          /\ auLengths' = auLengths /\ wrong' = wrong /\ examined' = examined
          /\ forwarded' = forwarded /\ sent' = sent /\ pad' = pad /\ burst' = burst
      BY <1>3 DEF vars, buildVars, airVars
    <2>2. StartsKept'
      BY <2>1 DEF AirInv, StartsKept, numAUs, LeftToRight
    <2>3. DroppedWrong' /\ WrongIsLeft'
      BY <2>1 DEF AirInv, DroppedWrong, WrongIsLeft, LeftToRight
    <2>4. OnlySentAus'
      BY <2>1 DEF AirInv, OnlySentAus, LeftToRight
    <2>5. NothingLost'
      BY <2>1 DEF AirInv, NothingLost, LeftToRight, superFrameDataSize
    <2> QED  BY <2>2, <2>3, <2>4, <2>5 DEF AirInv
  <1> QED
    BY <1>1, <1>2, <1>3, NextFrameAir, ExamineAuAir, EndOfSuperFrameAir DEF Next

\* Both hold of the first state, and so always.
LEMMA AirAlways == Spec => [](SuperFrameInv /\ AirInv)
  <1>1. Init => SuperFrameInv /\ AirInv
    <2>1. Init => AirInv
      BY DEF Init, AirInv, StartsKept, DroppedWrong, WrongIsLeft, OnlySentAus, NothingLost
    <2> QED  BY <2>1, SuperFrameInitially
  <1> QED  BY <1>1, SuperFrameInductive, AirInductive, PTL DEF Spec

\* For every bit rate and whatever starts are sent: where the compiler moves the iterators
\* on from left to right, CheckSync keeps for the AUs yet to be examined the starts that
\* were sent, and throws a super frame away only if its starts cannot be right.
THEOREM StartsCorrect == Spec => []StartsAreSent
  <1>1. SuperFrameInv /\ AirInv => StartsAreSent
    BY DEF AirInv, StartsKept, DroppedWrong, StartsAreSent
  <1> QED  BY <1>1, AirAlways, PTL

\* For every bit rate, whatever is received and in whatever order the compiler moves the
\* iterators on: if an AU's checksum is right, processData forwards all of it from the end
\* of its PAD to its checksum, preceded by 256 bytes of a PAD of more than 255, and by
\* nothing of a shorter one; it is the AU whose turn it is if the order is the one that
\* was meant.
THEOREM ForwardingCorrect == Spec => []OnlySentAus
  <1>1. SuperFrameInv /\ AirInv => OnlySentAus
    BY DEF AirInv
  <1> QED  BY <1>1, AirAlways, PTL

\* For every bit rate: DecodeSuperframe spreads a burst of at most five bytes for each
\* packet so that no AU is lost to it, and a longer one costs only AUs that it has hit.
THEOREM BurstsCorrected == Spec => []NothingLost
  <1>1. SuperFrameInv /\ AirInv => NothingLost
    BY DEF AirInv
  <1> QED  BY <1>1, AirAlways, PTL

=============================================================================
