---------------------------- MODULE ToolsProofs -----------------------------
(***************************************************************************)
(* What holds of the tools of tools.h: of a CircularBuffer of every        *)
(* capacity, of checksums of every message, and of LATM frames of AUs of   *)
(* every length.                                                           *)
(***************************************************************************)
EXTENDS CircularBuffer, Checksum, LatmFrame, TLAPS

-----------------------------------------------------------------------------
(* LATM frames: what the fields of a frame are, and the bytes they make. *)

\* The values that take up the payload's length, and all that follow the header.
InfoCount(unit) == Len(unit) \div 255 + 1
OctetCount(unit) == InfoCount(unit) + Len(unit)

\* The octets after the header.  The last six bits of the header are an octet too, as
\* far as the bytes go; and nothing comes after the last.
FrameOctet(unit, i) ==
    IF i = 0 THEN 60
    ELSE IF i < InfoCount(unit) THEN 255
    ELSE IF i = InfoCount(unit) THEN Len(unit) % 255
    ELSE IF i <= OctetCount(unit) THEN unit[i - InfoCount(unit)]
    ELSE 0

HeaderBytes == <<86, 224, 0, 32, 0, 44, 10, 138, 15>>

\* The bytes of a frame before its length is filled in, and those that are sent.
FrameByte(unit, k) ==
    IF k < 10 THEN HeaderBytes[k]
    ELSE 4 * (FrameOctet(unit, k - 10) % 64) + (FrameOctet(unit, k - 9) \div 64)
FrameLength(unit) == (OctetCount(unit) + 7) % 8192
SentByte(unit, k) ==
    IF k = 2 THEN 224 + (FrameLength(unit) \div 256)
    ELSE IF k = 3 THEN FrameLength(unit) % 256
    ELSE FrameByte(unit, k)

\* The fields: what is written, what is read, and their bits.
FieldValue(unit, n) == IF n <= 18 THEN Header[n][1] ELSE FrameOctet(unit, n - 18)
SentValue(unit, n) == IF n = 2 THEN FrameLength(unit) ELSE FieldValue(unit, n)
FieldCount(n) == IF n <= 18 THEN Header[n][2] ELSE 8

\* Where AddBits and GetBits begin an iteration: the bits before it, the field, and
\* what is left of it.
HeaderChunks ==
    { <<0, 1, 11>>, <<8, 1, 3>>, <<11, 2, 13>>, <<16, 2, 8>>,
      <<24, 3, 1>>, <<25, 4, 1>>, <<26, 5, 1>>, <<27, 6, 6>>, <<32, 6, 1>>,
      <<33, 7, 4>>, <<37, 8, 3>>, <<40, 9, 5>>, <<45, 10, 4>>, <<48, 10, 1>>,
      <<49, 11, 4>>, <<53, 12, 4>>, <<56, 12, 1>>, <<57, 13, 5>>, <<62, 14, 3>>,
      <<64, 14, 1>>, <<65, 15, 3>>, <<68, 16, 8>>, <<72, 16, 4>>, <<76, 17, 1>>,
      <<77, 18, 1>> }
IsChunk(pos, n, c) ==
    \/ <<pos, n, c>> \in HeaderChunks
    \/ n > 18 /\ pos = 8 * n - 74 /\ c = 8
    \/ n > 18 /\ pos = 8 * n - 72 /\ c = 6

\* A byte of which so many bits have been written.
Kept(x, used) == x - (x % 2^(8 - used))

\* What an iteration of AddBits makes of the byte x, and one of GetBits of the value
\* it is to read there.
Writes(x, value, used, c) ==
    LET b == Fitting(c, used)
    IN  Or(Kept(x, used), Placed(CopyData(value, c, b), used, b)) = Kept(x, used + b)
Reads(x, value, used, c) ==
    LET b == Fitting(c, used)
    IN  (value \div 2^c) * 2^b + ((x % 2^(8 - used)) \div 2^(8 - used - b)) = value \div 2^(c - b)

\* The tenth byte begins with the last six bits of the header.
HeaderByte(k, w) == IF k = 10 THEN 240 + w ELSE HeaderBytes[k]

\* That a place of the header is as it should be.
HeaderChunk(pos, n, c, w) ==
    LET used == pos % 8
        b == Fitting(c, used)
    IN  /\ n \in 1..18 /\ c \in 1..13
        /\ Writes(HeaderByte(pos \div 8 + 1, w), Header[n][1], used, c)
        /\ pos \notin {8, 11, 16} =>
               Reads(HeaderByte(pos \div 8 + 1, w), Header[n][1], used, c)
        /\ b < c => <<pos + b, n, c - b>> \in HeaderChunks
        /\ b = c => IF n = 18 THEN pos + b = 78
                    ELSE <<pos + b, n + 1, Header[n + 1][2]>> \in HeaderChunks

\* The header has 18 fields of 78 bits: 25 iterations, each with bytes that are known.
LEMMA HeaderChunkOK ==
    ASSUME NEW pos, NEW n, NEW c, <<pos, n, c>> \in HeaderChunks, NEW w \in 0..3
    PROVE  HeaderChunk(pos, n, c, w)
  <1> USE DEF HeaderChunk, HeaderChunks, Fitting, HeaderByte, HeaderBytes, Header, Writes,
              Reads, Kept, CopyData, Placed, Bit, OrBit, Or
  <1>1. HeaderChunk(0, 1, 11, w)
    OBVIOUS
  <1>2. HeaderChunk(8, 1, 3, w)
    OBVIOUS
  <1>3. HeaderChunk(11, 2, 13, w)
    OBVIOUS
  <1>4. HeaderChunk(16, 2, 8, w)
    OBVIOUS
  <1>5. HeaderChunk(24, 3, 1, w)
    OBVIOUS
  <1>6. HeaderChunk(25, 4, 1, w)
    OBVIOUS
  <1>7. HeaderChunk(26, 5, 1, w)
    OBVIOUS
  <1>8. HeaderChunk(27, 6, 6, w)
    OBVIOUS
  <1>9. HeaderChunk(32, 6, 1, w)
    OBVIOUS
  <1>10. HeaderChunk(33, 7, 4, w)
    OBVIOUS
  <1>11. HeaderChunk(37, 8, 3, w)
    OBVIOUS
  <1>12. HeaderChunk(40, 9, 5, w)
    OBVIOUS
  <1>13. HeaderChunk(45, 10, 4, w)
    OBVIOUS
  <1>14. HeaderChunk(48, 10, 1, w)
    OBVIOUS
  <1>15. HeaderChunk(49, 11, 4, w)
    OBVIOUS
  <1>16. HeaderChunk(53, 12, 4, w)
    OBVIOUS
  <1>17. HeaderChunk(56, 12, 1, w)
    OBVIOUS
  <1>18. HeaderChunk(57, 13, 5, w)
    OBVIOUS
  <1>19. HeaderChunk(62, 14, 3, w)
    OBVIOUS
  <1>20. HeaderChunk(64, 14, 1, w)
    OBVIOUS
  <1>21. HeaderChunk(65, 15, 3, w)
    OBVIOUS
  <1>22. HeaderChunk(68, 16, 8, w)
    OBVIOUS
  <1>23. HeaderChunk(72, 16, 4, w)
    OBVIOUS
  <1>24. HeaderChunk(76, 17, 1, w)
    OBVIOUS
  <1>25. HeaderChunk(77, 18, 1, w)
    OBVIOUS
  <1> HIDE DEF HeaderChunk, HeaderByte, HeaderBytes, Header, Writes, Reads, Kept, CopyData, Placed,
              Bit, OrBit, Or, Fitting
  <1> QED
    BY <1>1, <1>2, <1>3, <1>4, <1>5, <1>6, <1>7, <1>8, <1>9, <1>10, <1>11,
       <1>12, <1>13, <1>14, <1>15, <1>16, <1>17, <1>18, <1>19, <1>20, <1>21, <1>22, <1>23,
       <1>24, <1>25


-----------------------------------------------------------------------------
(* LATM frames: arithmetic of bytes. *)

LEMMA OrOfTwo ==
    ASSUME NEW x \in 0..63, NEW y \in 0..3
    PROVE  Or(4 * x, y) = 4 * x + y
  <1> DEFINE z == 4 * x
  <1>1. z \in 0..255 /\ z % 2 = 0 /\ (z \div 2) % 2 = 0
    OBVIOUS
  <1>2. (y \div 4) % 2 = 0 /\ (y \div 8) % 2 = 0 /\ (y \div 16) % 2 = 0 /\ (y \div 32) % 2 = 0
            /\ (y \div 64) % 2 = 0 /\ (y \div 128) % 2 = 0
    OBVIOUS
  <1>3. OrBit(z, y, 0) + OrBit(z, y, 1) = y
    BY <1>1 DEF OrBit, Bit
  <1>4. OrBit(z, y, 2) + OrBit(z, y, 3) + OrBit(z, y, 4) + OrBit(z, y, 5) + OrBit(z, y, 6)
            + OrBit(z, y, 7) = z
    BY <1>1, <1>2 DEF OrBit, Bit
  <1>5. OrBit(z, y, 0) \in Int /\ OrBit(z, y, 1) \in Int /\ OrBit(z, y, 2) \in Int
            /\ OrBit(z, y, 3) \in Int /\ OrBit(z, y, 4) \in Int /\ OrBit(z, y, 5) \in Int
            /\ OrBit(z, y, 6) \in Int /\ OrBit(z, y, 7) \in Int
    BY DEF OrBit
  <1>6. ASSUME NEW p \in Int, NEW q \in Int, NEW r \in Int, NEW s \in Int, NEW t \in Int,
               NEW u \in Int, NEW v \in Int, NEW w \in Int,
               p + q = y, r + s + t + u + v + w = z
        PROVE  p + q + r + s + t + u + v + w = z + y
    BY <1>6
  <1> HIDE DEF z
  <1>7. Or(z, y) = z + y
    BY <1>3, <1>4, <1>5, <1>6 DEF Or
  <1> QED  BY <1>7 DEF z

LEMMA OrOfNone ==
    ASSUME NEW y \in 0..255
    PROVE  Or(0, y) = y
  BY DEF Or, OrBit, Bit

LEMMA OrOfFive ==
    ASSUME NEW y \in 0..31
    PROVE  Or(224, y) = 224 + y
  BY DEF Or, OrBit, Bit

\* After the header, every octet has two bits in one byte and six in the next.
LEMMA OctetByte ==
    ASSUME NEW a \in 0..255, NEW d \in 0..255, NEW x, x = 4 * (a % 64) + (d \div 64)
    PROVE  /\ x \in 0..255
           /\ Writes(x, d, 6, 8) /\ Reads(x, d, 6, 8)
           /\ Writes(x, a, 0, 6) /\ Reads(x, a, 0, 6)
  <1>1. a % 64 \in 0..63 /\ d \div 64 \in 0..3
    OBVIOUS
  <1>2. x \in 0..255 /\ x % 256 = x /\ x \div 4 = a % 64 /\ x % 4 = d \div 64 /\ x % 1 = 0
    BY <1>1
  <1>3. Or(4 * (a % 64), d \div 64) = x
    BY <1>1, OrOfTwo
  <1>4. Writes(x, d, 6, 8)
    <2>1. Kept(x, 6) = 4 * (a % 64) /\ Kept(x, 8) = x
      BY <1>1, <1>2 DEF Kept
    <2>2. Placed(CopyData(d, 8, 2), 6, 2) = d \div 64
      BY <1>1 DEF Placed, CopyData
    <2> QED  BY <1>3, <2>1, <2>2 DEF Writes, Fitting
  <1>5. Writes(x, a, 0, 6)
    <2>1. Kept(x, 0) = 0 /\ Kept(x, 6) = 4 * (a % 64)
      BY <1>1, <1>2 DEF Kept
    <2>2. Placed(CopyData(a, 6, 6), 0, 6) = 4 * (a % 64)
      BY <1>1 DEF Placed, CopyData
    <2>3. Or(0, 4 * (a % 64)) = 4 * (a % 64)
      <3> DEFINE y == 4 * (a % 64)
      <3>1. y \in 0..255
        BY <1>1
      <3> HIDE DEF y
      <3>2. Or(0, y) = y
        BY <3>1, OrOfNone
      <3> QED  BY <3>2 DEF y
    <2> QED  BY <2>1, <2>2, <2>3 DEF Writes, Fitting
  <1>6. Reads(x, d, 6, 8) /\ Reads(x, a, 0, 6)
    BY <1>1, <1>2 DEF Reads, Fitting
  <1> QED  BY <1>2, <1>4, <1>5, <1>6

\* The three places at which what is read of the header is not what was written.
LengthReads(m) ==
    /\ Reads(224 + (m \div 256), 695, 0, 3)
    /\ Reads(224 + (m \div 256), m, 3, 13)
    /\ Reads(m % 256, m, 0, 8)

LEMMA LengthByte ==
    ASSUME NEW m \in Nat, m < 8192
    PROVE  LengthReads(m)
  BY DEF LengthReads, Reads, Fitting

LEMMA AsSeq ==
    ASSUME NEW S, NEW m \in Nat, NEW f \in [1..m -> S]
    PROVE  f \in Seq(S) /\ Len(f) = m
  OBVIOUS

LEMMA OfSeq ==
    ASSUME NEW S, NEW s \in Seq(S)
    PROVE  Len(s) \in Nat /\ \A i \in 1..Len(s) : s[i] \in S
  OBVIOUS

LEMMA By255 ==
    ASSUME NEW n \in Nat
    PROVE  n \div 255 \in Nat /\ n % 255 \in 0..254
  OBVIOUS

LEMMA FrameOctetIs ==
    ASSUME NEW unit \in Seq(0..255)
    PROVE  /\ InfoCount(unit) \in Nat \ {0} /\ OctetCount(unit) \in Nat \ {0}
           /\ InfoCount(unit) <= OctetCount(unit)
           /\ OctetCount(unit) = InfoCount(unit) + Len(unit)
           /\ \A i \in Nat : FrameOctet(unit, i) \in 0..255
  <1> DEFINE len == Len(unit)
             m == len \div 255
             r == len % 255
  <1>1. len \in Nat /\ \A k \in 1..len : unit[k] \in 0..255
    BY OfSeq
  <1>2. m \in Nat /\ r \in 0..254
    <2> HIDE DEF len
    <2> QED  BY <1>1, By255
  <1>3. InfoCount(unit) = m + 1 /\ OctetCount(unit) = m + 1 + len
    BY DEF InfoCount, OctetCount
  <1> HIDE DEF m, r
  <1>4. ASSUME NEW i \in Nat
        PROVE  FrameOctet(unit, i) \in 0..255
    <2>1. FrameOctet(unit, i) = IF i = 0 THEN 60 ELSE IF i < m + 1 THEN 255 ELSE IF i = m + 1 THEN r
                           ELSE IF i <= m + 1 + len THEN unit[i - (m + 1)] ELSE 0
      BY <1>3 DEF FrameOctet, r
    <2> HIDE DEF len
    <2>2. i > m + 1 /\ i <= m + 1 + len => i - (m + 1) \in 1..len
      BY <1>1, <1>2
    <2>3. i > m + 1 /\ i <= m + 1 + len => unit[i - (m + 1)] \in 0..255
      BY <2>2, <1>1
    <2> QED  BY <1>2, <2>1, <2>3
  <1> HIDE DEF len
  <1>5. OctetCount(unit) = InfoCount(unit) + len
    BY <1>1, <1>2, <1>3
  <1> QED  BY <1>1, <1>2, <1>3, <1>4, <1>5 DEF len

LEMMA FirstOctet ==
    ASSUME NEW unit \in Seq(0..255)
    PROVE  FrameOctet(unit, 1) \div 64 \in 0..3
  <1> DEFINE x == FrameOctet(unit, 1)
  <1>1. x \in 0..255
    BY FrameOctetIs
  <1> HIDE DEF x
  <1>2. x \div 64 \in 0..3
    BY <1>1
  <1> QED  BY <1>2 DEF x

LEMMA FrameLengthIs ==
    ASSUME NEW unit \in Seq(0..255), Len(unit) < 65536
    PROVE  FrameLength(unit) \in Nat /\ FrameLength(unit) < 8192
  <1>1. OctetCount(unit) \in Nat
    BY FrameOctetIs
  <1> QED  BY <1>1 DEF FrameLength

LEMMA JoinedFirst ==
    ASSUME NEW S, NEW s \in Seq(S), NEW t \in Seq(S)
    PROVE  s \o t \in Seq(S) /\ Len(s \o t) = Len(s) + Len(t)
  OBVIOUS

LEMMA JoinedIs ==
    ASSUME NEW S, NEW s \in Seq(S), NEW t \in Seq(S), NEW i \in 1..(Len(s) + Len(t))
    PROVE  (s \o t)[i] = IF i <= Len(s) THEN s[i] ELSE t[i - Len(s)]
  OBVIOUS

LEMMA FieldsAre ==
    ASSUME NEW unit \in Seq(0..255)
    PROVE  /\ Fields(unit) \in Seq(Nat \X (0..13))
           /\ Len(Fields(unit)) = 18 + OctetCount(unit)
           /\ \A n \in 1..(18 + OctetCount(unit)) :
                  Fields(unit)[n] = <<FieldValue(unit, n), FieldCount(n)>>
  <1> DEFINE info == PayloadLengthInfo(Len(unit))
             m == InfoCount(unit)
             oi == Octets(info)
             ou == Octets(unit)
             S == Nat \X (0..13)
  <1>1. m \in Nat \ {0} /\ Len(unit) \in Nat /\ OctetCount(unit) = m + Len(unit)
    BY FrameOctetIs
  <1>2. info \in Seq(0..255) /\ Len(info) = m
    <2> DEFINE n == Len(unit)
    <2>1. n \in Nat /\ m = n \div 255 + 1
      BY <1>1 DEF InfoCount
    <2> HIDE DEF n, m
    <2>2. n % 255 \in 0..255 /\ n \div 255 \in Nat
      BY <2>1
    <2>3. info \in [1..m -> 0..255]
      BY <2>1, <2>2 DEF PayloadLengthInfo, n
    <2> HIDE DEF info
    <2> QED  BY <2>3, <1>1, AsSeq
  <1>3. ASSUME NEW s \in Seq(0..255)
        PROVE  /\ Octets(s) \in Seq(S) /\ Len(Octets(s)) = Len(s)
               /\ \A i \in 1..Len(s) : Octets(s)[i] = <<s[i], 8>>
    <2>1. Len(s) \in Nat /\ \A i \in 1..Len(s) : s[i] \in 0..255
      BY OfSeq
    <2>2. \A x \in 0..255 : <<x, 8>> \in S
      OBVIOUS
    <2>4. Octets(s) \in [1..Len(s) -> S]
      <3> HIDE DEF S
      <3> QED  BY <2>1, <2>2 DEF Octets
    <2>3. \A i \in 1..Len(s) : Octets(s)[i] = <<s[i], 8>>
      BY <2>1 DEF Octets
    <2> HIDE DEF S
    <2> QED  BY <2>1, <2>3, <2>4, AsSeq
  <1>4. Header \in Seq(S) /\ Len(Header) = 18
    BY DEF Header
  <1>5. \A n \in 1..18 : Header[n] = <<Header[n][1], Header[n][2]>>
    BY DEF Header
  <1>6. \A i \in 1..m : FrameOctet(unit, i) = info[i]
    BY <1>1 DEF FrameOctet, PayloadLengthInfo, InfoCount
  <1>7. \A i \in 1..Len(unit) : FrameOctet(unit, m + i) = unit[i]
    BY <1>1 DEF FrameOctet
  <1>8. \A i \in 1..m : oi[i] = <<FrameOctet(unit, i), 8>>
    <2> HIDE DEF oi, m, info
    <2> QED  BY <1>2, <1>3, <1>6 DEF oi
  <1>9. \A i \in 1..Len(unit) : ou[i] = <<FrameOctet(unit, m + i), 8>>
    BY <1>3, <1>7
  <1>10. /\ oi \in Seq(S) /\ ou \in Seq(S)
         /\ Len(oi) = m /\ Len(ou) = Len(unit)
    BY <1>2, <1>3
  <1>11. Fields(unit) = (Header \o oi) \o ou
    BY DEF Fields
  <1> DEFINE h == Header \o oi
             n18 == 18 + m
  <1>12. /\ h \in Seq(S) /\ Len(h) = n18
         /\ \A i \in 1..n18 : h[i] = IF i <= 18 THEN Header[i] ELSE oi[i - 18]
    <2> HIDE DEF info, oi, ou, S, m
    <2>1. h \in Seq(S) /\ Len(h) = Len(Header) + Len(oi)
      BY <1>4, <1>10, JoinedFirst
    <2>2. \A i \in 1..(Len(Header) + Len(oi)) :
              h[i] = IF i <= Len(Header) THEN Header[i] ELSE oi[i - Len(Header)]
      BY <1>4, <1>10, JoinedIs
    <2> HIDE DEF h
    <2> QED  BY <2>1, <2>2, <1>4, <1>10
  <1>13. /\ Fields(unit) \in Seq(S) /\ Len(Fields(unit)) = n18 + Len(unit)
         /\ \A i \in 1..(n18 + Len(unit)) :
                Fields(unit)[i] = IF i <= n18 THEN h[i] ELSE ou[i - n18]
    <2> HIDE DEF info, oi, ou, S, m, h, n18
    <2>1. Fields(unit) = h \o ou
      BY <1>11 DEF h
    <2>2. Fields(unit) \in Seq(S) /\ Len(Fields(unit)) = Len(h) + Len(ou)
      BY <2>1, <1>10, <1>12, JoinedFirst
    <2>3. \A i \in 1..(Len(h) + Len(ou)) :
              Fields(unit)[i] = IF i <= Len(h) THEN h[i] ELSE ou[i - Len(h)]
      BY <2>1, <1>10, <1>12, JoinedIs
    <2> QED  BY <2>2, <2>3, <1>10, <1>12
  <1> HIDE DEF info, oi, ou, S, m, h
  <1>14. ASSUME NEW n \in 1..(18 + OctetCount(unit))
         PROVE  Fields(unit)[n] = <<FieldValue(unit, n), FieldCount(n)>>
    <2>1. CASE n <= 18
      <3>1. Fields(unit)[n] = Header[n] /\ n \in 1..18
        BY <2>1, <1>1, <1>12, <1>13
      <3>2. Fields(unit)[n] = <<Header[n][1], Header[n][2]>>
        BY <3>1, <1>5
      <3> QED  BY <2>1, <3>2 DEF FieldValue, FieldCount
    <2>2. CASE n > 18 /\ n <= 18 + m
      <3>1. Fields(unit)[n] = oi[n - 18] /\ n - 18 \in 1..m
        BY <2>2, <1>1, <1>12, <1>13
      <3>2. Fields(unit)[n] = <<FrameOctet(unit, n - 18), 8>>
        BY <3>1, <1>8
      <3> QED  BY <2>2, <3>2 DEF FieldValue, FieldCount
    <2>3. CASE n > 18 + m
      <3> DEFINE i == n - n18
      <3>1. i \in 1..Len(unit) /\ m + i = n - 18
        BY <2>3, <1>1
      <3>2. Fields(unit)[n] = ou[i]
        BY <2>3, <1>1, <1>13
      <3> HIDE DEF i
      <3>3. Fields(unit)[n] = <<FrameOctet(unit, n - 18), 8>>
        BY <3>1, <3>2, <1>9
      <3>4. ~(n <= 18)
        BY <2>3, <1>1
      <3> QED  BY <3>3, <3>4 DEF FieldValue, FieldCount
    <2> QED  BY <2>1, <2>2, <2>3, <1>1
  <1> QED  BY <1>1, <1>13, <1>14 DEF S

-----------------------------------------------------------------------------
(* LATM frames: an iteration at any place of any frame. *)

LEMMA OctetChunk ==
    ASSUME NEW unit \in Seq(0..255), NEW n \in Nat, n > 18
    PROVE  /\ FrameByte(unit, n - 9) \in 0..255 /\ FrameByte(unit, n - 8) \in 0..255
           /\ Writes(FrameByte(unit, n - 9), FrameOctet(unit, n - 18), 6, 8)
           /\ Reads(FrameByte(unit, n - 9), FrameOctet(unit, n - 18), 6, 8)
           /\ Writes(FrameByte(unit, n - 8), FrameOctet(unit, n - 18), 0, 6)
           /\ Reads(FrameByte(unit, n - 8), FrameOctet(unit, n - 18), 0, 6)
  <1> DEFINE x == FrameOctet(unit, n - 19)
             y == FrameOctet(unit, n - 18)
             z == FrameOctet(unit, n - 17)
  <1>1. x \in 0..255 /\ y \in 0..255 /\ z \in 0..255
    BY FrameOctetIs
  <1>2. FrameByte(unit, n - 9) = 4 * (x % 64) + (y \div 64)
    BY DEF FrameByte
  <1>3. FrameByte(unit, n - 8) = 4 * (y % 64) + (z \div 64)
    BY DEF FrameByte
  <1> HIDE DEF x, y, z
  <1>4. /\ FrameByte(unit, n - 9) \in 0..255
        /\ Writes(FrameByte(unit, n - 9), y, 6, 8) /\ Reads(FrameByte(unit, n - 9), y, 6, 8)
    BY <1>1, <1>2, OctetByte
  <1>5. /\ FrameByte(unit, n - 8) \in 0..255
        /\ Writes(FrameByte(unit, n - 8), y, 0, 6) /\ Reads(FrameByte(unit, n - 8), y, 0, 6)
    BY <1>1, <1>3, OctetByte
  <1> QED  BY <1>4, <1>5 DEF y

\* That AddBits and GetBits do the same at a place of a frame, and where they go on.
ChunkOK(unit, pos, n, c) ==
    LET used == pos % 8
        b == Fitting(c, used)
        k == pos \div 8 + 1
        last == 18 + OctetCount(unit)
    IN  /\ n >= 1 /\ c \in 1..13
        /\ Writes(FrameByte(unit, k), FieldValue(unit, n), used, c)
        /\ Reads(SentByte(unit, k), SentValue(unit, n), used, c)
        /\ b < c => IsChunk(pos + b, n, c - b)
        /\ b = c => IF n < last THEN IsChunk(pos + b, n + 1, FieldCount(n + 1))
                    ELSE pos + b = 8 * last - 66

LEMMA ChunkIs ==
    ASSUME NEW unit \in Seq(0..255), Len(unit) < 65536,
           NEW pos \in Nat, NEW n \in Nat, NEW c \in Nat, IsChunk(pos, n, c),
           n <= 18 + OctetCount(unit)
    PROVE  ChunkOK(unit, pos, n, c)
  <1> DEFINE k == pos \div 8 + 1
             last == 18 + OctetCount(unit)
             w == FrameOctet(unit, 1) \div 64
  <1>1. last \in Nat /\ last > 18 /\ OctetCount(unit) \in Nat
    BY FrameOctetIs
  <1>2. FrameLength(unit) \in Nat /\ FrameLength(unit) < 8192
    BY FrameLengthIs
  <1>3. w \in 0..3
    BY FirstOctet
  <1>4. CASE n > 18 /\ pos = 8 * n - 74 /\ c = 8
    <2>1. pos % 8 = 6 /\ k = n - 9 /\ Fitting(c, 6) = 2
      BY <1>4 DEF Fitting
    <2>2. SentByte(unit, k) = FrameByte(unit, k) /\ SentValue(unit, n) = FrameOctet(unit, n - 18)
            /\ FieldValue(unit, n) = FrameOctet(unit, n - 18)
      BY <1>4, <2>1 DEF SentByte, SentValue, FieldValue
    <2>3. IsChunk(pos + 2, n, 6)
      BY <1>4 DEF IsChunk
    <2> HIDE DEF k
    <2> QED  BY <1>4, <2>1, <2>2, <2>3, OctetChunk DEF ChunkOK, k
  <1>5. CASE n > 18 /\ pos = 8 * n - 72 /\ c = 6
    <2>1. pos % 8 = 0 /\ k = n - 8 /\ Fitting(c, 0) = 6
      BY <1>5 DEF Fitting
    <2>2. SentByte(unit, k) = FrameByte(unit, k) /\ SentValue(unit, n) = FrameOctet(unit, n - 18)
            /\ FieldValue(unit, n) = FrameOctet(unit, n - 18)
      BY <1>5, <2>1 DEF SentByte, SentValue, FieldValue
    <2>3. IF n < last THEN IsChunk(pos + 6, n + 1, FieldCount(n + 1)) ELSE pos + 6 = 8 * last - 66
      <3>1. FieldCount(n + 1) = 8
        BY <1>5 DEF FieldCount
      <3>2. n + 1 > 18 /\ pos + 6 = 8 * (n + 1) - 74
        BY <1>5
      <3>3. IsChunk(pos + 6, n + 1, 8)
        BY <3>2 DEF IsChunk
      <3> HIDE DEF last
      <3>4. n <= last
        BY DEF last
      <3>5. n < last \/ n = last
        BY <1>1, <3>4
      <3> QED  BY <1>5, <3>1, <3>3, <3>5
    <2> HIDE DEF k, last
    <2> QED  BY <1>5, <2>1, <2>2, <2>3, OctetChunk DEF ChunkOK, k, last
  <1>6. CASE <<pos, n, c>> \in HeaderChunks
    <2>1. HeaderChunk(pos, n, c, w)
      BY <1>3, <1>6, HeaderChunkOK
    <2>2. /\ n \in 1..18 /\ c \in 1..13 /\ pos \in 0..77
          /\ pos \in {8, 11, 16} <=> k \in {2, 3}
          /\ n = 2 <=> pos \in {11, 16}
          /\ pos = 8 => n = 1 /\ c = 3
          /\ pos = 11 => c = 13
          /\ pos = 16 => c = 8
      BY <1>6 DEF HeaderChunks
    <2>3. k \in 1..10
      BY <2>2
    <2>4. FrameByte(unit, k) = HeaderByte(k, w)
      <3>1. k = 10 => k - 10 = 0 /\ k - 9 = 1
        OBVIOUS
      <3>2. 4 * (FrameOctet(unit, 0) % 64) = 240
        BY DEF FrameOctet
      <3> HIDE DEF k
      <3>3. CASE k = 10
        BY <3>1, <3>2, <3>3 DEF FrameByte, HeaderByte
      <3>4. CASE k < 10
        BY <3>4 DEF FrameByte, HeaderByte
      <3> QED  BY <2>3, <3>3, <3>4
    <2>5. FieldValue(unit, n) = Header[n][1]
      BY <2>2 DEF FieldValue
    <2>6. Reads(SentByte(unit, k), SentValue(unit, n), pos % 8, c)
      <3> DEFINE len == FrameLength(unit)
      <3>0. /\ Reads(224 + (len \div 256), 695, 0, 3)
            /\ Reads(224 + (len \div 256), len, 3, 13)
            /\ Reads(len % 256, len, 0, 8)
        <4>1. len \in Nat /\ len < 8192
          BY <1>2
        <4> HIDE DEF len
        <4>2. LengthReads(len)
          BY <4>1, LengthByte
        <4> QED  BY <4>2 DEF LengthReads
      <3>1. CASE pos \notin {8, 11, 16}
        <4>1. SentByte(unit, k) = HeaderByte(k, w) /\ SentValue(unit, n) = Header[n][1]
          BY <3>1, <2>2, <2>4, <2>5 DEF SentByte, SentValue
        <4> QED  BY <3>1, <4>1, <2>1 DEF HeaderChunk
      <3>2. CASE pos = 8
        <4>1. SentByte(unit, k) = 224 + (len \div 256) /\ SentValue(unit, n) = 695 /\ pos % 8 = 0
          BY <3>2, <2>2, <2>5 DEF SentByte, SentValue, Header
        <4>2. c = 3
          BY <3>2, <2>2
        <4> HIDE DEF len, k
        <4> QED  BY <4>1, <4>2, <3>0
      <3>3. CASE pos = 11
        <4>1. SentByte(unit, k) = 224 + (len \div 256) /\ SentValue(unit, n) = len /\ pos % 8 = 3
          BY <3>3, <2>2 DEF SentByte, SentValue
        <4>2. c = 13
          BY <3>3, <2>2
        <4> HIDE DEF len, k
        <4> QED  BY <4>1, <4>2, <3>0
      <3>4. CASE pos = 16
        <4>1. SentByte(unit, k) = len % 256 /\ SentValue(unit, n) = len /\ pos % 8 = 0
          BY <3>4, <2>2 DEF SentByte, SentValue
        <4>2. c = 8
          BY <3>4, <2>2
        <4> HIDE DEF len, k
        <4> QED  BY <4>1, <4>2, <3>0
      <3> QED  BY <3>1, <3>2, <3>3, <3>4
    <2>7. pos + Fitting(c, pos % 8) = 78 /\ n = 18
              => IsChunk(pos + Fitting(c, pos % 8), n + 1, FieldCount(n + 1))
      BY DEF IsChunk, FieldCount
    <2>8. n # 18 => FieldCount(n + 1) = Header[n + 1][2]
      BY <2>2 DEF FieldCount
    <2>9. n < last
      BY <1>1, <2>2
    <2> DEFINE used == pos % 8
               b == Fitting(c, used)
    <2>10. Writes(FrameByte(unit, k), FieldValue(unit, n), used, c)
      BY <2>1, <2>4, <2>5 DEF HeaderChunk
    <2>11. b < c => IsChunk(pos + b, n, c - b)
      BY <2>1 DEF HeaderChunk, IsChunk
    <2>12. b = c => IsChunk(pos + b, n + 1, FieldCount(n + 1))
      <3>0. b = c => IF n = 18 THEN pos + b = 78
                     ELSE <<pos + b, n + 1, Header[n + 1][2]>> \in HeaderChunks
        BY <2>1 DEF HeaderChunk
      <3> HIDE DEF b
      <3>1. CASE n = 18
        BY <3>0, <3>1, <2>7 DEF b
      <3>2. CASE n # 18
        BY <3>0, <3>2, <2>8 DEF IsChunk
      <3> QED  BY <3>1, <3>2
    <2>13. n >= 1 /\ c \in 1..13
      BY <2>2
    <2> HIDE DEF used, b, k, last
    <2> QED  BY <2>6, <2>9, <2>10, <2>11, <2>12, <2>13 DEF ChunkOK, used, b, k, last
  <1> QED  BY <1>4, <1>5, <1>6 DEF IsChunk

\* Where an iteration leads.
IterationOK(pos, c, q, used, b) ==
    /\ used \in 0..7 /\ b \in 1..8 /\ b <= c /\ used + b \in 1..8 /\ pos + b \in Nat /\ q \in Nat
    /\ Used(used, b) = (pos + b) % 8
    /\ used + b < 8 => (pos + b) \div 8 = q /\ (pos + b) % 8 = used + b
    /\ used + b = 8 => (pos + b) \div 8 = q + 1 /\ (pos + b) % 8 = 0
    /\ q + ((used + b) \div 8) = (pos + b) \div 8

LEMMA Iteration ==
    ASSUME NEW pos \in Nat, NEW c, c \in 1..13, NEW q, q = pos \div 8,
           NEW used, used = pos % 8, NEW b, b = Fitting(c, used)
    PROVE  IterationOK(pos, c, q, used, b)
  <1>1. used \in 0..7
    OBVIOUS
  <1>2. b \in 1..8 /\ b <= c /\ used + b \in 1..8
    BY <1>1 DEF Fitting
  <1>3. Used(used, b) = (pos + b) % 8
    BY <1>2 DEF Used
  <1> QED  BY <1>1, <1>2, <1>3 DEF IterationOK

\* Bytes that are partly written are bytes, with zeros below.
KeptOK(x, w) ==
    /\ Kept(x, w) \in 0..255 /\ Kept(x, 0) = 0 /\ Kept(x, 8) = x
    /\ w \in 1..7 => Kept(x, w) % 2^(8 - w) = 0

LEMMA KeptIs ==
    ASSUME NEW x, x \in 0..255, NEW w, w \in 0..8
    PROVE  KeptOK(x, w)
  <1>1. /\ KeptOK(x, 0) /\ KeptOK(x, 1) /\ KeptOK(x, 2) /\ KeptOK(x, 3) /\ KeptOK(x, 4)
        /\ KeptOK(x, 5) /\ KeptOK(x, 6) /\ KeptOK(x, 7) /\ KeptOK(x, 8)
    BY DEF KeptOK, Kept
  <1> QED  BY <1>1

LEMMA FrameByteIs ==
    ASSUME NEW unit \in Seq(0..255), NEW k \in Nat, k >= 1
    PROVE  FrameByte(unit, k) \in 0..255
  <1>1. CASE k < 10
    <2>1. /\ HeaderBytes[1] = 86 /\ HeaderBytes[2] = 224 /\ HeaderBytes[3] = 0
          /\ HeaderBytes[4] = 32 /\ HeaderBytes[5] = 0 /\ HeaderBytes[6] = 44
          /\ HeaderBytes[7] = 10 /\ HeaderBytes[8] = 138 /\ HeaderBytes[9] = 15
      BY DEF HeaderBytes
    <2>2. k \in 1..9
      BY <1>1
    <2> DEFINE P(i) == HeaderBytes[i] \in 0..255
    <2>3. P(1) /\ P(2) /\ P(3) /\ P(4) /\ P(5) /\ P(6) /\ P(7) /\ P(8) /\ P(9)
      BY <2>1
    <2> HIDE DEF P
    <2>4. P(k)
      BY <2>2, <2>3
    <2> USE DEF P
    <2> QED  BY <1>1, <2>4 DEF FrameByte
  <1>2. CASE k >= 10
    <2>1. k + 9 \in Nat /\ k + 9 > 18 /\ (k + 9) - 9 = k
      BY <1>2
    <2> QED  BY <2>1, OctetChunk
  <1> QED  BY <1>1, <1>2

\* A field has as many bits as its value needs.
Fits(value, count) ==
    value \in Nat /\ count \in 1..13 /\ value \div 2^count = 0 /\ value \div 2^0 = value

LEMMA SentValueIs ==
    ASSUME NEW unit \in Seq(0..255), Len(unit) < 65536,
           NEW n \in Nat, n >= 1, n <= 18 + OctetCount(unit)
    PROVE  Fits(SentValue(unit, n), FieldCount(n))
  <1>1. CASE n = 2
    <2>1. FrameLength(unit) \in Nat /\ FrameLength(unit) < 8192
      BY FrameLengthIs
    <2>2. SentValue(unit, n) = FrameLength(unit) /\ FieldCount(n) = 13
      BY <1>1 DEF SentValue, FieldCount, Header
    <2> QED  BY <2>1, <2>2 DEF Fits
  <1>2. CASE n # 2 /\ n <= 18
    <2>1. n \in 1..18 /\ SentValue(unit, n) = Header[n][1] /\ FieldCount(n) = Header[n][2]
      BY <1>2 DEF SentValue, FieldValue, FieldCount
    <2>2. /\ Fits(695, 11) /\ Fits(0, 1) /\ Fits(1, 1) /\ Fits(0, 6) /\ Fits(0, 4) /\ Fits(0, 3)
          /\ Fits(5, 5) /\ Fits(8, 4) /\ Fits(1, 4) /\ Fits(5, 4) /\ Fits(2, 5) /\ Fits(4, 3)
          /\ Fits(255, 8)
      BY DEF Fits
    <2> DEFINE P(k) == Fits(Header[k][1], Header[k][2])
    <2>3. /\ P(1) /\ P(3) /\ P(4) /\ P(5) /\ P(6) /\ P(7) /\ P(8) /\ P(9) /\ P(10) /\ P(11) /\ P(12)
          /\ P(13) /\ P(14) /\ P(15) /\ P(16) /\ P(17) /\ P(18)
      BY <2>2 DEF Header
    <2> HIDE DEF P
    <2>4. P(n)
      BY <1>2, <2>1, <2>3
    <2> QED  BY <2>1, <2>4 DEF P
  <1>3. CASE n > 18
    <2>1. SentValue(unit, n) \in 0..255 /\ FieldCount(n) = 8
      BY <1>3, FrameOctetIs DEF SentValue, FieldValue, FieldCount
    <2> DEFINE x == SentValue(unit, n)
    <2> HIDE DEF x
    <2>2. x \in 0..255
      BY <2>1 DEF x
    <2>3. Fits(x, 8)
      BY <2>2 DEF Fits
    <2> QED  BY <2>1, <2>3 DEF x
  <1> QED  BY <1>1, <1>2, <1>3

\* What has been read says which field comes next, and when the AU is complete.
LEMMA NextIs ==
    ASSUME NEW unit \in Seq(0..255), NEW vs \in Seq(Nat),
           Len(vs) <= 18 + OctetCount(unit),
           \A k \in 1..Len(vs) : vs[k] = SentValue(unit, k)
    PROVE  /\ Len(vs) < 18 + OctetCount(unit) => NextCount(vs) = FieldCount(Len(vs) + 1)
           /\ Len(vs) = 18 + OctetCount(unit) =>
                  NextCount(vs) = 0 /\ PayloadLength(vs) = Len(unit)
  <1> DEFINE m == Len(vs)
             len == Len(unit)
             info == InfoCount(unit)
             end == 18 + info
  <1>1. m \in Nat /\ len \in Nat /\ info \in Nat \ {0} /\ OctetCount(unit) = info + len
    BY FrameOctetIs, OfSeq
  <1>2. info - 1 = len \div 255 /\ len % 255 \in 0..254
            /\ 255 * (len \div 255) + (len % 255) = len
    <2>1. info = len \div 255 + 1
      BY DEF InfoCount
    <2> HIDE DEF len, info
    <2> QED  BY <1>1, <2>1
  <1>3. Len(Header) = 18
    BY DEF Header
  <1>4. \A k \in 19..m : vs[k] = FrameOctet(unit, k - 18)
    BY <1>1 DEF SentValue, FieldValue
  <1>5. \A k \in 19..m : k < end => vs[k] = 255
    BY <1>1, <1>4 DEF FrameOctet
  <1>6. m >= end => vs[end] = len % 255
    BY <1>1, <1>4 DEF FrameOctet
  <1> HIDE DEF len, info, m
  <1>7. LengthEnds(vs) = {k \in 19..m : vs[k] # 255}
    BY <1>3 DEF LengthEnds, m
  <1>8. CASE m < end
    <2>1. LengthEnds(vs) = {}
      BY <1>1, <1>5, <1>7, <1>8
    <2>2. ~AllRead(vs)
      BY <2>1 DEF AllRead
    <2>3. m < 18 + OctetCount(unit)
      BY <1>1, <1>8
    <2> QED  BY <1>1, <1>3, <2>2, <2>3 DEF NextCount, FieldCount, m
  <1>9. CASE m >= end
    <2>1. end \in LengthEnds(vs) /\ \A j \in LengthEnds(vs) : end <= j
      BY <1>1, <1>2, <1>5, <1>6, <1>7, <1>9
    <2>2. \A j \in LengthEnds(vs) : j \in Int
      BY <1>7
    <2>3. LengthEnd(vs) = end
      BY <1>1, <2>1, <2>2 DEF LengthEnd
    <2>4. PayloadLength(vs) = len
      BY <1>1, <1>2, <1>3, <1>6, <1>9, <2>3 DEF PayloadLength
    <2>5. AllRead(vs) <=> m = 18 + OctetCount(unit)
      BY <1>1, <2>1, <2>3, <2>4 DEF AllRead, m
    <2>6. NextCount(vs) = IF AllRead(vs) THEN 0 ELSE 8
      BY <1>1, <1>3, <1>9 DEF NextCount, m
    <2>7. FieldCount(m + 1) = 8
      BY <1>1, <1>9 DEF FieldCount
    <2> QED  BY <1>1, <2>4, <2>5, <2>6, <2>7 DEF m, len
  <1> QED  BY <1>1, <1>8, <1>9

-----------------------------------------------------------------------------
(* LATM frames: the invariant, what has been written or read up to a place. *)

\* The number of the last field.
Last == 18 + OctetCount(au)

\* The bytes of the BitWriter when it has been given so many bits of the frame.
WrittenTo(pos) ==
    /\ byte_bits = pos % 8
    /\ Len(data) = IF pos % 8 = 0 THEN pos \div 8 ELSE pos \div 8 + 1
    /\ \A k \in 1..(pos \div 8) : data[k] = FrameByte(au, k)
    /\ pos % 8 # 0 => data[pos \div 8 + 1] = Kept(FrameByte(au, pos \div 8 + 1), pos % 8)

\* What is left to write at a place.
ToWrite(n, c) == <<<<FieldValue(au, n), c>>>> \o SubSeq(Fields(au), n + 1, Last)

\* AddBits has written up to a place, and has the fields from there left to do.
Writing ==
    \E pos \in Nat :
        /\ WrittenTo(pos)
        /\ \/ todo = << >> /\ pos = 8 * Last - 66
           \/ \E n, c \in Nat : IsChunk(pos, n, c) /\ n <= Last /\ todo = ToWrite(n, c)

\* The bytes of the frame are those they should be, with the length.
Sent ==
    /\ Len(data) = OctetCount(au) + 10
    /\ \A k \in 1..Len(data) : data[k] = SentByte(au, k)

\* GetBits has read up to a place, and of the field there the bits before it.
Reading ==
    \E pos \in Nat :
        /\ ptr = pos \div 8 /\ data_bits = pos % 8
        /\ \A k \in 1..Len(values) : values[k] = SentValue(au, k)
        /\ \/ Len(values) = Last /\ pos = 8 * Last - 66 /\ asked = <<0, 0>>
           \/ \E n, c \in Nat :
                  /\ IsChunk(pos, n, c) /\ n <= Last /\ Len(values) = n - 1
                  /\ asked = <<SentValue(au, n) \div 2^c, c>>

\* The inductive invariant.
LatmInv ==
    /\ LatmTypeOK /\ RestIsZero
    /\ phase # "failed"
    /\ phase # "reading" => ptr = 0 /\ data_bits = 0 /\ values = << >>
    /\ phase = "writing" => Writing
    /\ phase = "reading" => todo = << >> /\ Sent /\ Reading

LEMMA AuIs ==
    ASSUME NEW unit, unit \in Aus \cup {<< >>}
    PROVE  unit \in Seq(0..255) /\ Len(unit) < 65536
  <1>1. 2^16 = 65536
    OBVIOUS
  <1>2. << >> \in Seq(0..255) /\ Len(<< >>) < 65536
    OBVIOUS
  <1>3. CASE unit \in Aus
    <2>1. unit \in Seq(0..255) /\ Len(unit) < 2^16
      BY <1>3, AusAssumption
    <2> QED  BY <2>1, <1>1
  <1>4. CASE unit = << >>
    BY <1>2, <1>4
  <1> QED  BY <1>3, <1>4

LEMMA HeadTail ==
    ASSUME NEW S, NEW e \in S, NEW s \in Seq(S), NEW t, t = <<e>> \o s
    PROVE  t \in Seq(S) /\ t # << >> /\ Head(t) = e /\ Tail(t) = s
  OBVIOUS

\* What is left of the fields after the n-th.
LEMMA RestIs ==
    ASSUME NEW S, NEW F \in Seq(S), NEW n \in Nat, n >= 1, n <= Len(F)
    PROVE  /\ SubSeq(F, n + 1, Len(F)) \in Seq(S)
           /\ n = Len(F) => SubSeq(F, n + 1, Len(F)) = << >>
           /\ n < Len(F) =>
                  SubSeq(F, n + 1, Len(F)) = <<F[n + 1]>> \o SubSeq(F, (n + 1) + 1, Len(F))
  <1>1. SubSeq(F, n + 1, Len(F)) \in Seq(S)
    OBVIOUS
  <1>2. n = Len(F) => SubSeq(F, n + 1, Len(F)) = << >>
    OBVIOUS
  <1>3. ASSUME n < Len(F)
        PROVE  SubSeq(F, n + 1, Len(F)) = <<F[n + 1]>> \o SubSeq(F, (n + 1) + 1, Len(F))
    BY <1>3
  <1> QED  BY <1>1, <1>2, <1>3

\* The byte that takes the bits is the last one, or a new one.
LEMMA LastByte ==
    ASSUME NEW d, d \in Seq(0..255), NEW q, q \in Nat, NEW used,
           Len(d) = IF used = 0 THEN q ELSE q + 1,
           NEW bytes, bytes = IF used = 0 THEN Append(d, 0) ELSE d
    PROVE  /\ bytes \in Seq(0..255) /\ Len(bytes) = q + 1
           /\ bytes[q + 1] = IF used = 0 THEN 0 ELSE d[q + 1]
           /\ \A k \in 1..q : bytes[k] = d[k]
  OBVIOUS

LEMMA LastSet ==
    ASSUME NEW d, d \in Seq(0..255), NEW m, m \in Nat, m >= 1, Len(d) = m, NEW x, x \in 0..255,
           NEW e, e = [d EXCEPT ![m] = x]
    PROVE  /\ e \in Seq(0..255) /\ Len(e) = m /\ e[m] = x
           /\ \A k \in 1..(m - 1) : e[k] = d[k]
  OBVIOUS

LEMMA FieldIs ==
    ASSUME NEW unit \in Seq(0..255), NEW n \in Nat, n >= 1, n <= 18 + OctetCount(unit)
    PROVE  FieldValue(unit, n) \in Nat
  <1> DEFINE e == <<FieldValue(unit, n), FieldCount(n)>>
  <1>1. n \in 1..Len(Fields(unit)) /\ Fields(unit)[n] = e
    BY FieldsAre, FrameOctetIs
  <1> HIDE DEF e
  <1>2. e \in Nat \X (0..13)
    BY <1>1, FieldsAre, OfSeq
  <1> QED  BY <1>2 DEF e

LEMMA FrameByteKept ==
    ASSUME NEW unit \in Seq(0..255), NEW q \in Nat, NEW w \in 0..8
    PROVE  FrameByte(unit, q + 1) \in 0..255 /\ KeptOK(FrameByte(unit, q + 1), w)
  <1> DEFINE k == q + 1
             x == FrameByte(unit, k)
  <1>1. k \in Nat /\ k >= 1
    OBVIOUS
  <1> HIDE DEF k
  <1>2. x \in 0..255
    BY <1>1, FrameByteIs
  <1> HIDE DEF x
  <1>3. KeptOK(x, w)
    BY <1>2, KeptIs
  <1> QED  BY <1>2, <1>3 DEF x, k

\* What an iteration of AddBits comes to.
AddsOK(unit, pos, n, c, q, used, b) ==
    /\ n >= 1 /\ c \in 1..13 /\ FieldValue(unit, n) \in Nat
    /\ IterationOK(pos, c, q, used, b)
    /\ FrameByte(unit, q + 1) \in 0..255
    /\ KeptOK(FrameByte(unit, q + 1), used + b)
    /\ Or(Kept(FrameByte(unit, q + 1), used), Placed(CopyData(FieldValue(unit, n), c, b), used, b))
           = Kept(FrameByte(unit, q + 1), used + b)
    /\ b < c => IsChunk(pos + b, n, c - b)
    /\ b = c => IF n < 18 + OctetCount(unit) THEN IsChunk(pos + b, n + 1, FieldCount(n + 1))
                ELSE pos + b = 8 * (18 + OctetCount(unit)) - 66

LEMMA Adds ==
    ASSUME NEW unit \in Seq(0..255), Len(unit) < 65536,
           NEW pos \in Nat, NEW n \in Nat, NEW c \in Nat, IsChunk(pos, n, c),
           n <= 18 + OctetCount(unit),
           NEW q, q = pos \div 8, NEW used, used = pos % 8, NEW b, b = Fitting(c, used)
    PROVE  AddsOK(unit, pos, n, c, q, used, b)
  <1>1. ChunkOK(unit, pos, n, c)
    BY ChunkIs
  <1>2. n >= 1 /\ c \in 1..13
    BY <1>1 DEF ChunkOK
  <1>3. IterationOK(pos, c, q, used, b)
    BY <1>2, Iteration
  <1>4. FrameByte(unit, q + 1) \in 0..255 /\ KeptOK(FrameByte(unit, q + 1), used + b)
    <2>1. q \in Nat /\ used + b \in 0..8
      BY <1>3 DEF IterationOK
    <2> QED  BY <2>1, FrameByteKept
  <1>5. FieldValue(unit, n) \in Nat
    BY <1>2, FieldIs
  <1> QED  BY <1>1, <1>2, <1>3, <1>4, <1>5 DEF AddsOK, ChunkOK, Writes

\* The fields that are left when one has been begun, and when it has been written.
RestOK(unit, n, last) ==
    LET rest == SubSeq(Fields(unit), n + 1, last)
    IN  /\ rest \in Seq(Nat \X (0..13))
        /\ n = last => rest = << >>
        /\ n < last => rest = <<<<FieldValue(unit, n + 1), FieldCount(n + 1)>>>>
                                  \o SubSeq(Fields(unit), (n + 1) + 1, last)

LEMMA RestOfFields ==
    ASSUME NEW unit \in Seq(0..255), NEW n \in Nat, n >= 1, NEW last,
           last = 18 + OctetCount(unit), n <= last
    PROVE  RestOK(unit, n, last)
  <1> DEFINE F == Fields(unit)
             S == Nat \X (0..13)
  <1>1. F \in Seq(S) /\ Len(F) = last /\ last \in Nat
    BY FieldsAre, FrameOctetIs
  <1>2. n < last => F[n + 1] = <<FieldValue(unit, n + 1), FieldCount(n + 1)>>
    BY <1>1, FieldsAre
  <1> HIDE DEF F, S
  <1>3. /\ SubSeq(F, n + 1, last) \in Seq(S)
        /\ n = last => SubSeq(F, n + 1, last) = << >>
        /\ n < last => SubSeq(F, n + 1, last) = <<F[n + 1]>> \o SubSeq(F, (n + 1) + 1, last)
    BY <1>1, RestIs
  <1> QED  BY <1>2, <1>3 DEF RestOK, F, S

LEMMA AddBitsKeeps ==
    ASSUME LatmInv, AddBits
    PROVE  LatmInv'
  <1>1. au \in Seq(0..255) /\ Len(au) < 65536 /\ au \in Aus \cup {<< >>}
    BY AuIs DEF LatmInv, LatmTypeOK
  <1>2. phase = "writing" /\ todo # << >> /\ data \in Seq(0..255)
    BY DEF AddBits, LatmInv, LatmTypeOK
  <1>3. PICK pos \in Nat, n \in Nat, c \in Nat :
            WrittenTo(pos) /\ IsChunk(pos, n, c) /\ n <= Last /\ todo = ToWrite(n, c)
    BY <1>2 DEF LatmInv, Writing
  <1> DEFINE q == pos \div 8
             used == pos % 8
             b == Fitting(c, used)
             x == FrameByte(au, q + 1)
             value == FieldValue(au, n)
             rest == SubSeq(Fields(au), n + 1, Last)
             S == Nat \X (0..13)
             y == Kept(x, used + b)
  <1>4. AddsOK(au, pos, n, c, q, used, b)
    <2> HIDE DEF q, used, b
    <2>1. n <= 18 + OctetCount(au)
      BY <1>3 DEF Last
    <2> QED  BY <1>1, <1>3, <2>1, Adds DEF q, used, b
  <1>5. RestOK(au, n, Last)
    BY <1>1, <1>3, <1>4, RestOfFields DEF AddsOK, Last
  <1>6. /\ byte_bits = used
        /\ Len(data) = IF used = 0 THEN q ELSE q + 1
        /\ \A k \in 1..q : data[k] = FrameByte(au, k)
        /\ used # 0 => data[q + 1] = Kept(x, used)
    BY <1>3 DEF WrittenTo
  <1>7. Fitting(c, used) = b
    OBVIOUS
  <1>8. Head(todo) = <<value, c>> /\ Tail(todo) = rest
    <2>1. todo = <<<<value, c>>>> \o rest
      BY <1>3 DEF ToWrite
    <2>2. <<value, c>> \in S
      BY <1>4 DEF AddsOK
    <2>3. rest \in Seq(S)
      BY <1>5 DEF RestOK
    <2> HIDE DEF S, value, rest
    <2> QED  BY <2>1, <2>2, <2>3, HeadTail
  <1>9. /\ used \in 0..7 /\ b \in 1..8 /\ b <= c /\ used + b \in 1..8
        /\ pos + b \in Nat /\ q \in Nat
        /\ Used(used, b) = (pos + b) % 8
        /\ used + b < 8 => (pos + b) \div 8 = q /\ (pos + b) % 8 = used + b
        /\ used + b = 8 => (pos + b) \div 8 = q + 1 /\ (pos + b) % 8 = 0
    BY <1>4 DEF AddsOK, IterationOK
  <1>10. /\ n >= 1 /\ c \in 1..13 /\ value \in Nat
         /\ Or(Kept(x, used), Placed(CopyData(value, c, b), used, b)) = y
         /\ b < c => IsChunk(pos + b, n, c - b)
         /\ b = c => IF n < Last THEN IsChunk(pos + b, n + 1, FieldCount(n + 1))
                     ELSE pos + b = 8 * Last - 66
    BY <1>4 DEF AddsOK, Last
  <1>11. /\ y \in 0..255 /\ Kept(x, 0) = 0
         /\ used + b = 8 => y = x
         /\ used + b < 8 => y % 2^(8 - (used + b)) = 0
    <2>1. KeptOK(x, used + b)
      BY <1>4 DEF AddsOK
    <2> HIDE DEF x, used, b
    <2> QED  BY <1>9, <2>1 DEF KeptOK
  <1> HIDE DEF q, used, b, x, value, rest, S, y
  <1> DEFINE bytes == IF byte_bits = 0 THEN Append(data, 0) ELSE data
             m == Len(bytes)
  <1>12. /\ bytes \in Seq(0..255) /\ Len(bytes) = q + 1 /\ bytes[q + 1] = Kept(x, used)
         /\ \A k \in 1..q : bytes[k] = data[k]
    <2>1. bytes = IF used = 0 THEN Append(data, 0) ELSE data
      BY <1>6
    <2> HIDE DEF bytes
    <2>2. /\ bytes \in Seq(0..255) /\ Len(bytes) = q + 1
          /\ bytes[q + 1] = IF used = 0 THEN 0 ELSE data[q + 1]
          /\ \A k \in 1..q : bytes[k] = data[k]
      BY <1>2, <1>6, <1>9, <2>1, LastByte
    <2> QED  BY <1>6, <1>11, <2>2
  <1>13. /\ data' = [bytes EXCEPT ![q + 1] = y]
         /\ byte_bits' = (pos + b) % 8
         /\ todo' = IF b = c THEN rest ELSE <<<<value, c - b>>>> \o rest
         /\ UNCHANGED <<au, phase, readerVars>>
    <2>1. Head(todo)[1] = value /\ Head(todo)[2] = c
            /\ Fitting(c, byte_bits) = b /\ byte_bits = used
      BY <1>6, <1>7, <1>8
    <2>2. /\ data' = [bytes EXCEPT ![m] = Or(bytes[m], Placed(CopyData(value, c, b), used, b))]
          /\ byte_bits' = Used(used, b)
          /\ todo' = IF b = c THEN rest ELSE <<<<value, c - b>>>> \o rest
          /\ UNCHANGED <<au, phase, readerVars>>
      BY <2>1, <1>8 DEF AddBits
    <2> HIDE DEF bytes
    <2> QED  BY <1>9, <1>10, <1>12, <2>2
  <1> HIDE DEF bytes
  <1>14. /\ data' \in Seq(0..255) /\ Len(data') = q + 1 /\ data'[q + 1] = y
         /\ \A k \in 1..q : data'[k] = FrameByte(au, k)
    <2>1. q + 1 \in Nat /\ q + 1 >= 1 /\ (q + 1) - 1 = q
      BY <1>9
    <2>2. /\ data' \in Seq(0..255) /\ Len(data') = q + 1 /\ data'[q + 1] = y
          /\ \A k \in 1..((q + 1) - 1) : data'[k] = bytes[k]
      BY <2>1, <1>11, <1>12, <1>13, LastSet
    <2> QED  BY <2>1, <2>2, <1>6, <1>12
  <1>15. WrittenTo(pos + b)'
    <2>1. CASE used + b < 8
      BY <2>1, <1>9, <1>13, <1>14 DEF WrittenTo, y, x
    <2>2. CASE used + b = 8
      BY <2>2, <1>9, <1>11, <1>13, <1>14 DEF WrittenTo, x
    <2> QED  BY <2>1, <2>2, <1>9
  <1>16. todo' \in Seq(Nat \X (0..13))
    <2>1. rest \in Seq(Nat \X (0..13))
      BY <1>5 DEF RestOK, rest
    <2>2. CASE b = c
      BY <2>1, <2>2, <1>13
    <2>3. CASE b # c
      <3>1. <<value, c - b>> \in Nat \X (0..13)
        BY <2>3, <1>9, <1>10
      <3> DEFINE e == <<value, c - b>>
                 T == Nat \X (0..13)
      <3>2. todo' = <<e>> \o rest
        BY <2>3, <1>13
      <3> HIDE DEF e, T
      <3> QED  BY <2>1, <3>1, <3>2, HeadTail DEF e, T
    <2> QED  BY <2>2, <2>3
  <1>17. Last' = Last /\ au' = au
    BY <1>13 DEF Last
  <1>18. \/ todo' = << >> /\ pos + b = 8 * Last - 66
         \/ \E k, d \in Nat : IsChunk(pos + b, k, d) /\ k <= Last /\ todo' = ToWrite(k, d)
    <2>0. Last \in Nat
      BY <1>1, FrameOctetIs DEF Last
    <2>1. CASE b # c
      <3>1. c - b \in Nat /\ b < c
        BY <2>1, <1>9, <1>10
      <3>2. todo' = ToWrite(n, c - b)
        BY <2>1, <1>13 DEF ToWrite, value, rest
      <3> QED  BY <3>1, <3>2, <1>3, <1>10
    <2>2. CASE b = c /\ n < Last
      <3>1. FieldCount(n + 1) \in Nat
        <4>1. n + 1 >= 1 /\ n + 1 <= 18 + OctetCount(au) /\ n + 1 \in Nat
          BY <2>0, <2>2, <1>10 DEF Last
        <4> DEFINE k == n + 1
        <4> HIDE DEF k
        <4>2. Fits(SentValue(au, k), FieldCount(k))
          BY <4>1, <1>1, SentValueIs DEF k
        <4> QED  BY <4>2 DEF Fits, k
      <3>2. todo' = ToWrite(n + 1, FieldCount(n + 1))
        BY <2>2, <1>5, <1>13 DEF RestOK, ToWrite, rest
      <3>3. n + 1 \in Nat /\ n + 1 <= Last
        BY <2>0, <2>2
      <3> QED  BY <2>2, <3>1, <3>2, <3>3, <1>10
    <2>3. CASE b = c /\ n = Last
      BY <2>0, <2>3, <1>5, <1>10, <1>13 DEF RestOK, rest
    <2> QED  BY <2>0, <2>1, <2>2, <2>3, <1>3
  <1>19. Writing'
    <2> DEFINE p == pos + b
    <2>1. p \in Nat
      BY <1>9
    <2>2. WrittenTo(p)'
      BY <1>15
    <2>3. \A k, d : ToWrite(k, d)' = ToWrite(k, d)
      BY <1>17 DEF ToWrite
    <2>4. \/ todo' = << >> /\ p = 8 * Last' - 66
          \/ \E k, d \in Nat : IsChunk(p, k, d) /\ k <= Last' /\ todo' = ToWrite(k, d)'
      BY <1>17, <1>18, <2>3
    <2> HIDE DEF p
    <2> QED  BY <2>1, <2>2, <2>4 DEF Writing
  <1>20. RestIsZero'
    <2>1. data' # << >> /\ q + 1 = Len(data')
      BY <1>9, <1>14
    <2>2. CASE used + b < 8
      <3>1. byte_bits' = used + b
        BY <2>2, <1>9, <1>13
      <3> QED  BY <2>1, <2>2, <3>1, <1>11, <1>14 DEF RestIsZero
    <2>3. CASE used + b = 8
      <3>1. byte_bits' = 0
        BY <2>3, <1>9, <1>13
      <3> QED  BY <2>1, <3>1 DEF RestIsZero
    <2> QED  BY <2>2, <2>3, <1>9
  <1>21. LatmTypeOK'
    <2>1. byte_bits' \in 0..7
      BY <1>9, <1>13
    <2>2. /\ au' \in Aus \cup {<< >>} /\ phase' = "writing" /\ data_bits' = 0 /\ ptr' = 0
          /\ asked' \in Nat \X (0..13) /\ values' \in Seq(Nat)
      BY <1>1, <1>2, <1>13 DEF LatmInv, LatmTypeOK, readerVars
    <2>3. ptr' \in 0..Len(data')
      BY <2>2, <1>9, <1>14
    <2> QED  BY <2>1, <2>2, <2>3, <1>14, <1>16 DEF LatmTypeOK
  <1>22. phase' = "writing" /\ ptr' = 0 /\ data_bits' = 0 /\ values' = << >>
    BY <1>2, <1>13 DEF LatmInv, readerVars
  <1> QED  BY <1>19, <1>20, <1>21, <1>22 DEF LatmInv

LEMMA FirstOf ==
    ASSUME NEW S, NEW F \in Seq(S), Len(F) >= 1
    PROVE  F = <<F[1]>> \o SubSeq(F, 1 + 1, Len(F))
  OBVIOUS

\* Each action keeps the invariant; AddBitsKeeps is above.
LEMMA ProcessUntouchedStreamKeeps ==
    ASSUME LatmInv, NEW unit \in Aus, ProcessUntouchedStream(unit)
    PROVE  LatmInv'
  <1>1. unit \in Seq(0..255) /\ unit \in Aus \cup {<< >>}
    BY AuIs
  <1>2. /\ Fields(unit) \in Seq(Nat \X (0..13)) /\ Len(Fields(unit)) = 18 + OctetCount(unit)
        /\ OctetCount(unit) \in Nat /\ 18 + OctetCount(unit) >= 1
        /\ Fields(unit)[1] = <<FieldValue(unit, 1), FieldCount(1)>>
    <2>1. OctetCount(unit) \in Nat
      BY <1>1, FrameOctetIs
    <2>2. 1 \in 1..(18 + OctetCount(unit))
      BY <2>1
    <2> QED  BY <1>1, <2>1, <2>2, FieldsAre
  <1>3. FieldCount(1) = 11
    BY DEF FieldCount, Header
  <1>4. /\ data' = << >> /\ byte_bits' = 0 /\ au' = unit /\ todo' = Fields(unit)
        /\ phase' = "writing" /\ ptr' = 0 /\ data_bits' = 0 /\ values' = << >> /\ asked' = asked
    BY DEF ProcessUntouchedStream, LatmInv, readerVars
  <1>5. Last' = 18 + OctetCount(unit)
    BY <1>4 DEF Last
  <1>6. todo' = ToWrite(1, 11)'
    <2> DEFINE F == Fields(unit)
               S == Nat \X (0..13)
    <2>1. F \in Seq(S) /\ Len(F) >= 1
      BY <1>2
    <2>2. F = <<F[1]>> \o SubSeq(F, 1 + 1, Len(F))
      <3> HIDE DEF F, S
      <3> QED  BY <2>1, FirstOf
    <2> QED  BY <1>2, <1>3, <1>4, <1>5, <2>2 DEF ToWrite
  <1>7. WrittenTo(0)'
    BY <1>4 DEF WrittenTo
  <1>8. IsChunk(0, 1, 11)
    BY DEF IsChunk, HeaderChunks
  <1>9. Writing'
    <2>1. 1 <= Last'
      BY <1>2, <1>5
    <2> QED  BY <1>6, <1>7, <1>8, <2>1 DEF Writing
  <1>10. LatmTypeOK'
    <2>1. asked' \in Nat \X (0..13)
      BY <1>4 DEF LatmInv, LatmTypeOK
    <2> QED  BY <1>1, <1>2, <1>4, <2>1 DEF LatmTypeOK
  <1>11. RestIsZero'
    BY <1>4 DEF RestIsZero
  <1> QED  BY <1>4, <1>9, <1>10, <1>11 DEF LatmInv

\* Nothing is written after the last octet: the two bits that are left stay zero.
LEMMA LastFrameByte ==
    ASSUME NEW unit \in Seq(0..255)
    PROVE  LET x == FrameByte(unit, OctetCount(unit) + 10)
           IN  Kept(x, 6) = x
  <1> DEFINE m == OctetCount(unit)
             a == FrameOctet(unit, m)
  <1>1. m \in Nat \ {0} /\ InfoCount(unit) \in Nat /\ InfoCount(unit) <= m
    BY FrameOctetIs
  <1>2. a \in 0..255
    BY <1>1, FrameOctetIs
  <1>3. FrameOctet(unit, m + 1) = 0
    BY <1>1 DEF FrameOctet
  <1>4. FrameByte(unit, m + 10) = 4 * (a % 64)
    <2> DEFINE k == m + 10
    <2>1. k \in Nat /\ k >= 10 /\ k - 10 = m /\ k - 9 = m + 1
      BY <1>1
    <2> HIDE DEF k, m
    <2>2. FrameByte(unit, k) = 4 * (a % 64) + (0 \div 64)
      BY <1>3, <2>1 DEF FrameByte
    <2> HIDE DEF a
    <2> QED  BY <1>2, <2>2 DEF k
  <1> HIDE DEF a, m
  <1>5. Kept(4 * (a % 64), 6) = 4 * (a % 64)
    BY <1>2 DEF Kept
  <1> QED  BY <1>4, <1>5 DEF m

LEMMA SetTwo ==
    ASSUME NEW d, d \in Seq(0..255), Len(d) >= 3, NEW x, x \in 0..255, NEW y, y \in 0..255,
           NEW e, e = [d EXCEPT ![2] = x, ![3] = y]
    PROVE  /\ e \in Seq(0..255) /\ Len(e) = Len(d) /\ e[2] = x /\ e[3] = y
           /\ \A k \in 1..Len(d) : k # 2 /\ k # 3 => e[k] = d[k]
  OBVIOUS

LEMMA WriteAudioMuxLengthBytesKeeps ==
    ASSUME LatmInv, WriteAudioMuxLengthBytes
    PROVE  LatmInv'
  <1>1. au \in Seq(0..255) /\ Len(au) < 65536 /\ au \in Aus \cup {<< >>}
    BY AuIs DEF LatmInv, LatmTypeOK
  <1>2. phase = "writing" /\ todo = << >> /\ data \in Seq(0..255)
    BY DEF WriteAudioMuxLengthBytes, LatmInv, LatmTypeOK
  <1> DEFINE m == OctetCount(au)
             len == FrameLength(au)
             hi == len \div 256
             lo == len % 256
  <1>3. /\ m \in Nat \ {0} /\ Last = 18 + m /\ len = (m + 7) % 8192 /\ len < 8192
        /\ len \in Nat
    BY <1>1, FrameOctetIs, FrameLengthIs DEF Last, FrameLength
  <1>4. PICK pos \in Nat : WrittenTo(pos) /\ pos = 8 * Last - 66
    <2>1. ASSUME NEW pos \in Nat, NEW n \in Nat, NEW c \in Nat, IsChunk(pos, n, c), n <= Last
          PROVE  ToWrite(n, c) # << >>
      <3>1. n >= 1 /\ c \in 1..13
        BY <1>1, <2>1, ChunkIs DEF ChunkOK, Last
      <3>2. FieldValue(au, n) \in Nat
        BY <1>1, <2>1, <3>1, FieldIs DEF Last
      <3>3. SubSeq(Fields(au), n + 1, Last) \in Seq(Nat \X (0..13))
        <4>1. RestOK(au, n, Last)
          BY <1>1, <2>1, <3>1, RestOfFields DEF Last
        <4> QED  BY <4>1 DEF RestOK
      <3> DEFINE e == <<FieldValue(au, n), c>>
      <3>4. e \in Nat \X (0..13)
        BY <3>1, <3>2
      <3> HIDE DEF e
      <3>5. ToWrite(n, c) = <<e>> \o SubSeq(Fields(au), n + 1, Last)
        BY DEF ToWrite, e
      <3> QED  BY <3>3, <3>4, <3>5, HeadTail
    <2> QED  BY <1>2, <2>1 DEF LatmInv, Writing
  <1>5. Len(data) = m + 10 /\ byte_bits = 6 /\ \A k \in 1..(m + 10) : data[k] = FrameByte(au, k)
    <2>1. pos \div 8 = m + 9 /\ pos % 8 = 6
      BY <1>3, <1>4
    <2>2. /\ Len(data) = (m + 9) + 1 /\ byte_bits = 6
          /\ \A k \in 1..(m + 9) : data[k] = FrameByte(au, k)
          /\ data[(m + 9) + 1] = Kept(FrameByte(au, (m + 9) + 1), 6)
      BY <1>4, <2>1 DEF WrittenTo
    <2>3. (m + 9) + 1 = m + 10
      BY <1>3
    <2>4. Kept(FrameByte(au, m + 10), 6) = FrameByte(au, m + 10)
      BY <1>1, LastFrameByte
    <2> HIDE DEF m
    <2> QED  BY <1>3, <2>2, <2>3, <2>4
  <1>6. hi \in 0..31 /\ lo \in 0..255 /\ hi % 2^5 = hi /\ 224 + hi \in 0..255
    <2> HIDE DEF len
    <2> QED  BY <1>3
  <1>7. Or(224, hi) = 224 + hi
    <2> HIDE DEF hi
    <2> QED  BY <1>6, OrOfFive
  <1>8. FrameByte(au, 2) = 224
    BY DEF FrameByte, HeaderBytes
  <1>9. /\ data' = [data EXCEPT ![2] = 224 + hi, ![3] = lo]
        /\ phase' = "reading" /\ asked' = <<0, NextCount(<< >>)>>
        /\ UNCHANGED <<byte_bits, au, todo, ptr, data_bits, values>>
    <2>1. Len(data) - 3 = m + 7 /\ data[2] = 224
      BY <1>3, <1>5, <1>8
    <2>3. ((m + 7) \div 256) % 2^5 = hi /\ (m + 7) % 256 = lo
      <3> DEFINE t == m + 7
      <3>1. t \in Nat /\ len = t % 8192
        BY <1>3
      <3> HIDE DEF t, len
      <3>2. (t \div 256) % 32 = (t % 8192) \div 256 /\ t % 256 = (t % 8192) % 256
        BY <3>1
      <3>3. 2^5 = 32
        OBVIOUS
      <3> QED  BY <3>1, <3>2, <3>3 DEF t
    <2> HIDE DEF len
    <2> HIDE DEF m
    <2>2. data' = [data EXCEPT ![2] = Or(data[2], hi), ![3] = lo]
      BY <2>1, <2>3 DEF WriteAudioMuxLengthBytes
    <2> HIDE DEF hi, lo
    <2> QED  BY <1>6, <1>7, <2>1, <2>2 DEF WriteAudioMuxLengthBytes
  <1>10. /\ data' \in Seq(0..255) /\ Len(data') = m + 10 /\ data'[2] = 224 + hi /\ data'[3] = lo
         /\ \A k \in 1..(m + 10) : k # 2 /\ k # 3 => data'[k] = FrameByte(au, k)
    <2> HIDE DEF m, lo
    <2> DEFINE x == 224 + hi
    <2>1. x \in 0..255 /\ Len(data) >= 3
      BY <1>3, <1>5, <1>6
    <2>2. data' = [data EXCEPT ![2] = x, ![3] = lo]
      BY <1>9
    <2> HIDE DEF x
    <2>3. /\ data' \in Seq(0..255) /\ Len(data') = Len(data) /\ data'[2] = x /\ data'[3] = lo
          /\ \A k \in 1..Len(data) : k # 2 /\ k # 3 => data'[k] = data[k]
      BY <1>2, <1>6, <2>1, <2>2, SetTwo
    <2> QED  BY <1>3, <1>5, <2>3 DEF x
  <1>11. Sent'
    <2>1. \A k \in 1..(m + 10) : data'[k] = SentByte(au, k)
      <3> HIDE DEF m
      <3> QED  BY <1>3, <1>10 DEF SentByte
    <2> QED  BY <1>9, <1>10, <2>1 DEF Sent
  <1>12. ptr' = 0 /\ data_bits' = 0 /\ values' = << >> /\ todo' = << >> /\ au' = au
    BY <1>2, <1>9 DEF LatmInv
  <1>13. asked' = <<0, 11>>
    <2>1. NextCount(<< >>) = 11
      BY DEF NextCount, Header
    <2> QED  BY <1>9, <2>1
  <1>14. Reading'
    <2>1. IsChunk(0, 1, 11)
      BY DEF IsChunk, HeaderChunks
    <2>2. SentValue(au, 1) \div 2^11 = 0
      BY DEF SentValue, FieldValue, Header
    <2>3. 1 <= Last' /\ Len(values') = 1 - 1 /\ 0 \div 8 = 0 /\ 0 % 8 = 0
      BY <1>3, <1>12 DEF Last
    <2>4. asked' = <<SentValue(au', 1) \div 2^11, 11>>
      BY <1>12, <1>13, <2>2
    <2>5. \A k \in 1..Len(values') : values'[k] = SentValue(au', k)
      BY <2>3
    <2> QED  BY <1>12, <2>1, <2>3, <2>4, <2>5 DEF Reading
  <1>15. RestIsZero'
    <2>1. Len(data') # 2 /\ Len(data') # 3 /\ Len(data') = Len(data) /\ Len(data) \in 1..(m + 10)
      BY <1>3, <1>5, <1>10
    <2>2. data'[Len(data')] = data[Len(data)] /\ data' # << >>
      BY <1>5, <1>10, <2>1
    <2> QED  BY <1>9, <2>2 DEF RestIsZero, LatmInv
  <1>16. LatmTypeOK'
    <2>1. byte_bits' \in 0..7 /\ asked' \in Nat \X (0..13) /\ todo' \in Seq(Nat \X (0..13))
      BY <1>5, <1>9, <1>12, <1>13
    <2>2. ptr' \in 0..Len(data')
      BY <1>3, <1>10, <1>12
    <2> QED  BY <1>1, <1>9, <1>10, <1>12, <2>1, <2>2 DEF LatmTypeOK
  <1> QED  BY <1>9, <1>11, <1>12, <1>14, <1>15, <1>16 DEF LatmInv

LEMMA ChunkWithin ==
    ASSUME NEW unit \in Seq(0..255), NEW pos \in Nat, NEW n \in Nat, NEW c \in Nat,
           IsChunk(pos, n, c), n <= 18 + OctetCount(unit)
    PROVE  pos \div 8 < OctetCount(unit) + 10
  <1>1. OctetCount(unit) \in Nat \ {0}
    BY FrameOctetIs
  <1>2. CASE <<pos, n, c>> \in HeaderChunks
    <2>1. pos <= 77
      BY <1>2 DEF HeaderChunks
    <2> QED  BY <1>1, <2>1
  <1>3. CASE n > 18 /\ (pos = 8 * n - 74 \/ pos = 8 * n - 72)
    BY <1>1, <1>3
  <1> QED  BY <1>2, <1>3 DEF IsChunk

\* An iteration of GetBits, as the state sees it.
GetsOK(unit, pos, n, c, q, used, b) ==
    /\ n >= 1 /\ c \in 1..13
    /\ IterationOK(pos, c, q, used, b)
    /\ q < OctetCount(unit) + 10
    /\ (SentValue(unit, n) \div 2^c) * 2^b
           + ((SentByte(unit, q + 1) % 2^(8 - used)) \div 2^(8 - used - b))
       = SentValue(unit, n) \div 2^(c - b)
    /\ SentValue(unit, n) \in Nat /\ SentValue(unit, n) \div 2^0 = SentValue(unit, n)
    /\ b < c => IsChunk(pos + b, n, c - b)
    /\ b = c => IF n < 18 + OctetCount(unit)
                THEN /\ IsChunk(pos + b, n + 1, FieldCount(n + 1))
                     /\ Fits(SentValue(unit, n + 1), FieldCount(n + 1))
                ELSE pos + b = 8 * (18 + OctetCount(unit)) - 66

LEMMA Gets ==
    ASSUME NEW unit \in Seq(0..255), Len(unit) < 65536,
           NEW pos \in Nat, NEW n \in Nat, NEW c \in Nat, IsChunk(pos, n, c),
           n <= 18 + OctetCount(unit),
           NEW q, q = pos \div 8, NEW used, used = pos % 8, NEW b, b = Fitting(c, used)
    PROVE  GetsOK(unit, pos, n, c, q, used, b)
  <1>1. ChunkOK(unit, pos, n, c)
    BY ChunkIs
  <1>2. n >= 1 /\ c \in 1..13
    BY <1>1 DEF ChunkOK
  <1>3. IterationOK(pos, c, q, used, b)
    BY <1>2, Iteration
  <1>4. q < OctetCount(unit) + 10
    BY ChunkWithin
  <1>5. Fits(SentValue(unit, n), FieldCount(n))
    BY <1>2, SentValueIs
  <1>6. n < 18 + OctetCount(unit) => Fits(SentValue(unit, n + 1), FieldCount(n + 1))
    <2> SUFFICES ASSUME n < 18 + OctetCount(unit)
                 PROVE  Fits(SentValue(unit, n + 1), FieldCount(n + 1))
      OBVIOUS
    <2> DEFINE k == n + 1
    <2>1. k \in Nat /\ k >= 1 /\ k <= 18 + OctetCount(unit)
      BY FrameOctetIs
    <2> HIDE DEF k
    <2>2. Fits(SentValue(unit, k), FieldCount(k))
      BY <2>1, SentValueIs
    <2> QED  BY <2>2 DEF k
  <1> QED  BY <1>1, <1>2, <1>3, <1>4, <1>5, <1>6 DEF GetsOK, ChunkOK, Reads, Fits

LEMMA QuotientIs ==
    ASSUME NEW v, v \in Nat, NEW d, d \in 1..13
    PROVE  v \div 2^d \in Nat
  <1> DEFINE P(k) == v \div 2^k \in Nat
  <1>1. /\ P(1) /\ P(2) /\ P(3) /\ P(4) /\ P(5) /\ P(6) /\ P(7) /\ P(8) /\ P(9) /\ P(10) /\ P(11)
        /\ P(12) /\ P(13)
    OBVIOUS
  <1> HIDE DEF P
  <1>2. P(d)
    BY <1>1
  <1> QED  BY <1>2 DEF P

LEMMA GetBitsKeeps ==
    ASSUME LatmInv, GetBits
    PROVE  LatmInv'
  <1>1. au \in Seq(0..255) /\ Len(au) < 65536
    BY AuIs DEF LatmInv, LatmTypeOK
  <1>2. phase = "reading" /\ asked[2] > 0 /\ values \in Seq(Nat) /\ Sent /\ todo = << >>
    BY DEF GetBits, LatmInv, LatmTypeOK
  <1>3. PICK pos \in Nat, n \in Nat, c \in Nat :
            /\ ptr = pos \div 8 /\ data_bits = pos % 8
            /\ \A k \in 1..Len(values) : values[k] = SentValue(au, k)
            /\ IsChunk(pos, n, c) /\ n <= Last /\ Len(values) = n - 1
            /\ asked = <<SentValue(au, n) \div 2^c, c>>
    BY <1>2 DEF LatmInv, Reading
  <1> DEFINE q == pos \div 8
             used == pos % 8
             b == Fitting(c, used)
             value == SentValue(au, n)
             x == SentByte(au, q + 1)
  <1>4. GetsOK(au, pos, n, c, q, used, b)
    <2> HIDE DEF q, used, b
    <2>1. n <= 18 + OctetCount(au)
      BY <1>3 DEF Last
    <2> QED  BY <1>1, <1>3, <2>1, Gets DEF q, used, b
  <1>5. /\ used \in 0..7 /\ b \in 1..8 /\ b <= c /\ used + b \in 1..8
        /\ pos + b \in Nat /\ q \in Nat
        /\ Used(used, b) = (pos + b) % 8
        /\ q + ((used + b) \div 8) = (pos + b) \div 8
        /\ (pos + b) \div 8 <= q + 1
    BY <1>4 DEF GetsOK, IterationOK
  <1>6. /\ n >= 1 /\ c \in 1..13 /\ value \in Nat /\ value \div 2^0 = value
        /\ (value \div 2^c) * 2^b + ((x % 2^(8 - used)) \div 2^(8 - used - b))
               = value \div 2^(c - b)
        /\ b < c => IsChunk(pos + b, n, c - b)
        /\ b = c => IF n < Last THEN /\ IsChunk(pos + b, n + 1, FieldCount(n + 1))
                                     /\ Fits(SentValue(au, n + 1), FieldCount(n + 1))
                    ELSE pos + b = 8 * Last - 66
    BY <1>4 DEF GetsOK, Last
  <1>7. ptr = q /\ data_bits = used /\ q + 1 <= Len(data) /\ data[q + 1] = x
    <2>1. q < OctetCount(au) + 10 /\ OctetCount(au) \in Nat
      BY <1>1, <1>4, FrameOctetIs DEF GetsOK
    <2>2. ptr = q /\ data_bits = used
      BY <1>3
    <2> HIDE DEF q, used
    <2>3. q + 1 \in 1..Len(data) /\ q + 1 <= Len(data)
      BY <1>2, <1>5, <2>1 DEF Sent
    <2>4. data[q + 1] = SentByte(au, q + 1)
      BY <1>2, <2>3 DEF Sent
    <2> QED  BY <2>2, <2>3, <2>4
  <1>8. Fitting(c, used) = b
    OBVIOUS
  <1> HIDE DEF q, used, b, value, x
  <1>9. /\ ptr' = (pos + b) \div 8 /\ data_bits' = (pos + b) % 8
        /\ b = c => /\ values' = Append(values, value)
                    /\ asked' = <<0, NextCount(values')>>
        /\ b # c => /\ values' = values
                    /\ asked' = <<value \div 2^(c - b), c - b>>
        /\ UNCHANGED <<phase, writerVars>>
    <2> DEFINE result == asked[1] * 2^b
                            + ((data[ptr + 1] % 2^(8 - data_bits)) \div 2^(8 - data_bits - b))
    <2>1. asked[1] = value \div 2^c /\ asked[2] = c
      BY <1>3 DEF value
    <2>2. result = value \div 2^(c - b)
      BY <1>6, <1>7, <2>1
    <2>3. ptr # Len(data) /\ Fitting(asked[2], data_bits) = b
      BY <1>5, <1>7, <1>8, <1>2, <2>1 DEF LatmInv, LatmTypeOK
    <2>4. /\ ptr' = ptr + ((data_bits + b) \div 8)
          /\ data_bits' = Used(data_bits, b)
          /\ b = c => values' = Append(values, result) /\ asked' = <<0, NextCount(values')>>
          /\ b # c => values' = values /\ asked' = <<result, c - b>>
          /\ UNCHANGED <<phase, writerVars>>
      <3> HIDE DEF result
      <3> QED  BY <2>1, <2>3 DEF GetBits, result
    <2> HIDE DEF result
    <2>5. b = c => result = value
      BY <1>6, <2>2
    <2> QED  BY <1>5, <1>7, <2>2, <2>4, <2>5
  <1>10. Last \in Nat /\ Last' = Last /\ au' = au /\ asked[2] = c
    <2>1. Last \in Nat
      BY <1>1, FrameOctetIs DEF Last
    <2> QED  BY <2>1, <1>3, <1>9 DEF Last, writerVars
  <1>11. ASSUME b = c
         PROVE  /\ values' \in Seq(Nat) /\ Len(values') = n
                /\ \A k \in 1..Len(values') : values'[k] = SentValue(au, k)
                /\ n < Last => NextCount(values') = FieldCount(n + 1)
                /\ n = Last => NextCount(values') = 0
    <2>1. values' = Append(values, value)
      BY <1>9, <1>11
    <2>2. values' \in Seq(Nat) /\ Len(values') = n
      BY <1>2, <1>3, <1>6, <2>1
    <2>3. ASSUME NEW k \in 1..Len(values')
          PROVE  values'[k] = SentValue(au, k)
      <3>1. CASE k = n
        BY <3>1, <1>2, <1>3, <1>6, <2>1 DEF value
      <3>2. CASE k # n
        <4>1. k \in 1..Len(values)
          BY <3>2, <1>3, <1>6, <2>2
        <4> QED  BY <4>1, <1>2, <1>3, <1>6, <2>1
      <3> QED  BY <3>1, <3>2
    <2>4. Len(values') <= 18 + OctetCount(au)
      BY <1>3, <2>2 DEF Last
    <2> DEFINE vs == values'
    <2> HIDE DEF vs
    <2>5. /\ Len(vs) < 18 + OctetCount(au) => NextCount(vs) = FieldCount(Len(vs) + 1)
          /\ Len(vs) = 18 + OctetCount(au) => NextCount(vs) = 0
      BY <1>1, <2>2, <2>3, <2>4, NextIs DEF vs
    <2>6. /\ n < 18 + OctetCount(au) => NextCount(values') = FieldCount(n + 1)
          /\ n = 18 + OctetCount(au) => NextCount(values') = 0
      BY <2>2, <2>5 DEF vs
    <2> QED  BY <2>2, <2>3, <2>6 DEF Last
  <1>12. /\ values' \in Seq(Nat)
         /\ \A k \in 1..Len(values') : values'[k] = SentValue(au, k)
    BY <1>2, <1>3, <1>9, <1>11
  <1>13. \/ Len(values') = Last /\ pos + b = 8 * Last - 66 /\ asked' = <<0, 0>>
         \/ \E k, d \in Nat :
                /\ IsChunk(pos + b, k, d) /\ k <= Last /\ Len(values') = k - 1
                /\ asked' = <<SentValue(au, k) \div 2^d, d>>
    <2>1. CASE b # c
      <3>1. c - b \in Nat /\ b < c
        BY <2>1, <1>5, <1>6
      <3>2. asked' = <<SentValue(au, n) \div 2^(c - b), c - b>> /\ values' = values
        BY <2>1, <1>9 DEF value
      <3> QED  BY <3>1, <3>2, <1>3, <1>6
    <2>2. CASE b = c /\ n < Last
      <3> DEFINE d == FieldCount(n + 1)
                 k == n + 1
      <3>1. /\ IsChunk(pos + b, k, d) /\ d \in Nat /\ SentValue(au, k) \div 2^d = 0
        BY <2>2, <1>6 DEF Fits
      <3>2. asked' = <<0, d>>
        BY <2>2, <1>9, <1>11
      <3>3. k \in Nat /\ k <= Last /\ Len(values') = k - 1
        BY <2>2, <1>10, <1>11
      <3> HIDE DEF d, k
      <3> QED  BY <3>1, <3>2, <3>3
    <2>3. CASE b = c /\ n = Last
      BY <2>3, <1>6, <1>9, <1>10, <1>11
    <2> QED  BY <2>1, <2>2, <2>3, <1>3, <1>10
  <1>14. Reading'
    <2> DEFINE p == pos + b
    <2>1. p \in Nat /\ ptr' = p \div 8 /\ data_bits' = p % 8
      BY <1>5, <1>9
    <2>2. \/ Len(values') = Last' /\ p = 8 * Last' - 66 /\ asked' = <<0, 0>>
          \/ \E k, d \in Nat :
                /\ IsChunk(p, k, d) /\ k <= Last' /\ Len(values') = k - 1
                /\ asked' = <<SentValue(au', k) \div 2^d, d>>
      BY <1>10, <1>13
    <2>3. \A k \in 1..Len(values') : values'[k] = SentValue(au', k)
      BY <1>10, <1>12
    <2> HIDE DEF p
    <2> QED  BY <2>1, <2>2, <2>3 DEF Reading
  <1>15. asked' \in Nat \X (0..13)
    <2>1. CASE b # c
      <3> DEFINE d == c - b
      <3>1. d \in 1..13
        BY <2>1, <1>5, <1>6
      <3>2. asked' = <<value \div 2^d, d>>
        BY <2>1, <1>9
      <3> HIDE DEF d
      <3>3. value \div 2^d \in Nat
        BY <1>6, <3>1, QuotientIs
      <3> QED  BY <3>1, <3>2, <3>3
    <2>2. CASE b = c /\ n < Last
      BY <2>2, <1>6, <1>9, <1>11 DEF Fits
    <2>3. CASE b = c /\ n = Last
      BY <2>3, <1>9, <1>11
    <2> QED  BY <2>1, <2>2, <2>3, <1>3, <1>10
  <1>16. LatmTypeOK'
    <2>1. ptr' \in 0..Len(data') /\ data_bits' \in 0..7
      <3> DEFINE p == pos + b
      <3>1. p \in Nat /\ p \div 8 <= q + 1 /\ ptr' = p \div 8 /\ data_bits' = p % 8
        BY <1>5, <1>9
      <3> HIDE DEF p
      <3>2. Len(data') = Len(data) /\ Len(data) \in Nat
        BY <1>9 DEF writerVars, LatmInv, LatmTypeOK
      <3> QED  BY <1>5, <1>7, <3>1, <3>2
    <2> QED  BY <1>9, <1>12, <1>15, <2>1 DEF LatmInv, LatmTypeOK, writerVars
  <1>17. RestIsZero' /\ Sent'
    BY <1>2, <1>9 DEF RestIsZero, Sent, writerVars, LatmInv
  <1> QED  BY <1>2, <1>9, <1>14, <1>16, <1>17 DEF LatmInv, writerVars

LEMMA ReadWholeKeeps ==
    ASSUME LatmInv, ReadWhole
    PROVE  LatmInv'
  BY DEF LatmInv, ReadWhole, LatmTypeOK, RestIsZero, writerVars

LEMMA LatmInits ==
    ASSUME LatmInit
    PROVE  LatmInv
  BY DEF LatmInit, LatmInv, LatmTypeOK, RestIsZero

LEMMA LatmStutters ==
    ASSUME LatmInv, UNCHANGED latmVars
    PROVE  LatmInv'
  <1>1. /\ data' = data /\ byte_bits' = byte_bits /\ au' = au /\ todo' = todo
        /\ phase' = phase /\ ptr' = ptr /\ data_bits' = data_bits /\ asked' = asked
        /\ values' = values
    BY DEF latmVars, writerVars, readerVars
  <1>2. LatmTypeOK' /\ RestIsZero' /\ phase' # "failed"
    BY <1>1 DEF LatmInv, LatmTypeOK, RestIsZero
  <1>3. Writing' = Writing
    BY <1>1 DEF Writing, WrittenTo, ToWrite, Last
  <1>4. (Sent /\ Reading)' = (Sent /\ Reading)
    BY <1>1 DEF Sent, Reading, Last
  <1> QED  BY <1>1, <1>2, <1>3, <1>4 DEF LatmInv

LEMMA LatmInvIs == LatmSpec => []LatmInv
  <1>1. LatmInit => LatmInv
    BY LatmInits
  <1>2. LatmInv /\ [LatmNext]_latmVars => LatmInv'
    <2> SUFFICES ASSUME LatmInv, [LatmNext]_latmVars
                 PROVE  LatmInv'
      OBVIOUS
    <2>1. ASSUME NEW unit \in Aus, ProcessUntouchedStream(unit)
          PROVE  LatmInv'
      BY <2>1, ProcessUntouchedStreamKeeps
    <2>2. CASE AddBits
      BY <2>2, AddBitsKeeps
    <2>3. CASE WriteAudioMuxLengthBytes
      BY <2>3, WriteAudioMuxLengthBytesKeeps
    <2>4. CASE GetBits
      BY <2>4, GetBitsKeeps
    <2>5. CASE ReadWhole
      BY <2>5, ReadWholeKeeps
    <2>6. CASE UNCHANGED latmVars
      BY <2>6, LatmStutters
    <2> QED  BY <2>1, <2>2, <2>3, <2>4, <2>5, <2>6 DEF LatmNext
  <1> QED  BY <1>1, <1>2, PTL DEF LatmSpec

\* Whatever the AU, fields fit their bytes and counts, and the reader stays in the frame.
THEOREM LatmTypeCorrect == LatmSpec => []LatmTypeOK
  <1>1. LatmInv => LatmTypeOK
    BY DEF LatmInv
  <1> QED  BY <1>1, LatmInvIs, PTL

\* Bits not yet written are zero, so AddBits may put the next ones there by an or; and the
\* length, which straddles two bytes, is filled in elsewhere than in the last one.
THEOREM LatmRestIsZero == LatmSpec => []RestIsZero
  <1>1. LatmInv => RestIsZero
    BY DEF LatmInv
  <1> QED  BY <1>1, LatmInvIs, PTL

\* GetBits never runs out of bytes in a frame of ProcessUntouchedStream.
THEOREM LatmNeverShort == LatmSpec => []NeverShort
  <1>1. LatmInv => NeverShort
    BY DEF LatmInv, NeverShort
  <1> QED  BY <1>1, LatmInvIs, PTL

LEMMA ReadBack ==
    ASSUME LatmInv
    PROVE  ReadsBack
  <1> SUFFICES ASSUME phase = "reading" PROVE ReadsBack
    BY DEF ReadsBack
  <1>1. au \in Seq(0..255) /\ Len(au) < 65536
    BY AuIs DEF LatmInv, LatmTypeOK
  <1>2. Sent /\ Reading /\ values \in Seq(Nat)
    BY DEF LatmInv, LatmTypeOK
  <1> DEFINE m == OctetCount(au)
             len == Len(au)
             info == InfoCount(au)
  <1>3. /\ m \in Nat /\ len \in Nat /\ info \in Nat \ {0} /\ m = info + len
        /\ Last = 18 + m /\ Len(data) = m + 10
    BY <1>1, <1>2, FrameOctetIs, OfSeq DEF Last, Sent
  <1> HIDE DEF m, len, info
  <1>4. \A k \in 1..18 : Framed[k][1] = SentValue(au, k)
    <2>1. Framed[2][1] = FrameLength(au)
      <3>1. 2^13 = 8192 /\ Len(data) - 3 = m + 7
        BY <1>3
      <3>2. Framed[2][1] = (Len(data) - 3) % 2^13
        BY DEF Framed, Header
      <3> QED  BY <3>1, <3>2 DEF FrameLength, m
    <2>2. \A k \in 1..18 : k # 2 => Framed[k] = Header[k]
      <3>1. DOMAIN Header = 1..18
        BY DEF Header
      <3> QED  BY <3>1 DEF Framed
    <2> QED  BY <2>1, <2>2 DEF SentValue, FieldValue
  <1>5. PICK pos \in Nat :
            /\ ptr = pos \div 8 /\ data_bits = pos % 8
            /\ \A k \in 1..Len(values) : values[k] = SentValue(au, k)
            /\ \/ Len(values) = Last /\ pos = 8 * Last - 66 /\ asked = <<0, 0>>
               \/ \E n, c \in Nat :
                      /\ IsChunk(pos, n, c) /\ n <= Last /\ Len(values) = n - 1
                      /\ asked = <<SentValue(au, n) \div 2^c, c>>
    BY <1>2 DEF Reading
  <1>6. Len(Header) = 18
    BY DEF Header
  <1>7. ASSUME asked[2] = 0
        PROVE  /\ SubSeq(values, Len(values) - Len(au) + 1, Len(values)) = au
               /\ PayloadLength(values) = Len(au)
               /\ ptr = Len(data) - 1 /\ data_bits = 6
    <2>1. Len(values) = Last /\ pos = 8 * Last - 66
      <3>1. ASSUME NEW n \in Nat, NEW c \in Nat, IsChunk(pos, n, c), n <= Last,
                   asked = <<SentValue(au, n) \div 2^c, c>>
            PROVE  FALSE
        <4>1. c \in 1..13
          BY <1>1, <3>1, ChunkIs DEF ChunkOK, Last
        <4> QED  BY <1>7, <3>1, <4>1
      <3> QED  BY <1>5, <3>1
    <2>2. PayloadLength(values) = Len(au)
      <3>1. Len(values) = 18 + OctetCount(au) /\ Len(values) <= 18 + OctetCount(au)
        BY <1>3, <2>1 DEF m
      <3>2. \A k \in 1..Len(values) : values[k] = SentValue(au, k)
        BY <1>5
      <3> QED  BY <1>1, <1>2, <3>1, <3>2, NextIs
    <2>3. ptr = Len(data) - 1 /\ data_bits = 6
      <3>1. pos = 8 * (m + 9) + 6
        BY <1>3, <2>1
      <3>2. pos \div 8 = m + 9 /\ pos % 8 = 6
        BY <1>3, <3>1
      <3> QED  BY <1>3, <1>5, <3>2
    <2>4. \A k \in 1..len : values[18 + info + k] = au[k]
      <3> SUFFICES ASSUME NEW k \in 1..len PROVE values[18 + info + k] = au[k]
        OBVIOUS
      <3> DEFINE j == 18 + info + k
      <3>1. j \in 1..Len(values) /\ j > 18 /\ j # 2 /\ j - 18 = info + k
        BY <1>3, <2>1
      <3>2. values[j] = SentValue(au, j)
        BY <1>5, <3>1
      <3> HIDE DEF j
      <3>3. SentValue(au, j) = FrameOctet(au, info + k)
        BY <3>1 DEF SentValue, FieldValue
      <3>4. FrameOctet(au, info + k) = au[k]
        BY <1>3 DEF FrameOctet, m, info, len
      <3> QED  BY <3>2, <3>3, <3>4 DEF j
    <2>5. SubSeq(values, Len(values) - len + 1, Len(values)) = au
      <3> DEFINE s == SubSeq(values, Len(values) - len + 1, Len(values))
      <3>1. Len(values) - len = 18 + info
        BY <1>3, <2>1
      <3>2. Len(s) = len /\ s \in Seq(Nat) /\ \A k \in 1..len : s[k] = values[18 + info + k]
        BY <1>2, <1>3, <2>1, <3>1
      <3> HIDE DEF s
      <3>3. s = au
        BY <1>1, <1>3, <2>4, <3>2 DEF len
      <3> QED  BY <3>3 DEF s
    <2> QED  BY <2>2, <2>3, <2>5 DEF len
  <1>8. \A k \in 1..Len(Header) : k <= Len(values) => values[k] = Framed[k][1]
    <2> SUFFICES ASSUME NEW k \in 1..18, k <= Len(values)
                 PROVE  values[k] = Framed[k][1]
      BY <1>6
    <2>1. k \in 1..Len(values)
      BY <1>2
    <2> QED  BY <1>4, <1>5, <2>1
  <1> QED  BY <1>7, <1>8 DEF ReadsBack

\* Whatever the AU, of up to 65535 bytes, a demultiplexer that reads the frame a field at a
\* time finds the values ProcessUntouchedStream wrote, the AU itself and its length; and
\* where the length of the frame should be, that length modulo 2^13.
THEOREM LatmReadsBack == LatmSpec => []ReadsBack
  BY ReadBack, LatmInvIs, PTL

-----------------------------------------------------------------------------
(* CircularBuffer. *)

USE CapacityAssumption, MaxBytesAssumption

\* What "modulo the capacity" amounts to below twice the capacity.
Wrapped(x) == IF x < Capacity THEN x ELSE x - Capacity
Below == 0..(2 * Capacity - 1)

\* Both indices stay below twice the capacity before they are taken modulo it.
LEMMA Modulo == \A x \in Below : x % Capacity = Wrapped(x) /\ Wrapped(x) \in Cells
  <1> SUFFICES ASSUME NEW x \in Below
               PROVE  x % Capacity = Wrapped(x) /\ Wrapped(x) \in Cells
      OBVIOUS
  <1>1. CASE x < Capacity BY <1>1, SMT DEF Below, Wrapped, Cells
  <1>2. CASE x >= Capacity
      <2>1. PICK y \in Cells : x = y + Capacity BY <1>2, SMT DEF Below, Cells
      <2>2. (y + Capacity) % Capacity = y BY SMT DEF Cells
      <2>3. Wrapped(x) = y BY <1>2, <2>1 DEF Wrapped, Cells
      <2> QED BY <2>1, <2>2, <2>3
  <1> QED BY <1>1, <1>2 DEF Below

\* An index taken modulo the capacity is one of a cell.
LEMMA AdvancedIsCell ==
    ASSUME NEW index \in Cells, NEW n \in 0..Capacity
    PROVE  Advanced(index, n) = Wrapped(index + n) /\ Advanced(index, n) \in Cells
  <1> DEFINE x == index + n
  <1>1. x \in Below BY DEF Below, Cells
  <1>2. x % Capacity = Wrapped(x) /\ Wrapped(x) \in Cells
      <2> HIDE DEF x
      <2> QED BY <1>1, Modulo, Zenon
  <1> QED BY <1>2, Zenon DEF Advanced

\* How the contents are found by arithmetic without a modulus.
LEMMA ContentsWrapped ==
    ASSUME BufferTypeOK
    PROVE  Contents = [k \in 1..size |-> buffer[Wrapped(index_start + k - 1)]]
  <1>1. ASSUME NEW k \in 1..size
        PROVE  (index_start + k - 1) % Capacity = Wrapped(index_start + k - 1)
      <2> DEFINE x == index_start + k - 1
      <2>1. x \in Below BY DEF Below, Cells, BufferTypeOK
      <2> HIDE DEF x
      <2>2. x % Capacity = Wrapped(x) BY <2>1, Modulo, Zenon
      <2> QED BY <2>2, Zenon DEF x
  <1> QED BY <1>1, Zenon DEF Contents

-----------------------------------------------------------------------------
(* CircularBuffer: the invariants. *)

\* What the proofs of both invariants and of the refinement rest on.
BufferInv == BufferTypeOK /\ SizeIsDistance

\* A copy writes bytes into cells.
LEMMA CopiedInType ==
    ASSUME NEW array \in [Cells -> Byte], NEW written \in Seq(Byte), NEW at \in Nat,
           NEW from \in Nat, NEW n \in Nat, from + n <= Len(written)
    PROVE  CopiedIn(array, at, written, from, n) \in [Cells -> Byte]
  <1>1. ASSUME NEW c \in Cells, c \in at..(at + n - 1)
        PROVE  written[from + c - at + 1] \in Byte
      <2>1. from + c - at + 1 \in 1..Len(written) BY <1>1 DEF Cells
      <2> QED BY <2>1
  <1> QED BY <1>1 DEF CopiedIn

\* A call of Write.
LEMMA WriteInv ==
    ASSUME BufferInv, NEW n \in 0..MaxBytes, NEW written \in [1..n -> Byte], Write(written)
    PROVE  BufferInv'
  <1> DEFINE real == AtMost(Capacity - size, Len(written))
             first == Capacity - index_end
  <1>1. written \in Seq(Byte) /\ Len(written) = n OBVIOUS
  <1>2. real \in Nat /\ real <= Capacity - size /\ real <= Len(written)
      BY <1>1 DEF AtMost, BufferInv, BufferTypeOK
  <1>3. first \in 1..Capacity BY DEF BufferInv, BufferTypeOK, Cells
  <1>4. /\ buffer' = IF real <= first THEN CopiedIn(buffer, index_end, written, 0, real)
                     ELSE CopiedIn(CopiedIn(buffer, index_end, written, 0, first),
                                   0, written, first, real - first)
        /\ index_end' = Advanced(index_end, real)
        /\ size' = size + real /\ returned' = real /\ output' = << >>
        /\ index_start' = index_start
      BY DEF Write
  <1> HIDE DEF real, first
  <1>5. buffer' \in [Cells -> Byte]
      <2> SUFFICES buffer \in [Cells -> Byte] /\ index_end \in Nat
                   => buffer' \in [Cells -> Byte]
          BY DEF BufferInv, BufferTypeOK, Cells
      <2> HAVE buffer \in [Cells -> Byte] /\ index_end \in Nat
      <2>1. CASE real <= first
          <3>1. CopiedIn(buffer, index_end, written, 0, real) \in [Cells -> Byte]
              BY <1>1, <1>2, CopiedInType
          <3> QED BY <2>1, <3>1, <1>4
      <2>2. CASE real > first
          <3> DEFINE half == CopiedIn(buffer, index_end, written, 0, first)
          <3>1. half \in [Cells -> Byte] BY <1>1, <1>2, <1>3, <2>2, CopiedInType
          <3> HIDE DEF half
          <3>2. CopiedIn(half, 0, written, first, real - first) \in [Cells -> Byte]
              BY <1>1, <1>2, <1>3, <2>2, <3>1, CopiedInType
          <3> QED BY <2>2, <3>2, <1>2, <1>3, <1>4 DEF half
      <2> QED BY <2>1, <2>2, <1>2, <1>3
  <1>6. index_end' \in Cells /\ index_end' = Wrapped(index_end + real)
      BY <1>2, <1>4, AdvancedIsCell DEF BufferInv, BufferTypeOK
  <1>7. index_end = Wrapped(index_start + size)
      BY AdvancedIsCell DEF BufferInv, BufferTypeOK, SizeIsDistance, Advanced
  <1>8. index_end' = Wrapped(index_start' + size')
      BY <1>2, <1>4, <1>6, <1>7 DEF Wrapped, BufferInv, BufferTypeOK, Cells
  <1>9. size' \in 0..Capacity BY <1>2, <1>4 DEF BufferInv, BufferTypeOK
  <1>10. BufferTypeOK'
      BY <1>2, <1>4, <1>5, <1>6, <1>9 DEF BufferInv, BufferTypeOK
  <1>11. SizeIsDistance'
      <2>1. Advanced(index_start', size') = Wrapped(index_start' + size')
          BY <1>9, <1>10, AdvancedIsCell DEF BufferTypeOK
      <2> QED BY <1>8, <2>1 DEF SizeIsDistance, Advanced
  <1> QED BY <1>10, <1>11 DEF BufferInv

\* So does a copy out of cells.
LEMMA CopiedOutType ==
    ASSUME buffer \in [Cells -> Byte], NEW at \in Nat, NEW n \in Nat, at + n <= Capacity
    PROVE  CopiedOut(at, n) \in Seq(Byte) /\ Len(CopiedOut(at, n)) = n
  <1>1. ASSUME NEW k \in 1..n PROVE buffer[at + k - 1] \in Byte
      <2>1. at + k - 1 \in Cells BY DEF Cells
      <2> QED BY <2>1
  <1> QED BY <1>1 DEF CopiedOut

\* A call of Read.
LEMMA ReadInv ==
    ASSUME BufferInv, NEW bytes \in 0..MaxBytes, NEW keep \in BOOLEAN, Read(bytes, keep)
    PROVE  BufferInv'
  <1> DEFINE real == AtMost(size, bytes)
             first == Capacity - index_start
  <1>1. real \in Nat /\ real <= size /\ real <= bytes /\ real <= Capacity
      BY DEF AtMost, BufferInv, BufferTypeOK
  <1>2. first \in 1..Capacity /\ first \in Nat BY DEF BufferInv, BufferTypeOK, Cells
  <1>3. /\ output' = IF ~keep THEN << >>
                     ELSE IF real <= first THEN CopiedOut(index_start, real)
                     ELSE CopiedOut(index_start, first) \o CopiedOut(0, real - first)
        /\ index_start' = Advanced(index_start, real)
        /\ size' = size - real /\ returned' = real
        /\ buffer' = buffer /\ index_end' = index_end
      BY DEF Read
  <1>4. index_start + first = Capacity /\ index_start \in Nat
      BY DEF BufferInv, BufferTypeOK, Cells
  <1> HIDE DEF real, first
  <1>5. output' \in Seq(Byte)
      <2>1. buffer \in [Cells -> Byte] BY DEF BufferInv, BufferTypeOK
      <2>2. CASE ~keep BY <2>2, <1>3
      <2>3. CASE keep /\ real <= first
          <3>1. CopiedOut(index_start, real) \in Seq(Byte)
              BY <1>1, <1>2, <1>4, <2>1, <2>3, CopiedOutType
          <3> QED BY <1>3, <2>3, <3>1
      <2>4. CASE keep /\ real > first
          <3>1. CopiedOut(index_start, first) \in Seq(Byte)
              BY <1>2, <1>4, <2>1, CopiedOutType
          <3>2. CopiedOut(0, real - first) \in Seq(Byte)
              BY <1>1, <1>2, <2>1, <2>4, CopiedOutType
          <3>3. ~(real <= first) BY <1>1, <1>2, <2>4
          <3> QED BY <1>3, <2>4, <3>1, <3>2, <3>3
      <2> QED BY <2>2, <2>3, <2>4, <1>1, <1>2
  <1>6. index_start' \in Cells /\ index_start' = Wrapped(index_start + real)
      BY <1>1, <1>3, AdvancedIsCell DEF BufferInv, BufferTypeOK
  <1>7. index_end = Wrapped(index_start + size)
      BY AdvancedIsCell DEF BufferInv, BufferTypeOK, SizeIsDistance, Advanced
  <1>8. index_end' = Wrapped(index_start' + size')
      BY <1>1, <1>3, <1>6, <1>7 DEF Wrapped, BufferInv, BufferTypeOK, Cells
  <1>9. size' \in 0..Capacity BY <1>1, <1>3 DEF BufferInv, BufferTypeOK
  <1>10. BufferTypeOK'
      BY <1>1, <1>3, <1>5, <1>6, <1>9 DEF BufferInv, BufferTypeOK
  <1>11. SizeIsDistance'
      <2>1. Advanced(index_start', size') = Wrapped(index_start' + size')
          BY <1>9, <1>10, AdvancedIsCell DEF BufferTypeOK
      <2> QED BY <1>8, <2>1 DEF SizeIsDistance, Advanced
  <1> QED BY <1>10, <1>11 DEF BufferInv

\* An empty buffer starts at cell 0, and so do its indices.
LEMMA EmptyInv ==
    ASSUME size = 0, index_start = 0, index_end = 0, buffer \in [Cells -> Byte],
           returned \in Nat, output = << >>
    PROVE  BufferInv
  <1>1. 0 \in Cells /\ 0 \in 0..Capacity BY DEF Cells
  <1>2. Advanced(0, 0) = Wrapped(0 + 0) BY <1>1, AdvancedIsCell
  <1>3. Wrapped(0 + 0) = 0 BY DEF Wrapped
  <1> QED BY <1>1, <1>2, <1>3 DEF BufferInv, BufferTypeOK, SizeIsDistance, Advanced

\* Every call preserves the type and the distance between the indices.
LEMMA BufferInductive == BufferInv /\ [BufferNext]_bufferVars => BufferInv'
  <1> SUFFICES ASSUME BufferInv, [BufferNext]_bufferVars PROVE BufferInv'
      OBVIOUS
  <1>1. ASSUME NEW n \in 0..MaxBytes, NEW written \in [1..n -> Byte], Write(written)
        PROVE  BufferInv'
      BY <1>1, WriteInv
  <1>2. ASSUME NEW bytes \in 0..MaxBytes, NEW keep \in BOOLEAN, Read(bytes, keep)
        PROVE  BufferInv'
      BY <1>2, ReadInv
  <1>3. CASE Clear
      <2>1. buffer' \in [Cells -> Byte] /\ returned' \in Nat
          BY <1>3 DEF Clear, BufferInv, BufferTypeOK
      <2>2. size' = 0 /\ index_start' = 0 /\ index_end' = 0 /\ output' = << >>
          BY <1>3 DEF Clear
      <2>3. 0 \in Cells /\ 0 \in 0..Capacity BY DEF Cells
      <2>4. Advanced(0, 0) = Wrapped(0 + 0) BY <2>3, AdvancedIsCell
      <2>5. Wrapped(0 + 0) = 0 BY DEF Wrapped
      <2> QED BY <2>1, <2>2, <2>3, <2>4, <2>5
              DEF BufferInv, BufferTypeOK, SizeIsDistance, Advanced
  <1>4. CASE UNCHANGED bufferVars
      BY <1>4 DEF bufferVars, BufferInv, BufferTypeOK, SizeIsDistance
  <1> QED BY <1>1, <1>2, <1>3, <1>4 DEF BufferNext

\* For every capacity and whatever the calls: the indices stay in the array, and the
\* size that Write and Read keep apart from them is the distance between them.
THEOREM BufferSafe == BufferSpec => [](BufferTypeOK /\ SizeIsDistance)
  <1>1. BufferInit => BufferInv
      <2> SUFFICES ASSUME BufferInit PROVE BufferInv
          OBVIOUS
      <2> QED BY EmptyInv DEF BufferInit
  <1>2. BufferInv => BufferTypeOK /\ SizeIsDistance BY DEF BufferInv
  <1> QED BY <1>1, <1>2, BufferInductive, PTL DEF BufferSpec

-----------------------------------------------------------------------------
(* CircularBuffer: the refinement. *)

\* The contents after a state in which the indices are known.
ContentAt(k) == buffer[Wrapped(index_start + k - 1)]

ContentsHeld ==
    /\ Contents \in Seq(Byte) /\ Len(Contents) = size
    /\ \A k \in 1..size : Contents[k] = ContentAt(k)

\* The contents are as many bytes as size says.
LEMMA ContentsAreHeld == BufferTypeOK => ContentsHeld
  <1> SUFFICES ASSUME BufferTypeOK PROVE ContentsHeld
      OBVIOUS
  <1>1. ASSUME NEW k \in 1..size PROVE ContentAt(k) \in Byte
      <2>1. Wrapped(index_start + k - 1) \in Cells BY DEF BufferTypeOK, Cells, Wrapped
      <2> QED BY <2>1 DEF BufferTypeOK, ContentAt
  <1>2. Contents = [k \in 1..size |-> ContentAt(k)] BY ContentsWrapped, Zenon DEF ContentAt
  <1>3. size \in Nat BY DEF BufferTypeOK
  <1> QED BY <1>1, <1>2, <1>3 DEF ContentsHeld

\* Where Write puts the bytes it takes, and what it leaves alone.
LEMMA WriteCells ==
    ASSUME BufferInv, NEW n \in 0..MaxBytes, NEW written \in [1..n -> Byte], Write(written),
           NEW k \in 1..(size + returned')
    PROVE  buffer'[Wrapped(index_start + k - 1)] =
               IF k <= size THEN ContentAt(k) ELSE written[k - size]
  <1> DEFINE real == AtMost(Capacity - size, Len(written))
             first == Capacity - index_end
             x == Wrapped(index_start + k - 1)
  <1>1. written \in Seq(Byte) /\ Len(written) = n OBVIOUS
  <1>2. real \in Nat /\ real <= Capacity - size /\ real <= Len(written)
      BY <1>1 DEF AtMost, BufferInv, BufferTypeOK
  <1>3. /\ buffer' = IF real <= first THEN CopiedIn(buffer, index_end, written, 0, real)
                     ELSE CopiedIn(CopiedIn(buffer, index_end, written, 0, first),
                                   0, written, first, real - first)
        /\ returned' = real
      BY DEF Write
  <1>4. first = Capacity - index_end OBVIOUS
  <1> HIDE DEF real, first
  <1>5. index_end = Wrapped(index_start + size)
      BY AdvancedIsCell DEF BufferInv, BufferTypeOK, SizeIsDistance, Advanced
  <1>6. /\ index_start \in 0..(Capacity - 1) /\ index_end \in 0..(Capacity - 1)
        /\ size \in 0..Capacity /\ k \in 1..(size + real)
      BY <1>3 DEF BufferInv, BufferTypeOK, Cells
  <1>7. x \in Cells BY <1>2, <1>6 DEF Wrapped, Cells
  <1>8. CASE real <= first
      <2>1. buffer'[x] = IF x \in index_end..(index_end + real - 1)
                         THEN written[0 + x - index_end + 1] ELSE buffer[x]
          BY <1>3, <1>7, <1>8 DEF CopiedIn
      <2>2. CASE k <= size
          <3>1. ~(x \in index_end..(index_end + real - 1))
              BY <1>2, <1>4, <1>5, <1>6, <1>8, <2>2 DEF Wrapped
          <3> QED BY <2>1, <2>2, <3>1 DEF ContentAt
      <2>3. CASE k > size
          <3>1. /\ x \in index_end..(index_end + real - 1)
                /\ 0 + x - index_end + 1 = k - size
              BY <1>2, <1>4, <1>5, <1>6, <1>8, <2>3 DEF Wrapped
          <3>2. ~(k <= size) BY <1>6, <2>3
          <3> QED BY <2>1, <3>1, <3>2
      <2> QED BY <2>2, <2>3, <1>6
  <1>9. CASE ~(real <= first)
      <2> DEFINE half == CopiedIn(buffer, index_end, written, 0, first)
      <2>1. half[x] = IF x \in index_end..(index_end + first - 1)
                      THEN written[0 + x - index_end + 1] ELSE buffer[x]
          BY <1>7 DEF CopiedIn
      <2>2. buffer'[x] = IF x \in 0..(0 + (real - first) - 1)
                         THEN written[first + x - 0 + 1] ELSE half[x]
          <3> HIDE DEF half
          <3>1. buffer' = CopiedIn(half, 0, written, first, real - first)
              BY <1>3, <1>9 DEF half
          <3> QED BY <1>7, <3>1 DEF CopiedIn
      <2> HIDE DEF half
      <2>3. CASE k <= size
          <3>1. /\ ~(x \in 0..(0 + (real - first) - 1))
                /\ ~(x \in index_end..(index_end + first - 1))
              BY <1>2, <1>4, <1>5, <1>6, <1>9, <2>3 DEF Wrapped
          <3> QED BY <2>1, <2>2, <2>3, <3>1 DEF ContentAt
      <2>4. CASE k > size /\ k - size <= first
          <3>1. /\ ~(x \in 0..(0 + (real - first) - 1))
                /\ x \in index_end..(index_end + first - 1)
                /\ 0 + x - index_end + 1 = k - size
              BY <1>2, <1>4, <1>5, <1>6, <1>9, <2>4 DEF Wrapped
          <3>2. ~(k <= size) BY <1>6, <2>4
          <3> QED BY <2>1, <2>2, <3>1, <3>2
      <2>5. CASE k > size /\ k - size > first
          <3>1. /\ x \in 0..(0 + (real - first) - 1)
                /\ first + x - 0 + 1 = k - size
              BY <1>2, <1>4, <1>5, <1>6, <1>9, <2>5 DEF Wrapped
          <3>2. ~(k <= size) BY <1>6, <2>5
          <3> QED BY <2>2, <3>1, <3>2
      <2> QED BY <2>3, <2>4, <2>5, <1>4, <1>6
  <1> QED BY <1>8, <1>9

\* Two sequences of equal length with equal elements are equal.
LEMMA SameSeq ==
    ASSUME NEW S, NEW a \in Seq(S), NEW b \in Seq(S), Len(a) = Len(b),
           \A k \in 1..Len(a) : a[k] = b[k]
    PROVE  a = b
  OBVIOUS

\* The first n elements of a sequence.
LEMMA FrontOf ==
    ASSUME NEW S, NEW a \in Seq(S), NEW n \in Nat, n <= Len(a)
    PROVE  /\ SubSeq(a, 1, n) \in Seq(S) /\ Len(SubSeq(a, 1, n)) = n
           /\ \A k \in 1..n : SubSeq(a, 1, n)[k] = a[k]
  OBVIOUS

\* Write appends what it takes of the written.
LEMMA WritePuts ==
    ASSUME BufferInv, NEW n \in 0..MaxBytes, NEW written \in [1..n -> Byte], Write(written)
    PROVE  Queue!Put(written)
  <1>1. BufferTypeOK /\ BufferTypeOK' BY WriteInv DEF BufferInv
  <1>2. written \in Seq(Byte) /\ Len(written) = n OBVIOUS
  <1>3. Contents \in Seq(Byte) /\ Len(Contents) = size
      BY <1>1, ContentsAreHeld DEF ContentsHeld
  <1>4. /\ Contents' \in Seq(Byte) /\ Len(Contents') = size'
        /\ \A k \in 1..size' : Contents'[k] = ContentAt(k)'
      <2>1. (BufferTypeOK => ContentsHeld)' BY ContentsAreHeld, PTL
      <2> QED BY <1>1, <2>1 DEF ContentsHeld
  <1> DEFINE real == AtMost(Capacity - size, Len(written))
             taken == SubSeq(written, 1, real)
             put == Contents \o taken
  <1>5. /\ returned' = real /\ size' = size + real /\ index_start' = index_start
        /\ call' = <<"write", written>> /\ output' = << >>
      BY DEF Write
  <1>6. real \in Nat /\ real <= Len(written) /\ size \in Nat
      BY <1>1, <1>2 DEF AtMost, BufferTypeOK
  <1>7. real = AtMost(Capacity - size, Len(written)) OBVIOUS
  <1> HIDE DEF real
  <1>8. /\ taken \in Seq(Byte) /\ Len(taken) = real
        /\ \A k \in 1..real : taken[k] = written[k]
      BY <1>2, <1>6, FrontOf
  <1> HIDE DEF taken
  <1>9. put \in Seq(Byte) /\ Len(put) = size' BY <1>3, <1>5, <1>6, <1>8
  <1>10. ASSUME NEW k \in 1..(size + real) PROVE Contents'[k] = put[k]
      <2>1. Contents'[k] = IF k <= size THEN ContentAt(k) ELSE written[k - size]
          BY <1>4, <1>5, WriteCells DEF ContentAt
      <2>2. CASE k <= size
          <3>1. put[k] = Contents[k] BY <1>3, <1>6, <1>8, <2>2
          <3>2. Contents[k] = ContentAt(k)
              BY <1>1, <1>6, <2>2, ContentsAreHeld DEF ContentsHeld
          <3> QED BY <2>1, <2>2, <3>1, <3>2
      <2>3. CASE ~(k <= size)
          <3>1. k - size \in 1..real BY <1>6, <2>3
          <3>2. put[k] = taken[k - size] BY <1>3, <1>6, <1>8, <2>3
          <3> QED BY <1>8, <2>1, <2>3, <3>1, <3>2
      <2> QED BY <2>2, <2>3
  <1>11. Contents' = put
      <2> HIDE DEF put
      <2> QED BY <1>4, <1>5, <1>9, <1>10, SameSeq
  <1> QED BY <1>3, <1>5, <1>7, <1>11 DEF taken, Queue!Put, Queue!AtMost, AtMost

\* Read takes from the front what it returns, and gives it in order.
LEMMA ReadTakes ==
    ASSUME BufferInv, NEW bytes \in 0..MaxBytes, NEW keep \in BOOLEAN, Read(bytes, keep)
    PROVE  Queue!Take(bytes, keep)
  <1>1. BufferTypeOK /\ BufferTypeOK' BY ReadInv DEF BufferInv
  <1>2. /\ Contents \in Seq(Byte) /\ Len(Contents) = size
        /\ \A k \in 1..size : Contents[k] = ContentAt(k)
      BY <1>1, ContentsAreHeld DEF ContentsHeld
  <1>3. /\ Contents' \in Seq(Byte) /\ Len(Contents') = size'
        /\ \A k \in 1..size' : Contents'[k] = ContentAt(k)'
      <2>1. (BufferTypeOK => ContentsHeld)' BY ContentsAreHeld, PTL
      <2> QED BY <1>1, <2>1 DEF ContentsHeld
  <1> DEFINE real == AtMost(size, bytes)
             first == Capacity - index_start
  <1>4. /\ output' = IF ~keep THEN << >>
                     ELSE IF real <= first THEN CopiedOut(index_start, real)
                     ELSE CopiedOut(index_start, first) \o CopiedOut(0, real - first)
        /\ index_start' = Advanced(index_start, real)
        /\ size' = size - real /\ returned' = real
        /\ buffer' = buffer /\ call' = <<"read", bytes, keep>>
      BY DEF Read
  <1>5. real \in 0..size /\ real \in 0..Capacity BY <1>1 DEF AtMost, BufferTypeOK
  <1>6. /\ first = Capacity - index_start /\ index_start \in Cells
        /\ index_start \in 0..(Capacity - 1) /\ size \in 0..Capacity
        /\ buffer \in [Cells -> Byte]
      BY <1>1 DEF BufferTypeOK, Cells
  <1>7. real = AtMost(size, bytes) OBVIOUS
  <1> HIDE DEF real, first
  <1>8. index_start' = Wrapped(index_start + real) BY <1>4, <1>5, <1>6, AdvancedIsCell
  <1>9. Contents' = SubSeq(Contents, real + 1, size)
      <2> DEFINE rest == SubSeq(Contents, real + 1, size)
      <2>1. /\ rest \in Seq(Byte) /\ Len(rest) = size'
            /\ \A k \in 1..size' : rest[k] = Contents[real + k]
          BY <1>2, <1>4, <1>5, <1>6
      <2> HIDE DEF rest
      <2>2. ASSUME NEW k \in 1..size' PROVE Contents'[k] = rest[k]
          <3>1. k \in 1..(size - real) /\ real + k \in 1..size BY <1>4, <1>5, <1>6
          <3>2. Wrapped(Wrapped(index_start + real) + k - 1)
                    = Wrapped(index_start + (real + k) - 1)
              BY <1>5, <1>6, <3>1 DEF Wrapped
          <3>3. Contents'[k] = ContentAt(real + k)
              BY <1>3, <1>4, <1>8, <3>2 DEF ContentAt
          <3> QED BY <1>2, <2>1, <3>1, <3>3
      <2>3. Contents' = rest BY <1>3, <2>1, <2>2, SameSeq
      <2> QED BY <2>3 DEF rest
  <1>10. output' = IF keep THEN SubSeq(Contents, 1, real) ELSE << >>
      <2> SUFFICES ASSUME keep PROVE output' = SubSeq(Contents, 1, real)
          BY <1>4
      <2> DEFINE front == SubSeq(Contents, 1, real)
      <2>1. /\ front \in Seq(Byte) /\ Len(front) = real
            /\ \A k \in 1..real : front[k] = ContentAt(k)
          BY <1>2, <1>5, <1>6
      <2> HIDE DEF front
      <2>2. CASE real <= first
          <3> DEFINE one == CopiedOut(index_start, real)
          <3>1. one \in Seq(Byte) /\ Len(one) = real
              BY <1>5, <1>6, <2>2, CopiedOutType
          <3>2. ASSUME NEW k \in 1..real PROVE one[k] = front[k]
              <4>1. one[k] = buffer[index_start + k - 1] BY DEF CopiedOut
              <4>2. Wrapped(index_start + k - 1) = index_start + k - 1
                  BY <1>5, <1>6, <2>2 DEF Wrapped
              <4> QED BY <2>1, <4>1, <4>2 DEF ContentAt
          <3>3. output' = one BY <1>4, <2>2
          <3> HIDE DEF one
          <3>4. one = front BY <2>1, <3>1, <3>2, SameSeq
          <3> QED BY <3>3, <3>4 DEF front
      <2>3. CASE ~(real <= first)
          <3> DEFINE left == CopiedOut(index_start, first)
                     right == CopiedOut(0, real - first)
                     both == left \o right
          <3>1. /\ left \in Seq(Byte) /\ Len(left) = first
                /\ right \in Seq(Byte) /\ Len(right) = real - first
              <4>1. first \in Nat /\ index_start \in Nat /\ index_start + first <= Capacity
                  BY <1>6
              <4>2. real - first \in Nat /\ 0 + (real - first) <= Capacity
                  BY <1>5, <1>6, <2>3
              <4>3. left \in Seq(Byte) /\ Len(left) = first
                  BY <1>6, <4>1, CopiedOutType
              <4>4. right \in Seq(Byte) /\ Len(right) = real - first
                  BY <1>6, <4>2, CopiedOutType
              <4> QED BY <4>3, <4>4
          <3>2. \A k \in 1..first : left[k] = buffer[index_start + k - 1]
              BY DEF CopiedOut
          <3>3. \A k \in 1..(real - first) : right[k] = buffer[0 + k - 1]
              BY DEF CopiedOut
          <3>4. output' = both BY <1>4, <2>3
          <3> HIDE DEF left, right
          <3>5. both \in Seq(Byte) /\ Len(both) = real BY <1>5, <1>6, <2>3, <3>1
          <3>6. ASSUME NEW k \in 1..real PROVE both[k] = front[k]
              <4>1. CASE k <= first
                  <5>1. k \in 1..first BY <1>5, <1>6, <4>1
                  <5>2. both[k] = left[k] BY <1>5, <1>6, <2>3, <3>1, <5>1
                  <5>3. Wrapped(index_start + k - 1) = index_start + k - 1
                      BY <1>6, <5>1 DEF Wrapped
                  <5> QED BY <2>1, <3>2, <5>1, <5>2, <5>3 DEF ContentAt
              <4>2. CASE ~(k <= first)
                  <5>1. k - first \in 1..(real - first) BY <1>5, <1>6, <4>2
                  <5>2. both[k] = right[k - first] BY <1>5, <1>6, <2>3, <3>1, <4>2
                  <5>3. Wrapped(index_start + k - 1) = 0 + (k - first) - 1
                      BY <1>5, <1>6, <4>2 DEF Wrapped
                  <5> QED BY <2>1, <3>3, <5>1, <5>2, <5>3 DEF ContentAt
              <4> QED BY <4>1, <4>2
          <3> HIDE DEF both
          <3>7. both = front BY <2>1, <3>5, <3>6, SameSeq
          <3> QED BY <3>4, <3>7 DEF front
      <2> QED BY <2>2, <2>3
  <1> QED BY <1>2, <1>4, <1>7, <1>9, <1>10 DEF Queue!Take, Queue!AtMost, AtMost

\* The part of it that the runs check by itself: whatever Write, Read and Clear are called
\* with, nothing is written beyond the array.
THEOREM BufferTypeCorrect == BufferSpec => []BufferTypeOK
  BY BufferSafe, PTL

\* For every capacity and whatever the calls, the buffer behaves as a queue of bytes:
\* none is lost, repeated or overtaken where a copy is split at the end of the array.
THEOREM BufferIsQueue == BufferSpec => ImplementsQueue
  <1>1. BufferInit => BufferInv
      <2> SUFFICES ASSUME BufferInit PROVE BufferInv
          OBVIOUS
      <2> QED BY EmptyInv DEF BufferInit
  <1>2. BufferInit => Queue!Init
      <2> SUFFICES ASSUME BufferInit PROVE Queue!Init
          OBVIOUS
      <2>1. Contents \in Seq(Byte) /\ Len(Contents) = 0
          BY <1>1, ContentsAreHeld DEF BufferInit, BufferInv, ContentsHeld
      <2>2. Contents = << >> BY <2>1
      <2> QED BY <2>2 DEF BufferInit, Queue!Init
  <1>3. BufferInv /\ [BufferNext]_bufferVars => [Queue!Next]_(Queue!queueVars)
      <2> SUFFICES ASSUME BufferInv, [BufferNext]_bufferVars
                   PROVE  [Queue!Next]_(Queue!queueVars)
          OBVIOUS
      <2>1. ASSUME NEW n \in 0..MaxBytes, NEW written \in [1..n -> Byte], Write(written)
            PROVE  Queue!Next
          BY <2>1, WritePuts DEF Queue!Next
      <2>2. ASSUME NEW bytes \in 0..MaxBytes, NEW keep \in BOOLEAN, Read(bytes, keep)
            PROVE  Queue!Next
          BY <2>2, ReadTakes DEF Queue!Next
      <2>3. CASE Clear
          <3>1. BufferTypeOK' BY BufferInductive DEF BufferInv
          <3>2. (BufferTypeOK => ContentsHeld)' BY ContentsAreHeld, PTL
          <3>3. Contents' \in Seq(Byte) /\ Len(Contents') = 0
              BY <2>3, <3>1, <3>2 DEF Clear, ContentsHeld
          <3>4. Contents' = << >> BY <3>3
          <3> QED BY <2>3, <3>4 DEF Clear, Queue!Next, Queue!Empty
      <2>4. CASE UNCHANGED bufferVars
          BY <2>4 DEF bufferVars, Queue!queueVars, Contents
      <2> QED BY <2>1, <2>2, <2>3, <2>4 DEF BufferNext
  <1> QED BY <1>1, <1>2, <1>3, BufferInductive, PTL
          DEF BufferSpec, ImplementsQueue, Queue!Spec

-----------------------------------------------------------------------------
(* Checksums: registers. *)

Registers == SUBSET (0..15)
Octet == SUBSET (0..7)

\* One or the other.
LEMMA InXor ==
    ASSUME NEW a, NEW b, NEW k
    PROVE  k \in Xor(a, b) <=> ((k \in a /\ ~(k \in b)) \/ (k \in b /\ ~(k \in a)))
  BY DEF Xor

\* The order of exclusive ors does not matter, and what is in twice is not in.
LEMMA XorLaws ==
    ASSUME NEW a, NEW b, NEW c, NEW d
    PROVE  /\ Xor(Xor(a, b), Xor(c, d)) = Xor(Xor(a, c), Xor(b, d))
           /\ Xor(Xor(a, b), c) = Xor(a, Xor(b, c))
           /\ Xor(a, b) = Xor(b, a)
           /\ Xor(a, {}) = a /\ Xor({}, a) = a /\ Xor(a, a) = {}
           /\ Xor(a, Xor(a, b)) = b
  <1>1. Xor(Xor(a, b), Xor(c, d)) = Xor(Xor(a, c), Xor(b, d))
    BY DEF Xor
  <1>2. Xor(Xor(a, b), c) = Xor(a, Xor(b, c))
    BY DEF Xor
  <1>3. Xor(a, b) = Xor(b, a)
    BY DEF Xor
  <1>4. Xor(a, {}) = a /\ Xor({}, a) = a /\ Xor(a, a) = {}
    BY DEF Xor
  <1>5. Xor(a, Xor(a, b)) = b
    BY DEF Xor
  <1> QED  BY <1>1, <1>2, <1>3, <1>4, <1>5

\* Where a bit is after a shift.
LEMMA InShift ==
    ASSUME NEW r \in Registers, NEW n \in Nat, NEW k \in Int
    PROVE  k \in ShiftLeft(r, n) <=> (k \in 0..15 /\ k - n \in r)
  <1>1. ASSUME k \in ShiftLeft(r, n)
        PROVE  k \in 0..15 /\ k - n \in r
    <2>1. PICK j \in r : k = j + n
      BY <1>1 DEF ShiftLeft
    <2>2. j \in 0..15 /\ k \in 0..15
      BY <1>1 DEF ShiftLeft, Registers
    <2>3. k - n = j
      BY <2>1, <2>2
    <2> QED  BY <2>2, <2>3
  <1>2. ASSUME k \in 0..15, k - n \in r
        PROVE  k \in ShiftLeft(r, n)
    <2>1. k = (k - n) + n
      OBVIOUS
    <2> QED  BY <1>2, <2>1 DEF ShiftLeft
  <1> QED  BY <1>1, <1>2

\* Everything is a register.
LEMMA AreRegisters ==
    ASSUME NEW a \in Registers, NEW b \in Registers, NEW n \in Nat
    PROVE  Xor(a, b) \in Registers /\ ShiftLeft(a, n) \in Registers
  BY DEF Xor, ShiftLeft, Registers

\* Registers with the same bits are the same.
LEMMA SameBits ==
    ASSUME NEW a \in Registers, NEW b \in Registers, \A k \in 0..15 : k \in a <=> k \in b
    PROVE  a = b
  BY DEF Registers

\* A shift of an exclusive or.
LEMMA ShiftXor ==
    ASSUME NEW a \in Registers, NEW b \in Registers, NEW n \in Nat
    PROVE  ShiftLeft(Xor(a, b), n) = Xor(ShiftLeft(a, n), ShiftLeft(b, n))
  <1>1. /\ Xor(a, b) \in Registers /\ ShiftLeft(a, n) \in Registers /\ ShiftLeft(b, n) \in Registers
        /\ ShiftLeft(Xor(a, b), n) \in Registers /\ Xor(ShiftLeft(a, n), ShiftLeft(b, n)) \in Registers
    BY AreRegisters
  <1>2. ASSUME NEW k \in 0..15
        PROVE  k \in ShiftLeft(Xor(a, b), n) <=> k \in Xor(ShiftLeft(a, n), ShiftLeft(b, n))
    <2>1. k \in ShiftLeft(Xor(a, b), n) <=> k - n \in Xor(a, b)
      BY <1>1, InShift
    <2>2. (k \in ShiftLeft(a, n) <=> k - n \in a) /\ (k \in ShiftLeft(b, n) <=> k - n \in b)
      BY InShift
    <2>3. k - n \in Xor(a, b) <=> ((k - n \in a /\ ~(k - n \in b)) \/ (k - n \in b /\ ~(k - n \in a)))
      BY InXor
    <2> QED  BY <2>1, <2>2, <2>3 DEF Xor
  <1> QED  BY <1>1, <1>2, SameBits

\* One shift after another.
LEMMA ShiftShift ==
    ASSUME NEW a \in Registers, NEW n \in Nat, NEW m \in Nat
    PROVE  ShiftLeft(ShiftLeft(a, n), m) = ShiftLeft(a, n + m)
  <1>1. ShiftLeft(a, n) \in Registers /\ ShiftLeft(ShiftLeft(a, n), m) \in Registers
        /\ ShiftLeft(a, n + m) \in Registers
    BY AreRegisters
  <1>2. ASSUME NEW k \in 0..15
        PROVE  k \in ShiftLeft(ShiftLeft(a, n), m) <=> k \in ShiftLeft(a, n + m)
    <2>1. k \in ShiftLeft(ShiftLeft(a, n), m) <=> k - m \in ShiftLeft(a, n)
      BY <1>1, InShift
    <2>2. k - m \in ShiftLeft(a, n) <=> (k - m \in 0..15 /\ (k - m) - n \in a)
      BY InShift
    <2>3. k \in ShiftLeft(a, n + m) <=> k - (n + m) \in a
      BY InShift
    <2>4. (k - m) - n = k - (n + m)
      OBVIOUS
    <2>5. k - (n + m) \in a => k - m \in 0..15
      BY DEF Registers
    <2> QED  BY <2>1, <2>2, <2>3, <2>4, <2>5
  <1> QED  BY <1>1, <1>2, SameBits

-----------------------------------------------------------------------------
(* Checksums: eight bits. *)

\* A bit of the message, with the polynomial p.
Step(p, r, bit) ==
    IF bit # (15 \in r) THEN Xor(ShiftLeft(r, 1), p) ELSE ShiftLeft(r, 1)

\* Those of a byte.
Eight(p, r, byte) ==
    Step(p, Step(p, Step(p, Step(p, Step(p, Step(p, Step(p, Step(p, r, 7 \in byte),
        6 \in byte), 5 \in byte), 4 \in byte), 3 \in byte), 2 \in byte), 1 \in byte), 0 \in byte)

\* What it does depends on whether the bit is that at the top of the register.
LEMMA StepIs ==
    ASSUME NEW p, NEW r, NEW a, NEW k
    PROVE  /\ (k \in a <=> 15 \in r) => Step(p, r, k \in a) = ShiftLeft(r, 1)
           /\ (k \in a <=> ~(15 \in r)) => Step(p, r, k \in a) = Xor(ShiftLeft(r, 1), p)
  <1>1. ASSUME k \in a <=> 15 \in r
        PROVE  Step(p, r, k \in a) = ShiftLeft(r, 1)
    <2>1. ~((k \in a) # (15 \in r))
      BY <1>1
    <2> QED  BY <2>1 DEF Step
  <1>2. ASSUME k \in a <=> ~(15 \in r)
        PROVE  Step(p, r, k \in a) = Xor(ShiftLeft(r, 1), p)
    <2>1. (k \in a) # (15 \in r)
      BY <1>2
    <2> QED  BY <2>1 DEF Step
  <1> QED  BY <1>1, <1>2

\* A step of an exclusive or, with an exclusive or of bits.
LEMMA StepXor ==
    ASSUME NEW p \in Registers, NEW x \in Registers, NEW y \in Registers, NEW a, NEW b, NEW k
    PROVE  /\ Step(p, Xor(x, y), k \in Xor(a, b)) = Xor(Step(p, x, k \in a), Step(p, y, k \in b))
           /\ Step(p, x, k \in a) \in Registers
  <1> DEFINE xs == ShiftLeft(x, 1)
             ys == ShiftLeft(y, 1)
  <1>1. ShiftLeft(Xor(x, y), 1) = Xor(xs, ys) /\ xs \in Registers /\ ys \in Registers
    BY ShiftXor, AreRegisters
  <1>2. 15 \in Xor(x, y) <=> ((15 \in x /\ ~(15 \in y)) \/ (15 \in y /\ ~(15 \in x)))
    BY InXor
  <1>3. k \in Xor(a, b) <=> ((k \in a /\ ~(k \in b)) \/ (k \in b /\ ~(k \in a)))
    BY InXor
  <1>5. Xor(Xor(xs, p), Xor(ys, p)) = Xor(xs, ys) /\ Xor(xs, Xor(ys, p)) = Xor(Xor(xs, ys), p)
        /\ Xor(Xor(xs, p), ys) = Xor(Xor(xs, ys), p)
    BY DEF Xor
  <1> DEFINE sx == Step(p, x, k \in a)
             sy == Step(p, y, k \in b)
             sxy == Step(p, Xor(x, y), k \in Xor(a, b))
  <1>6. /\ (k \in a <=> 15 \in x) => sx = xs
        /\ (k \in a <=> ~(15 \in x)) => sx = Xor(xs, p)
    BY StepIs
  <1>7. /\ (k \in b <=> 15 \in y) => sy = ys
        /\ (k \in b <=> ~(15 \in y)) => sy = Xor(ys, p)
    BY StepIs
  <1>8. /\ (k \in Xor(a, b) <=> 15 \in Xor(x, y)) => sxy = Xor(xs, ys)
        /\ (k \in Xor(a, b) <=> ~(15 \in Xor(x, y))) => sxy = Xor(Xor(xs, ys), p)
    BY <1>1, StepIs
  <1> HIDE DEF sx, sy, sxy, xs, ys
  <1>9. sxy = Xor(sx, sy)
    BY <1>2, <1>3, <1>5, <1>6, <1>7, <1>8
  <1>10. sx \in Registers
    BY <1>1, <1>6, AreRegisters
  <1> QED  BY <1>9, <1>10 DEF sx, sy, sxy

\* An exclusive or of messages from an exclusive or of registers ends in one.
LEMMA EightXor ==
    ASSUME NEW p \in Registers, NEW x \in Registers, NEW y \in Registers, NEW a, NEW b
    PROVE  /\ Eight(p, Xor(x, y), Xor(a, b)) = Xor(Eight(p, x, a), Eight(p, y, b))
           /\ Eight(p, x, a) \in Registers
  <1> DEFINE c == Xor(a, b)
             x1 == Step(p, x, 7 \in a)
             x2 == Step(p, x1, 6 \in a)
             x3 == Step(p, x2, 5 \in a)
             x4 == Step(p, x3, 4 \in a)
             x5 == Step(p, x4, 3 \in a)
             x6 == Step(p, x5, 2 \in a)
             x7 == Step(p, x6, 1 \in a)
             x8 == Step(p, x7, 0 \in a)
             y1 == Step(p, y, 7 \in b)
             y2 == Step(p, y1, 6 \in b)
             y3 == Step(p, y2, 5 \in b)
             y4 == Step(p, y3, 4 \in b)
             y5 == Step(p, y4, 3 \in b)
             y6 == Step(p, y5, 2 \in b)
             y7 == Step(p, y6, 1 \in b)
             y8 == Step(p, y7, 0 \in b)
  <1>0. /\ x8 = Eight(p, x, a) /\ y8 = Eight(p, y, b)
        /\ Eight(p, Xor(x, y), c) =
               Step(p, Step(p, Step(p, Step(p, Step(p, Step(p, Step(p, Step(p, Xor(x, y), 7 \in c),
                   6 \in c), 5 \in c), 4 \in c), 3 \in c), 2 \in c), 1 \in c), 0 \in c)
    BY DEF Eight
  <1>1. x1 \in Registers /\ y1 \in Registers /\ Step(p, Xor(x, y), 7 \in c) = Xor(x1, y1)
    <2> QED  BY StepXor
  <1>2. x2 \in Registers /\ y2 \in Registers /\ Step(p, Xor(x1, y1), 6 \in c) = Xor(x2, y2)
    <2>1. x1 \in Registers /\ y1 \in Registers
      BY <1>1
    <2> HIDE DEF x1, y1
    <2>2. x2 \in Registers /\ y2 \in Registers
      BY <2>1, StepXor
    <2>3. Step(p, Xor(x1, y1), 6 \in c) = Xor(x2, y2)
      BY <2>1, StepXor
    <2> QED  BY <2>2, <2>3
  <1>3. x3 \in Registers /\ y3 \in Registers /\ Step(p, Xor(x2, y2), 5 \in c) = Xor(x3, y3)
    <2>1. x2 \in Registers /\ y2 \in Registers
      BY <1>2
    <2> HIDE DEF x2, y2
    <2>2. x3 \in Registers /\ y3 \in Registers
      BY <2>1, StepXor
    <2>3. Step(p, Xor(x2, y2), 5 \in c) = Xor(x3, y3)
      BY <2>1, StepXor
    <2> QED  BY <2>2, <2>3
  <1>4. x4 \in Registers /\ y4 \in Registers /\ Step(p, Xor(x3, y3), 4 \in c) = Xor(x4, y4)
    <2>1. x3 \in Registers /\ y3 \in Registers
      BY <1>3
    <2> HIDE DEF x3, y3
    <2>2. x4 \in Registers /\ y4 \in Registers
      BY <2>1, StepXor
    <2>3. Step(p, Xor(x3, y3), 4 \in c) = Xor(x4, y4)
      BY <2>1, StepXor
    <2> QED  BY <2>2, <2>3
  <1>5. x5 \in Registers /\ y5 \in Registers /\ Step(p, Xor(x4, y4), 3 \in c) = Xor(x5, y5)
    <2>1. x4 \in Registers /\ y4 \in Registers
      BY <1>4
    <2> HIDE DEF x4, y4
    <2>2. x5 \in Registers /\ y5 \in Registers
      BY <2>1, StepXor
    <2>3. Step(p, Xor(x4, y4), 3 \in c) = Xor(x5, y5)
      BY <2>1, StepXor
    <2> QED  BY <2>2, <2>3
  <1>6. x6 \in Registers /\ y6 \in Registers /\ Step(p, Xor(x5, y5), 2 \in c) = Xor(x6, y6)
    <2>1. x5 \in Registers /\ y5 \in Registers
      BY <1>5
    <2> HIDE DEF x5, y5
    <2>2. x6 \in Registers /\ y6 \in Registers
      BY <2>1, StepXor
    <2>3. Step(p, Xor(x5, y5), 2 \in c) = Xor(x6, y6)
      BY <2>1, StepXor
    <2> QED  BY <2>2, <2>3
  <1>7. x7 \in Registers /\ y7 \in Registers /\ Step(p, Xor(x6, y6), 1 \in c) = Xor(x7, y7)
    <2>1. x6 \in Registers /\ y6 \in Registers
      BY <1>6
    <2> HIDE DEF x6, y6
    <2>2. x7 \in Registers /\ y7 \in Registers
      BY <2>1, StepXor
    <2>3. Step(p, Xor(x6, y6), 1 \in c) = Xor(x7, y7)
      BY <2>1, StepXor
    <2> QED  BY <2>2, <2>3
  <1>8. x8 \in Registers /\ y8 \in Registers /\ Step(p, Xor(x7, y7), 0 \in c) = Xor(x8, y8)
    <2>1. x7 \in Registers /\ y7 \in Registers
      BY <1>7
    <2> HIDE DEF x7, y7
    <2>2. x8 \in Registers /\ y8 \in Registers
      BY <2>1, StepXor
    <2>3. Step(p, Xor(x7, y7), 0 \in c) = Xor(x8, y8)
      BY <2>1, StepXor
    <2> QED  BY <2>2, <2>3
  <1> HIDE DEF c, x1, x2, x3, x4, x5, x6, x7, x8, y1, y2, y3, y4, y5, y6, y7, y8
  <1>9. Eight(p, Xor(x, y), c) = Xor(x8, y8)
    BY <1>0, <1>1, <1>2, <1>3, <1>4, <1>5, <1>6, <1>7, <1>8, Zenon
  <1> QED  BY <1>0, <1>8, <1>9, Zenon DEF c

\* A byte that meets itself in the register leaves no trace.
LEMMA EightPasses ==
    ASSUME NEW p \in Registers, NEW z \in Registers, NEW byte,
           \A k \in 0..7 : k \in byte <=> k + 8 \in z
    PROVE  Eight(p, z, byte) = ShiftLeft(z, 8)
  <1>1. ASSUME NEW i \in 0..7
        PROVE  Step(p, ShiftLeft(z, i), 7 - i \in byte) = ShiftLeft(z, i + 1)
    <2>1. 15 \in ShiftLeft(z, i) <=> 15 - i \in z
      BY InShift
    <2>2. 7 - i \in 0..7 /\ (7 - i) + 8 = 15 - i
      OBVIOUS
    <2>3. 7 - i \in byte <=> 15 \in ShiftLeft(z, i)
      BY <2>1, <2>2
    <2>5. ShiftLeft(ShiftLeft(z, i), 1) = ShiftLeft(z, i + 1)
      <3>1. i \in Nat /\ 1 \in Nat
        OBVIOUS
      <3> QED  BY <3>1, ShiftShift, Zenon
    <2> QED  BY <2>3, <2>5, StepIs
  <1>2. z = ShiftLeft(z, 0)
    <2>1. ShiftLeft(z, 0) \in Registers /\ \A k \in 0..15 : k \in ShiftLeft(z, 0) <=> k - 0 \in z
      BY AreRegisters, InShift
    <2>2. \A k \in 0..15 : k - 0 = k
      OBVIOUS
    <2> QED  BY <2>1, <2>2, SameBits
  <1>3. Step(p, ShiftLeft(z, 0), 7 \in byte) = ShiftLeft(z, 1)
    <2>1. 0 \in 0..7 /\ 7 - 0 = 7 /\ 0 + 1 = 1
      OBVIOUS
    <2> QED  BY <1>1, <2>1
  <1>4. Step(p, ShiftLeft(z, 1), 6 \in byte) = ShiftLeft(z, 2)
    <2>1. 1 \in 0..7 /\ 7 - 1 = 6 /\ 1 + 1 = 2
      OBVIOUS
    <2> QED  BY <1>1, <2>1
  <1>5. Step(p, ShiftLeft(z, 2), 5 \in byte) = ShiftLeft(z, 3)
    <2>1. 2 \in 0..7 /\ 7 - 2 = 5 /\ 2 + 1 = 3
      OBVIOUS
    <2> QED  BY <1>1, <2>1
  <1>6. Step(p, ShiftLeft(z, 3), 4 \in byte) = ShiftLeft(z, 4)
    <2>1. 3 \in 0..7 /\ 7 - 3 = 4 /\ 3 + 1 = 4
      OBVIOUS
    <2> QED  BY <1>1, <2>1
  <1>7. Step(p, ShiftLeft(z, 4), 3 \in byte) = ShiftLeft(z, 5)
    <2>1. 4 \in 0..7 /\ 7 - 4 = 3 /\ 4 + 1 = 5
      OBVIOUS
    <2> QED  BY <1>1, <2>1
  <1>8. Step(p, ShiftLeft(z, 5), 2 \in byte) = ShiftLeft(z, 6)
    <2>1. 5 \in 0..7 /\ 7 - 5 = 2 /\ 5 + 1 = 6
      OBVIOUS
    <2> QED  BY <1>1, <2>1
  <1>9. Step(p, ShiftLeft(z, 6), 1 \in byte) = ShiftLeft(z, 7)
    <2>1. 6 \in 0..7 /\ 7 - 6 = 1 /\ 6 + 1 = 7
      OBVIOUS
    <2> QED  BY <1>1, <2>1
  <1>10. Step(p, ShiftLeft(z, 7), 0 \in byte) = ShiftLeft(z, 8)
    <2>1. 7 \in 0..7 /\ 7 - 7 = 0 /\ 7 + 1 = 8
      OBVIOUS
    <2> QED  BY <1>1, <2>1
  <1>11. Eight(p, ShiftLeft(z, 0), byte) = ShiftLeft(z, 8)
    BY <1>3, <1>4, <1>5, <1>6, <1>7, <1>8, <1>9, <1>10, Zenon DEF Eight
  <1> QED  BY <1>2, <1>11, Zenon

\* The serial register, without a recursion.
LEMMA AfterBitsOfIs ==
    ASSUME NEW r, NEW byte
    PROVE  AfterBitsOf(r, byte) = Eight(object.gen_polynom, r, byte)
  <1> DEFINE p == object.gen_polynom
             v0 == r
             v1 == Step(p, v0, 7 \in byte)
             v2 == Step(p, v1, 6 \in byte)
             v3 == Step(p, v2, 5 \in byte)
             v4 == Step(p, v3, 4 \in byte)
             v5 == Step(p, v4, 3 \in byte)
             v6 == Step(p, v5, 2 \in byte)
             v7 == Step(p, v6, 1 \in byte)
             v8 == Step(p, v7, 0 \in byte)
             g == [i \in 0..8 |-> IF i = 0 THEN v0 ELSE IF i = 1 THEN v1 ELSE IF i = 2 THEN v2
                     ELSE IF i = 3 THEN v3 ELSE IF i = 4 THEN v4 ELSE IF i = 5 THEN v5
                     ELSE IF i = 6 THEN v6 ELSE IF i = 7 THEN v7 ELSE v8]
             Right(s) == s = [i \in 0..8 |-> IF i = 0 THEN v0 ELSE AfterBit(s[i - 1], 8 - i \in byte)]
             chosen == CHOOSE s : Right(s)
  <1>1. \A x, bit : AfterBit(x, bit) = Step(p, x, bit)
    BY DEF AfterBit, Step
  <1>2. Right(g)
    <2>1. v1 = Step(p, v0, 7 \in byte) /\ v2 = Step(p, v1, 6 \in byte) /\ v3 = Step(p, v2, 5 \in byte)
      OBVIOUS
    <2>2. v4 = Step(p, v3, 4 \in byte) /\ v5 = Step(p, v4, 3 \in byte) /\ v6 = Step(p, v5, 2 \in byte)
      <3> HIDE DEF v3
      <3> QED  OBVIOUS
    <2>3. v7 = Step(p, v6, 1 \in byte) /\ v8 = Step(p, v7, 0 \in byte)
      <3> HIDE DEF v6
      <3> QED  OBVIOUS
    <2> HIDE DEF v0, v1, v2, v3, v4, v5, v6, v7, v8, p
    <2>4. /\ 8 - 1 = 7 /\ 8 - 2 = 6 /\ 8 - 3 = 5 /\ 8 - 4 = 4 /\ 8 - 5 = 3 /\ 8 - 6 = 2
          /\ 8 - 7 = 1 /\ 8 - 8 = 0
      OBVIOUS
    <2>5. ASSUME NEW i \in 0..8
          PROVE  g[i] = IF i = 0 THEN v0 ELSE Step(p, g[i - 1], 8 - i \in byte)
      <3>1. CASE i = 0
        BY <3>1
      <3>2. CASE i \in {1, 2, 3}
        BY <2>1, <2>4, <3>2
      <3>3. CASE i \in {4, 5, 6}
        BY <2>2, <2>4, <3>3
      <3>4. CASE i \in {7, 8}
        BY <2>3, <2>4, <3>4
      <3> QED  BY <3>1, <3>2, <3>3, <3>4
    <2>6. g = [i \in 0..8 |-> IF i = 0 THEN v0 ELSE Step(p, g[i - 1], 8 - i \in byte)]
      <3> DEFINE h == [i \in 0..8 |-> IF i = 0 THEN v0 ELSE Step(p, g[i - 1], 8 - i \in byte)]
      <3>1. \A i \in 0..8 : g[i] = h[i]
        BY <2>5
      <3>2. g = [i \in 0..8 |-> g[i]] /\ h = [i \in 0..8 |-> h[i]]
        OBVIOUS
      <3> HIDE DEF g, h
      <3>3. g = h
        BY <3>1, <3>2
      <3> QED  BY <3>3 DEF h
    <2> HIDE DEF g
    <2> QED  BY <1>1, <2>6, Zenon
  <1>3. Right(chosen)
    <2> HIDE DEF g, Right
    <2> QED  BY <1>2
  <1>4. AfterBitsOf(r, byte) = chosen[8]
    BY DEF AfterBitsOf
  <1> HIDE DEF v0, chosen, g
  <1>5. ASSUME NEW i \in 0..8
        PROVE  chosen[i] = IF i = 0 THEN v0 ELSE Step(p, chosen[i - 1], 8 - i \in byte)
    BY <1>1, <1>3
  <1>6. /\ chosen[0] = v0
        /\ chosen[1] = Step(p, chosen[0], 7 \in byte)
        /\ chosen[2] = Step(p, chosen[1], 6 \in byte)
        /\ chosen[3] = Step(p, chosen[2], 5 \in byte)
        /\ chosen[4] = Step(p, chosen[3], 4 \in byte)
        /\ chosen[5] = Step(p, chosen[4], 3 \in byte)
        /\ chosen[6] = Step(p, chosen[5], 2 \in byte)
        /\ chosen[7] = Step(p, chosen[6], 1 \in byte)
        /\ chosen[8] = Step(p, chosen[7], 0 \in byte)
    BY <1>5
  <1> QED  BY <1>4, <1>6, Zenon DEF Eight, v0

\* The table, without a recursion.
LEMMA LutIs ==
    ASSUME NEW byte
    PROVE  crc_lut(byte) = Eight(object.gen_polynom, ShiftLeft(byte, 8), {})
  <1> DEFINE p == object.gen_polynom
             none == FALSE
             v0 == ShiftLeft(byte, 8)
             v1 == Step(p, v0, none)
             v2 == Step(p, v1, none)
             v3 == Step(p, v2, none)
             v4 == Step(p, v3, none)
             v5 == Step(p, v4, none)
             v6 == Step(p, v5, none)
             v7 == Step(p, v6, none)
             v8 == Step(p, v7, none)
             g == [i \in 0..8 |-> IF i = 0 THEN v0 ELSE IF i = 1 THEN v1 ELSE IF i = 2 THEN v2
                     ELSE IF i = 3 THEN v3 ELSE IF i = 4 THEN v4 ELSE IF i = 5 THEN v5
                     ELSE IF i = 6 THEN v6 ELSE IF i = 7 THEN v7 ELSE v8]
             Right(s) == s = [i \in 0..8 |-> IF i = 0 THEN v0 ELSE AfterBit(s[i - 1], none)]
             chosen == CHOOSE s : Right(s)
  <1>1. \A x, bit : AfterBit(x, bit) = Step(p, x, bit)
    BY DEF AfterBit, Step
  <1>2. Right(g)
    <2>1. v1 = Step(p, v0, none) /\ v2 = Step(p, v1, none) /\ v3 = Step(p, v2, none)
      OBVIOUS
    <2>2. v4 = Step(p, v3, none) /\ v5 = Step(p, v4, none) /\ v6 = Step(p, v5, none)
      <3> HIDE DEF v3
      <3> QED  OBVIOUS
    <2>3. v7 = Step(p, v6, none) /\ v8 = Step(p, v7, none)
      <3> HIDE DEF v6
      <3> QED  OBVIOUS
    <2> HIDE DEF v0, v1, v2, v3, v4, v5, v6, v7, v8, p, none
    <2>4. /\ 8 - 1 = 7 /\ 8 - 2 = 6 /\ 8 - 3 = 5 /\ 8 - 4 = 4 /\ 8 - 5 = 3 /\ 8 - 6 = 2
          /\ 8 - 7 = 1 /\ 8 - 8 = 0
      OBVIOUS
    <2>5. ASSUME NEW i \in 0..8
          PROVE  g[i] = IF i = 0 THEN v0 ELSE Step(p, g[i - 1], none)
      <3>1. CASE i = 0
        BY <3>1
      <3>2. CASE i \in {1, 2, 3}
        BY <2>1, <2>4, <3>2
      <3>3. CASE i \in {4, 5, 6}
        BY <2>2, <2>4, <3>3
      <3>4. CASE i \in {7, 8}
        BY <2>3, <2>4, <3>4
      <3> QED  BY <3>1, <3>2, <3>3, <3>4
    <2>6. g = [i \in 0..8 |-> IF i = 0 THEN v0 ELSE Step(p, g[i - 1], none)]
      <3> DEFINE h == [i \in 0..8 |-> IF i = 0 THEN v0 ELSE Step(p, g[i - 1], none)]
      <3>1. \A i \in 0..8 : g[i] = h[i]
        BY <2>5
      <3>2. g = [i \in 0..8 |-> g[i]] /\ h = [i \in 0..8 |-> h[i]]
        OBVIOUS
      <3> HIDE DEF g, h
      <3>3. g = h
        BY <3>1, <3>2
      <3> QED  BY <3>3 DEF h
    <2> HIDE DEF g, none
    <2> QED  BY <1>1, <2>6, Zenon
  <1>3. Right(chosen)
    <2> HIDE DEF g, Right
    <2> QED  BY <1>2
  <1>4. crc_lut(byte) = chosen[8]
    BY DEF crc_lut
  <1> HIDE DEF v0, v1, v2, v3, v4, v5, v6, v7, v8, chosen, g, Right, p, none
  <1>5. ASSUME NEW i \in 0..8
        PROVE  chosen[i] = IF i = 0 THEN v0 ELSE Step(p, chosen[i - 1], none)
    BY <1>1, <1>3 DEF Right
  <1>6. /\ chosen[0] = v0
        /\ chosen[1] = Step(p, chosen[0], none)
        /\ chosen[2] = Step(p, chosen[1], none)
        /\ chosen[3] = Step(p, chosen[2], none)
        /\ chosen[4] = Step(p, chosen[3], none)
        /\ chosen[5] = Step(p, chosen[4], none)
        /\ chosen[6] = Step(p, chosen[5], none)
        /\ chosen[7] = Step(p, chosen[6], none)
        /\ chosen[8] = Step(p, chosen[7], none)
    BY <1>5
  <1>7. \A x, k : Step(p, x, none) = Step(p, x, k \in {})
    <2> SUFFICES ASSUME NEW x, NEW k
                 PROVE  Step(p, x, none) = Step(p, x, k \in {})
      OBVIOUS
    <2>1. (k \in {}) = FALSE
      OBVIOUS
    <2>2. CASE 15 \in x
      <3>1. FALSE # (15 \in x)
        BY <2>2
      <3>2. Step(p, x, none) = Xor(ShiftLeft(x, 1), p)
        BY <3>1 DEF Step, none
      <3>3. Step(p, x, k \in {}) = Xor(ShiftLeft(x, 1), p)
        BY <2>2, StepIs
      <3> QED  BY <3>2, <3>3
    <2>3. CASE ~(15 \in x)
      <3>1. (15 \in x) = FALSE
        BY <2>3
      <3>2. ~(FALSE # (15 \in x))
        BY <3>1
      <3>3. Step(p, x, none) = ShiftLeft(x, 1)
        BY <3>2 DEF Step, none
      <3>4. Step(p, x, k \in {}) = ShiftLeft(x, 1)
        BY <2>3, StepIs
      <3> QED  BY <3>3, <3>4
    <2> QED  BY <2>2, <2>3
  <1>8. /\ chosen[0] = v0
        /\ chosen[1] = Step(p, chosen[0], 7 \in {})
        /\ chosen[2] = Step(p, chosen[1], 6 \in {})
        /\ chosen[3] = Step(p, chosen[2], 5 \in {})
        /\ chosen[4] = Step(p, chosen[3], 4 \in {})
        /\ chosen[5] = Step(p, chosen[4], 3 \in {})
        /\ chosen[6] = Step(p, chosen[5], 2 \in {})
        /\ chosen[7] = Step(p, chosen[6], 1 \in {})
        /\ chosen[8] = Step(p, chosen[7], 0 \in {})
    BY <1>6, <1>7, Zenon
  <1>9. Eight(p, v0, {}) = chosen[8]
    BY <1>8, Zenon DEF Eight
  <1> QED  BY <1>4, <1>9, Zenon DEF v0, p

-----------------------------------------------------------------------------
(* Checksums: the table and the single bits. *)

\* A byte's bits.
LEMMA BitsType ==
    ASSUME NEW n \in 0..255
    PROVE  Bits(n) \in Octet
  <1>1. \A m : Bits(m) \in SUBSET (0..15)
    BY DEF Bits
  <1>2. /\ ~(8 \in Bits(n)) /\ ~(9 \in Bits(n)) /\ ~(10 \in Bits(n)) /\ ~(11 \in Bits(n))
        /\ ~(12 \in Bits(n)) /\ ~(13 \in Bits(n)) /\ ~(14 \in Bits(n)) /\ ~(15 \in Bits(n))
    BY DEF Bits
  <1> QED  BY <1>1, <1>2 DEF Octet

\* The polynomials are registers.
LEMMA Polynomials ==
    ASSUME NEW o \in {CRC16_CCITT, CRC16_IBM, FIRE_CODE}
    PROVE  o.gen_polynom \in Registers
  <1>1. \A m : Bits(m) \in Registers
    BY DEF Bits, Registers
  <1> QED  BY <1>1 DEF CRC16_CCITT, CRC16_IBM, FIRE_CODE

\* What is shifted down.
LEMMA InDown ==
    ASSUME NEW r \in Registers, NEW k \in Nat
    PROVE  k \in ShiftRight8(r) <=> k + 8 \in r
  <1>1. ASSUME k \in ShiftRight8(r)
        PROVE  k + 8 \in r
    <2>1. PICK j \in r : k = j - 8 /\ j \in 0..15
      BY <1>1 DEF ShiftRight8, Registers
    <2>2. k + 8 = j
      BY <2>1
    <2> QED  BY <2>1, <2>2
  <1>2. ASSUME k + 8 \in r
        PROVE  k \in ShiftRight8(r)
    <2>1. k + 8 \in 8..15 /\ k = (k + 8) - 8
      BY <1>2 DEF Registers
    <2> QED  BY <1>2, <2>1 DEF ShiftRight8
  <1> QED  BY <1>1, <1>2

\* Parts of a register are registers.
LEMMA PartsType ==
    ASSUME NEW r \in Registers
    PROVE  /\ ShiftRight8(r) \in Octet /\ Low(r) \in Octet /\ Octet \subseteq Registers
  <1>1. ShiftRight8(r) \in Octet
    <2> SUFFICES ASSUME NEW k \in ShiftRight8(r)
                 PROVE  k \in 0..7
      BY DEF Octet
    <2>1. PICK j \in r \cap 8..15 : k = j - 8
      BY DEF ShiftRight8
    <2> QED  BY <2>1
  <1> QED  BY <1>1 DEF Low, Octet, Registers

\* All is shifted out.
LEMMA ShiftedOut ==
    ASSUME NEW r \in Registers
    PROVE  ShiftLeft(r, 16) = {}
  <1>1. \A k \in 0..15 : ~(k - 16 \in r)
    BY DEF Registers
  <1>2. \A k \in 0..15 : ~(k \in ShiftLeft(r, 16))
    BY <1>1, InShift
  <1> QED  BY <1>2 DEF ShiftLeft

\* What a byte's bits do is done by the sum of the byte and the top of the register.
LEMMA TopIsEight ==
    ASSUME NEW p \in Registers, NEW r \in Registers, NEW byte \in Octet
    PROVE  Xor(ShiftLeft(r, 8), Eight(p, ShiftLeft(Xor(ShiftRight8(r), byte), 8), {}))
               = Eight(p, r, byte)
  <1> DEFINE top == Xor(ShiftRight8(r), byte)
             t == ShiftLeft(top, 8)
             z == Xor(t, r)
  <1>1. ShiftRight8(r) \in Registers /\ byte \in Registers
    BY PartsType
  <1>2. top \in Registers /\ t \in Registers /\ z \in Registers
    <2>1. top \in Registers
      BY <1>1, AreRegisters
    <2> HIDE DEF top
    <2>2. t \in Registers
      BY <2>1, AreRegisters
    <2> HIDE DEF t
    <2> QED  BY <2>1, <2>2, AreRegisters
  <1>3. ASSUME NEW k \in 0..7
        PROVE  k \in byte <=> k + 8 \in z
    <2>1. k + 8 \in t <=> (k + 8 \in 0..15 /\ (k + 8) - 8 \in top)
      <3> HIDE DEF top
      <3> QED  BY <1>2, InShift
    <2>2. (k + 8) - 8 = k /\ k + 8 \in 0..15
      OBVIOUS
    <2>3. k \in ShiftRight8(r) <=> k + 8 \in r
      BY InDown
    <2>4. k \in top <=> ((k \in ShiftRight8(r) /\ ~(k \in byte))
                          \/ (k \in byte /\ ~(k \in ShiftRight8(r))))
      BY InXor
    <2> HIDE DEF t, top
    <2>5. k + 8 \in z <=> ((k + 8 \in t /\ ~(k + 8 \in r)) \/ (k + 8 \in r /\ ~(k + 8 \in t)))
      BY InXor
    <2> HIDE DEF z
    <2> QED  BY <2>1, <2>2, <2>3, <2>4, <2>5
  <1>4. ShiftLeft(z, 8) = ShiftLeft(r, 8)
    <2> HIDE DEF top
    <2>1. ShiftLeft(t, 8) = ShiftLeft(top, 16)
      <3>1. ShiftLeft(t, 8) = ShiftLeft(top, 8 + 8)
        BY <1>2, ShiftShift
      <3> QED  BY <3>1
    <2>2. ShiftLeft(t, 8) = {}
      BY <1>2, <2>1, ShiftedOut
    <2> HIDE DEF t
    <2>3. ShiftLeft(z, 8) = Xor(ShiftLeft(t, 8), ShiftLeft(r, 8))
      BY <1>2, ShiftXor
    <2> QED  BY <2>2, <2>3, XorLaws
  <1> HIDE DEF t, top
  <1>6. Xor(t, z) = r /\ Xor({}, byte) = byte
    BY XorLaws
  <1> HIDE DEF z
  <1>8. Eight(p, Xor(t, z), Xor({}, byte)) = Xor(Eight(p, t, {}), Eight(p, z, byte))
    BY <1>2, EightXor
  <1>9. Eight(p, z, byte) = ShiftLeft(z, 8)
    BY <1>2, <1>3, EightPasses
  <1>10. Eight(p, r, byte) = Xor(Eight(p, t, {}), ShiftLeft(r, 8))
    BY <1>4, <1>6, <1>8, <1>9
  <1>11. Eight(p, r, byte) = Xor(ShiftLeft(r, 8), Eight(p, t, {}))
    BY <1>10, XorLaws
  <1> QED  BY <1>11 DEF t, top

\* The computed table does for a byte what its bits do.
LEMMA ByteIsEight ==
    ASSUME NEW r \in Registers, NEW byte \in Octet, object.gen_polynom \in Registers
    PROVE  AfterByte(r, byte) = Eight(object.gen_polynom, r, byte)
  BY LutIs, TopIsEight DEF AfterByte

\* With a byte in the register nothing is lost.
LEMMA EightOfByte ==
    ASSUME NEW p \in Registers, NEW byte \in Octet
    PROVE  Eight(p, byte, {}) = ShiftLeft(byte, 8)
  <1>1. byte \in Registers /\ \A k \in 0..7 : ~(k + 8 \in byte)
    BY DEF Octet, Registers
  <1>2. \A k \in 0..7 : k \in {} <=> k + 8 \in byte
    BY <1>1
  <1> QED  BY <1>1, <1>2, EightPasses

-----------------------------------------------------------------------------
(* Checksums: the tables that were typed in. *)

\* A bit of a number, by its value, and exclusive or of numbers.
BitAt(n, m) == (n \div m) % 2 = 1
NumXor(a, b, c) ==
    /\ BitAt(c, 1) <=> ~(BitAt(a, 1) <=> BitAt(b, 1))
    /\ BitAt(c, 2) <=> ~(BitAt(a, 2) <=> BitAt(b, 2))
    /\ BitAt(c, 4) <=> ~(BitAt(a, 4) <=> BitAt(b, 4))
    /\ BitAt(c, 8) <=> ~(BitAt(a, 8) <=> BitAt(b, 8))
    /\ BitAt(c, 16) <=> ~(BitAt(a, 16) <=> BitAt(b, 16))
    /\ BitAt(c, 32) <=> ~(BitAt(a, 32) <=> BitAt(b, 32))
    /\ BitAt(c, 64) <=> ~(BitAt(a, 64) <=> BitAt(b, 64))
    /\ BitAt(c, 128) <=> ~(BitAt(a, 128) <=> BitAt(b, 128))
    /\ BitAt(c, 256) <=> ~(BitAt(a, 256) <=> BitAt(b, 256))
    /\ BitAt(c, 512) <=> ~(BitAt(a, 512) <=> BitAt(b, 512))
    /\ BitAt(c, 1024) <=> ~(BitAt(a, 1024) <=> BitAt(b, 1024))
    /\ BitAt(c, 2048) <=> ~(BitAt(a, 2048) <=> BitAt(b, 2048))
    /\ BitAt(c, 4096) <=> ~(BitAt(a, 4096) <=> BitAt(b, 4096))
    /\ BitAt(c, 8192) <=> ~(BitAt(a, 8192) <=> BitAt(b, 8192))
    /\ BitAt(c, 16384) <=> ~(BitAt(a, 16384) <=> BitAt(b, 16384))
    /\ BitAt(c, 32768) <=> ~(BitAt(a, 32768) <=> BitAt(b, 32768))

\* One step of the division: u comes after t.
NumStep(p, t, u) ==
    /\ BitAt(u, 1) <=> (BitAt(t, 32768) /\ BitAt(p, 1))
    /\ BitAt(u, 2) <=> ~(BitAt(t, 1) <=> (BitAt(t, 32768) /\ BitAt(p, 2)))
    /\ BitAt(u, 4) <=> ~(BitAt(t, 2) <=> (BitAt(t, 32768) /\ BitAt(p, 4)))
    /\ BitAt(u, 8) <=> ~(BitAt(t, 4) <=> (BitAt(t, 32768) /\ BitAt(p, 8)))
    /\ BitAt(u, 16) <=> ~(BitAt(t, 8) <=> (BitAt(t, 32768) /\ BitAt(p, 16)))
    /\ BitAt(u, 32) <=> ~(BitAt(t, 16) <=> (BitAt(t, 32768) /\ BitAt(p, 32)))
    /\ BitAt(u, 64) <=> ~(BitAt(t, 32) <=> (BitAt(t, 32768) /\ BitAt(p, 64)))
    /\ BitAt(u, 128) <=> ~(BitAt(t, 64) <=> (BitAt(t, 32768) /\ BitAt(p, 128)))
    /\ BitAt(u, 256) <=> ~(BitAt(t, 128) <=> (BitAt(t, 32768) /\ BitAt(p, 256)))
    /\ BitAt(u, 512) <=> ~(BitAt(t, 256) <=> (BitAt(t, 32768) /\ BitAt(p, 512)))
    /\ BitAt(u, 1024) <=> ~(BitAt(t, 512) <=> (BitAt(t, 32768) /\ BitAt(p, 1024)))
    /\ BitAt(u, 2048) <=> ~(BitAt(t, 1024) <=> (BitAt(t, 32768) /\ BitAt(p, 2048)))
    /\ BitAt(u, 4096) <=> ~(BitAt(t, 2048) <=> (BitAt(t, 32768) /\ BitAt(p, 4096)))
    /\ BitAt(u, 8192) <=> ~(BitAt(t, 4096) <=> (BitAt(t, 32768) /\ BitAt(p, 8192)))
    /\ BitAt(u, 16384) <=> ~(BitAt(t, 8192) <=> (BitAt(t, 32768) /\ BitAt(p, 16384)))
    /\ BitAt(u, 32768) <=> ~(BitAt(t, 16384) <=> (BitAt(t, 32768) /\ BitAt(p, 32768)))

\* The entries of row t are those of row s with x added.
RowXor(x, s, t) ==
    /\ NumXor(x, s[1], t[1]) /\ NumXor(x, s[2], t[2])
    /\ NumXor(x, s[3], t[3]) /\ NumXor(x, s[4], t[4])
    /\ NumXor(x, s[5], t[5]) /\ NumXor(x, s[6], t[6])
    /\ NumXor(x, s[7], t[7]) /\ NumXor(x, s[8], t[8])

\* The entries of the powers of two come one from another, and the others are sums of
\* them.
FirstRow(s, p) ==
    /\ s[1] = 0 /\ s[2] = p /\ NumStep(p, s[2], s[3]) /\ NumStep(p, s[3], s[5])
    /\ NumXor(s[2], s[1], s[2]) /\ NumXor(s[3], s[1], s[3]) /\ NumXor(s[3], s[2], s[4])
    /\ NumXor(s[5], s[1], s[5]) /\ NumXor(s[5], s[2], s[6]) /\ NumXor(s[5], s[3], s[7])
    /\ NumXor(s[5], s[4], s[8])
FirstColumn(e4, e8, e16, e32, e64, e128, p) ==
    /\ NumStep(p, e4, e8) /\ NumStep(p, e8, e16) /\ NumStep(p, e16, e32)
    /\ NumStep(p, e32, e64) /\ NumStep(p, e64, e128)
HigherRows(T, m) == \A q \in 0..(m - 1) : RowXor(T[m + 1][1], T[q + 1], T[m + q + 1])
TableRows(T, p) ==
    /\ FirstRow(T[1], p)
    /\ FirstColumn(T[1][5], T[2][1], T[3][1], T[5][1], T[9][1], T[17][1], p)
    /\ HigherRows(T, 1) /\ HigherRows(T, 2) /\ HigherRows(T, 4) /\ HigherRows(T, 8)
    /\ HigherRows(T, 16)

\* FIRECODE_TABLE: a row is the row of its lower bits, with the entry of its highest added.
LEMMA FireCodeRows ==
    ASSUME NEW T, T = FIRECODE_TABLE
    PROVE  TableRows(T, \h782f)
  <1>1. T[1] = <<\h0000, \h782f, \hf05e, \h8871, \h9893, \he0bc, \h68cd, \h10e2>>
    BY DEF FIRECODE_TABLE
  <1>2. T[2] = <<\h4909, \h3126, \hb957, \hc178, \hd19a, \ha9b5, \h21c4, \h59eb>>
    BY DEF FIRECODE_TABLE
  <1>3. T[3] = <<\h9212, \hea3d, \h624c, \h1a63, \h0a81, \h72ae, \hfadf, \h82f0>>
    BY DEF FIRECODE_TABLE
  <1>4. T[4] = <<\hdb1b, \ha334, \h2b45, \h536a, \h4388, \h3ba7, \hb3d6, \hcbf9>>
    BY DEF FIRECODE_TABLE
  <1>5. T[5] = <<\h5c0b, \h2424, \hac55, \hd47a, \hc498, \hbcb7, \h34c6, \h4ce9>>
    BY DEF FIRECODE_TABLE
  <1>6. T[6] = <<\h1502, \h6d2d, \he55c, \h9d73, \h8d91, \hf5be, \h7dcf, \h05e0>>
    BY DEF FIRECODE_TABLE
  <1>7. T[7] = <<\hce19, \hb636, \h3e47, \h4668, \h568a, \h2ea5, \ha6d4, \hdefb>>
    BY DEF FIRECODE_TABLE
  <1>8. T[8] = <<\h8710, \hff3f, \h774e, \h0f61, \h1f83, \h67ac, \hefdd, \h97f2>>
    BY DEF FIRECODE_TABLE
  <1>9. T[9] = <<\hb816, \hc039, \h4848, \h3067, \h2085, \h58aa, \hd0db, \ha8f4>>
    BY DEF FIRECODE_TABLE
  <1>10. T[10] = <<\hf11f, \h8930, \h0141, \h796e, \h698c, \h11a3, \h99d2, \he1fd>>
    BY DEF FIRECODE_TABLE
  <1>11. T[11] = <<\h2a04, \h522b, \hda5a, \ha275, \hb297, \hcab8, \h42c9, \h3ae6>>
    BY DEF FIRECODE_TABLE
  <1>12. T[12] = <<\h630d, \h1b22, \h9353, \heb7c, \hfb9e, \h83b1, \h0bc0, \h73ef>>
    BY DEF FIRECODE_TABLE
  <1>13. T[13] = <<\he41d, \h9c32, \h1443, \h6c6c, \h7c8e, \h04a1, \h8cd0, \hf4ff>>
    BY DEF FIRECODE_TABLE
  <1>14. T[14] = <<\had14, \hd53b, \h5d4a, \h2565, \h3587, \h4da8, \hc5d9, \hbdf6>>
    BY DEF FIRECODE_TABLE
  <1>15. T[15] = <<\h760f, \h0e20, \h8651, \hfe7e, \hee9c, \h96b3, \h1ec2, \h66ed>>
    BY DEF FIRECODE_TABLE
  <1>16. T[16] = <<\h3f06, \h4729, \hcf58, \hb777, \ha795, \hdfba, \h57cb, \h2fe4>>
    BY DEF FIRECODE_TABLE
  <1>17. T[17] = <<\h0803, \h702c, \hf85d, \h8072, \h9090, \he8bf, \h60ce, \h18e1>>
    BY DEF FIRECODE_TABLE
  <1>18. T[18] = <<\h410a, \h3925, \hb154, \hc97b, \hd999, \ha1b6, \h29c7, \h51e8>>
    BY DEF FIRECODE_TABLE
  <1>19. T[19] = <<\h9a11, \he23e, \h6a4f, \h1260, \h0282, \h7aad, \hf2dc, \h8af3>>
    BY DEF FIRECODE_TABLE
  <1>20. T[20] = <<\hd318, \hab37, \h2346, \h5b69, \h4b8b, \h33a4, \hbbd5, \hc3fa>>
    BY DEF FIRECODE_TABLE
  <1>21. T[21] = <<\h5408, \h2c27, \ha456, \hdc79, \hcc9b, \hb4b4, \h3cc5, \h44ea>>
    BY DEF FIRECODE_TABLE
  <1>22. T[22] = <<\h1d01, \h652e, \hed5f, \h9570, \h8592, \hfdbd, \h75cc, \h0de3>>
    BY DEF FIRECODE_TABLE
  <1>23. T[23] = <<\hc61a, \hbe35, \h3644, \h4e6b, \h5e89, \h26a6, \haed7, \hd6f8>>
    BY DEF FIRECODE_TABLE
  <1>24. T[24] = <<\h8f13, \hf73c, \h7f4d, \h0762, \h1780, \h6faf, \he7de, \h9ff1>>
    BY DEF FIRECODE_TABLE
  <1>25. T[25] = <<\hb015, \hc83a, \h404b, \h3864, \h2886, \h50a9, \hd8d8, \ha0f7>>
    BY DEF FIRECODE_TABLE
  <1>26. T[26] = <<\hf91c, \h8133, \h0942, \h716d, \h618f, \h19a0, \h91d1, \he9fe>>
    BY DEF FIRECODE_TABLE
  <1>27. T[27] = <<\h2207, \h5a28, \hd259, \haa76, \hba94, \hc2bb, \h4aca, \h32e5>>
    BY DEF FIRECODE_TABLE
  <1>28. T[28] = <<\h6b0e, \h1321, \h9b50, \he37f, \hf39d, \h8bb2, \h03c3, \h7bec>>
    BY DEF FIRECODE_TABLE
  <1>29. T[29] = <<\hec1e, \h9431, \h1c40, \h646f, \h748d, \h0ca2, \h84d3, \hfcfc>>
    BY DEF FIRECODE_TABLE
  <1>30. T[30] = <<\ha517, \hdd38, \h5549, \h2d66, \h3d84, \h45ab, \hcdda, \hb5f5>>
    BY DEF FIRECODE_TABLE
  <1>31. T[31] = <<\h7e0c, \h0623, \h8e52, \hf67d, \he69f, \h9eb0, \h16c1, \h6eee>>
    BY DEF FIRECODE_TABLE
  <1>32. T[32] = <<\h3705, \h4f2a, \hc75b, \hbf74, \haf96, \hd7b9, \h5fc8, \h27e7>>
    BY DEF FIRECODE_TABLE
  <1>40. FirstRow(T[1], \h782f)
    BY <1>1 DEF FirstRow, NumXor, NumStep, BitAt
  <1>41. FirstColumn(T[1][5], T[2][1], T[3][1], T[5][1], T[9][1], T[17][1], \h782f)
    BY <1>1, <1>2, <1>3, <1>5, <1>9, <1>17 DEF FirstColumn, NumStep, BitAt
  <1>42. RowXor(T[2][1], T[1], T[2])
    BY <1>1, <1>2 DEF RowXor, NumXor, BitAt
  <1>43. RowXor(T[3][1], T[1], T[3])
    BY <1>1, <1>3 DEF RowXor, NumXor, BitAt
  <1>44. RowXor(T[3][1], T[2], T[4])
    BY <1>2, <1>3, <1>4 DEF RowXor, NumXor, BitAt
  <1>45. RowXor(T[5][1], T[1], T[5])
    BY <1>1, <1>5 DEF RowXor, NumXor, BitAt
  <1>46. RowXor(T[5][1], T[2], T[6])
    BY <1>2, <1>5, <1>6 DEF RowXor, NumXor, BitAt
  <1>47. RowXor(T[5][1], T[3], T[7])
    BY <1>3, <1>5, <1>7 DEF RowXor, NumXor, BitAt
  <1>48. RowXor(T[5][1], T[4], T[8])
    BY <1>4, <1>5, <1>8 DEF RowXor, NumXor, BitAt
  <1>49. RowXor(T[9][1], T[1], T[9])
    BY <1>1, <1>9 DEF RowXor, NumXor, BitAt
  <1>50. RowXor(T[9][1], T[2], T[10])
    BY <1>2, <1>9, <1>10 DEF RowXor, NumXor, BitAt
  <1>51. RowXor(T[9][1], T[3], T[11])
    BY <1>3, <1>9, <1>11 DEF RowXor, NumXor, BitAt
  <1>52. RowXor(T[9][1], T[4], T[12])
    BY <1>4, <1>9, <1>12 DEF RowXor, NumXor, BitAt
  <1>53. RowXor(T[9][1], T[5], T[13])
    BY <1>5, <1>9, <1>13 DEF RowXor, NumXor, BitAt
  <1>54. RowXor(T[9][1], T[6], T[14])
    BY <1>6, <1>9, <1>14 DEF RowXor, NumXor, BitAt
  <1>55. RowXor(T[9][1], T[7], T[15])
    BY <1>7, <1>9, <1>15 DEF RowXor, NumXor, BitAt
  <1>56. RowXor(T[9][1], T[8], T[16])
    BY <1>8, <1>9, <1>16 DEF RowXor, NumXor, BitAt
  <1>57. RowXor(T[17][1], T[1], T[17])
    BY <1>1, <1>17 DEF RowXor, NumXor, BitAt
  <1>58. RowXor(T[17][1], T[2], T[18])
    BY <1>2, <1>17, <1>18 DEF RowXor, NumXor, BitAt
  <1>59. RowXor(T[17][1], T[3], T[19])
    BY <1>3, <1>17, <1>19 DEF RowXor, NumXor, BitAt
  <1>60. RowXor(T[17][1], T[4], T[20])
    BY <1>4, <1>17, <1>20 DEF RowXor, NumXor, BitAt
  <1>61. RowXor(T[17][1], T[5], T[21])
    BY <1>5, <1>17, <1>21 DEF RowXor, NumXor, BitAt
  <1>62. RowXor(T[17][1], T[6], T[22])
    BY <1>6, <1>17, <1>22 DEF RowXor, NumXor, BitAt
  <1>63. RowXor(T[17][1], T[7], T[23])
    BY <1>7, <1>17, <1>23 DEF RowXor, NumXor, BitAt
  <1>64. RowXor(T[17][1], T[8], T[24])
    BY <1>8, <1>17, <1>24 DEF RowXor, NumXor, BitAt
  <1>65. RowXor(T[17][1], T[9], T[25])
    BY <1>9, <1>17, <1>25 DEF RowXor, NumXor, BitAt
  <1>66. RowXor(T[17][1], T[10], T[26])
    BY <1>10, <1>17, <1>26 DEF RowXor, NumXor, BitAt
  <1>67. RowXor(T[17][1], T[11], T[27])
    BY <1>11, <1>17, <1>27 DEF RowXor, NumXor, BitAt
  <1>68. RowXor(T[17][1], T[12], T[28])
    BY <1>12, <1>17, <1>28 DEF RowXor, NumXor, BitAt
  <1>69. RowXor(T[17][1], T[13], T[29])
    BY <1>13, <1>17, <1>29 DEF RowXor, NumXor, BitAt
  <1>70. RowXor(T[17][1], T[14], T[30])
    BY <1>14, <1>17, <1>30 DEF RowXor, NumXor, BitAt
  <1>71. RowXor(T[17][1], T[15], T[31])
    BY <1>15, <1>17, <1>31 DEF RowXor, NumXor, BitAt
  <1>72. RowXor(T[17][1], T[16], T[32])
    BY <1>16, <1>17, <1>32 DEF RowXor, NumXor, BitAt
  <1>73. HigherRows(T, 1)
    <2>1. ASSUME NEW q \in 0..0
          PROVE  RowXor(T[1 + 1][1], T[q + 1], T[1 + q + 1])
      <3>1. q = 0
        OBVIOUS
      <3> QED  BY <1>42, <3>1
    <2> QED  BY <2>1 DEF HigherRows
  <1>74. HigherRows(T, 2)
    <2>1. ASSUME NEW q \in 0..1
          PROVE  RowXor(T[2 + 1][1], T[q + 1], T[2 + q + 1])
      <3>0. CASE q = 0
        BY <1>43, <3>0
      <3>1. CASE q = 1
        BY <1>44, <3>1
      <3> QED  BY <3>0, <3>1
    <2> QED  BY <2>1 DEF HigherRows
  <1>75. HigherRows(T, 4)
    <2>1. ASSUME NEW q \in 0..3
          PROVE  RowXor(T[4 + 1][1], T[q + 1], T[4 + q + 1])
      <3>0. CASE q = 0
        BY <1>45, <3>0
      <3>1. CASE q = 1
        BY <1>46, <3>1
      <3>2. CASE q = 2
        BY <1>47, <3>2
      <3>3. CASE q = 3
        BY <1>48, <3>3
      <3> QED  BY <3>0, <3>1, <3>2, <3>3
    <2> QED  BY <2>1 DEF HigherRows
  <1>76. HigherRows(T, 8)
    <2>1. ASSUME NEW q \in 0..7
          PROVE  RowXor(T[8 + 1][1], T[q + 1], T[8 + q + 1])
      <3>0. CASE q = 0
        BY <1>49, <3>0
      <3>1. CASE q = 1
        BY <1>50, <3>1
      <3>2. CASE q = 2
        BY <1>51, <3>2
      <3>3. CASE q = 3
        BY <1>52, <3>3
      <3>4. CASE q = 4
        BY <1>53, <3>4
      <3>5. CASE q = 5
        BY <1>54, <3>5
      <3>6. CASE q = 6
        BY <1>55, <3>6
      <3>7. CASE q = 7
        BY <1>56, <3>7
      <3> QED  BY <3>0, <3>1, <3>2, <3>3, <3>4, <3>5, <3>6, <3>7
    <2> QED  BY <2>1 DEF HigherRows
  <1>77. HigherRows(T, 16)
    <2>1. ASSUME NEW q \in 0..15
          PROVE  RowXor(T[16 + 1][1], T[q + 1], T[16 + q + 1])
      <3>0. CASE q = 0
        BY <1>57, <3>0
      <3>1. CASE q = 1
        BY <1>58, <3>1
      <3>2. CASE q = 2
        BY <1>59, <3>2
      <3>3. CASE q = 3
        BY <1>60, <3>3
      <3>4. CASE q = 4
        BY <1>61, <3>4
      <3>5. CASE q = 5
        BY <1>62, <3>5
      <3>6. CASE q = 6
        BY <1>63, <3>6
      <3>7. CASE q = 7
        BY <1>64, <3>7
      <3>8. CASE q = 8
        BY <1>65, <3>8
      <3>9. CASE q = 9
        BY <1>66, <3>9
      <3>10. CASE q = 10
        BY <1>67, <3>10
      <3>11. CASE q = 11
        BY <1>68, <3>11
      <3>12. CASE q = 12
        BY <1>69, <3>12
      <3>13. CASE q = 13
        BY <1>70, <3>13
      <3>14. CASE q = 14
        BY <1>71, <3>14
      <3>15. CASE q = 15
        BY <1>72, <3>15
      <3> QED  BY <3>0, <3>1, <3>2, <3>3, <3>4, <3>5, <3>6, <3>7, <3>8, <3>9, <3>10, <3>11, <3>12, <3>13, <3>14, <3>15
    <2> QED  BY <2>1 DEF HigherRows
  <1> QED  BY <1>40, <1>41, <1>73, <1>74, <1>75, <1>76, <1>77 DEF TableRows

\* CRC_CCITT_TABLE: a row is the row of its lower bits, with the entry of its highest added.
LEMMA CcittRows ==
    ASSUME NEW T, T = CRC_CCITT_TABLE
    PROVE  TableRows(T, \h1021)
  <1>1. T[1] = <<\h0000, \h1021, \h2042, \h3063, \h4084, \h50a5, \h60c6, \h70e7>>
    BY DEF CRC_CCITT_TABLE
  <1>2. T[2] = <<\h8108, \h9129, \ha14a, \hb16b, \hc18c, \hd1ad, \he1ce, \hf1ef>>
    BY DEF CRC_CCITT_TABLE
  <1>3. T[3] = <<\h1231, \h0210, \h3273, \h2252, \h52b5, \h4294, \h72f7, \h62d6>>
    BY DEF CRC_CCITT_TABLE
  <1>4. T[4] = <<\h9339, \h8318, \hb37b, \ha35a, \hd3bd, \hc39c, \hf3ff, \he3de>>
    BY DEF CRC_CCITT_TABLE
  <1>5. T[5] = <<\h2462, \h3443, \h0420, \h1401, \h64e6, \h74c7, \h44a4, \h5485>>
    BY DEF CRC_CCITT_TABLE
  <1>6. T[6] = <<\ha56a, \hb54b, \h8528, \h9509, \he5ee, \hf5cf, \hc5ac, \hd58d>>
    BY DEF CRC_CCITT_TABLE
  <1>7. T[7] = <<\h3653, \h2672, \h1611, \h0630, \h76d7, \h66f6, \h5695, \h46b4>>
    BY DEF CRC_CCITT_TABLE
  <1>8. T[8] = <<\hb75b, \ha77a, \h9719, \h8738, \hf7df, \he7fe, \hd79d, \hc7bc>>
    BY DEF CRC_CCITT_TABLE
  <1>9. T[9] = <<\h48c4, \h58e5, \h6886, \h78a7, \h0840, \h1861, \h2802, \h3823>>
    BY DEF CRC_CCITT_TABLE
  <1>10. T[10] = <<\hc9cc, \hd9ed, \he98e, \hf9af, \h8948, \h9969, \ha90a, \hb92b>>
    BY DEF CRC_CCITT_TABLE
  <1>11. T[11] = <<\h5af5, \h4ad4, \h7ab7, \h6a96, \h1a71, \h0a50, \h3a33, \h2a12>>
    BY DEF CRC_CCITT_TABLE
  <1>12. T[12] = <<\hdbfd, \hcbdc, \hfbbf, \heb9e, \h9b79, \h8b58, \hbb3b, \hab1a>>
    BY DEF CRC_CCITT_TABLE
  <1>13. T[13] = <<\h6ca6, \h7c87, \h4ce4, \h5cc5, \h2c22, \h3c03, \h0c60, \h1c41>>
    BY DEF CRC_CCITT_TABLE
  <1>14. T[14] = <<\hedae, \hfd8f, \hcdec, \hddcd, \had2a, \hbd0b, \h8d68, \h9d49>>
    BY DEF CRC_CCITT_TABLE
  <1>15. T[15] = <<\h7e97, \h6eb6, \h5ed5, \h4ef4, \h3e13, \h2e32, \h1e51, \h0e70>>
    BY DEF CRC_CCITT_TABLE
  <1>16. T[16] = <<\hff9f, \hefbe, \hdfdd, \hcffc, \hbf1b, \haf3a, \h9f59, \h8f78>>
    BY DEF CRC_CCITT_TABLE
  <1>17. T[17] = <<\h9188, \h81a9, \hb1ca, \ha1eb, \hd10c, \hc12d, \hf14e, \he16f>>
    BY DEF CRC_CCITT_TABLE
  <1>18. T[18] = <<\h1080, \h00a1, \h30c2, \h20e3, \h5004, \h4025, \h7046, \h6067>>
    BY DEF CRC_CCITT_TABLE
  <1>19. T[19] = <<\h83b9, \h9398, \ha3fb, \hb3da, \hc33d, \hd31c, \he37f, \hf35e>>
    BY DEF CRC_CCITT_TABLE
  <1>20. T[20] = <<\h02b1, \h1290, \h22f3, \h32d2, \h4235, \h5214, \h6277, \h7256>>
    BY DEF CRC_CCITT_TABLE
  <1>21. T[21] = <<\hb5ea, \ha5cb, \h95a8, \h8589, \hf56e, \he54f, \hd52c, \hc50d>>
    BY DEF CRC_CCITT_TABLE
  <1>22. T[22] = <<\h34e2, \h24c3, \h14a0, \h0481, \h7466, \h6447, \h5424, \h4405>>
    BY DEF CRC_CCITT_TABLE
  <1>23. T[23] = <<\ha7db, \hb7fa, \h8799, \h97b8, \he75f, \hf77e, \hc71d, \hd73c>>
    BY DEF CRC_CCITT_TABLE
  <1>24. T[24] = <<\h26d3, \h36f2, \h0691, \h16b0, \h6657, \h7676, \h4615, \h5634>>
    BY DEF CRC_CCITT_TABLE
  <1>25. T[25] = <<\hd94c, \hc96d, \hf90e, \he92f, \h99c8, \h89e9, \hb98a, \ha9ab>>
    BY DEF CRC_CCITT_TABLE
  <1>26. T[26] = <<\h5844, \h4865, \h7806, \h6827, \h18c0, \h08e1, \h3882, \h28a3>>
    BY DEF CRC_CCITT_TABLE
  <1>27. T[27] = <<\hcb7d, \hdb5c, \heb3f, \hfb1e, \h8bf9, \h9bd8, \habbb, \hbb9a>>
    BY DEF CRC_CCITT_TABLE
  <1>28. T[28] = <<\h4a75, \h5a54, \h6a37, \h7a16, \h0af1, \h1ad0, \h2ab3, \h3a92>>
    BY DEF CRC_CCITT_TABLE
  <1>29. T[29] = <<\hfd2e, \hed0f, \hdd6c, \hcd4d, \hbdaa, \had8b, \h9de8, \h8dc9>>
    BY DEF CRC_CCITT_TABLE
  <1>30. T[30] = <<\h7c26, \h6c07, \h5c64, \h4c45, \h3ca2, \h2c83, \h1ce0, \h0cc1>>
    BY DEF CRC_CCITT_TABLE
  <1>31. T[31] = <<\hef1f, \hff3e, \hcf5d, \hdf7c, \haf9b, \hbfba, \h8fd9, \h9ff8>>
    BY DEF CRC_CCITT_TABLE
  <1>32. T[32] = <<\h6e17, \h7e36, \h4e55, \h5e74, \h2e93, \h3eb2, \h0ed1, \h1ef0>>
    BY DEF CRC_CCITT_TABLE
  <1>40. FirstRow(T[1], \h1021)
    BY <1>1 DEF FirstRow, NumXor, NumStep, BitAt
  <1>41. FirstColumn(T[1][5], T[2][1], T[3][1], T[5][1], T[9][1], T[17][1], \h1021)
    BY <1>1, <1>2, <1>3, <1>5, <1>9, <1>17 DEF FirstColumn, NumStep, BitAt
  <1>42. RowXor(T[2][1], T[1], T[2])
    BY <1>1, <1>2 DEF RowXor, NumXor, BitAt
  <1>43. RowXor(T[3][1], T[1], T[3])
    BY <1>1, <1>3 DEF RowXor, NumXor, BitAt
  <1>44. RowXor(T[3][1], T[2], T[4])
    BY <1>2, <1>3, <1>4 DEF RowXor, NumXor, BitAt
  <1>45. RowXor(T[5][1], T[1], T[5])
    BY <1>1, <1>5 DEF RowXor, NumXor, BitAt
  <1>46. RowXor(T[5][1], T[2], T[6])
    BY <1>2, <1>5, <1>6 DEF RowXor, NumXor, BitAt
  <1>47. RowXor(T[5][1], T[3], T[7])
    BY <1>3, <1>5, <1>7 DEF RowXor, NumXor, BitAt
  <1>48. RowXor(T[5][1], T[4], T[8])
    BY <1>4, <1>5, <1>8 DEF RowXor, NumXor, BitAt
  <1>49. RowXor(T[9][1], T[1], T[9])
    BY <1>1, <1>9 DEF RowXor, NumXor, BitAt
  <1>50. RowXor(T[9][1], T[2], T[10])
    BY <1>2, <1>9, <1>10 DEF RowXor, NumXor, BitAt
  <1>51. RowXor(T[9][1], T[3], T[11])
    BY <1>3, <1>9, <1>11 DEF RowXor, NumXor, BitAt
  <1>52. RowXor(T[9][1], T[4], T[12])
    BY <1>4, <1>9, <1>12 DEF RowXor, NumXor, BitAt
  <1>53. RowXor(T[9][1], T[5], T[13])
    BY <1>5, <1>9, <1>13 DEF RowXor, NumXor, BitAt
  <1>54. RowXor(T[9][1], T[6], T[14])
    BY <1>6, <1>9, <1>14 DEF RowXor, NumXor, BitAt
  <1>55. RowXor(T[9][1], T[7], T[15])
    BY <1>7, <1>9, <1>15 DEF RowXor, NumXor, BitAt
  <1>56. RowXor(T[9][1], T[8], T[16])
    BY <1>8, <1>9, <1>16 DEF RowXor, NumXor, BitAt
  <1>57. RowXor(T[17][1], T[1], T[17])
    BY <1>1, <1>17 DEF RowXor, NumXor, BitAt
  <1>58. RowXor(T[17][1], T[2], T[18])
    BY <1>2, <1>17, <1>18 DEF RowXor, NumXor, BitAt
  <1>59. RowXor(T[17][1], T[3], T[19])
    BY <1>3, <1>17, <1>19 DEF RowXor, NumXor, BitAt
  <1>60. RowXor(T[17][1], T[4], T[20])
    BY <1>4, <1>17, <1>20 DEF RowXor, NumXor, BitAt
  <1>61. RowXor(T[17][1], T[5], T[21])
    BY <1>5, <1>17, <1>21 DEF RowXor, NumXor, BitAt
  <1>62. RowXor(T[17][1], T[6], T[22])
    BY <1>6, <1>17, <1>22 DEF RowXor, NumXor, BitAt
  <1>63. RowXor(T[17][1], T[7], T[23])
    BY <1>7, <1>17, <1>23 DEF RowXor, NumXor, BitAt
  <1>64. RowXor(T[17][1], T[8], T[24])
    BY <1>8, <1>17, <1>24 DEF RowXor, NumXor, BitAt
  <1>65. RowXor(T[17][1], T[9], T[25])
    BY <1>9, <1>17, <1>25 DEF RowXor, NumXor, BitAt
  <1>66. RowXor(T[17][1], T[10], T[26])
    BY <1>10, <1>17, <1>26 DEF RowXor, NumXor, BitAt
  <1>67. RowXor(T[17][1], T[11], T[27])
    BY <1>11, <1>17, <1>27 DEF RowXor, NumXor, BitAt
  <1>68. RowXor(T[17][1], T[12], T[28])
    BY <1>12, <1>17, <1>28 DEF RowXor, NumXor, BitAt
  <1>69. RowXor(T[17][1], T[13], T[29])
    BY <1>13, <1>17, <1>29 DEF RowXor, NumXor, BitAt
  <1>70. RowXor(T[17][1], T[14], T[30])
    BY <1>14, <1>17, <1>30 DEF RowXor, NumXor, BitAt
  <1>71. RowXor(T[17][1], T[15], T[31])
    BY <1>15, <1>17, <1>31 DEF RowXor, NumXor, BitAt
  <1>72. RowXor(T[17][1], T[16], T[32])
    BY <1>16, <1>17, <1>32 DEF RowXor, NumXor, BitAt
  <1>73. HigherRows(T, 1)
    <2>1. ASSUME NEW q \in 0..0
          PROVE  RowXor(T[1 + 1][1], T[q + 1], T[1 + q + 1])
      <3>1. q = 0
        OBVIOUS
      <3> QED  BY <1>42, <3>1
    <2> QED  BY <2>1 DEF HigherRows
  <1>74. HigherRows(T, 2)
    <2>1. ASSUME NEW q \in 0..1
          PROVE  RowXor(T[2 + 1][1], T[q + 1], T[2 + q + 1])
      <3>0. CASE q = 0
        BY <1>43, <3>0
      <3>1. CASE q = 1
        BY <1>44, <3>1
      <3> QED  BY <3>0, <3>1
    <2> QED  BY <2>1 DEF HigherRows
  <1>75. HigherRows(T, 4)
    <2>1. ASSUME NEW q \in 0..3
          PROVE  RowXor(T[4 + 1][1], T[q + 1], T[4 + q + 1])
      <3>0. CASE q = 0
        BY <1>45, <3>0
      <3>1. CASE q = 1
        BY <1>46, <3>1
      <3>2. CASE q = 2
        BY <1>47, <3>2
      <3>3. CASE q = 3
        BY <1>48, <3>3
      <3> QED  BY <3>0, <3>1, <3>2, <3>3
    <2> QED  BY <2>1 DEF HigherRows
  <1>76. HigherRows(T, 8)
    <2>1. ASSUME NEW q \in 0..7
          PROVE  RowXor(T[8 + 1][1], T[q + 1], T[8 + q + 1])
      <3>0. CASE q = 0
        BY <1>49, <3>0
      <3>1. CASE q = 1
        BY <1>50, <3>1
      <3>2. CASE q = 2
        BY <1>51, <3>2
      <3>3. CASE q = 3
        BY <1>52, <3>3
      <3>4. CASE q = 4
        BY <1>53, <3>4
      <3>5. CASE q = 5
        BY <1>54, <3>5
      <3>6. CASE q = 6
        BY <1>55, <3>6
      <3>7. CASE q = 7
        BY <1>56, <3>7
      <3> QED  BY <3>0, <3>1, <3>2, <3>3, <3>4, <3>5, <3>6, <3>7
    <2> QED  BY <2>1 DEF HigherRows
  <1>77. HigherRows(T, 16)
    <2>1. ASSUME NEW q \in 0..15
          PROVE  RowXor(T[16 + 1][1], T[q + 1], T[16 + q + 1])
      <3>0. CASE q = 0
        BY <1>57, <3>0
      <3>1. CASE q = 1
        BY <1>58, <3>1
      <3>2. CASE q = 2
        BY <1>59, <3>2
      <3>3. CASE q = 3
        BY <1>60, <3>3
      <3>4. CASE q = 4
        BY <1>61, <3>4
      <3>5. CASE q = 5
        BY <1>62, <3>5
      <3>6. CASE q = 6
        BY <1>63, <3>6
      <3>7. CASE q = 7
        BY <1>64, <3>7
      <3>8. CASE q = 8
        BY <1>65, <3>8
      <3>9. CASE q = 9
        BY <1>66, <3>9
      <3>10. CASE q = 10
        BY <1>67, <3>10
      <3>11. CASE q = 11
        BY <1>68, <3>11
      <3>12. CASE q = 12
        BY <1>69, <3>12
      <3>13. CASE q = 13
        BY <1>70, <3>13
      <3>14. CASE q = 14
        BY <1>71, <3>14
      <3>15. CASE q = 15
        BY <1>72, <3>15
      <3> QED  BY <3>0, <3>1, <3>2, <3>3, <3>4, <3>5, <3>6, <3>7, <3>8, <3>9, <3>10, <3>11, <3>12, <3>13, <3>14, <3>15
    <2> QED  BY <2>1 DEF HigherRows
  <1> QED  BY <1>40, <1>41, <1>73, <1>74, <1>75, <1>76, <1>77 DEF TableRows

-----------------------------------------------------------------------------
(* Checksums: what the typed tables have for a byte. *)

\* The bits of a number.
LEMMA BitsAre ==
    ASSUME NEW n
    PROVE  /\ Bits(n) \in Registers
           /\ /\ 0 \in Bits(n) <=> BitAt(n, 1)
              /\ 1 \in Bits(n) <=> BitAt(n, 2)
              /\ 2 \in Bits(n) <=> BitAt(n, 4)
              /\ 3 \in Bits(n) <=> BitAt(n, 8)
              /\ 4 \in Bits(n) <=> BitAt(n, 16)
              /\ 5 \in Bits(n) <=> BitAt(n, 32)
              /\ 6 \in Bits(n) <=> BitAt(n, 64)
              /\ 7 \in Bits(n) <=> BitAt(n, 128)
           /\ /\ 8 \in Bits(n) <=> BitAt(n, 256)
              /\ 9 \in Bits(n) <=> BitAt(n, 512)
              /\ 10 \in Bits(n) <=> BitAt(n, 1024)
              /\ 11 \in Bits(n) <=> BitAt(n, 2048)
              /\ 12 \in Bits(n) <=> BitAt(n, 4096)
              /\ 13 \in Bits(n) <=> BitAt(n, 8192)
              /\ 14 \in Bits(n) <=> BitAt(n, 16384)
              /\ 15 \in Bits(n) <=> BitAt(n, 32768)
  BY DEF Bits, BitAt, Registers

\* Exclusive or of numbers is that of their bits.
LEMMA NumXorBits ==
    ASSUME NEW a, NEW b, NEW c, NumXor(a, b, c)
    PROVE  Bits(c) = Xor(Bits(a), Bits(b))
  <1>1. Bits(a) \in Registers /\ Bits(b) \in Registers /\ Bits(c) \in Registers
    BY BitsAre
  <1>2. ASSUME NEW k \in 0..15
        PROVE  k \in Bits(c) <=> k \in Xor(Bits(a), Bits(b))
    <2>1. k \in Xor(Bits(a), Bits(b)) <=> ~(k \in Bits(a) <=> k \in Bits(b))
      BY InXor
    <2>2. k \in Bits(c) <=> ~(k \in Bits(a) <=> k \in Bits(b))
      <3>1. CASE k \in 0..7
        BY <3>1, BitsAre DEF NumXor
      <3>2. CASE k \in 8..15
        BY <3>2, BitsAre DEF NumXor
      <3> QED  BY <3>1, <3>2
    <2> QED  BY <2>1, <2>2
  <1> QED  BY <1>1, <1>2, SameBits, AreRegisters

\* A step without a bit of the message.
LEMMA NoBit ==
    ASSUME NEW p, NEW r, NEW k
    PROVE  /\ 15 \in r => Step(p, r, k \in {}) = Xor(ShiftLeft(r, 1), p)
           /\ ~(15 \in r) => Step(p, r, k \in {}) = ShiftLeft(r, 1)
           /\ Step(p, r, k \in {}) = Step(p, r, 0 \in {})
  <1>1. /\ 15 \in r => Step(p, r, k \in {}) = Xor(ShiftLeft(r, 1), p)
        /\ ~(15 \in r) => Step(p, r, k \in {}) = ShiftLeft(r, 1)
    BY StepIs
  <1>2. /\ 15 \in r => Step(p, r, 0 \in {}) = Xor(ShiftLeft(r, 1), p)
        /\ ~(15 \in r) => Step(p, r, 0 \in {}) = ShiftLeft(r, 1)
    BY StepIs
  <1> QED  BY <1>1, <1>2

\* A step of numbers is one of their bits.
LEMMA NumStepBits ==
    ASSUME NEW p, NEW t, NEW u, NumStep(p, t, u)
    PROVE  Bits(u) = Step(Bits(p), Bits(t), 0 \in {})
  <1> DEFINE P == Bits(p)
             R == Bits(t)
             next == Step(P, R, 0 \in {})
  <1>1. P \in Registers /\ R \in Registers /\ Bits(u) \in Registers
    BY BitsAre
  <1>2. ShiftLeft(R, 1) \in Registers /\ Xor(ShiftLeft(R, 1), P) \in Registers
    <2> HIDE DEF P, R
    <2> QED  BY <1>1, AreRegisters
  <1>3. next \in Registers
    <2> HIDE DEF P, R
    <2> QED  BY <1>2, NoBit
  <1>4. ASSUME NEW k \in 0..15
        PROVE  k \in next <=> ~((k \in 0..15 /\ k - 1 \in R) <=> (15 \in R /\ k \in P))
    <2> HIDE DEF P, R
    <2>1. k \in ShiftLeft(R, 1) <=> (k \in 0..15 /\ k - 1 \in R)
      BY <1>1, InShift
    <2>2. k \in Xor(ShiftLeft(R, 1), P) <=> ~(k \in ShiftLeft(R, 1) <=> k \in P)
      BY InXor
    <2> QED  BY <2>1, <2>2, NoBit
  <1>5. ASSUME NEW k \in 0..15
        PROVE  k \in Bits(u) <=> ~((k \in 0..15 /\ k - 1 \in R) <=> (15 \in R /\ k \in P))
    <2>1. CASE k = 0
      <3>1. ~(k - 1 \in R)
        BY <1>1, <2>1 DEF Registers
      <3> QED  BY <2>1, <3>1, BitsAre DEF NumStep
    <2>2. CASE k \in 1..5
      BY <2>2, BitsAre DEF NumStep
    <2>3. CASE k \in 6..10
      BY <2>3, BitsAre DEF NumStep
    <2>4. CASE k \in 11..15
      BY <2>4, BitsAre DEF NumStep
    <2> QED  BY <2>1, <2>2, <2>3, <2>4
  <1> HIDE DEF next, R, P
  <1>6. \A k \in 0..15 : k \in Bits(u) <=> k \in next
    BY <1>4, <1>5
  <1>7. Bits(u) = next
    BY <1>1, <1>3, <1>6, SameBits
  <1> QED  BY <1>7 DEF next, R, P

\* What a table should have for a byte.
Divided(p, byte) == Eight(p, ShiftLeft(byte, 8), {})

\* It is a sum of what it should have for the byte's bits.
LEMMA DividedXor ==
    ASSUME NEW p \in Registers, NEW a \in Octet, NEW b \in Octet
    PROVE  Divided(p, Xor(a, b)) = Xor(Divided(p, a), Divided(p, b))
  <1>1. a \in Registers /\ b \in Registers
    BY PartsType
  <1>2. ShiftLeft(a, 8) \in Registers /\ ShiftLeft(b, 8) \in Registers
    BY <1>1, AreRegisters
  <1>3. ShiftLeft(Xor(a, b), 8) = Xor(ShiftLeft(a, 8), ShiftLeft(b, 8))
    BY <1>1, ShiftXor
  <1>4. Xor({}, {}) = {}
    BY XorLaws
  <1>5. Eight(p, Xor(ShiftLeft(a, 8), ShiftLeft(b, 8)), Xor({}, {})) =
            Xor(Eight(p, ShiftLeft(a, 8), {}), Eight(p, ShiftLeft(b, 8), {}))
    BY <1>2, EightXor
  <1> QED  BY <1>3, <1>4, <1>5 DEF Divided

\* A single bit moves up until it is at the top.
LEMMA Moves ==
    ASSUME NEW p \in Registers, NEW i \in 0..14
    PROVE  Step(p, {i}, 0 \in {}) = {i + 1}
  <1>1. {i} \in Registers /\ {i + 1} \in Registers /\ ~(15 \in {i})
    BY DEF Registers
  <1>2. ASSUME NEW k \in 0..15
        PROVE  k \in ShiftLeft({i}, 1) <=> k \in {i + 1}
    <2>1. k \in ShiftLeft({i}, 1) <=> (k \in 0..15 /\ k - 1 \in {i})
      BY <1>1, InShift
    <2> QED  BY <2>1
  <1>3. ShiftLeft({i}, 1) = {i + 1}
    BY <1>1, <1>2, SameBits, AreRegisters
  <1> QED  BY <1>1, <1>3, NoBit

\* Eight steps without a bit of the message, one after another.
LEMMA EightSteps ==
    ASSUME NEW p, NEW r
    PROVE  LET S(x) == Step(p, x, 0 \in {})
           IN  Eight(p, r, {}) = S(S(S(S(S(S(S(S(r))))))))
  <1> DEFINE S(x) == Step(p, x, 0 \in {})
             s1 == S(r)
             s2 == S(s1)
             s3 == S(s2)
             s4 == S(s3)
             s5 == S(s4)
             s6 == S(s5)
             s7 == S(s6)
  <1>1. \A x, k : Step(p, x, k \in {}) = S(x)
    BY NoBit
  <1>2. Step(p, r, 7 \in {}) = s1
    BY <1>1
  <1> HIDE DEF S
  <1>3. /\ Step(p, s1, 6 \in {}) = s2 /\ Step(p, s2, 5 \in {}) = s3
        /\ Step(p, s3, 4 \in {}) = s4 /\ Step(p, s4, 3 \in {}) = s5
        /\ Step(p, s5, 2 \in {}) = s6 /\ Step(p, s6, 1 \in {}) = s7
        /\ Step(p, s7, 0 \in {}) = S(s7)
    BY <1>1
  <1>4. S(s7) = S(S(S(S(S(S(S(S(r))))))))
    OBVIOUS
  <1> HIDE DEF s1, s2, s3, s4, s5, s6, s7
  <1>5. Eight(p, r, {}) = S(s7)
    BY <1>2, <1>3, Zenon DEF Eight
  <1>6. Eight(p, r, {}) = S(S(S(S(S(S(S(S(r))))))))
    BY <1>4, <1>5
  <1> QED  BY <1>6 DEF S

\* The lowest bit ends as the polynomial, and each other one step after that below.
LEMMA DividedBit ==
    ASSUME NEW p \in Registers
    PROVE  /\ Divided(p, {0}) = p
           /\ \A j \in 0..6 : Divided(p, {j + 1}) = Step(p, Divided(p, {j}), 0 \in {})
  <1> DEFINE S(x) == Step(p, x, 0 \in {})
  <1>1. ASSUME NEW j \in 0..7
        PROVE  ShiftLeft({j}, 8) = {j + 8}
    <2>1. {j} \in Registers /\ {j + 8} \in Registers
      BY DEF Registers
    <2>2. ASSUME NEW k \in 0..15
          PROVE  k \in ShiftLeft({j}, 8) <=> k \in {j + 8}
      <3>1. k \in ShiftLeft({j}, 8) <=> (k \in 0..15 /\ k - 8 \in {j})
        BY <2>1, InShift
      <3> QED  BY <3>1
    <2> QED  BY <2>1, <2>2, SameBits, AreRegisters
  <1>2. \A r : Eight(p, r, {}) = S(S(S(S(S(S(S(S(r))))))))
    BY EightSteps
  <1>3. \A i \in 0..14 : S({i}) = {i + 1}
    BY Moves
  <1>4. S({15}) = p
    <2>1. {15} \in Registers /\ \A k \in 0..15 : ~(k - 1 \in {15})
      BY DEF Registers
    <2>2. \A k \in 0..15 : ~(k \in ShiftLeft({15}, 1))
      BY <2>1, InShift
    <2>3. ShiftLeft({15}, 1) = {}
      BY <2>2 DEF ShiftLeft
    <2>4. S({15}) = Xor(ShiftLeft({15}, 1), p)
      <3>1. 15 \in {15}
        OBVIOUS
      <3> QED  BY <3>1, NoBit
    <2> QED  BY <2>3, <2>4, XorLaws
  <1> HIDE DEF S
  <1>5. Divided(p, {0}) = p
    <2>1. /\ S({8}) = {9} /\ S({9}) = {10} /\ S({10}) = {11} /\ S({11}) = {12}
          /\ S({12}) = {13} /\ S({13}) = {14} /\ S({14}) = {15}
      BY <1>3
    <2>2. ShiftLeft({0}, 8) = {8}
      BY <1>1
    <2>3. Eight(p, {8}, {}) = S(S(S(S(S(S(S(S({8}))))))))
      BY <1>2
    <2>4. Eight(p, {8}, {}) = p
      BY <1>4, <2>1, <2>3
    <2> QED  BY <2>2, <2>4, Zenon DEF Divided
  <1>6. ASSUME NEW j \in 0..6
        PROVE  Divided(p, {j + 1}) = S(Divided(p, {j}))
    <2>0. j \in 0..7 /\ j + 1 \in 0..7 /\ j + 8 \in 0..14 /\ (j + 8) + 1 = (j + 1) + 8
      OBVIOUS
    <2>1. ShiftLeft({j}, 8) = {j + 8} /\ ShiftLeft({j + 1}, 8) = {(j + 1) + 8}
      BY <1>1, <2>0, Zenon
    <2>2. S({j + 8}) = {(j + 8) + 1} /\ (j + 8) + 1 = (j + 1) + 8
      BY <1>3, <2>0, Zenon
    <2>3. Eight(p, {(j + 1) + 8}, {}) = S(Eight(p, {j + 8}, {}))
      <3>1. Eight(p, S({j + 8}), {}) = S(Eight(p, {j + 8}, {}))
        BY <1>2, Zenon
      <3> QED  BY <2>2, <3>1
    <2> QED  BY <2>1, <2>3, Zenon DEF Divided
  <1> QED  BY <1>5, <1>6 DEF S

\* An entry by its number, and those that double the part of the table that is known.
EntryAt(T, v) == T[(v \div 8) + 1][(v % 8) + 1]
Doubles(T, n) == \A v \in 0..(n - 1) : NumXor(EntryAt(T, n), EntryAt(T, v), EntryAt(T, n + v))

\* In the first row.
LEMMA FirstDoubles ==
    ASSUME NEW T, NEW p, FirstRow(T[1], p)
    PROVE  Doubles(T, 1) /\ Doubles(T, 2) /\ Doubles(T, 4)
  <1>1. \A v \in 0..7 : EntryAt(T, v) = T[1][v + 1]
    BY DEF EntryAt
  <1>2. Doubles(T, 1)
    <2>1. ASSUME NEW v \in 0..0
          PROVE  NumXor(EntryAt(T, 1), EntryAt(T, v), EntryAt(T, 1 + v))
      <3>1. v = 0 /\ EntryAt(T, 0) = T[1][1] /\ EntryAt(T, 1) = T[1][2]
        BY <1>1
      <3> QED  BY <3>1 DEF FirstRow
    <2> QED  BY <2>1 DEF Doubles
  <1>3. EntryAt(T, 0) = T[1][1] /\ EntryAt(T, 1) = T[1][2] /\ EntryAt(T, 2) = T[1][3] /\ EntryAt(T, 3) = T[1][4]
    BY <1>1
  <1>4. EntryAt(T, 4) = T[1][5] /\ EntryAt(T, 5) = T[1][6] /\ EntryAt(T, 6) = T[1][7] /\ EntryAt(T, 7) = T[1][8]
    BY <1>1
  <1>5. Doubles(T, 2)
    <2>1. ASSUME NEW v \in 0..1
          PROVE  NumXor(EntryAt(T, 2), EntryAt(T, v), EntryAt(T, 2 + v))
      <3>1. CASE v = 0
        BY <1>3, <3>1 DEF FirstRow
      <3>2. CASE v = 1
        BY <1>3, <3>2 DEF FirstRow
      <3> QED  BY <3>1, <3>2
    <2> QED  BY <2>1 DEF Doubles
  <1>6. Doubles(T, 4)
    <2>1. ASSUME NEW v \in 0..3
          PROVE  NumXor(EntryAt(T, 4), EntryAt(T, v), EntryAt(T, 4 + v))
      <3>1. CASE v = 0
        BY <1>3, <1>4, <3>1 DEF FirstRow
      <3>2. CASE v = 1
        BY <1>3, <1>4, <3>2 DEF FirstRow
      <3>3. CASE v = 2
        BY <1>3, <1>4, <3>3 DEF FirstRow
      <3>4. CASE v = 3
        BY <1>3, <1>4, <3>4 DEF FirstRow
      <3> QED  BY <3>1, <3>2, <3>3, <3>4
    <2> QED  BY <2>1 DEF Doubles
  <1> QED  BY <1>2, <1>5, <1>6

\* By whole rows.
LEMMA RowsDouble ==
    ASSUME NEW T, NEW m \in Nat, HigherRows(T, m)
    PROVE  Doubles(T, 8 * m)
  <1> SUFFICES ASSUME NEW v \in 0..(8 * m - 1)
               PROVE  NumXor(EntryAt(T, 8 * m), EntryAt(T, v), EntryAt(T, 8 * m + v))
    BY DEF Doubles
  <1> DEFINE q == v \div 8
             c == v % 8
  <1>1. q \in 0..(m - 1) /\ c \in 0..7
    OBVIOUS
  <1>2. (8 * m + v) \div 8 = m + q /\ (8 * m + v) % 8 = c /\ (8 * m) \div 8 = m /\ (8 * m) % 8 = 0
    OBVIOUS
  <1>3. /\ EntryAt(T, 8 * m) = T[m + 1][1] /\ EntryAt(T, v) = T[q + 1][c + 1]
        /\ EntryAt(T, 8 * m + v) = T[m + q + 1][c + 1]
    BY <1>2 DEF EntryAt
  <1> HIDE DEF q, c
  <1>4. RowXor(T[m + 1][1], T[q + 1], T[m + q + 1])
    BY <1>1 DEF HigherRows
  <1>5. NumXor(T[m + 1][1], T[q + 1][c + 1], T[m + q + 1][c + 1])
    <2>1. CASE c \in 0..3
      BY <1>4, <2>1 DEF RowXor
    <2>2. CASE c \in 4..7
      BY <1>4, <2>2 DEF RowXor
    <2> QED  BY <1>1, <2>1, <2>2
  <1> QED  BY <1>3, <1>5

\* What a byte with a bit at its top is worth.
LEMMA ValueOfTop ==
    ASSUME NEW j \in 0..7, NEW byte, byte \in SUBSET (0..(j - 1))
    PROVE  /\ Value(byte) \in 0..(2^j - 1) /\ 2^j \in Nat
           /\ Value(byte \cup {j}) = 2^j + Value(byte) /\ Value({j}) = 2^j
  <1>0. \A k : k \in byte => k \in 0..(j - 1)
    OBVIOUS
  <1>1. CASE j = 0
    BY <1>0, <1>1 DEF Value
  <1>2. CASE j = 1
    BY <1>0, <1>2 DEF Value
  <1>3. CASE j = 2
    BY <1>0, <1>3 DEF Value
  <1>4. CASE j = 3
    BY <1>0, <1>4 DEF Value
  <1>5. CASE j = 4
    BY <1>0, <1>5 DEF Value
  <1>6. CASE j = 5
    BY <1>0, <1>6 DEF Value
  <1>7. CASE j = 6
    BY <1>0, <1>7 DEF Value
  <1>8. CASE j = 7
    BY <1>0, <1>8 DEF Value
  <1> QED  BY <1>1, <1>2, <1>3, <1>4, <1>5, <1>6, <1>7, <1>8

\* The part of the table for the bytes below 2^j is right.
RightBelow(T, p, j) == \A byte \in SUBSET (0..(j - 1)) : Entry(T, byte) = Divided(p, byte)

\* Twice as much is right if the next power of two is.
LEMMA RightAbove ==
    ASSUME NEW T, NEW p \in Registers, NEW j \in 0..7, RightBelow(T, p, j), Doubles(T, 2^j),
           Bits(EntryAt(T, 2^j)) = Divided(p, {j})
    PROVE  RightBelow(T, p, j + 1)
  <1> SUFFICES ASSUME NEW byte \in SUBSET (0..((j + 1) - 1))
               PROVE  Entry(T, byte) = Divided(p, byte)
    BY DEF RightBelow
  <1>1. CASE ~(j \in byte)
    <2>1. byte \in SUBSET (0..(j - 1))
      BY <1>1
    <2> QED  BY <2>1 DEF RightBelow
  <1>2. CASE j \in byte
    <2> DEFINE rest == byte \ {j}
               v == Value(rest)
    <2>1. rest \in SUBSET (0..(j - 1)) /\ byte = rest \cup {j} /\ ~(j \in rest)
      BY <1>2
    <2>2. rest \in Octet /\ {j} \in Octet
      BY <2>1 DEF Octet
    <2> HIDE DEF rest
    <2>3. v \in 0..(2^j - 1) /\ Value(byte) = 2^j + v
      BY <2>1, ValueOfTop
    <2>4. Entry(T, byte) = Bits(EntryAt(T, 2^j + v)) /\ Entry(T, rest) = Bits(EntryAt(T, v))
      BY <2>3 DEF Entry, EntryAt
    <2> HIDE DEF v
    <2>5. NumXor(EntryAt(T, 2^j), EntryAt(T, v), EntryAt(T, 2^j + v))
      BY <2>3 DEF Doubles
    <2>6. Bits(EntryAt(T, 2^j + v)) = Xor(Bits(EntryAt(T, 2^j)), Bits(EntryAt(T, v)))
      BY <2>5, NumXorBits
    <2>7. Entry(T, rest) = Divided(p, rest)
      BY <2>1 DEF RightBelow
    <2>8. Entry(T, byte) = Xor(Divided(p, {j}), Divided(p, rest))
      BY <2>4, <2>6, <2>7
    <2>9. Xor({j}, rest) = byte
      BY <2>1 DEF Xor
    <2> QED  BY <2>2, <2>8, <2>9, DividedXor
  <1> QED  BY <1>1, <1>2

\* So a table whose rows are related as they are typed has for every byte what it should.
LEMMA TableIsRight ==
    ASSUME NEW T, NEW p, TableRows(T, p)
    PROVE  \A byte \in Octet : Entry(T, byte) = Divided(Bits(p), byte)
  <1> DEFINE P == Bits(p)
             At(j) == Bits(EntryAt(T, 2^j)) = Divided(P, {j})
  <1>1. P \in Registers
    BY BitsAre
  <1>2. Doubles(T, 1) /\ Doubles(T, 2) /\ Doubles(T, 4)
    BY FirstDoubles DEF TableRows
  <1>3. Doubles(T, 8) /\ Doubles(T, 16) /\ Doubles(T, 32) /\ Doubles(T, 64) /\ Doubles(T, 128)
    <2>1. Doubles(T, 8 * 1) /\ Doubles(T, 8 * 2) /\ Doubles(T, 8 * 4) /\ Doubles(T, 8 * 8)
          /\ Doubles(T, 8 * 16)
      BY RowsDouble DEF TableRows
    <2>2. 8 * 1 = 8 /\ 8 * 2 = 16 /\ 8 * 4 = 32 /\ 8 * 8 = 64 /\ 8 * 16 = 128
      OBVIOUS
    <2> QED  BY <2>1, <2>2
  <1>4. /\ 2^0 = 1 /\ 2^1 = 2 /\ 2^2 = 4 /\ 2^3 = 8 /\ 2^4 = 16 /\ 2^5 = 32 /\ 2^6 = 64 /\ 2^7 = 128
    OBVIOUS
  <1>5. /\ EntryAt(T, 0) = T[1][1] /\ EntryAt(T, 1) = T[1][2] /\ EntryAt(T, 2) = T[1][3]
        /\ EntryAt(T, 4) = T[1][5] /\ EntryAt(T, 8) = T[2][1] /\ EntryAt(T, 16) = T[3][1]
        /\ EntryAt(T, 32) = T[5][1] /\ EntryAt(T, 64) = T[9][1] /\ EntryAt(T, 128) = T[17][1]
    BY DEF EntryAt
  <1>6. /\ EntryAt(T, 0) = 0 /\ EntryAt(T, 1) = p
        /\ NumStep(p, EntryAt(T, 1), EntryAt(T, 2)) /\ NumStep(p, EntryAt(T, 2), EntryAt(T, 4))
        /\ NumStep(p, EntryAt(T, 4), EntryAt(T, 8)) /\ NumStep(p, EntryAt(T, 8), EntryAt(T, 16))
        /\ NumStep(p, EntryAt(T, 16), EntryAt(T, 32)) /\ NumStep(p, EntryAt(T, 32), EntryAt(T, 64))
        /\ NumStep(p, EntryAt(T, 64), EntryAt(T, 128))
    BY <1>5 DEF TableRows, FirstRow, FirstColumn
  <1>7. At(0)
    BY <1>1, <1>4, <1>6, DividedBit
  <1>8. ASSUME NEW j \in 0..6, At(j), NumStep(p, EntryAt(T, 2^j), EntryAt(T, 2^(j + 1)))
        PROVE  At(j + 1)
    <2>1. Bits(EntryAt(T, 2^(j + 1))) = Step(P, Bits(EntryAt(T, 2^j)), 0 \in {})
      BY <1>8, NumStepBits
    <2> HIDE DEF P
    <2>2. Divided(P, {j + 1}) = Step(P, Divided(P, {j}), 0 \in {})
      BY <1>1, DividedBit
    <2> QED  BY <1>8, <2>1, <2>2
  <1> HIDE DEF At, P
  <1>9. 0 + 1 = 1 /\ 1 + 1 = 2 /\ 2 + 1 = 3 /\ 3 + 1 = 4 /\ 4 + 1 = 5 /\ 5 + 1 = 6 /\ 6 + 1 = 7 /\ 7 + 1 = 8
    OBVIOUS
  <1>10. At(1) /\ At(2) /\ At(3)
    <2>1. At(1)
      BY <1>4, <1>6, <1>7, <1>8, <1>9
    <2>2. At(2)
      BY <1>4, <1>6, <1>8, <1>9, <2>1
    <2> QED  BY <1>4, <1>6, <1>8, <1>9, <2>1, <2>2
  <1>11. At(4) /\ At(5) /\ At(6) /\ At(7)
    <2>1. At(4)
      BY <1>4, <1>6, <1>8, <1>9, <1>10
    <2>2. At(5)
      BY <1>4, <1>6, <1>8, <1>9, <2>1
    <2>3. At(6)
      BY <1>4, <1>6, <1>8, <1>9, <2>2
    <2> QED  BY <1>4, <1>6, <1>8, <1>9, <2>1, <2>2, <2>3
  <1>12. ASSUME NEW j \in 0..7, RightBelow(T, P, j), Doubles(T, 2^j), At(j)
         PROVE  RightBelow(T, P, j + 1)
    BY <1>1, <1>12, RightAbove DEF At
  <1>13. RightBelow(T, P, 0)
    <2> SUFFICES Entry(T, {}) = Divided(P, {})
      <3>1. \A byte \in SUBSET (0..(0 - 1)) : byte = {}
        OBVIOUS
      <3> QED  BY <3>1 DEF RightBelow
    <2>1. Value({}) = 0
      BY DEF Value
    <2>2. Entry(T, {}) = Bits(0)
      BY <1>6, <2>1 DEF Entry, EntryAt
    <2>3. Bits(0) = {}
      <3>1. Bits(0) \in Registers /\ {} \in Registers
        BY BitsAre DEF Registers
      <3>2. ASSUME NEW k \in 0..15
            PROVE  ~(k \in Bits(0))
        <4>1. CASE k \in 0..7
          BY <4>1, BitsAre DEF BitAt
        <4>2. CASE k \in 8..15
          BY <4>2, BitsAre DEF BitAt
        <4> QED  BY <4>1, <4>2
      <3> QED  BY <3>1, <3>2, SameBits
    <2>4. {} \in Octet /\ ShiftLeft({}, 8) = {}
      BY DEF Octet, ShiftLeft
    <2>5. Eight(P, {}, {}) = {}
      BY <1>1, <2>4, EightOfByte
    <2> QED  BY <2>2, <2>3, <2>4, <2>5 DEF Divided
  <1>14. RightBelow(T, P, 1)
    BY <1>2, <1>4, <1>7, <1>9, <1>12, <1>13
  <1>15. RightBelow(T, P, 2)
    BY <1>2, <1>4, <1>9, <1>10, <1>12, <1>14
  <1>16. RightBelow(T, P, 3)
    BY <1>2, <1>4, <1>9, <1>10, <1>12, <1>15
  <1>17. RightBelow(T, P, 4)
    BY <1>3, <1>4, <1>9, <1>10, <1>12, <1>16
  <1>18. RightBelow(T, P, 5)
    BY <1>3, <1>4, <1>9, <1>11, <1>12, <1>17
  <1>19. RightBelow(T, P, 6)
    BY <1>3, <1>4, <1>9, <1>11, <1>12, <1>18
  <1>20. RightBelow(T, P, 7)
    BY <1>3, <1>4, <1>9, <1>11, <1>12, <1>19
  <1>21. RightBelow(T, P, 8)
    BY <1>3, <1>4, <1>9, <1>11, <1>12, <1>20
  <1>22. 8 - 1 = 7
    OBVIOUS
  <1> QED  BY <1>21, <1>22 DEF RightBelow, Octet, P

FirePolynomial == FIRE_CODE.gen_polynom
CcittPolynomial == CRC16_CCITT.gen_polynom

\* Both tables have for every byte what the division leaves of it.
LEMMA TypedTables ==
    /\ FirePolynomial \in Registers /\ CcittPolynomial \in Registers
    /\ \A byte \in Octet :
          /\ Entry(FIRECODE_TABLE, byte) = Divided(FirePolynomial, byte)
          /\ Entry(CRC_CCITT_TABLE, byte) = Divided(CcittPolynomial, byte)
  <1>1. FirePolynomial = Bits(\h782f) /\ CcittPolynomial = Bits(\h1021)
    BY DEF FirePolynomial, FIRE_CODE, CcittPolynomial, CRC16_CCITT
  <1>2. Bits(\h782f) \in Registers /\ Bits(\h1021) \in Registers
    BY BitsAre
  <1>3. \A byte \in Octet : Entry(FIRECODE_TABLE, byte) = Divided(Bits(\h782f), byte)
    <2>1. TableRows(FIRECODE_TABLE, \h782f)
      BY FireCodeRows
    <2> QED  BY <2>1, TableIsRight
  <1>4. \A byte \in Octet : Entry(CRC_CCITT_TABLE, byte) = Divided(Bits(\h1021), byte)
    <2>1. TableRows(CRC_CCITT_TABLE, \h1021)
      BY CcittRows
    <2> QED  BY <2>1, TableIsRight
  <1> QED  BY <1>1, <1>2, <1>3, <1>4

-----------------------------------------------------------------------------
(* Checksums: CHECK_FIRECODE. *)

\* No low bits are left by a shift of a byte.
LEMMA LowShifted ==
    ASSUME NEW r \in Registers
    PROVE  ShiftLeft(r, 8) \in Registers /\ \A k \in 0..7 : ~(k \in ShiftLeft(r, 8))
  <1>1. \A k \in 0..7 : k \in 0..15 /\ ~(k - 8 \in r)
    BY DEF Registers
  <1>2. \A k \in 0..7 : ~(k \in ShiftLeft(r, 8))
    BY <1>1, InShift
  <1> QED  BY <1>2, AreRegisters

\* A byte enters at the low end, after eight steps.
LEMMA FedIs ==
    ASSUME NEW r \in Registers, NEW byte \in Octet
    PROVE  Fed(r, byte) = Xor(Eight(FirePolynomial, r, {}), byte)
  <1> DEFINE sec == Entry(FIRECODE_TABLE, ShiftRight8(r))
             shifted == ShiftLeft(r, 8)
             e == Eight(FirePolynomial, r, {})
  <1>1. e = Xor(shifted, sec)
    <2>1. {} \in Octet /\ ShiftRight8(r) \in Octet
      BY PartsType DEF Octet
    <2>2. Xor(ShiftRight8(r), {}) = ShiftRight8(r)
      BY XorLaws
    <2>3. sec = Eight(FirePolynomial, ShiftLeft(ShiftRight8(r), 8), {})
      BY <2>1, TypedTables DEF Divided
    <2>4. Xor(shifted, Eight(FirePolynomial, ShiftLeft(Xor(ShiftRight8(r), {}), 8), {})) = e
      BY <2>1, TypedTables, TopIsEight
    <2> QED  BY <2>2, <2>3, <2>4
  <1>2. e \in Registers
    BY TypedTables, EightXor
  <1>3. shifted \in Registers /\ \A k \in 0..7 : ~(k \in shifted)
    BY LowShifted
  <1>4. sec = Xor(shifted, e)
    <2> HIDE DEF e, sec, shifted
    <2> QED  BY <1>1, XorLaws
  <1>5. Fed(r, byte) = Xor(Low(sec), byte) \cup High(Xor(sec, shifted))
    BY DEF Fed
  <1> HIDE DEF e, sec, shifted
  <1>6. Xor(sec, shifted) = e
    BY <1>1, XorLaws
  <1>7. Low(sec) = e \cap (0..7)
    <2>1. \A k \in 0..7 : k \in sec <=> k \in e
      BY <1>3, <1>4 DEF Xor
    <2> QED  BY <2>1 DEF Low
  <1>8. Fed(r, byte) = Xor(e \cap (0..7), byte) \cup (e \cap (8..15))
    BY <1>5, <1>6, <1>7 DEF High
  <1>9. \A k \in byte : k \in 0..7 /\ ~(k \in 8..15)
    BY DEF Octet
  <1>10. \A k \in e : (k \in 0..7 /\ ~(k \in 8..15)) \/ (k \in 8..15 /\ ~(k \in 0..7))
    BY <1>2 DEF Registers
  <1>11. Xor(e \cap (0..7), byte) \cup (e \cap (8..15)) = Xor(e, byte)
    <2> DEFINE lows == 0..7
               highs == 8..15
    <2>1. /\ \A k \in byte : k \in lows /\ ~(k \in highs)
          /\ \A k \in e : (k \in lows /\ ~(k \in highs)) \/ (k \in highs /\ ~(k \in lows))
      BY <1>9, <1>10
    <2> HIDE DEF lows, highs
    <2>2. Xor(e \cap lows, byte) \cup (e \cap highs) = Xor(e, byte)
      BY <2>1 DEF Xor
    <2> QED  BY <2>2 DEF lows, highs
  <1> QED  BY <1>8, <1>11 DEF e

\* So the first two bytes, which are put into the register as they are, might as well
\* be fed.
LEMMA PutInIs ==
    ASSUME NEW p \in Registers, NEW r \in Octet, NEW byte \in Octet
    PROVE  ShiftLeft(r, 8) \cup byte = Xor(Eight(p, r, {}), byte)
  <1>1. Eight(p, r, {}) = ShiftLeft(r, 8)
    BY EightOfByte
  <1>2. r \in Registers
    BY PartsType
  <1>3. \A k \in 0..7 : ~(k \in ShiftLeft(r, 8))
    BY <1>2, LowShifted
  <1>4. \A k \in byte : ~(k \in ShiftLeft(r, 8))
    BY <1>3 DEF Octet
  <1> QED  BY <1>1, <1>4 DEF Xor

\* A byte of the message is eight steps of the register with the byte at its top.
LEMMA EightIsTop ==
    ASSUME NEW p \in Registers, NEW r \in Registers, NEW byte \in Octet
    PROVE  Eight(p, r, byte) = Eight(p, Xor(r, ShiftLeft(byte, 8)), {})
  <1> DEFINE top == ShiftLeft(byte, 8)
  <1>1. byte \in Registers
    BY PartsType
  <1>2. top \in Registers
    BY <1>1, AreRegisters
  <1>3. ASSUME NEW k \in 0..7
        PROVE  k \in byte <=> k + 8 \in top
    <2>1. k + 8 \in 0..15 /\ (k + 8) - 8 = k
      OBVIOUS
    <2> QED  BY <1>1, <2>1, InShift
  <1> HIDE DEF top
  <1>4. Eight(p, top, byte) = ShiftLeft(top, 8)
    BY <1>2, <1>3, EightPasses
  <1>5. ShiftLeft(top, 8) = {}
    <2>1. ShiftLeft(top, 8) = ShiftLeft(byte, 8 + 8)
      BY <1>1, ShiftShift DEF top
    <2> QED  BY <1>1, <2>1, ShiftedOut
  <1>6. Xor(top, Xor(r, top)) = r /\ Xor(byte, {}) = byte
    BY XorLaws
  <1>7. Xor(r, top) \in Registers
    BY <1>2, AreRegisters
  <1>8. Eight(p, Xor(top, Xor(r, top)), Xor(byte, {})) =
            Xor(Eight(p, top, byte), Eight(p, Xor(r, top), {}))
    BY <1>2, <1>7, EightXor
  <1>9. Eight(p, r, byte) = Xor({}, Eight(p, Xor(r, top), {}))
    BY <1>4, <1>5, <1>6, <1>8
  <1> QED  BY <1>9, XorLaws DEF top

\* The register of CalcCRC is that of CHECK_FIRECODE two bytes on, and remains so.
LEMMA Ahead ==
    ASSUME NEW p \in Registers, NEW r \in Registers, NEW byte \in Octet
    PROVE  LET next == Xor(Eight(p, r, {}), byte)
           IN  /\ next \in Registers
               /\ Eight(p, next, {}) = Xor(Eight(p, Eight(p, r, {}), {}), ShiftLeft(byte, 8))
               /\ Eight(p, Eight(p, next, {}), {}) = Eight(p, Eight(p, Eight(p, r, {}), {}), byte)
  <1> DEFINE a == Eight(p, r, {})
             aa == Eight(p, a, {})
             next == Xor(a, byte)
             top == ShiftLeft(byte, 8)
  <1>1. byte \in Registers /\ {} \in Registers /\ Xor({}, {}) = {}
    BY PartsType DEF Registers, Xor
  <1>2. a \in Registers
    BY EightXor
  <1>3. aa \in Registers
    <2> HIDE DEF a
    <2> QED  BY <1>2, EightXor
  <1>4. next \in Registers /\ top \in Registers
    <2> HIDE DEF a
    <2> QED  BY <1>1, <1>2, AreRegisters
  <1>5. Eight(p, next, {}) = Xor(aa, top)
    <2>1. Eight(p, Xor(a, byte), Xor({}, {})) = Xor(Eight(p, a, {}), Eight(p, byte, {}))
      <3> HIDE DEF a
      <3> QED  BY <1>1, <1>2, EightXor
    <2>2. Eight(p, byte, {}) = top
      BY EightOfByte
    <2> HIDE DEF a, top
    <2> QED  BY <1>1, <2>1, <2>2
  <1>6. Eight(p, aa, byte) = Eight(p, Xor(aa, top), {})
    <2> HIDE DEF aa
    <2> QED  BY <1>3, EightIsTop
  <1> QED  BY <1>4, <1>5, <1>6

-----------------------------------------------------------------------------
(* Checksums: the message. *)

\* The registers hold bits; CHECK_FIRECODE's is two bytes behind that of its object,
\* and CRC_CCITT_CHECK's is that of its own.
CrcInv ==
    /\ object \in {CRC16_CCITT, CRC16_IBM, FIRE_CODE}
    /\ message \in Seq(Bytes) /\ odd \in Nat
    /\ crc \in Registers /\ state \in Registers /\ check \in Registers
    /\ TableIsBitwise
    /\ object = CRC16_CCITT /\ odd = 0 => check = crc
    /\ Len(message) = 0 => state = {}
    /\ Len(message) = 1 => state \in Octet
    /\ object = FIRE_CODE /\ odd = 0 => crc = Eight(FirePolynomial, Eight(FirePolynomial, state, {}), {})

\* The first state.
LEMMA CrcInitially == CrcInit => CrcInv
  <1> SUFFICES ASSUME CrcInit
               PROVE  CrcInv
    OBVIOUS
  <1>1. /\ object \in {CRC16_CCITT, CRC16_IBM, FIRE_CODE} /\ message = << >> /\ state = {}
        /\ odd = 0 /\ crc = Initialize(object) /\ serial = crc /\ check = Ones
    BY DEF CrcInit
  <1>2. message \in Seq(Bytes) /\ Len(message) = 0
    BY <1>1
  <1>3. /\ crc \in Registers /\ state \in Registers /\ check \in Registers
        /\ object = CRC16_CCITT => check = crc
    BY <1>1 DEF Initialize, Registers, Ones, CRC16_CCITT
  <1>4. object = FIRE_CODE => crc = Eight(FirePolynomial, Eight(FirePolynomial, state, {}), {})
    <2> SUFFICES ASSUME object = FIRE_CODE
                 PROVE  crc = Eight(FirePolynomial, Eight(FirePolynomial, state, {}), {})
      OBVIOUS
    <2>1. crc = {}
      BY <1>1 DEF Initialize, FIRE_CODE
    <2>2. {} \in Octet /\ FirePolynomial \in Registers /\ ShiftLeft({}, 8) = {}
      BY TypedTables DEF Octet, ShiftLeft
    <2>3. Eight(FirePolynomial, {}, {}) = {}
      BY <2>2, EightOfByte
    <2> QED  BY <1>1, <2>1, <2>3
  <1> QED  BY <1>1, <1>2, <1>3, <1>4 DEF CrcInv, TableIsBitwise

\* A byte more.
LEMMA ProcessByteInv ==
    ASSUME CrcInv, NEW b \in Bytes, ProcessByte(b)
    PROVE  CrcInv'
  <1> DEFINE p == object.gen_polynom
             byte == Bits(b)
  <1>1. p \in Registers
    BY Polynomials DEF CrcInv
  <1>2. byte \in Octet
    <2>1. b \in 0..255
      BY BytesAssumption
    <2> QED  BY <2>1, BitsType
  <1>3. /\ odd = 0 /\ message' = Append(message, b) /\ crc' = AfterByte(crc, byte)
        /\ serial' = AfterBitsOf(serial, byte) /\ object' = object /\ odd' = odd
        /\ state' = IF Len(message) < 2 THEN ShiftLeft(state, 8) \cup byte ELSE Fed(state, byte)
        /\ check' = Checking(check, byte)
    BY DEF ProcessByte
  <1>4. /\ crc \in Registers /\ state \in Registers /\ check \in Registers /\ message \in Seq(Bytes) /\ serial = crc
        /\ object \in {CRC16_CCITT, CRC16_IBM, FIRE_CODE}
    BY DEF CrcInv, TableIsBitwise
  <1> HIDE DEF byte
  <1>5. crc' = Eight(p, crc, byte)
    BY <1>1, <1>2, <1>3, <1>4, ByteIsEight
  <1>6. serial' = crc'
    BY <1>3, <1>4, <1>5, AfterBitsOfIs
  <1> DEFINE f == FirePolynomial
  <1>0. f \in Registers
    BY TypedTables
  <1>7. state' = Xor(Eight(f, state, {}), byte)
    <2>1. CASE Len(message) < 2
      <3>1. state \in Octet
        <4>1. Len(message) \in Nat
          BY <1>4
        <4>2. Len(message) = 0 \/ Len(message) = 1
          <5> DEFINE n == Len(message)
          <5>1. n \in Nat /\ n < 2
            BY <2>1, <4>1
          <5> HIDE DEF n
          <5>2. n = 0 \/ n = 1
            BY <5>1
          <5> QED  BY <5>2 DEF n
        <4>3. {} \in Octet
          BY DEF Octet
        <4> QED  BY <4>2, <4>3 DEF CrcInv
      <3>2. state' = ShiftLeft(state, 8) \cup byte
        BY <1>3, <2>1
      <3> HIDE DEF f
      <3> QED  BY <1>0, <1>2, <3>1, <3>2, PutInIs
    <2>2. CASE ~(Len(message) < 2)
      <3>1. state' = Fed(state, byte)
        BY <1>3, <2>2
      <3> QED  BY <1>2, <1>4, <3>1, FedIs
    <2> QED  BY <2>1, <2>2
  <1> HIDE DEF p, f
  <1>8. /\ state' \in Registers
        /\ Eight(f, Eight(f, state', {}), {}) = Eight(f, Eight(f, Eight(f, state, {}), {}), byte)
    BY <1>0, <1>2, <1>4, <1>7, Ahead
  <1>9. crc' \in Registers
    BY <1>1, <1>4, <1>5, EightXor
  <1>10. message' \in Seq(Bytes) /\ Len(message') = Len(message) + 1 /\ Len(message) \in Nat
    BY <1>3, <1>4
  <1>11. Len(message') = 1 => state' \in Octet
    <2> SUFFICES ASSUME Len(message') = 1
                 PROVE  state' \in Octet
      OBVIOUS
    <2>1. state = {}
      <3> DEFINE n == Len(message)
      <3>1. n \in Nat /\ n + 1 = 1
        BY <1>10
      <3> HIDE DEF n
      <3>2. n = 0
        BY <3>1
      <3> QED  BY <3>2 DEF CrcInv, n
    <2>2. Eight(f, state, {}) = ShiftLeft(state, 8) /\ ShiftLeft(state, 8) = {}
      <3>1. {} \in Octet /\ ShiftLeft({}, 8) = {}
        BY DEF Octet, ShiftLeft
      <3> QED  BY <1>0, <2>1, <3>1, EightOfByte
    <2>3. Xor({}, byte) = byte
      BY XorLaws
    <2>4. state' = byte
      BY <1>7, <2>2, <2>3
    <2> QED  BY <1>2, <2>4
  <1>12. object' = FIRE_CODE /\ odd' = 0
             => crc' = Eight(FirePolynomial, Eight(FirePolynomial, state', {}), {})
    <2> SUFFICES ASSUME object = FIRE_CODE
                 PROVE  crc' = Eight(FirePolynomial, Eight(FirePolynomial, state', {}), {})
      BY <1>3
    <2>1. p = FirePolynomial /\ f = FirePolynomial
      BY DEF p, f, FirePolynomial
    <2>2. crc = Eight(FirePolynomial, Eight(FirePolynomial, state, {}), {})
      BY <1>3 DEF CrcInv
    <2> QED  BY <1>5, <1>8, <2>1, <2>2
  <1> QED
    <2>1. object' \in {CRC16_CCITT, CRC16_IBM, FIRE_CODE}
      BY <1>3, <1>4
    <2>4. check' \in Registers /\ (object' = CRC16_CCITT /\ odd' = 0 => check' = crc')
      <3>1. ShiftRight8(check) \in Octet
        BY <1>4, PartsType
      <3>2. Xor(ShiftRight8(check), byte) \in Octet
        BY <1>2, <3>1 DEF Xor, Octet
      <3>3. Entry(CRC_CCITT_TABLE, Xor(ShiftRight8(check), byte)) =
                Eight(CcittPolynomial, ShiftLeft(Xor(ShiftRight8(check), byte), 8), {})
        BY <3>2, TypedTables DEF Divided
      <3>4. check' = Eight(CcittPolynomial, check, byte)
        BY <1>2, <1>3, <1>4, <3>3, TypedTables, TopIsEight DEF Checking
      <3>5. check' \in Registers
        BY <1>4, <3>4, TypedTables, EightXor
      <3>6. ASSUME object = CRC16_CCITT
            PROVE  check' = crc'
        <4>1. p = CcittPolynomial
          BY <3>6 DEF p, CcittPolynomial
        <4>2. check = crc
          BY <1>3, <3>6 DEF CrcInv
        <4> QED  BY <1>5, <3>4, <4>1, <4>2
      <3> QED  BY <1>3, <3>5, <3>6
    <2>2. Len(message') # 0
      BY <1>10
    <2>3. odd' \in Nat
      BY <1>3
    <2> QED  BY <1>6, <1>8, <1>9, <1>10, <1>11, <1>12, <2>1, <2>2, <2>3, <2>4 DEF CrcInv, TableIsBitwise

\* A single bit.
LEMMA ProcessBitInv ==
    ASSUME CrcInv, NEW bit \in BOOLEAN, ProcessBit(bit)
    PROVE  CrcInv'
  <1>1. /\ odd' = odd + 1 /\ crc' = AfterBit(crc, bit) /\ serial' = AfterBit(serial, bit)
        /\ object' = object /\ message' = message /\ state' = state /\ check' = check
    BY DEF ProcessBit
  <1>2. crc \in Registers /\ object.gen_polynom \in Registers
    BY Polynomials DEF CrcInv
  <1>3. crc' \in Registers
    <2>1. ShiftLeft(crc, 1) \in Registers
      BY <1>2, AreRegisters
    <2>2. Xor(ShiftLeft(crc, 1), object.gen_polynom) \in Registers
      BY <1>2, <2>1, AreRegisters
    <2> QED  BY <1>1, <2>1, <2>2 DEF AfterBit
  <1>4. serial' = crc'
    BY <1>1 DEF CrcInv, TableIsBitwise
  <1>5. odd' # 0 /\ odd' \in Nat
    BY <1>1 DEF CrcInv
  <1> QED  BY <1>1, <1>3, <1>4, <1>5 DEF CrcInv, TableIsBitwise

LEMMA CrcAlways == CrcSpec => []CrcInv
  <1>1. CrcInv /\ [CrcNext]_crcVars => CrcInv'
    <2> SUFFICES ASSUME CrcInv, [CrcNext]_crcVars
                 PROVE  CrcInv'
      OBVIOUS
    <2>1. CASE UNCHANGED crcVars
      BY <2>1 DEF crcVars, CrcInv, TableIsBitwise
    <2> QED  BY <2>1, ProcessByteInv, ProcessBitInv DEF CrcNext
  <1> QED  BY <1>1, CrcInitially, PTL DEF CrcSpec

\* For messages of every length, and any number of single bits after their bytes,
\* CalcCRC gives what the polynomial's division, bit by bit, gives: whatever is in the
\* register, FillLUT's table makes of a byte what its eight bits would have made.
THEOREM ChecksumsRight == CrcSpec => []TableIsBitwise
  <1>1. CrcInv => TableIsBitwise
    BY DEF CrcInv
  <1> QED  BY <1>1, CrcAlways, PTL

\* A checksum is put together from its two bytes.
LEMMA TwoBytes ==
    ASSUME NEW sum \in Registers
    PROVE  Xor(ShiftLeft(ShiftRight8(sum), 8), Low(sum)) = sum
  <1> DEFINE hi == ShiftRight8(sum)
             lo == Low(sum)
             top == ShiftLeft(hi, 8)
  <1>1. hi \in Registers /\ lo \in Registers /\ lo \in Octet
    BY PartsType
  <1>2. top \in Registers /\ \A k \in 0..7 : ~(k \in top)
    <2> HIDE DEF hi
    <2> QED  BY <1>1, LowShifted
  <1>3. ASSUME NEW k \in 8..15
        PROVE  k \in top <=> k \in sum
    <2>1. k \in Int /\ k - 8 \in Nat /\ (k - 8) + 8 = k /\ k \in 0..15
      OBVIOUS
    <2>2. k \in top <=> k - 8 \in hi
      <3> HIDE DEF hi
      <3> QED  BY <1>1, <2>1, InShift
    <2>3. k - 8 \in hi <=> (k - 8) + 8 \in sum
      BY <2>1, InDown
    <2> QED  BY <2>1, <2>2, <2>3
  <1>4. ASSUME NEW k \in 0..15
        PROVE  k \in Xor(top, lo) <=> k \in sum
    <2>1. CASE k \in 0..7
      BY <1>2, <2>1 DEF Xor, Low
    <2>2. CASE k \in 8..15
      <3>1. ~(k \in lo)
        BY <2>2 DEF Low
      <3> HIDE DEF top, lo
      <3> QED  BY <1>3, <2>2, <3>1 DEF Xor
    <2> QED  BY <2>1, <2>2
  <1> HIDE DEF top, lo
  <1>5. Xor(top, lo) \in Registers
    BY <1>1, <1>2, AreRegisters
  <1>6. Xor(top, lo) = sum
    BY <1>4, <1>5, SameBits
  <1> QED  BY <1>6 DEF top, lo, hi

\* After every message of two bytes or more, CHECK_FIRECODE is left with zero where
\* the checksum is the one CalcCRC_FIRE_CODE computes, and not where one of its bits is
\* wrong: its register is the other's, two bytes behind.
THEOREM FireCodeChecked == CrcSpec => []FireCodeAgrees
  <1>1. CrcInv => FireCodeAgrees
    <2> SUFFICES ASSUME CrcInv, object = FIRE_CODE, odd = 0
                 PROVE  Checked(crc) = {} /\ \A k \in 0..15 : Checked(Xor(crc, {k})) # {}
      BY DEF FireCodeAgrees, Calc, Finalize, FIRE_CODE
    <2>1. FirePolynomial \in Registers /\ state \in Registers /\ crc \in Registers
      BY TypedTables DEF CrcInv
    <2>2. crc = Eight(FirePolynomial, Eight(FirePolynomial, state, {}), {})
      BY DEF CrcInv
    <2>3. ASSUME NEW sum \in Registers
          PROVE  Checked(sum) = Xor(crc, sum)
      <3> DEFINE hi == ShiftRight8(sum)
                 lo == Low(sum)
                 first == Fed(state, hi)
      <3>1. hi \in Octet /\ lo \in Octet
        BY PartsType
      <3> HIDE DEF hi, lo
      <3>2. first = Xor(Eight(FirePolynomial, state, {}), hi)
        BY <2>1, <3>1, FedIs
      <3>3. first \in Registers /\ Eight(FirePolynomial, first, {}) = Xor(crc, ShiftLeft(hi, 8))
        BY <2>1, <2>2, <3>1, <3>2, Ahead
      <3> HIDE DEF first
      <3>4. Fed(first, lo) = Xor(Xor(crc, ShiftLeft(hi, 8)), lo)
        BY <2>1, <3>1, <3>3, FedIs
      <3>5. Fed(first, lo) = Xor(crc, Xor(ShiftLeft(hi, 8), lo))
        BY <3>4, XorLaws
      <3> QED  BY <3>5, TwoBytes DEF Checked, first, hi, lo
    <2>4. Checked(crc) = {}
      BY <2>1, <2>3, XorLaws
    <2>5. ASSUME NEW k \in 0..15
          PROVE  Checked(Xor(crc, {k})) # {}
      <3>1. {k} \in Registers
        BY DEF Registers
      <3>2. Xor(crc, {k}) \in Registers
        BY <2>1, <3>1, AreRegisters
      <3>3. Checked(Xor(crc, {k})) = {k}
        BY <2>3, <3>2, XorLaws
      <3> QED  BY <3>3
    <2> QED  BY <2>4, <2>5
  <1> QED  BY <1>1, CrcAlways, PTL

\* After every message CRC_CCITT_CHECK takes the checksum that CalcCRC_CRC16_CCITT
\* computes and none that differs from it in a bit: its register is the other's, its
\* table having been typed right.
THEOREM AuChecksumsChecked == CrcSpec => []AuChecksumAgrees
  <1>1. CrcInv => AuChecksumAgrees
    <2> SUFFICES ASSUME CrcInv, object = CRC16_CCITT, odd = 0
                 PROVE  CRC_CCITT_CHECK(Calc) /\ \A k \in 0..15 : ~CRC_CCITT_CHECK(Xor(Calc, {k}))
      BY DEF AuChecksumAgrees
    <2>1. check = crc
      BY DEF CrcInv
    <2>2. Calc = Xor(crc, Ones)
      BY DEF Calc, Finalize, CRC16_CCITT
    <2>3. Xor(Calc, Ones) = crc
      BY <2>2, XorLaws
    <2>4. ASSUME NEW k \in 0..15
          PROVE  ~CRC_CCITT_CHECK(Xor(Calc, {k}))
      <3>1. Xor(Xor(Calc, {k}), Ones) = Xor(crc, {k})
        BY <2>2 DEF Xor
      <3>2. k \in crc <=> ~(k \in Xor(crc, {k}))
        BY DEF Xor
      <3> QED  BY <2>1, <3>1, <3>2 DEF CRC_CCITT_CHECK
    <2> QED  BY <2>1, <2>3, <2>4 DEF CRC_CCITT_CHECK
  <1> QED  BY <1>1, CrcAlways, PTL

=============================================================================
