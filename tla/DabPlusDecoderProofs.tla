------------------------ MODULE DabPlusDecoderProofs ------------------------
(***************************************************************************)
(* Theorems about the super frame search, for every frame size and every   *)
(* size of the mscData calls.                                              *)
(***************************************************************************)
EXTENDS DabPlusDecoder, Integers, TLAPS

\* Quotient and remainder of natural numbers.
LEMMA DivMod ==
    \A a \in Nat, b \in Nat \ {0} : a \div b \in Nat /\ a % b \in 0..(b - 1)
  OBVIOUS

\* What a run of the loops starts from.
LEMMA Sizes == Lost \in Nat \ {0} /\ FrameSize \in Nat \ {0} /\ MaxChunk \in Nat
  BY FrameSizeAssumption, MaxChunkAssumption DEF Lost

\* Concatenation.
LEMMA Concatenation ==
    ASSUME NEW S, NEW s \in Seq(S), NEW t \in Seq(S)
    PROVE  s \o t \in Seq(S) /\ Len(s \o t) = Len(s) + Len(t)
  OBVIOUS

\* What a call that brings clean bytes does, and that heard counts something.
LEMMA HeardCounts ==
    ASSUME TypeOK, ReceiveClean
    PROVE  \E first \in (IF Clean THEN {next} ELSE Positions), n \in 1..MaxChunk :
           \E zeros \in SUBSET {i \in 1..n : (first + i - 1) % Lost = 0} :
               /\ data' = data \o Chunk(first, n, zeros)
               /\ next' = (first + n) % Lost
               /\ \E ends \in Nat : heard' = AtMost(Enough, ends)
  <1>1. PICK first \in (IF Clean THEN {next} ELSE Positions), n \in 1..MaxChunk :
        \E zeros \in SUBSET {i \in 1..n : (first + i - 1) % Lost = 0} :
            /\ data' = data \o Chunk(first, n, zeros)
            /\ next' = (first + n) % Lost
            /\ \/ /\ zeros = {}
                  /\ heard' = AtMost(Enough, heard + (first + n) \div Lost)
               \/ \E last \in zeros : heard' = AtMost(Enough, (n - last + 1) \div Lost)
    BY DEF ReceiveClean
  <1>2. first \in Nat /\ n \in Nat /\ heard \in Nat
    BY Sizes DEF TypeOK, Positions, Enough
  <1>3. heard + (first + n) \div Lost \in Nat
    <2> DEFINE q == (first + n) \div Lost
    <2>1. q \in Nat
      BY <1>2, DivMod, Sizes
    <2> HIDE DEF q
    <2>2. heard + q \in Nat
      BY <1>2, <2>1
    <2> QED  BY <2>2 DEF q
  <1>4. \A last \in 1..n : (n - last + 1) \div Lost \in Nat
    <2> SUFFICES ASSUME NEW last \in 1..n PROVE (n - last + 1) \div Lost \in Nat
      OBVIOUS
    <2>1. n - last + 1 \in Nat
      BY <1>2
    <2> QED  BY <2>1, DivMod, Sizes
  <1>5. PICK zeros \in SUBSET {i \in 1..n : (first + i - 1) % Lost = 0} :
            /\ data' = data \o Chunk(first, n, zeros)
            /\ next' = (first + n) % Lost
            /\ \/ /\ zeros = {}
                  /\ heard' = AtMost(Enough, heard + (first + n) \div Lost)
               \/ \E last \in zeros : heard' = AtMost(Enough, (n - last + 1) \div Lost)
    BY <1>1
  <1>6. \E ends \in Nat : heard' = AtMost(Enough, ends)
    BY <1>3, <1>4, <1>5
  <1> QED  BY <1>5, <1>6

\* A call adds at most MaxChunk bytes to a buffer with at most one frame in it.
LEMMA InputTypeOK ==
    ASSUME TypeOK, ReceiveNoise \/ ReceiveClean
    PROVE  TypeOK'
  <1>1. CASE ReceiveNoise
    <2>1. PICK n \in 1..MaxChunk : \E noise \in [1..n -> Noise] :
              data' = data \o [i \in 1..n |-> Stray(noise[i])]
      BY <1>1 DEF ReceiveNoise
    <2>2. PICK noise \in [1..n -> Noise] :
              data' = data \o [i \in 1..n |-> Stray(noise[i])]
      BY <2>1
    <2> DEFINE bytes == [i \in 1..n |-> Stray(noise[i])]
    <2>3. bytes \in Seq(Byte) /\ Len(bytes) = n
      BY Sizes DEF Byte
    <2>4. data' = data \o bytes
      BY <2>2
    <2> HIDE DEF bytes
    <2>5. data' \in Seq(Byte) /\ Len(data') <= FrameSize + MaxChunk
      <3>1. data \in Seq(Byte) /\ Len(data) \in Nat /\ Len(data) <= FrameSize
        BY <1>1, Sizes DEF ReceiveNoise, Busy, TypeOK
      <3> QED  BY <2>3, <2>4, <3>1, Concatenation, Sizes
    <2> QED
      BY <1>1, <2>5, Sizes
         DEF ReceiveNoise, TypeOK, syncVars, frameVars, Enough
  <1>2. CASE ReceiveClean
    <2>1. PICK first \in (IF Clean THEN {next} ELSE Positions), n \in 1..MaxChunk :
          \E zeros \in SUBSET {i \in 1..n : (first + i - 1) % Lost = 0} :
              /\ data' = data \o Chunk(first, n, zeros)
              /\ next' = (first + n) % Lost
              /\ \E ends \in Nat : heard' = AtMost(Enough, ends)
      BY <1>2, HeardCounts
    <2>2. first \in Nat /\ n \in Nat
      BY Sizes DEF TypeOK, Positions
    <2>9. PICK zeros : data' = data \o Chunk(first, n, zeros)
      BY <2>1
    <2> DEFINE bytes == Chunk(first, n, zeros)
    <2>3. \A i \in 1..n : (first + i - 1) % Lost \in Positions
      <3> SUFFICES ASSUME NEW i \in 1..n
                   PROVE  (first + i - 1) % Lost \in Positions
        OBVIOUS
      <3>1. first + i - 1 \in Nat
        BY <2>2
      <3> QED  BY <3>1, DivMod, Sizes DEF Positions, Lost
    <2>4. bytes \in Seq(Byte) /\ Len(bytes) = n /\ data' = data \o bytes
      <3>1. \A i \in 1..n : Sent((first + i - 1) % Lost) \in Byte /\ ZeroCode \in Byte
        BY <2>3 DEF Byte
      <3>2. bytes \in [1..n -> Byte]
        BY <3>1 DEF Chunk
      <3>3. data' = data \o bytes
        BY <2>9
      <3> HIDE DEF bytes
      <3> QED  BY <2>2, <3>2, <3>3
    <2> HIDE DEF bytes
    <2>5. data' \in Seq(Byte) /\ Len(data') <= FrameSize + MaxChunk
      <3>1. data \in Seq(Byte) /\ Len(data) \in Nat /\ Len(data) <= FrameSize
        BY <1>2, Sizes DEF ReceiveClean, Busy, TypeOK
      <3> QED  BY <2>2, <2>4, <3>1, Concatenation, Sizes
    <2>6. next' \in 0..Lost
      BY <2>1, <2>2, DivMod, Sizes
    <2>8. heard' \in 0..Enough
      BY <2>1 DEF AtMost, Enough
    <2> QED
      BY <1>2, <2>5, <2>6, <2>8 DEF ReceiveClean, TypeOK, syncVars, frameVars
  <1> QED  BY <1>1, <1>2

\* processData leaves its own state well typed, its flag and count in agreement.
LEMMA ProcessDataOK ==
    ASSUME TypeOK, CountsAgree, NEW frame, processData(frame)
    PROVE  /\ m_isSync' \in BOOLEAN
           /\ m_dabSuperFrameCount' \in 0..4
           /\ intact' \in BOOLEAN
           /\ delivered' \in {"none", "whole", "mixed"}
           /\ m_isSync' <=> m_dabSuperFrameCount' # 0
  <1>1. CASE StartSuperFrame(frame)
    <2>1. CASE GoodAuStarts(frame)
      <3>1. /\ m_isSync' = TRUE /\ m_dabSuperFrameCount' = 1 /\ delivered' = "none"
            /\ intact' = IsSent(frame, 0)
        BY <1>1, <2>1 DEF StartSuperFrame
      <3>2. intact' \in BOOLEAN
        BY <3>1, Zenon DEF IsSent
      <3>3. 1 \in 0..4 /\ 1 # 0
        OBVIOUS
      <3> QED  BY <3>1, <3>2, <3>3
    <2>2. CASE ~GoodAuStarts(frame)
      <3>1. /\ m_isSync' = m_isSync /\ m_dabSuperFrameCount' = 0
            /\ intact' = TRUE /\ delivered' = "none" /\ m_dabSuperFrameCount = 0
        BY <1>1, <2>2 DEF StartSuperFrame
      <3>2. m_isSync' = FALSE
        BY <3>1 DEF TypeOK, CountsAgree
      <3>3. m_isSync' <=> m_dabSuperFrameCount' # 0
        BY <3>1, <3>2, Zenon
      <3>4. m_dabSuperFrameCount' \in 0..4
        BY <3>1
      <3> QED  BY <3>1, <3>2, <3>3, <3>4, Zenon
    <2> QED  BY <2>1, <2>2
  <1>2. CASE ContinueSuperFrame(frame)
    <2>1. m_dabSuperFrameCount \in 0..4 /\ ~(m_dabSuperFrameCount > 5)
      BY DEF TypeOK
    <2>2. CASE ~m_isSync
      BY <1>2, <2>1, <2>2 DEF ContinueSuperFrame, TypeOK, CountsAgree
    <2>3. CASE m_isSync
      <3>1. intact' = (intact /\ IsSent(frame, m_dabSuperFrameCount))
        BY <1>2, <2>1, <2>3 DEF ContinueSuperFrame
      <3>2. intact' \in BOOLEAN
        BY <3>1, Zenon DEF TypeOK, IsSent
      <3>3. CASE m_dabSuperFrameCount + 1 = 5
        <4>1. /\ m_dabSuperFrameCount' = 0 /\ m_isSync' = FALSE
              /\ delivered' = IF intact' THEN "whole" ELSE "mixed"
          BY <1>2, <2>1, <2>3, <3>3 DEF ContinueSuperFrame
        <4>2. m_isSync' <=> m_dabSuperFrameCount' # 0
          BY <4>1, Zenon
        <4>3. m_dabSuperFrameCount' \in 0..4
          BY <4>1
        <4> QED  BY <3>2, <4>1, <4>2, <4>3, Zenon
      <3>4. CASE m_dabSuperFrameCount + 1 # 5
        <4>1. /\ delivered' = "none" /\ m_isSync' = m_isSync
              /\ m_dabSuperFrameCount' = m_dabSuperFrameCount + 1
          BY <1>2, <2>1, <2>3, <3>4 DEF ContinueSuperFrame
        <4>2. m_dabSuperFrameCount' \in 0..4 /\ m_dabSuperFrameCount' # 0
          BY <2>1, <3>4, <4>1
        <4> QED  BY <2>3, <3>2, <4>1, <4>2
      <3> QED  BY <3>3, <3>4
    <2> QED  BY <2>2, <2>3
  <1> QED  BY <1>1, <1>2 DEF processData

\* What an iteration leaves of the bytes.
LEMMA SkipOK ==
    ASSUME TypeOK, Busy, NEW n \in 0..FrameSize, Skip(n)
    PROVE  /\ data' \in Seq(Byte)
           /\ Len(data') = Len(data) - n
           /\ \A i \in 1..Len(data') : data'[i] = data[i + n]
  <1>1. Len(data) \in Nat /\ n \in Nat /\ n + 1 <= Len(data)
    BY Sizes DEF TypeOK, Busy
  <1> QED  BY <1>1 DEF TypeOK, Skip

\* Type correctness and the agreement of flags and counts need each other.
IInv == TypeOK /\ CountsAgree

\* Every iteration and every call preserve both.
LEMMA LoopOK ==
    ASSUME IInv, synchronizeData
    PROVE  IInv'
  <1>1. data' \in Seq(Byte) /\ Len(data') <= FrameSize + MaxChunk
    <2>1. PICK n \in 0..FrameSize : Skip(n)
      BY Sizes DEF synchronizeData, TakeFrame, FindFrame, SkipByte
    <2> QED
      BY <2>1, SkipOK, Sizes
         DEF IInv, TypeOK, synchronizeData, TakeFrame, FindFrame, SkipByte
  <1>2. CASE TakeFrame
    <2>1. /\ m_unsyncSync' \in BOOLEAN /\ m_unsyncFrameCount' \in 0..4
          /\ m_unsyncSync' <=> m_unsyncFrameCount' # 0
      <3>1. m_unsyncSync = TRUE /\ m_unsyncFrameCount \in 0..4
        BY <1>2 DEF TakeFrame, IInv, TypeOK
      <3>2. CASE m_unsyncFrameCount + 1 = 5
        <4>1. m_unsyncSync' = FALSE /\ m_unsyncFrameCount' = 0
          BY <1>2, <3>2 DEF TakeFrame
        <4>2. m_unsyncSync' <=> m_unsyncFrameCount' # 0
          BY <4>1, Zenon
        <4>3. m_unsyncFrameCount' \in 0..4
          BY <4>1
        <4> QED  BY <4>1, <4>2, <4>3, Zenon
      <3>3. CASE m_unsyncFrameCount + 1 # 5
        <4>1. m_unsyncSync' = TRUE /\ m_unsyncFrameCount' = m_unsyncFrameCount + 1
          BY <1>2, <3>1, <3>3 DEF TakeFrame
        <4> QED  BY <3>1, <3>3, <4>1
      <3> QED  BY <3>2, <3>3
    <2>2. next' \in 0..Lost /\ heard' \in 0..Enough
      BY <1>2 DEF TakeFrame, airVars, IInv, TypeOK
    <2>3. processData(Frame) /\ passing' = FALSE
      BY <1>2 DEF TakeFrame
    <2> QED  BY <1>1, <2>1, <2>2, <2>3, ProcessDataOK DEF IInv, TypeOK, CountsAgree
  <1>3. CASE FindFrame
    <2>1. /\ m_unsyncSync' \in BOOLEAN /\ m_unsyncFrameCount' \in 0..4
          /\ m_unsyncSync' <=> m_unsyncFrameCount' # 0
      BY <1>3 DEF FindFrame, IInv, TypeOK, CountsAgree
    <2>2. next' \in 0..Lost /\ heard' \in 0..Enough
      BY <1>3 DEF FindFrame, airVars, IInv, TypeOK
    <2>3. processData(Frame) /\ passing' = FALSE
      BY <1>3 DEF FindFrame
    <2> QED  BY <1>1, <2>1, <2>2, <2>3, ProcessDataOK DEF IInv, TypeOK, CountsAgree
  <1>4. CASE SkipByte
    BY <1>1, <1>4
       DEF IInv, SkipByte, TypeOK, CountsAgree, syncVars, frameVars, airVars
  <1> QED  BY <1>2, <1>3, <1>4 DEF synchronizeData

\* So they hold at all times.
LEMMA LoopsCorrect == Spec => []IInv
  <1>1. Init => IInv
    <2>1. Init => TypeOK
      <3>1. << >> \in Seq(Byte) /\ Len(<< >>) = 0
        OBVIOUS
      <3>2. 0 \in 0..Enough /\ 0 \in 0..4 /\ Lost \in 0..Lost
        BY Sizes DEF Enough
      <3>3. 0 <= FrameSize + MaxChunk
        BY Sizes
      <3> QED  BY <3>1, <3>2, <3>3 DEF Init, TypeOK
    <2>2. Init => CountsAgree
      BY DEF Init, CountsAgree
    <2> QED  BY <2>1, <2>2 DEF IInv
  <1>2. IInv /\ [Next]_vars => IInv'
    <2> SUFFICES ASSUME IInv, [Next]_vars
                 PROVE  IInv'
      OBVIOUS
    <2>1. CASE ReceiveNoise \/ ReceiveClean
      <3>1. UNCHANGED <<m_unsyncSync, m_unsyncFrameCount, m_isSync,
                        m_dabSuperFrameCount>>
        BY <2>1 DEF ReceiveNoise, ReceiveClean, syncVars, frameVars
      <3>2. CountsAgree'
        BY <3>1, Zenon DEF IInv, CountsAgree
      <3> QED  BY <2>1, <3>2, InputTypeOK DEF IInv
    <2>2. CASE UNCHANGED vars
      BY <2>2 DEF vars, syncVars, frameVars, airVars, IInv, TypeOK, CountsAgree
    <2> QED  BY <2>1, <2>2, LoopOK DEF Next
  <1> QED  BY <1>1, <1>2, PTL DEF Spec

\* Type correctness: among others, both counts return to zero in time, and the
\* buffer never holds more than a frame and what one call brought.
THEOREM TypeCorrect == Spec => []TypeOK
  BY LoopsCorrect, PTL DEF IInv

\* Neither flag is ever left set or reset apart from its count.
THEOREM FlagsFollowCounts == Spec => []CountsAgree
  BY LoopsCorrect, PTL DEF IInv

-----------------------------------------------------------------------------
(* Clean bytes keep the decoder in step *)

\* Quotient and remainder, for numbers that are no constants of arithmetic.
LEMMA Division ==
    ASSUME NEW a \in Nat, NEW b \in Nat \ {0}
    PROVE  a \div b \in Nat /\ a % b \in 0..(b - 1) /\ a = b * (a \div b) + (a % b)
  OBVIOUS

\* Frames of n bytes, one after the other.
LEMMA Multiples ==
    ASSUME NEW b \in Nat \ {0}, NEW p \in Nat, NEW q \in Nat, p < q
    PROVE  b * p + b <= b * q
  <1>1. q - p >= 1 /\ q - p \in Nat
    OBVIOUS
  <1>2. b * (q - p) >= b
    BY <1>1
  <1>3. b * (q - p) = b * q - b * p
    OBVIOUS
  <1>4. b * p \in Nat /\ b * q \in Nat
    OBVIOUS
  <1> QED  BY <1>2, <1>3, <1>4

\* The remainder is the only one.
LEMMA Remainder ==
    ASSUME NEW b \in Nat \ {0}, NEW p \in Nat, NEW q \in Nat,
           NEW r \in 0..(b - 1), NEW s \in 0..(b - 1), b * p + r = b * q + s
    PROVE  r = s
  <1>1. b * p \in Nat /\ b * q \in Nat
    OBVIOUS
  <1>2. CASE p < q
    <2>1. b * p + b <= b * q
      BY <1>2, Multiples
    <2> QED  BY <1>1, <2>1
  <1>3. CASE q < p
    <2>1. b * q + b <= b * p
      BY <1>3, Multiples
    <2> QED  BY <1>1, <2>1
  <1>4. CASE p = q
    BY <1>1, <1>4
  <1> QED  BY <1>2, <1>3, <1>4

\* A remainder may be taken before or after adding.
LEMMA ModAdd ==
    ASSUME NEW a \in Nat, NEW k \in Nat, NEW b \in Nat \ {0}
    PROVE  ((a % b) + k) % b = (a + k) % b
  <1> DEFINE q == a \div b
             r == a % b
             x == r + k
             y == a + k
  <1>1. q \in Nat /\ r \in 0..(b - 1) /\ a = b * q + r
    BY Division
  <1>2. x \in Nat /\ y \in Nat
    BY <1>1
  <1>3. x \div b \in Nat /\ x % b \in 0..(b - 1) /\ x = b * (x \div b) + (x % b)
    BY <1>2, Division
  <1>4. y \div b \in Nat /\ y % b \in 0..(b - 1) /\ y = b * (y \div b) + (y % b)
    BY <1>2, Division
  <1>5. y = b * q + x
    BY <1>1
  <1> HIDE DEF q, r, x, y
  <1>6. b * q + b * (x \div b) = b * (q + (x \div b))
    BY <1>1, <1>3
  <1>7. b * (q + (x \div b)) + (x % b) = b * (y \div b) + (y % b)
    <2> DEFINE m == x \div b
               n == y \div b
               u == x % b
               v == y % b
    <2> HIDE DEF m, n, u, v
    <2>1. x = b * m + u /\ y = b * n + v /\ m \in Nat /\ n \in Nat /\ u \in Nat /\ v \in Nat
      BY <1>3, <1>4 DEF m, n, u, v
    <2>2. b * q \in Nat /\ b * m \in Nat /\ b * n \in Nat
      BY <1>1, <2>1
    <2>3. b * q + b * m = b * (q + m)
      BY <1>6 DEF m
    <2>4. b * (q + m) + u = b * n + v
      BY <1>5, <2>1, <2>2, <2>3
    <2> QED  BY <2>4 DEF m, n, u, v
  <1>8. q + (x \div b) \in Nat
    BY <1>1, <1>3
  <1>9. x % b = y % b
    BY <1>3, <1>4, <1>7, <1>8, Remainder
  <1> QED  BY <1>9 DEF x, y, r

\* The remainder of what is smaller than the divisor.
LEMMA ModSmall ==
    ASSUME NEW b \in Nat \ {0}, NEW k \in 0..(b - 1)
    PROVE  k % b = k /\ (b + k) % b = k
  <1>1. k % b = k
    OBVIOUS
  <1>2. b % b = 0
    <2>1. b \div b \in Nat /\ b % b \in 0..(b - 1) /\ b = b * (b \div b) + (b % b)
      BY Division
    <2>2. b * 1 + 0 = b * (b \div b) + (b % b)
      BY <2>1
    <2> QED  BY <2>1, <2>2, Remainder
  <1>3. ((b % b) + k) % b = (b + k) % b
    <2>1. b \in Nat /\ k \in Nat
      OBVIOUS
    <2> QED  BY <2>1, ModAdd
  <1> QED  BY <1>1, <1>2, <1>3

-----------------------------------------------------------------------------
(* In step, the loops stay in step. *)

\* Bytes that follow one another from position p on; and what is sent after them.
Follows(d, p) == \A i \in 1..Len(d) : Is(d[i], (p + i - 1) % Lost)

\* A super frame has five frames.
LEMMA Frames ==
    \A c \in 0..4 : /\ c * FrameSize \in Nat /\ c * FrameSize + FrameSize <= Lost
                    /\ (c + 1) * FrameSize = c * FrameSize + FrameSize
                    /\ c < 4 => (c + 1) * FrameSize + FrameSize <= Lost
                    /\ c = 4 => (c + 1) * FrameSize = Lost
  <1> SUFFICES ASSUME NEW c \in 0..4
               PROVE  /\ c * FrameSize \in Nat /\ c * FrameSize + FrameSize <= Lost
                      /\ (c + 1) * FrameSize = c * FrameSize + FrameSize
                      /\ c < 4 => (c + 1) * FrameSize + FrameSize <= Lost
                      /\ c = 4 => (c + 1) * FrameSize = Lost
    OBVIOUS
  <1>1. c = 0 \/ c = 1 \/ c = 2 \/ c = 3 \/ c = 4
    OBVIOUS
  <1> QED  BY <1>1, Sizes DEF Lost

\* What begins a super frame is told from all else.
LEMMA Kinds ==
    /\ \A p, n : Sent(p) # Stray(n) /\ ZeroCode # Stray(n) /\ Sent(p) # ZeroCode
    /\ \A p, q : Sent(p) = Sent(q) => p = q
    /\ \A p : Sent(p).sent = TRUE
  <1>1. \A p, n : Sent(p).sent = TRUE /\ Stray(n).sent = FALSE
    BY DEF Sent, Stray
  <1>2. ZeroCode.sent = TRUE /\ ZeroCode.zero = TRUE /\ \A p : Sent(p).zero = FALSE
    BY DEF ZeroCode, Sent
  <1>3. \A p, n : Sent(p) # Stray(n)
    BY <1>1, Zenon
  <1>4. \A n : ZeroCode # Stray(n)
    BY <1>1, <1>2, Zenon
  <1>5. \A p : Sent(p) # ZeroCode
    BY <1>2, Zenon
  <1>6. ASSUME NEW p, NEW q, Sent(p) = Sent(q)
        PROVE  p = q
    <2>1. Sent(p).at = p /\ Sent(q).at = q
      BY DEF Sent
    <2> QED  BY <1>6, <2>1, Zenon
  <1>7. \A p : Sent(p).sent = TRUE
    BY <1>1, Zenon
  <1> QED  BY <1>3, <1>4, <1>5, <1>6, <1>7

\* The frame the loops look at is the one of the super frame that is due.
LEMMA FrameIsSent ==
    ASSUME TypeOK, Busy, NEW c \in 0..4, Follows(data, c * FrameSize)
    PROVE  IsSent(Frame, c)
  <1>1. Len(data) \in Nat /\ FrameSize < Len(data) /\ data \in Seq(Byte)
    BY Sizes DEF TypeOK, Busy
  <1>2. Frame = [i \in 1..FrameSize |-> data[i]]
    BY <1>1, Sizes DEF Frame
  <1>3. ASSUME NEW i \in 1..FrameSize
        PROVE  Is(data[i], c * FrameSize + i - 1)
    <2>1. i \in 1..Len(data)
      BY <1>1, Sizes
    <2>2. c * FrameSize + i - 1 \in 0..(Lost - 1)
      BY Frames, Sizes
    <2>3. (c * FrameSize + i - 1) % Lost = c * FrameSize + i - 1
      BY <2>2, Sizes, ModSmall
    <2> QED  BY <2>1, <2>3 DEF Follows
  <1> QED  BY <1>2, <1>3 DEF IsSent

\* Without their first n the bytes follow one another from n further on.
LEMMA FollowsSkip ==
    ASSUME TypeOK, Busy, NEW p \in Nat, Follows(data, p), NEW n \in 0..FrameSize, Skip(n)
    PROVE  /\ Follows(data', (p + n) % Lost)
           /\ (((p + n) % Lost) + Len(data')) % Lost = (p + Len(data)) % Lost
  <1> DEFINE d == (p + n) % Lost
  <1>1. /\ data' \in Seq(Byte) /\ Len(data') = Len(data) - n
        /\ \A i \in 1..Len(data') : data'[i] = data[i + n]
    BY SkipOK
  <1>2. Len(data) \in Nat /\ Len(data') \in Nat /\ n \in Nat /\ p + n \in Nat
    BY <1>1, Sizes DEF TypeOK
  <1>3. d \in Nat
    BY <1>2, Sizes, DivMod
  <1>4. ASSUME NEW k \in Nat
        PROVE  (d + k) % Lost = (p + n + k) % Lost
    BY <1>2, Sizes, ModAdd
  <1> HIDE DEF d
  <1>5. ASSUME NEW i \in 1..Len(data')
        PROVE  Is(data'[i], (d + i - 1) % Lost)
    <2>1. i + n \in 1..Len(data) /\ i - 1 \in Nat
      BY <1>1, <1>2
    <2>2. Is(data'[i], (p + (i + n) - 1) % Lost)
      BY <1>1, <2>1 DEF Follows
    <2>3. p + (i + n) - 1 = p + n + (i - 1) /\ d + i - 1 = d + (i - 1)
      BY <1>2, <1>3, <2>1
    <2> QED  BY <1>4, <2>1, <2>2, <2>3
  <1>6. (d + Len(data')) % Lost = (p + Len(data)) % Lost
    <2>1. p + Len(data) = p + n + Len(data')
      BY <1>1, <1>2
    <2> QED  BY <1>2, <1>4, <2>1
  <1> QED  BY <1>5, <1>6 DEF Follows, d

\* After a frame comes the next one; after the fifth, a super frame begins.
LEMMA SkipFollows ==
    ASSUME TypeOK, Busy, NEW c \in 0..4, Follows(data, c * FrameSize), Skip(FrameSize)
    PROVE  LET d == IF c = 4 THEN 0 ELSE c + 1
           IN  /\ Follows(data', d * FrameSize)
               /\ (d * FrameSize + Len(data')) % Lost = (c * FrameSize + Len(data)) % Lost
  <1> DEFINE d == IF c = 4 THEN 0 ELSE c + 1
             p == c * FrameSize
  <1>1. p \in Nat /\ FrameSize \in 0..FrameSize
    BY Frames, Sizes
  <1>2. (p + FrameSize) % Lost = d * FrameSize
    <2>1. CASE c = 4
      <3>1. p + FrameSize = Lost + 0 /\ d * FrameSize = 0 /\ 0 \in 0..(Lost - 1)
        BY <2>1, Sizes, Frames
      <3> HIDE DEF p, d
      <3> QED  BY <3>1, Sizes, ModSmall
    <2>2. CASE c # 4
      <3>1. d * FrameSize = p + FrameSize /\ p + FrameSize \in 0..(Lost - 1)
        BY <2>2, Frames, Sizes
      <3> HIDE DEF p, d
      <3> QED  BY <3>1, Sizes, ModSmall
    <2> QED  BY <2>1, <2>2
  <1>3. /\ Follows(data', (p + FrameSize) % Lost)
        /\ (((p + FrameSize) % Lost) + Len(data')) % Lost = (p + Len(data)) % Lost
    <2>1. Follows(data, p)
      OBVIOUS
    <2> HIDE DEF p
    <2> QED  BY <1>1, <2>1, FollowsSkip
  <1> HIDE DEF d
  <1> QED  BY <1>2, <1>3 DEF d

\* Being in step, in terms of Follows.
LEMMA InStepIs ==
    InStep <=> /\ m_unsyncFrameCount = m_dabSuperFrameCount
               /\ m_isSync => intact
               /\ \E p \in Positions :
                     /\ Follows(data, p)
                     /\ next = (p + Len(data)) % Lost
                     /\ \/ p = m_dabSuperFrameCount * FrameSize
                        \/ passing /\ m_dabSuperFrameCount = 0
  BY DEF InStep, FollowFrom, Follows

\* The same of the state a step leads to.
LEMMA InStepNext ==
    InStep' <=> /\ m_unsyncFrameCount' = m_dabSuperFrameCount'
                /\ m_isSync' => intact'
                /\ \E p \in Positions :
                      /\ Follows(data', p)
                      /\ next' = (p + Len(data')) % Lost
                      /\ \/ p = m_dabSuperFrameCount' * FrameSize
                         \/ passing' /\ m_dabSuperFrameCount' = 0
  BY DEF InStep, FollowFrom, Follows

\* A frame begins at a position.
LEMMA FrameAt ==
    \A c \in 0..4 : c * FrameSize \in Positions
  <1> SUFFICES ASSUME NEW c \in 0..4 PROVE c * FrameSize \in Positions
    OBVIOUS
  <1> DEFINE p == c * FrameSize
  <1>1. p \in Nat /\ p + FrameSize <= Lost
    BY Frames
  <1> HIDE DEF p
  <1>2. p \in 0..(Lost - 1)
    BY <1>1, Sizes
  <1> QED  BY <1>2 DEF Positions, Lost, p

\* The elements of a concatenation.
LEMMA ConcatElements ==
    ASSUME NEW S, NEW s \in Seq(S), NEW t \in Seq(S)
    PROVE  /\ Len(s \o t) = Len(s) + Len(t) /\ Len(s) \in Nat /\ Len(t) \in Nat
           /\ \A i \in 1..Len(s) : (s \o t)[i] = s[i]
           /\ \A i \in (Len(s) + 1)..Len(s \o t) : (s \o t)[i] = t[i - Len(s)]
  OBVIOUS

\* e is d and n bytes more, byte by byte.
Extends(e, d, first, n, zeros) ==
    /\ Len(d) \in Nat /\ Len(e) = Len(d) + n
    /\ \A i \in 1..Len(d) : e[i] = d[i]
    /\ \A j \in 1..n : e[Len(d) + j] =
           IF j \in zeros THEN ZeroCode ELSE Sent((first + j - 1) % Lost)

\* What a call appends.
LEMMA Appended ==
    ASSUME NEW d \in Seq(Byte), NEW first \in Nat, NEW n \in Nat, NEW zeros,
           NEW e, e = d \o Chunk(first, n, zeros)
    PROVE  Extends(e, d, first, n, zeros)
  <1> DEFINE bytes == Chunk(first, n, zeros)
             S == Byte \cup {ZeroCode} \cup {Sent((first + j - 1) % Lost) : j \in 1..n}
  <1>1. bytes \in [1..n -> S] /\ d \in Seq(S)
    BY DEF Chunk
  <1>2. \A j \in 1..n : bytes[j] =
            IF j \in zeros THEN ZeroCode ELSE Sent((first + j - 1) % Lost)
    BY DEF Chunk
  <1>3. e = d \o bytes
    OBVIOUS
  <1> HIDE DEF bytes, S
  <1>4. bytes \in Seq(S) /\ Len(bytes) = n
    BY <1>1
  <1>5. /\ Len(d) \in Nat /\ Len(e) = Len(d) + n
        /\ \A i \in 1..Len(d) : e[i] = d[i]
        /\ \A i \in (Len(d) + 1)..Len(e) : e[i] = bytes[i - Len(d)]
    <2> DEFINE f == d \o bytes
    <2>1. /\ Len(f) = Len(d) + Len(bytes) /\ Len(d) \in Nat
          /\ \A i \in 1..Len(d) : f[i] = d[i]
          /\ \A i \in (Len(d) + 1)..Len(f) : f[i] = bytes[i - Len(d)]
      BY <1>1, <1>4, ConcatElements
    <2>2. e = f
      BY <1>3
    <2> HIDE DEF f
    <2> QED  BY <1>4, <2>1, <2>2
  <1>6. ASSUME NEW j \in 1..n
        PROVE  e[Len(d) + j] = bytes[j]
    <2> DEFINE i == Len(d) + j
    <2>1. i \in (Len(d) + 1)..Len(e) /\ i - Len(d) = j
      BY <1>5
    <2> HIDE DEF i
    <2>2. e[i] = bytes[j]
      BY <1>5, <2>1
    <2> QED  BY <2>2 DEF i
  <1> QED  BY <1>2, <1>5, <1>6 DEF Extends

\* Clean bytes continue those in the buffer, whatever fire codes are among them.
LEMMA CleanFollows ==
    ASSUME IInv, InStep, ReceiveClean
    PROVE  InStep'
  <1>1. TypeOK /\ data \in Seq(Byte) /\ Len(data) \in Nat
    BY DEF IInv, TypeOK
  <1>2. PICK p \in Positions :
            /\ Follows(data, p) /\ next = (p + Len(data)) % Lost
            /\ p = m_dabSuperFrameCount * FrameSize \/ (passing /\ m_dabSuperFrameCount = 0)
    BY InStepIs
  <1> DEFINE a == p + Len(data)
  <1>3. p \in Nat /\ a \in Nat
    BY <1>1, Sizes DEF Positions
  <1>4. next \in 0..(Lost - 1) /\ next \in Nat
    <2> HIDE DEF a
    <2>1. next = a % Lost
      BY <1>2 DEF a
    <2>2. a % Lost \in 0..(Lost - 1)
      BY <1>3, Sizes, DivMod
    <2> QED  BY <2>1, <2>2, Sizes
  <1>5. Clean
    BY <1>4, Sizes DEF Clean
  <1>6. PICK n \in 1..MaxChunk, zeros \in SUBSET {i \in 1..MaxChunk : (next + i - 1) % Lost = 0} :
            /\ data' = data \o Chunk(next, n, zeros)
            /\ next' = (next + n) % Lost
    <2>1. PICK first \in (IF Clean THEN {next} ELSE Positions), n \in 1..MaxChunk :
          \E zeros \in SUBSET {i \in 1..n : (first + i - 1) % Lost = 0} :
              /\ data' = data \o Chunk(first, n, zeros)
              /\ next' = (first + n) % Lost
      BY <1>1, HeardCounts
    <2>2. first = next
      BY <1>5
    <2>3. PICK zeros \in SUBSET {i \in 1..n : (next + i - 1) % Lost = 0} :
              /\ data' = data \o Chunk(next, n, zeros)
              /\ next' = (next + n) % Lost
      BY <2>1, <2>2
    <2>4. zeros \in SUBSET {i \in 1..MaxChunk : (next + i - 1) % Lost = 0}
      BY Sizes
    <2> QED  BY <2>3, <2>4
  <1>7. n \in Nat
    BY Sizes
  <1>8. UNCHANGED <<m_unsyncFrameCount, m_dabSuperFrameCount, m_isSync, intact, passing>>
    BY DEF ReceiveClean, syncVars, frameVars
  <1>9. ASSUME NEW k \in Nat
        PROVE  (next + k) % Lost = (a + k) % Lost
    <2>1. next = a % Lost
      BY <1>2
    <2> HIDE DEF a
    <2> QED  BY <1>3, <2>1, Sizes, ModAdd
  <1> DEFINE e == data'
  <1>10. /\ Len(e) = Len(data) + n
         /\ \A i \in 1..Len(data) : e[i] = data[i]
         /\ \A j \in 1..n : e[Len(data) + j] =
                IF j \in zeros THEN ZeroCode ELSE Sent((next + j - 1) % Lost)
    <2>1. Extends(e, data, next, n, zeros)
      BY <1>1, <1>4, <1>6, <1>7, Appended, Zenon
    <2> HIDE DEF e
    <2> QED  BY <2>1 DEF Extends
  <1>11. e = data'
    OBVIOUS
  <1> HIDE DEF e
  <1>12. ASSUME NEW i \in 1..Len(e)
         PROVE  Is(e[i], (p + i - 1) % Lost)
    <2>1. CASE i <= Len(data)
      BY <1>1, <1>2, <1>10, <2>1 DEF Follows
    <2>2. CASE i > Len(data)
      <3> DEFINE j == i - Len(data)
      <3>1. j \in 1..n /\ j - 1 \in Nat /\ Len(data) + j = i /\ next + j - 1 = next + (j - 1)
        BY <1>1, <1>4, <1>7, <1>10, <2>2
      <3>2. a + (j - 1) = p + i - 1
        BY <1>1, <1>3
      <3> HIDE DEF j, a
      <3>3. (next + j - 1) % Lost = (p + i - 1) % Lost
        BY <1>9, <3>1, <3>2
      <3>4. e[i] = IF j \in zeros THEN ZeroCode ELSE Sent((next + j - 1) % Lost)
        BY <1>10, <3>1
      <3>5. j \in zeros => (next + j - 1) % Lost = 0
        BY <1>6
      <3> QED  BY <3>3, <3>4, <3>5 DEF Is
    <2> QED  BY <1>1, <1>7, <1>10, <2>1, <2>2
  <1>13. next' = (p + Len(e)) % Lost
    <2>1. a + n = p + Len(e)
      BY <1>1, <1>3, <1>7, <1>10
    <2> HIDE DEF a
    <2> QED  BY <1>6, <1>7, <1>9, <2>1
  <1>14. Follows(e, p)
    BY <1>12 DEF Follows
  <1>15. m_unsyncFrameCount' = m_dabSuperFrameCount' /\ (m_isSync' => intact')
    BY <1>8, InStepIs
  <1> QED  BY <1>2, <1>8, <1>11, <1>13, <1>14, <1>15, InStepNext

\* The first byte of the frame the loops look at.
LEMMA FirstByte ==
    ASSUME TypeOK, Busy
    PROVE  Frame[1] = data[1] /\ 1 \in 1..Len(data)
  <1>1. Len(data) \in Nat /\ FrameSize < Len(data) /\ data \in Seq(Byte)
    BY Sizes DEF TypeOK, Busy
  <1> QED  BY <1>1, Sizes DEF Frame

\* What processData makes of the frame that is due.
LEMMA ProcessInStep ==
    ASSUME IInv, m_isSync => intact, Follows(data, m_dabSuperFrameCount * FrameSize),
           Busy, processData(Frame)
    PROVE  /\ m_dabSuperFrameCount' =
                  IF m_dabSuperFrameCount = 4 THEN 0 ELSE m_dabSuperFrameCount + 1
           /\ m_isSync' => intact'
  <1> DEFINE c == m_dabSuperFrameCount
  <1>1. TypeOK /\ c \in 0..4
    BY DEF IInv, TypeOK
  <1>2. IsSent(Frame, c)
    BY <1>1, FrameIsSent
  <1>3. (m_isSync => intact) /\ (m_isSync <=> c # 0) /\ intact \in BOOLEAN
    BY <1>1 DEF IInv, CountsAgree, TypeOK
  <1>4. CASE c = 0
    <2>1. Is(Frame[1], 0)
      <3>1. 1 \in 1..FrameSize /\ c * FrameSize + 1 - 1 = 0
        BY <1>4, Sizes
      <3> QED  BY <1>2, <3>1 DEF IsSent
    <2>2. CHECK_FIRECODE(Frame) /\ GoodAuStarts(Frame)
      BY <2>1 DEF CHECK_FIRECODE, GoodAuStarts
    <2>3. m_dabSuperFrameCount' = 1 /\ intact' = IsSent(Frame, 0)
      BY <1>4, <2>2 DEF processData, StartSuperFrame, ContinueSuperFrame
    <2>4. intact'
      BY <1>2, <1>4, <2>3, Zenon
    <2>5. m_dabSuperFrameCount = 0
      BY <1>4
    <2> HIDE DEF c
    <2> QED  BY <2>3, <2>4, <2>5
  <1>5. CASE c # 0
    <2>1. m_isSync /\ intact /\ ~(c > 5)
      BY <1>1, <1>3, <1>5
    <2>2. /\ intact' = (intact /\ IsSent(Frame, c))
          /\ c + 1 = 5 => m_dabSuperFrameCount' = 0 /\ m_isSync' = FALSE
          /\ c + 1 # 5 => m_dabSuperFrameCount' = c + 1
      BY <1>5, <2>1 DEF processData, StartSuperFrame, ContinueSuperFrame
    <2>3. intact'
      BY <1>2, <2>1, <2>2, Zenon
    <2>4. m_dabSuperFrameCount' = IF c = 4 THEN 0 ELSE c + 1
      BY <1>1, <2>2
    <2> QED  BY <2>3, <2>4
  <1> QED  BY <1>4, <1>5

\* Both loops take the frame that is due.
LEMMA TakenInStep ==
    ASSUME IInv, InStep, Busy, processData(Frame), Skip(FrameSize), UNCHANGED airVars,
           Follows(data, m_dabSuperFrameCount * FrameSize),
           next = (m_dabSuperFrameCount * FrameSize + Len(data)) % Lost,
           m_unsyncFrameCount' =
               IF m_dabSuperFrameCount = 4 THEN 0 ELSE m_dabSuperFrameCount + 1
    PROVE  InStep'
  <1> DEFINE c == m_dabSuperFrameCount
             d == IF c = 4 THEN 0 ELSE c + 1
  <1>1. TypeOK /\ c \in 0..4 /\ d \in 0..4
    BY DEF IInv, TypeOK
  <1>2. m_isSync => intact
    BY InStepIs
  <1>3. m_dabSuperFrameCount' = d /\ (m_isSync' => intact')
    BY <1>2, ProcessInStep
  <1>4. /\ Follows(data', d * FrameSize)
        /\ (d * FrameSize + Len(data')) % Lost = (c * FrameSize + Len(data)) % Lost
    BY <1>1, SkipFollows
  <1>5. next' = next
    BY DEF airVars
  <1>6. m_unsyncFrameCount' = d
    OBVIOUS
  <1>7. d * FrameSize \in Positions
    BY <1>1, FrameAt
  <1> HIDE DEF d
  <1>8. next' = (d * FrameSize + Len(data')) % Lost
    BY <1>4, <1>5
  <1> QED  BY <1>3, <1>4, <1>6, <1>7, <1>8, InStepNext

\* A byte is passed over only if it is of a super frame with fire code 0.
LEMMA SkippedInStep ==
    ASSUME IInv, InStep, SkipByte
    PROVE  InStep'
  <1>1. /\ TypeOK /\ Busy /\ m_unsyncFrameCount = 0 /\ m_dabSuperFrameCount = 0
        /\ m_isSync => intact
    BY InStepIs DEF IInv, CountsAgree, SkipByte
  <1>2. PICK p \in Positions :
            /\ Follows(data, p) /\ next = (p + Len(data)) % Lost
            /\ p = m_dabSuperFrameCount * FrameSize \/ passing
    BY InStepIs
  <1>3. p \in 0..(Lost - 1) /\ p \in Nat /\ 0 * FrameSize = 0 /\ 1 \in 0..FrameSize
    BY Sizes DEF Positions, Lost
  <1>4. Is(data[1], p)
    <2>1. 1 \in 1..Len(data) /\ (p + 1 - 1) % Lost = p
      <3>1. p + 1 - 1 = p /\ p % Lost = p
        BY <1>3, Sizes, ModSmall
      <3> QED  BY <1>1, <3>1, FirstByte
    <2> QED  BY <1>2, <2>1 DEF Follows
  <1>5. data[1] = ZeroCode \/ (passing /\ data[1].sent)
    <2> SUFFICES ASSUME data[1] # ZeroCode
                 PROVE  passing /\ data[1].sent
      OBVIOUS
    <2>1. data[1] = Sent(p)
      BY <1>4 DEF Is
    <2>2. p # 0
      <3> SUFFICES ASSUME p = 0 PROVE FALSE
        OBVIOUS
      <3>1. CHECK_FIRECODE(Frame)
        BY <1>1, <2>1, FirstByte DEF CHECK_FIRECODE, Is
      <3>2. ~ZeroStart
        BY <2>1, Kinds DEF ZeroStart
      <3> QED  BY <3>1, <3>2 DEF SkipByte
    <2>3. passing
      BY <1>1, <1>2, <1>3, <2>2
    <2>4. data[1].sent = TRUE
      BY <2>1, Kinds
    <2> QED  BY <2>3, <2>4
  <1>6. passing'
    BY <1>5 DEF SkipByte
  <1>7. /\ Follows(data', (p + 1) % Lost)
        /\ (((p + 1) % Lost) + Len(data')) % Lost = (p + Len(data)) % Lost
    BY <1>1, <1>2, <1>3, FollowsSkip DEF SkipByte
  <1>8. (p + 1) % Lost \in Positions
    <2>1. p + 1 \in Nat
      BY <1>3
    <2> QED  BY <2>1, Sizes, DivMod DEF Positions, Lost
  <1>9. UNCHANGED <<m_unsyncFrameCount, m_dabSuperFrameCount, m_isSync, intact, next>>
    BY DEF SkipByte, syncVars, frameVars, airVars
  <1> QED  BY <1>1, <1>2, <1>6, <1>7, <1>8, <1>9, InStepNext

\* Both loops take the frame that is due, or pass over a super frame together.
LEMMA LoopInStep ==
    ASSUME IInv, InStep, synchronizeData
    PROVE  InStep'
  <1> DEFINE c == m_dabSuperFrameCount
  <1>1. TypeOK /\ c \in 0..4 /\ m_unsyncFrameCount = c
    BY InStepIs DEF IInv, TypeOK
  <1>2. (m_unsyncSync <=> c # 0) /\ Busy
    BY <1>1 DEF IInv, CountsAgree, synchronizeData, TakeFrame, FindFrame, SkipByte
  <1>3. PICK p \in Positions :
            /\ Follows(data, p) /\ next = (p + Len(data)) % Lost
            /\ p = c * FrameSize \/ c = 0
    BY InStepIs
  <1>4. CASE TakeFrame
    <2>1. m_unsyncFrameCount' = IF c = 4 THEN 0 ELSE c + 1
      <3>1. /\ c + 1 = 5 => m_unsyncFrameCount' = 0
            /\ c + 1 # 5 => m_unsyncFrameCount' = c + 1
        BY <1>1, <1>4 DEF TakeFrame
      <3>2. c \in 0..4
        BY <1>1
      <3> HIDE DEF c
      <3> QED  BY <3>1, <3>2
    <2>2. p = c * FrameSize
      BY <1>2, <1>3, <1>4 DEF TakeFrame
    <2> QED  BY <1>2, <1>3, <1>4, <2>1, <2>2, TakenInStep DEF TakeFrame
  <1>5. CASE FindFrame
    <2>1. c = 0
      BY <1>2, <1>5 DEF FindFrame
    <2>2. m_unsyncFrameCount' = IF c = 4 THEN 0 ELSE c + 1
      BY <1>1, <1>5, <2>1 DEF FindFrame
    <2>3. Is(data[1], p)
      <3>1. p \in 0..(Lost - 1) /\ p + 1 - 1 = p
        BY Sizes DEF Positions, Lost
      <3>2. 1 \in 1..Len(data) /\ (p + 1 - 1) % Lost = p
        BY <1>1, <1>2, <3>1, FirstByte, Sizes, ModSmall
      <3> QED  BY <1>3, <3>2 DEF Follows
    <2>4. p = 0
      <3>1. Frame[1] = data[1]
        BY <1>1, <1>2, FirstByte
      <3>2. CHECK_FIRECODE(Frame)
        BY <1>5 DEF FindFrame
      <3>3. data[1] = Sent(0) \/ data[1] = ZeroCode \/ \E n : data[1] = Stray(n)
        BY <3>1, <3>2 DEF CHECK_FIRECODE, Is
      <3> QED  BY <2>3, <3>3, Kinds DEF Is
    <2>5. p = c * FrameSize
      BY <2>1, <2>4, Sizes
    <2> QED  BY <1>2, <1>3, <1>5, <2>2, <2>5, TakenInStep DEF FindFrame
  <1>6. CASE SkipByte
    BY <1>6, SkippedInStep
  <1> QED  BY <1>4, <1>5, <1>6 DEF synchronizeData

\* Once in step, both loops stay in step for as long as the bytes received are
\* those sent, for any size of frame and however processData's input is cut
\* into chunks: neither loop ever loses or repeats a frame by itself, nor passes
\* over a byte that is not of a super frame with fire code 0.
THEOREM StepsStayInStep == Spec => StaysInStep
  <1>1. ASSUME IInv, InStep, Clean', [Next]_vars
        PROVE  InStep'
    <2>1. CASE ReceiveNoise
      BY <1>1, <2>1 DEF ReceiveNoise, Clean
    <2>2. CASE ReceiveClean
      BY <1>1, <2>2, CleanFollows
    <2>3. CASE synchronizeData
      BY <1>1, <2>3, LoopInStep
    <2>4. CASE UNCHANGED vars
      BY <1>1, <2>4 DEF vars, syncVars, frameVars, airVars, InStep, FollowFrom
    <2> QED  BY <1>1, <2>1, <2>2, <2>3, <2>4 DEF Next
  <1>2. IInv /\ [Next]_vars => [InStep /\ Clean' => InStep']_vars
    BY <1>1
  <1> QED  BY <1>2, LoopsCorrect, PTL DEF Spec, StaysInStep

\* How often a divisor goes into a sum.
LEMMA Quotients ==
    ASSUME NEW a \in Nat, NEW k \in Nat, NEW b \in Nat \ {0}
    PROVE  (a \div b) + (((a % b) + k) \div b) <= (a + k) \div b
  <1> DEFINE q == a \div b
             r == a % b
             s == (r + k) \div b
             t == (a + k) \div b
  <1>1. q \in Nat /\ r \in 0..(b - 1) /\ a = b * q + r
    BY Division
  <1>2. s \in Nat /\ r + k >= b * s
    <2>1. r + k \in Nat
      BY <1>1
    <2> HIDE DEF r
    <2>2. s \in Nat /\ (r + k) % b \in 0..(b - 1) /\ r + k = b * s + ((r + k) % b)
      BY <2>1, Division
    <2> HIDE DEF s
    <2>3. b * s \in Nat
      BY <2>2
    <2> QED  BY <2>1, <2>2, <2>3
  <1>3. t \in Nat /\ a + k < b * t + b
    <2>1. t \in Nat /\ (a + k) % b \in 0..(b - 1) /\ a + k = b * t + ((a + k) % b)
      <3>1. a + k \in Nat
        OBVIOUS
      <3> QED  BY <3>1, Division
    <2> HIDE DEF t
    <2>2. b * t \in Nat
      BY <2>1
    <2> QED  BY <2>1, <2>2
  <1> HIDE DEF q, r, s, t
  <1>4. b * (q + s) = b * q + b * s /\ b * q \in Nat /\ b * s \in Nat
    BY <1>1, <1>2
  <1>5. b * (q + s) <= a + k
    BY <1>1, <1>2, <1>4
  <1>6. ~(t < q + s)
    <2>1. SUFFICES ASSUME t < q + s PROVE FALSE
      OBVIOUS
    <2>2. q + s \in Nat
      BY <1>1, <1>2
    <2>3. b * t + b <= b * (q + s)
      BY <1>3, <2>1, <2>2, Multiples
    <2>4. b * t \in Nat /\ b * (q + s) \in Nat
      BY <1>3, <2>2
    <2> QED  BY <1>3, <1>5, <2>3, <2>4
  <1>7. q + s <= t
    BY <1>1, <1>2, <1>3, <1>6
  <1> QED  BY <1>7 DEF q, r, s, t

\* A divisor goes in k times if k times the divisor is not more, and leaves what is over.
LEMMA Times ==
    ASSUME NEW b \in Nat \ {0}, NEW a \in Nat, NEW k \in Nat
    PROVE  /\ k <= a \div b => b * k <= a
           /\ \A x \in 0..(b - 1) : (b * k + x) % b = x
  <1>1. ASSUME k <= a \div b
        PROVE  b * k <= a
    <2> DEFINE q == a \div b
    <2>1. q \in Nat /\ a % b \in 0..(b - 1) /\ a = b * q + (a % b)
      BY Division
    <2>2. k <= q
      BY <1>1
    <2> HIDE DEF q
    <2>3. b * q \in Nat /\ b * k \in Nat
      BY <2>1
    <2>4. CASE k = q
      BY <2>1, <2>3, <2>4
    <2>5. CASE k < q
      <3>1. b * k + b <= b * q
        BY <2>1, <2>5, Multiples
      <3> QED  BY <2>1, <2>3, <3>1
    <2> QED  BY <2>1, <2>2, <2>4, <2>5
  <1>2. ASSUME NEW x \in 0..(b - 1)
        PROVE  (b * k + x) % b = x
    <2> DEFINE y == b * k + x
    <2>1. b * k \in Nat
      OBVIOUS
    <2>2. y \in Nat
      BY <2>1
    <2>3. y = b * k + x
      OBVIOUS
    <2> HIDE DEF y
    <2>4. y \div b \in Nat /\ y % b \in 0..(b - 1) /\ y = b * (y \div b) + (y % b)
      BY <2>2, Division
    <2>5. b * k + x = b * (y \div b) + (y % b)
      BY <2>3, <2>4
    <2>6. x = y % b
      BY <2>4, <2>5, Remainder
    <2> QED  BY <2>6 DEF y
  <1> QED  BY <1>1, <1>2

-----------------------------------------------------------------------------
(* Getting in step.  The first byte in the buffer is byte P of the bytes   *)
(* received: counted so that byte Lost begins the super frame of byte      *)
(* first, from which on reception is clean and no fire code is 0.          *)

\* How many frames are taken before the fire code is looked for again.
Left(unsync) == IF unsync = 0 THEN 0 ELSE 5 - unsync

\* Where the bytes d are in what was sent.
Located(d, at, ends, P, first) ==
    /\ P + Len(d) >= first
    /\ at = (P + Len(d)) % Lost
    /\ ends + 1 <= (P + Len(d)) \div Lost
    /\ \A i \in 1..Len(d) : P + i > first => d[i] = Sent((P + i - 1) % Lost)

\* Either frames are taken, or a fire code is looked for, that overlap the first
\* two super frames; or the right frames are taken by the one loop, while the
\* other is ahead of it or drops them.
Heading(unsync, count, P, first) ==
    \/ P + Left(unsync) * FrameSize <= 3 * Lost
    \/ /\ unsync # 0 /\ P >= first
       /\ \E q \in 1..3 : P = Lost * q + unsync * FrameSize
       /\ count = 0 \/ count > unsync

Approaching ==
    \E P \in Int, first \in Lost..(2 * Lost - 1) :
        /\ Located(data, next, heard, P, first)
        /\ Heading(m_unsyncFrameCount, m_dabSuperFrameCount, P, first)

\* Dropping bytes moves P on.
LEMMA LocatedSkip ==
    ASSUME NEW d \in Seq(Byte), NEW e \in Seq(Byte), NEW at, NEW ends, NEW P \in Int,
           NEW first \in Nat, NEW n \in Nat, Located(d, at, ends, P, first),
           Len(e) = Len(d) - n, \A i \in 1..Len(e) : e[i] = d[i + n]
    PROVE  Located(e, at, ends, P + n, first)
  <1>1. Len(d) \in Nat /\ Len(e) \in Nat /\ P + n + Len(e) = P + Len(d)
    OBVIOUS
  <1>2. ASSUME NEW i \in 1..Len(e), P + n + i > first
        PROVE  e[i] = Sent((P + n + i - 1) % Lost)
    <2>1. /\ i + n \in 1..Len(d) /\ P + (i + n) > first
          /\ P + n + i - 1 = P + (i + n) - 1
      BY <1>1, <1>2
    <2>2. e[i] = d[i + n]
      OBVIOUS
    <2>3. d[i + n] = Sent((P + (i + n) - 1) % Lost)
      BY <2>1 DEF Located
    <2> QED  BY <2>1, <2>2, <2>3
  <1> QED  BY <1>1, <1>2 DEF Located

\* Clean bytes continue them.
LEMMA LocatedMore ==
    ASSUME NEW d \in Seq(Byte), NEW e \in Seq(Byte), NEW at \in Nat, NEW ends \in Nat,
           NEW P \in Int, NEW first \in Nat, NEW n \in Nat, NEW more \in Nat,
           Located(d, at, ends, P, first),
           Len(e) = Len(d) + n, \A i \in 1..Len(d) : e[i] = d[i],
           \A j \in 1..n : e[Len(d) + j] = Sent((at + j - 1) % Lost),
           more <= ends + ((at + n) \div Lost)
    PROVE  Located(e, (at + n) % Lost, more, P, first)
  <1> DEFINE t == P + Len(d)
  <1>1. Len(d) \in Nat /\ Len(e) \in Nat /\ t \in Nat /\ P + Len(e) = t + n
    BY DEF Located
  <1>2. t >= first /\ at = t % Lost /\ ends + 1 <= t \div Lost
    BY DEF Located
  <1> HIDE DEF t
  <1>3. ASSUME NEW k \in Nat
        PROVE  (at + k) % Lost = (t + k) % Lost
    BY <1>1, <1>2, Sizes, ModAdd
  <1>4. more + 1 <= (t + n) \div Lost
    <2> DEFINE x == t \div Lost
               y == (at + n) \div Lost
               z == (t + n) \div Lost
    <2>1. x + y <= z
      BY <1>1, <1>2, Sizes, Quotients
    <2>2. x \in Nat
      BY <1>1, Sizes, DivMod
    <2>3. y \in Nat
      <3>1. at + n \in Nat
        OBVIOUS
      <3> QED  BY <3>1, Sizes, DivMod
    <2>4. z \in Nat
      <3>1. t + n \in Nat
        BY <1>1
      <3> QED  BY <3>1, Sizes, DivMod
    <2>5. ends + 1 <= x /\ more <= ends + y
      BY <1>2
    <2> HIDE DEF x, y, z
    <2>6. more + 1 <= z
      BY <2>1, <2>2, <2>3, <2>4, <2>5
    <2> QED  BY <2>6 DEF z
  <1>5. ASSUME NEW i \in 1..Len(e), P + i > first
        PROVE  e[i] = Sent((P + i - 1) % Lost)
    <2>1. CASE i <= Len(d)
      <3>1. i \in 1..Len(d)
        BY <1>1, <2>1
      <3> QED  BY <1>5, <3>1 DEF Located
    <2>2. CASE i > Len(d)
      <3> DEFINE j == i - Len(d)
      <3>1. j \in 1..n /\ Len(d) + j = i /\ j - 1 \in Nat /\ at + j - 1 = at + (j - 1)
        BY <1>1, <2>2
      <3>2. t + (j - 1) = P + i - 1
        BY <1>1, <2>2 DEF t
      <3> HIDE DEF j
      <3>3. e[i] = Sent((at + j - 1) % Lost)
        BY <3>1
      <3>4. (at + (j - 1)) % Lost = (t + (j - 1)) % Lost
        BY <1>3, <3>1
      <3> QED  BY <3>1, <3>2, <3>3, <3>4
    <2> QED  BY <1>1, <2>1, <2>2
  <1>6. t + n >= first
    BY <1>1, <1>2
  <1>7. (at + n) % Lost = (P + Len(e)) % Lost
    BY <1>1, <1>3
  <1> QED  BY <1>1, <1>4, <1>5, <1>6, <1>7 DEF Located

\* Five frames are a super frame, whatever is left of it.
LEMMA LeftIs ==
    /\ Left(0) * FrameSize = 0
    /\ \A u \in 1..4 : /\ Left(u) * FrameSize \in Nat
                       /\ Left(u) * FrameSize + u * FrameSize = Lost
                       /\ Left(u) * FrameSize <= 4 * FrameSize
    /\ \A u \in 1..3 : Left(u + 1) * FrameSize + FrameSize = Left(u) * FrameSize
    /\ Left(4) * FrameSize = FrameSize
  <1>1. \A u \in 1..4 : u = 1 \/ u = 2 \/ u = 3 \/ u = 4
    OBVIOUS
  <1>2. \A u \in 1..3 : u = 1 \/ u = 2 \/ u = 3
    OBVIOUS
  <1>3. FrameSize \in Nat
    BY Sizes
  <1>4. /\ Left(0) = 0 /\ Left(1) = 4 /\ Left(2) = 3 /\ Left(3) = 2 /\ Left(4) = 1
    BY DEF Left
  <1>5. /\ 0 * FrameSize = 0 /\ 1 * FrameSize = FrameSize
        /\ 2 * FrameSize = FrameSize + FrameSize
        /\ 3 * FrameSize = FrameSize + FrameSize + FrameSize
        /\ 4 * FrameSize = FrameSize + FrameSize + FrameSize + FrameSize
        /\ Lost = FrameSize + FrameSize + FrameSize + FrameSize + FrameSize
    BY <1>3 DEF Lost
  <1>6. 1 + 1 = 2 /\ 2 + 1 = 3 /\ 3 + 1 = 4
    OBVIOUS
  <1> QED  BY <1>1, <1>2, <1>3, <1>4, <1>5, <1>6

\* There are never more than four.
LEMMA LeftAtMost ==
    \A P \in Int, u \in 0..4 :
        P + 4 * FrameSize <= 3 * Lost => P + Left(u) * FrameSize <= 3 * Lost
  <1> SUFFICES ASSUME NEW P \in Int, NEW u \in 0..4, P + 4 * FrameSize <= 3 * Lost
               PROVE  P + Left(u) * FrameSize <= 3 * Lost
    OBVIOUS
  <1> DEFINE w == Left(u) * FrameSize
  <1>1. FrameSize \in Nat /\ Lost \in Nat
    BY Sizes
  <1>2. w \in Nat /\ w <= 4 * FrameSize
    <2>1. CASE u = 0
      BY <1>1, <2>1, LeftIs
    <2>2. CASE u \in 1..4
      BY <2>2, LeftIs
    <2> QED  BY <2>1, <2>2
  <1> HIDE DEF w
  <1>3. P + w <= 3 * Lost
    BY <1>1, <1>2
  <1> QED  BY <1>3 DEF w

\* A super frame goes into its length once.
LEMMA OneSuperFrame == Lost % Lost = 0 /\ Lost \div Lost >= 1
  <1> DEFINE q == Lost \div Lost
  <1>1. Lost \in Nat /\ Lost > 0 /\ 0 \in 0..(Lost - 1) /\ Lost + 0 = Lost
    BY Sizes
  <1>2. Lost % Lost = 0
    BY <1>1, Sizes, ModSmall
  <1>3. q \in Nat /\ Lost = Lost * q + (Lost % Lost)
    BY <1>1, Sizes, Division
  <1> HIDE DEF q
  <1>4. q # 0
    BY <1>1, <1>2, <1>3
  <1>5. q >= 1
    BY <1>3, <1>4
  <1> QED  BY <1>2, <1>5 DEF q

\* What a call that brings clean bytes makes of bytes whose place is known.
LEMMA Receives ==
    ASSUME IInv, NEW p \in Positions, NEW n \in 1..MaxChunk,
           data' = data \o Chunk(p, n, {}),
           next' = (p + n) % Lost,
           heard' = AtMost(Enough, heard + (p + n) \div Lost), TypeOK',
           NEW P \in Int, NEW first \in Nat, Located(data, p, heard, P, first)
    PROVE  Located(data', next', heard', P, first)
  <1>1. /\ data \in Seq(Byte) /\ data' \in Seq(Byte) /\ Len(data) \in Nat
        /\ heard \in Nat /\ heard' \in Nat
    BY DEF IInv, TypeOK, Enough
  <1>2. p \in Nat /\ n \in Nat /\ n >= 1
    BY Sizes DEF Positions
  <1> DEFINE d == data
             e == data'
             at == next'
             ends == heard
             more == heard'
  <1>3. Extends(e, d, p, n, {})
    <2>1. e = d \o Chunk(p, n, {}) /\ d \in Seq(Byte)
      BY <1>1
    <2> HIDE DEF e, d
    <2> QED  BY <1>2, <2>1, Appended, Zenon
  <1>5. heard' <= heard + ((p + n) \div Lost)
    <2> DEFINE k == (p + n) \div Lost
    <2>1. k \in Nat
      <3>1. p + n \in Nat
        BY <1>2
      <3> QED  BY <3>1, Sizes, DivMod
    <2>2. heard' = AtMost(Enough, heard + k)
      OBVIOUS
    <2> HIDE DEF k
    <2>3. heard' <= heard + k
      BY <1>1, <2>1, <2>2 DEF AtMost, Enough
    <2> QED  BY <2>3 DEF k
  <1>6. /\ d \in Seq(Byte) /\ e \in Seq(Byte) /\ ends \in Nat /\ more \in Nat
        /\ Located(d, p, ends, P, first) /\ Len(e) = Len(d) + n
        /\ \A i \in 1..Len(d) : e[i] = d[i]
        /\ \A j \in 1..n : e[Len(d) + j] = Sent((p + j - 1) % Lost)
        /\ more <= ends + ((p + n) \div Lost)
    BY <1>1, <1>3, <1>5 DEF Extends
  <1>7. at = (p + n) % Lost
    OBVIOUS
  <1> HIDE DEF d, e, at, ends, more
  <1>8. Located(e, at, more, P, first)
    BY <1>2, <1>6, <1>7, LocatedMore
  <1> QED  BY <1>8 DEF d, e, at, ends, more

\* A call that brings clean bytes: without a fire code of 0, or with a last one.
LEMMA CleanIs ==
    ASSUME TypeOK, ReceiveClean
    PROVE  \E p \in Positions, n \in 1..MaxChunk :
             /\ Clean => p = next
             /\ next' = (p + n) % Lost
             /\ \/ /\ data' = data \o Chunk(p, n, {})
                   /\ heard' = AtMost(Enough, heard + (p + n) \div Lost)
                \/ \E zeros \in SUBSET {i \in 1..n : (p + i - 1) % Lost = 0} :
                   \E last \in zeros :
                      /\ \A i \in zeros : i <= last
                      /\ data' = data \o Chunk(p, n, zeros)
                      /\ heard' = AtMost(Enough, (n - last + 1) \div Lost)
  <1>1. PICK p \in (IF Clean THEN {next} ELSE Positions), n \in 1..MaxChunk :
        \E zeros \in SUBSET {i \in 1..n : (p + i - 1) % Lost = 0} :
            /\ data' = data \o Chunk(p, n, zeros)
            /\ next' = (p + n) % Lost
            /\ \/ /\ zeros = {}
                  /\ heard' = AtMost(Enough, heard + (p + n) \div Lost)
               \/ \E last \in zeros :
                  /\ \A i \in zeros : i <= last
                  /\ heard' = AtMost(Enough, (n - last + 1) \div Lost)
    BY DEF ReceiveClean
  <1>2. p \in Positions /\ (Clean => p = next)
    BY Sizes DEF TypeOK, Clean, Positions, Lost
  <1>3. PICK zeros \in SUBSET {i \in 1..n : (p + i - 1) % Lost = 0} :
            /\ data' = data \o Chunk(p, n, zeros)
            /\ next' = (p + n) % Lost
            /\ \/ /\ zeros = {}
                  /\ heard' = AtMost(Enough, heard + (p + n) \div Lost)
               \/ \E last \in zeros :
                  /\ \A i \in zeros : i <= last
                  /\ heard' = AtMost(Enough, (n - last + 1) \div Lost)
    BY <1>1
  <1>4. CASE zeros = {}
    BY <1>2, <1>3, <1>4
  <1>5. CASE zeros # {}
    <2>1. PICK last \in zeros : /\ \A i \in zeros : i <= last
                                /\ heard' = AtMost(Enough, (n - last + 1) \div Lost)
      BY <1>3, <1>5
    <2> QED  BY <1>2, <1>3, <2>1
  <1> QED  BY <1>4, <1>5

\* After the last fire code of 0, what is in the buffer is at most the beginning of
\* the super frame it belongs to; its second byte is the first that is known.
LEMMA Restarts ==
    ASSUME IInv, TypeOK', UNCHANGED m_unsyncFrameCount, NEW p \in Positions,
           NEW n \in 1..MaxChunk, next' = (p + n) % Lost,
           NEW zeros \in SUBSET {i \in 1..n : (p + i - 1) % Lost = 0}, NEW last \in zeros,
           \A i \in zeros : i <= last, data' = data \o Chunk(p, n, zeros),
           heard' = AtMost(Enough, (n - last + 1) \div Lost)
    PROVE  Approaching'
  <1>1. /\ data \in Seq(Byte) /\ Len(data) \in Nat /\ m_unsyncFrameCount' \in 0..4
        /\ heard' \in Nat
    BY DEF IInv, TypeOK, Enough
  <1>2. /\ p \in Nat /\ n \in Nat /\ last \in 1..n /\ n - last \in Nat
        /\ p + last - 1 \in Nat /\ (p + last - 1) % Lost = 0
    BY Sizes DEF Positions
  <1> DEFINE P == Lost + 1 - (Len(data) + last)
             first == Lost + 1
             e == data'
             over == n - last + 1
  <1>3. /\ P \in Int /\ first \in Lost..(2 * Lost - 1) /\ over \in Nat
        /\ P <= Lost /\ P + 4 * FrameSize <= 3 * Lost
    BY <1>1, <1>2, FrameSizeAssumption, Sizes DEF Lost
  <1>4. Extends(e, data, p, n, zeros)
    <2>1. e = data \o Chunk(p, n, zeros)
      OBVIOUS
    <2> HIDE DEF e
    <2> QED  BY <1>1, <1>2, <2>1, Appended, Zenon
  <1>5. Len(e) \in Nat /\ Len(e) = Len(data) + n
    BY <1>1, <1>2, <1>4 DEF Extends
  <1>6. e = data'
    OBVIOUS
  <1> HIDE DEF e
  <1>7. P + Len(e) = Lost + over /\ P + Len(e) >= first
    BY <1>1, <1>2, <1>5, Sizes
  <1>8. ASSUME NEW k \in Nat
        PROVE  (p + last - 1 + k) % Lost = (Lost + k) % Lost
    <2> DEFINE b == p + last - 1
    <2>1. b \in Nat /\ b % Lost = 0
      BY <1>2
    <2> HIDE DEF b
    <2>2. ((b % Lost) + k) % Lost = (b + k) % Lost
      BY <2>1, Sizes, ModAdd
    <2>3. ((Lost % Lost) + k) % Lost = (Lost + k) % Lost
      BY Sizes, ModAdd
    <2>4. (b + k) % Lost = (Lost + k) % Lost
      BY <2>1, <2>2, <2>3, OneSuperFrame
    <2> QED  BY <2>4 DEF b
  <1>9. next' = (P + Len(e)) % Lost
    <2>1. p + n = p + last - 1 + over
      BY <1>2
    <2> HIDE DEF over
    <2> QED  BY <1>3, <1>7, <1>8, <2>1
  <1>10. heard' + 1 <= (P + Len(e)) \div Lost
    <2> DEFINE x == over \div Lost
               y == Lost \div Lost
               z == (Lost + over) \div Lost
    <2>1. x \in Nat /\ y \in Nat /\ z \in Nat
      <3> HIDE DEF over
      <3>1. Lost \in Nat /\ Lost + over \in Nat
        BY <1>3, Sizes
      <3> QED  BY <1>3, <3>1, Sizes, DivMod
    <2>2. y + x <= z
      <3> HIDE DEF over
      <3>1. (Lost \div Lost) + (((Lost % Lost) + over) \div Lost) <= (Lost + over) \div Lost
        BY <1>3, Sizes, Quotients
      <3>2. (Lost % Lost) + over = over
        BY <1>3, OneSuperFrame
      <3> QED  BY <3>1, <3>2
    <2>3. heard' = AtMost(Enough, x) /\ y >= 1
      BY OneSuperFrame
    <2> HIDE DEF x, y, z
    <2>4. heard' <= x
      BY <2>1, <2>3 DEF AtMost, Enough
    <2>5. heard' + 1 <= z
      BY <1>1, <2>1, <2>2, <2>3, <2>4
    <2> QED  BY <1>7, <2>5 DEF z
  <1>11. ASSUME NEW i \in 1..Len(e), P + i > first
         PROVE  e[i] = Sent((P + i - 1) % Lost)
    <2> DEFINE j == i - Len(data)
               k == j - last
    <2>1. /\ j \in 1..n /\ Len(data) + j = i /\ k \in Nat /\ j > last
          /\ P + i - 1 = Lost + k /\ p + j - 1 = p + last - 1 + k
      BY <1>1, <1>2, <1>5, <1>11, Sizes
    <2> HIDE DEF j, k, P
    <2>2. j \notin zeros
      BY <1>2, <2>1
    <2>3. e[i] = Sent((p + j - 1) % Lost)
      BY <1>4, <2>1, <2>2 DEF Extends
    <2> QED  BY <1>8, <2>1, <2>3
  <1> HIDE DEF P, first
  <1>12. Located(e, next', heard', P, first)
    BY <1>7, <1>9, <1>10, <1>11 DEF Located
  <1>13. P + Left(m_unsyncFrameCount') * FrameSize <= 3 * Lost
    BY <1>1, <1>3, LeftAtMost
  <1> QED  BY <1>3, <1>6, <1>12, <1>13 DEF Approaching, Heading

\* When reception becomes clean, no more than a frame is in the buffer.
LEMMA Begins ==
    ASSUME IInv, TypeOK', ~Busy, heard = 0, UNCHANGED m_unsyncFrameCount,
           NEW p \in Positions, NEW n \in 1..MaxChunk,
           data' = data \o Chunk(p, n, {}), next' = (p + n) % Lost,
           heard' = AtMost(Enough, heard + (p + n) \div Lost)
    PROVE  Approaching'
  <1>1. /\ Len(data) \in Nat /\ Len(data) <= FrameSize
        /\ m_unsyncFrameCount' \in 0..4
    BY Sizes DEF IInv, TypeOK, Busy
  <1> DEFINE P == p + Lost - Len(data)
             first == p + Lost
  <1>3. /\ p \in 0..(Lost - 1) /\ p \in Nat
        /\ P \in Int /\ first \in Lost..(2 * Lost - 1) /\ first \in Nat
        /\ P + Len(data) = first /\ P + 4 * FrameSize <= 3 * Lost
    BY <1>1, Sizes DEF Positions, Lost
  <1>4. first % Lost = p /\ first \div Lost >= 1
    <2>1. ((Lost % Lost) + p) % Lost = (Lost + p) % Lost /\ p % Lost = p
      BY <1>3, Sizes, ModAdd, ModSmall
    <2>2. (Lost \div Lost) + (((Lost % Lost) + p) \div Lost) <= (Lost + p) \div Lost
      BY <1>3, Sizes, Quotients
    <2>3. p \div Lost \in Nat /\ (Lost + p) \div Lost \in Nat /\ Lost \div Lost \in Nat
      <3>1. Lost + p \in Nat /\ Lost \in Nat
        BY <1>3, Sizes
      <3> QED  BY <1>3, <3>1, Sizes, DivMod
    <2>4. (Lost % Lost) + p = p
      BY <1>3, OneSuperFrame
    <2>5. Lost + p = p + Lost
      BY <1>3, Sizes
    <2>6. (Lost \div Lost) + (p \div Lost) <= (Lost + p) \div Lost
      BY <2>2, <2>4
    <2> DEFINE x == Lost \div Lost
               y == p \div Lost
               z == (Lost + p) \div Lost
    <2>7. x >= 1 /\ x \in Nat /\ y \in Nat /\ z \in Nat /\ x + y <= z
      BY <2>3, <2>6, OneSuperFrame
    <2> HIDE DEF x, y, z
    <2>8. z >= 1
      BY <2>7
    <2> QED  BY <1>3, <2>1, <2>4, <2>5, <2>8 DEF z
  <1>5. Located(data, p, heard, P, first)
    <2> HIDE DEF P, first
    <2>1. heard + 1 <= (P + Len(data)) \div Lost
      <3> DEFINE x == first \div Lost
      <3>1. x >= 1 /\ x \in Nat /\ heard = 0
        BY <1>3, <1>4, Sizes, DivMod
      <3> HIDE DEF x
      <3>2. heard + 1 <= x
        BY <3>1
      <3> QED  BY <1>3, <3>2 DEF x
    <2>2. \A i \in 1..Len(data) : ~(P + i > first)
      BY <1>1, <1>3
    <2> QED  BY <1>1, <1>3, <1>4, <2>1, <2>2 DEF Located
  <1> HIDE DEF P, first
  <1>6. Located(data', next', heard', P, first)
    BY <1>3, <1>5, Receives
  <1>7. P + Left(m_unsyncFrameCount') * FrameSize <= 3 * Lost
    BY <1>1, <1>3, LeftAtMost
  <1> QED  BY <1>3, <1>6, <1>7 DEF Approaching, Heading

\* Further clean bytes change nothing in that.
LEMMA Continues ==
    ASSUME IInv, TypeOK', Approaching, NEW p \in Positions, p = next,
           UNCHANGED <<m_unsyncFrameCount, m_dabSuperFrameCount>>,
           NEW n \in 1..MaxChunk, data' = data \o Chunk(p, n, {}), next' = (p + n) % Lost,
           heard' = AtMost(Enough, heard + (p + n) \div Lost)
    PROVE  Approaching'
  <1>2. PICK P \in Int, first \in Lost..(2 * Lost - 1) :
            /\ Located(data, next, heard, P, first)
            /\ Heading(m_unsyncFrameCount, m_dabSuperFrameCount, P, first)
    BY DEF Approaching
  <1>3. first \in Nat
    BY Sizes
  <1>5. Located(data', next', heard', P, first)
    BY <1>2, <1>3, Receives
  <1>6. Heading(m_unsyncFrameCount', m_dabSuperFrameCount', P, first)
    BY <1>2
  <1> QED  BY <1>5, <1>6 DEF Approaching

\* Among clean bytes only the first byte of a super frame is taken for one.
LEMMA Searched ==
    ASSUME TypeOK, Busy, NEW P \in Int, NEW first \in Nat, P >= first,
           Located(data, next, heard, P, first)
    PROVE  ~ZeroStart /\ (CHECK_FIRECODE(Frame) <=> P % Lost = 0)
  <1>1. Len(data) \in Nat /\ FrameSize < Len(data) /\ data \in Seq(Byte)
    BY Sizes DEF TypeOK, Busy
  <1>2. Frame[1] = data[1]
    BY FirstByte
  <1>3. data[1] = Sent(P % Lost)
    <2>1. 1 \in 1..Len(data) /\ P + 1 > first /\ P + 1 - 1 = P
      BY <1>1, Sizes
    <2> QED  BY <2>1 DEF Located
  <1>4. ~ZeroStart
    BY <1>3, Kinds DEF ZeroStart
  <1>5. CHECK_FIRECODE(Frame) <=> Frame[1] = Sent(0)
    BY <1>2, <1>3, Kinds DEF CHECK_FIRECODE, Is
  <1> QED  BY <1>2, <1>3, <1>4, <1>5, Kinds

\* Where a super frame begins.
LEMMA Begun ==
    ASSUME NEW P \in Nat, P >= Lost, P <= 3 * Lost, P % Lost = 0
    PROVE  \E q \in 1..3 : P = Lost * q
  <1> DEFINE q == P \div Lost
  <1>1. q \in Nat /\ P = Lost * q + (P % Lost)
    BY Sizes, Division
  <1> HIDE DEF q
  <1>2. Lost * q \in Nat /\ P = Lost * q
    BY <1>1, Sizes
  <1>3. q # 0
    BY <1>2, Sizes
  <1>4. ~(3 < q)
    <2>1. SUFFICES ASSUME 3 < q PROVE FALSE
      OBVIOUS
    <2>2. Lost * 3 + Lost <= Lost * q
      BY <1>1, <2>1, Sizes, Multiples
    <2> QED  BY <1>2, <2>2, Sizes
  <1>5. q \in 1..3
    BY <1>1, <1>3, <1>4
  <1> QED  BY <1>2, <1>5

\* What follows is a super frame from its beginning.
LEMMA BegunFollows ==
    ASSUME NEW d \in Seq(Byte), NEW at, NEW ends, NEW P \in Int, NEW first \in Nat,
           NEW q \in Nat, P >= first, P = Lost * q, Located(d, at, ends, P, first)
    PROVE  Follows(d, 0) /\ at = (0 + Len(d)) % Lost
  <1>1. P \in Nat /\ Len(d) \in Nat
    OBVIOUS
  <1>2. ASSUME NEW k \in Nat
        PROVE  (P + k) % Lost = k % Lost
    <2>1. 0 \in 0..(Lost - 1) /\ Lost * q + 0 = P
      BY Sizes
    <2>2. P % Lost = 0
      BY <2>1, Sizes, Times
    <2>3. ((P % Lost) + k) % Lost = (P + k) % Lost
      BY <1>1, Sizes, ModAdd
    <2> QED  BY <2>2, <2>3
  <1>3. ASSUME NEW i \in 1..Len(d)
        PROVE  d[i] = Sent((0 + i - 1) % Lost)
    <2>1. P + i > first /\ i - 1 \in Nat /\ P + i - 1 = P + (i - 1) /\ 0 + i - 1 = i - 1
      BY <1>1
    <2>2. d[i] = Sent((P + i - 1) % Lost)
      BY <2>1 DEF Located
    <2> QED  BY <1>2, <2>1, <2>2
  <1>4. at = (0 + Len(d)) % Lost
    <2>1. 0 + Len(d) = Len(d)
      BY <1>1
    <2> QED  BY <1>1, <1>2, <2>1 DEF Located
  <1> QED  BY <1>3, <1>4 DEF Follows, Is

\* What processData makes of a frame while it collects, and of one it does not
\* take for the first.
LEMMA ProcessAhead ==
    ASSUME IInv, processData(Frame), m_dabSuperFrameCount # 0 \/ ~CHECK_FIRECODE(Frame)
    PROVE  IF m_dabSuperFrameCount = 0 THEN m_dabSuperFrameCount' = 0 /\ ~m_isSync'
           ELSE m_dabSuperFrameCount' = IF m_dabSuperFrameCount = 4 THEN 0
                                        ELSE m_dabSuperFrameCount + 1
  <1>1. /\ m_dabSuperFrameCount \in 0..4 /\ ~(m_dabSuperFrameCount > 5)
        /\ m_isSync <=> m_dabSuperFrameCount # 0
    BY DEF IInv, TypeOK, CountsAgree
  <1>2. ContinueSuperFrame(Frame)
    BY DEF processData, StartSuperFrame
  <1>3. CASE m_dabSuperFrameCount = 0
    BY <1>1, <1>2, <1>3 DEF ContinueSuperFrame
  <1>4. CASE m_dabSuperFrameCount # 0
    BY <1>1, <1>2, <1>4 DEF ContinueSuperFrame
  <1> QED  BY <1>3, <1>4


\* The bytes an iteration leaves.
LEMMA SkipLocated ==
    ASSUME TypeOK, TypeOK', Busy, NEW n \in 0..FrameSize, Skip(n), UNCHANGED airVars,
           NEW P \in Int, NEW first \in Nat, Located(data, next, heard, P, first)
    PROVE  Located(data', next', heard', P + n, first)
  <1>1. /\ data \in Seq(Byte) /\ data' \in Seq(Byte) /\ n \in Nat
        /\ next' = next /\ heard' = heard
    BY Sizes DEF TypeOK, airVars
  <1>2. /\ Len(data') = Len(data) - n
        /\ \A i \in 1..Len(data') : data'[i] = data[i + n]
    BY SkipOK
  <1> DEFINE e == data'
  <1>3. e \in Seq(Byte) /\ Len(e) = Len(data) - n /\ \A i \in 1..Len(e) : e[i] = data[i + n]
    BY <1>1, <1>2
  <1> HIDE DEF e
  <1>4. Located(e, next, heard, P + n, first)
    BY <1>1, <1>3, LocatedSkip
  <1> QED  BY <1>1, <1>4 DEF e

\* An iteration that skips a byte has not met the beginning of a super frame.
LEMMA SkipApproaches ==
    ASSUME IInv, TypeOK', SkipByte, NEW P \in Int, NEW first \in Lost..(2 * Lost - 1),
           Located(data, next, heard, P, first),
           Heading(m_unsyncFrameCount, m_dabSuperFrameCount, P, first)
    PROVE  Approaching'
  <1>1. TypeOK /\ Busy /\ m_unsyncFrameCount = 0 /\ first \in Nat
    BY Sizes DEF IInv, CountsAgree, SkipByte
  <1>2. 1 \in 0..FrameSize
    BY Sizes
  <1>3. Located(data', next', heard', P + 1, first)
    BY <1>1, <1>2, SkipLocated DEF SkipByte
  <1>4. P <= 3 * Lost
    BY <1>1, LeftIs, Sizes DEF Heading
  <1>5. P + 1 <= 3 * Lost
    <2>1. CASE P < first
      BY <2>1, Sizes
    <2>2. CASE P >= first
      <3>1. P % Lost # 0
        BY <1>1, <2>2, Searched DEF SkipByte
      <3>2. (Lost * 3 + 0) % Lost = 0
        <4>1. 0 \in 0..(Lost - 1)
          BY Sizes
        <4> QED  BY <4>1, Sizes, Times
      <3>3. Lost * 3 + 0 = 3 * Lost
        BY Sizes
      <3>4. P # 3 * Lost
        BY <3>1, <3>2, <3>3
      <3> QED  BY <1>4, <3>4, Sizes
    <2> QED  BY <1>1, <2>1, <2>2
  <1>6. m_unsyncFrameCount' = 0
    BY <1>1 DEF SkipByte, syncVars
  <1>7. P + 1 + Left(0) * FrameSize <= 3 * Lost
    BY <1>5, LeftIs, Sizes
  <1> QED  BY <1>3, <1>6, <1>7 DEF Approaching, Heading

\* A fire code found before reception became clean costs the frames up to the
\* third super frame at most; one found after it begins a super frame.
LEMMA FindApproaches ==
    ASSUME IInv, TypeOK', ~InStep, FindFrame, NEW P \in Int,
           NEW first \in Lost..(2 * Lost - 1), Located(data, next, heard, P, first),
           Heading(m_unsyncFrameCount, m_dabSuperFrameCount, P, first)
    PROVE  Approaching'
  <1>1. /\ TypeOK /\ Busy /\ m_unsyncFrameCount = 0 /\ first \in Nat
        /\ m_dabSuperFrameCount \in 0..4 /\ data \in Seq(Byte)
    BY Sizes DEF IInv, TypeOK, CountsAgree, FindFrame
  <1>2. FrameSize \in 0..FrameSize /\ FrameSize \in Nat
    BY Sizes
  <1>3. Located(data', next', heard', P + FrameSize, first)
    BY <1>1, <1>2, SkipLocated DEF FindFrame
  <1>4. m_unsyncFrameCount' = 1
    BY <1>1 DEF FindFrame
  <1>5. CASE P < first
    <2>1. Left(1) * FrameSize = 4 * FrameSize
      BY DEF Left
    <2>2. P + FrameSize + Left(1) * FrameSize <= 3 * Lost
      BY <1>1, <1>5, <2>1, Sizes DEF Lost
    <2> QED  BY <1>2, <1>3, <1>4, <2>2 DEF Approaching, Heading
  <1>6. CASE P >= first
    <2>1. P >= Lost /\ P <= 3 * Lost
      BY <1>1, <1>6, LeftIs, Sizes DEF Heading
    <2>2. PICK q \in 1..3 : P = Lost * q
      BY <1>1, <1>6, <2>1, Searched, Begun DEF FindFrame
    <2>3. m_dabSuperFrameCount # 0
      <3> SUFFICES ASSUME m_dabSuperFrameCount = 0 PROVE FALSE
        OBVIOUS
      <3>1. ~m_isSync
        BY DEF IInv, CountsAgree
      <3>2. q \in Nat
        OBVIOUS
      <3>3. Follows(data, 0) /\ next = (0 + Len(data)) % Lost
        BY <1>1, <1>6, <2>2, <3>2, BegunFollows
      <3>4. 0 = 0 * FrameSize /\ 0 * FrameSize \in Positions
        BY Sizes, FrameAt
      <3> QED  BY <1>1, <3>1, <3>3, <3>4, InStepIs
    <2>4. m_dabSuperFrameCount' = IF m_dabSuperFrameCount = 4 THEN 0
                                  ELSE m_dabSuperFrameCount + 1
      BY <2>3, ProcessAhead DEF FindFrame
    <2>5. m_dabSuperFrameCount' = 0 \/ m_dabSuperFrameCount' > 1
      BY <1>1, <2>3, <2>4
    <2>6. P + FrameSize = Lost * q + 1 * FrameSize /\ P + FrameSize >= first
      BY <1>2, <1>6, <2>2, Sizes
    <2> QED  BY <1>2, <1>3, <1>4, <2>5, <2>6 DEF Approaching, Heading
  <1> QED  BY <1>1, <1>5, <1>6

\* Frames are taken up to the end of a super frame at the latest; if the other
\* loop has dropped them, both begin the next one together.
LEMMA TakeApproaches ==
    ASSUME IInv, TypeOK', TakeFrame, NEW P \in Int,
           NEW first \in Lost..(2 * Lost - 1), Located(data, next, heard, P, first),
           Heading(m_unsyncFrameCount, m_dabSuperFrameCount, P, first)
    PROVE  InStep' \/ Approaching'
  <1> DEFINE u == m_unsyncFrameCount
             c == m_dabSuperFrameCount
  <1>1. /\ TypeOK /\ Busy /\ u \in 1..4 /\ first \in Nat /\ c \in 0..4
    BY Sizes DEF IInv, TypeOK, CountsAgree, TakeFrame
  <1>2. FrameSize \in 0..FrameSize /\ FrameSize \in Nat /\ Lost \in Nat
    BY Sizes
  <1>3. Located(data', next', heard', P + FrameSize, first)
    BY <1>1, <1>2, SkipLocated DEF TakeFrame
  <1>4. u = 4 => m_unsyncFrameCount' = 0
    BY DEF TakeFrame
  <1>5. u # 4 => m_unsyncFrameCount' = u + 1 /\ u \in 1..3
    <2>1. u # 4 => u + 1 # 5 /\ u \in 1..3
      BY <1>1
    <2> QED  BY <2>1 DEF TakeFrame
  <1>6. CASE P + Left(u) * FrameSize <= 3 * Lost
    <2>1. CASE u = 4
      <3>1. P + FrameSize + Left(0) * FrameSize <= 3 * Lost
        BY <1>2, <1>6, <2>1, LeftIs
      <3> QED  BY <1>2, <1>3, <1>4, <2>1, <3>1 DEF Approaching, Heading
    <2>2. CASE u # 4
      <3> DEFINE v == u + 1
                 x == Left(u) * FrameSize
                 y == Left(v) * FrameSize
      <3>1. v \in 2..4 /\ x \in Nat /\ y \in Nat /\ y + FrameSize = x
        BY <1>5, <2>2, LeftIs
      <3>2. m_unsyncFrameCount' = v /\ P + x <= 3 * Lost
        BY <1>5, <1>6, <2>2
      <3> HIDE DEF x, y
      <3>3. P + FrameSize + y <= 3 * Lost
        BY <1>2, <3>1, <3>2
      <3> HIDE DEF v
      <3>4. P + FrameSize + Left(v) * FrameSize <= 3 * Lost
        BY <3>3 DEF y
      <3> QED  BY <1>2, <1>3, <3>2, <3>4 DEF Approaching, Heading
    <2> QED  BY <2>1, <2>2
  <1>7. CASE ~(P + Left(u) * FrameSize <= 3 * Lost)
    <2>1. P >= first /\ (c = 0 \/ c > u)
      BY <1>7 DEF Heading
    <2>2. PICK q \in 1..3 : P = Lost * q + u * FrameSize
      BY <1>7 DEF Heading
    <2>3. q \in Nat /\ u \in 0..4
      BY <1>1
    <2>5. ~CHECK_FIRECODE(Frame)
      <3>1. P % Lost # 0
        <4>1. u * FrameSize \in 0..(Lost - 1) /\ u * FrameSize # 0
          <5>1. u = 1 \/ u = 2 \/ u = 3 \/ u = 4
            BY <1>1
          <5> QED  BY <5>1, Sizes DEF Lost
        <4>2. (Lost * q + u * FrameSize) % Lost = u * FrameSize
          BY <2>3, <4>1, Sizes, Times
        <4> QED  BY <2>2, <4>1, <4>2
      <3> QED  BY <1>1, <2>1, <3>1, Searched
    <2>6. IF c = 0 THEN m_dabSuperFrameCount' = 0 /\ ~m_isSync'
          ELSE m_dabSuperFrameCount' = IF c = 4 THEN 0 ELSE c + 1
      BY <2>5, ProcessAhead DEF TakeFrame
    <2>7. /\ P + FrameSize >= first
          /\ u # 4 => P + FrameSize = Lost * q + (u + 1) * FrameSize
          /\ u = 4 => P + FrameSize = Lost * (q + 1)
      <3> DEFINE m == Lost * q
                 w == u * FrameSize
                 z == (u + 1) * FrameSize
      <3>1. /\ m \in Nat /\ w \in Nat /\ z = w + FrameSize /\ (u = 4 => z = Lost)
            /\ P = m + w
        BY <1>2, <2>2, <2>3, Frames
      <3>2. Lost * (q + 1) = m + Lost
        BY <1>2, <2>3
      <3> HIDE DEF m, w, z
      <3>3. /\ P + FrameSize >= first /\ P + FrameSize = m + z
            /\ u = 4 => P + FrameSize = m + Lost
        BY <1>2, <2>1, <3>1
      <3> QED  BY <3>2, <3>3 DEF m, z
    <2>8. CASE u = 4
      <3>1. m_unsyncFrameCount' = 0 /\ m_dabSuperFrameCount' = 0 /\ ~m_isSync'
        BY <1>1, <1>4, <2>1, <2>6, <2>8
      <3> DEFINE d == data'
                 at == next'
                 ends == heard'
                 R == P + FrameSize
                 r == q + 1
      <3>2. /\ d \in Seq(Byte) /\ R \in Nat /\ r \in Nat /\ R >= first /\ R = Lost * r
            /\ Located(d, at, ends, R, first)
        BY <1>2, <1>3, <2>3, <2>7, <2>8 DEF TypeOK
      <3> HIDE DEF d, at, ends, R, r
      <3>3. Follows(d, 0) /\ at = (0 + Len(d)) % Lost
        BY <1>1, <3>2, BegunFollows
      <3>4. Follows(data', 0) /\ next' = (0 + Len(data')) % Lost
        BY <3>3 DEF d, at
      <3>5. 0 \in Positions /\ 0 = m_dabSuperFrameCount' * FrameSize
        <4>1. 0 * FrameSize = 0 /\ 0 * FrameSize \in Positions
          BY Sizes, FrameAt
        <4> QED  BY <3>1, <4>1
      <3> QED  BY <3>1, <3>4, <3>5, InStepNext
    <2>9. CASE u # 4
      <3> DEFINE v == u + 1
      <3>1. v # 0 /\ m_unsyncFrameCount' = v
        BY <1>1, <1>5, <2>9
      <3>2. m_dabSuperFrameCount' = 0 \/ m_dabSuperFrameCount' > v
        BY <1>1, <2>1, <2>6
      <3>3. P + FrameSize = Lost * q + v * FrameSize /\ P + FrameSize >= first
        BY <2>7, <2>9
      <3> HIDE DEF v
      <3> QED  BY <1>2, <1>3, <3>1, <3>2, <3>3 DEF Approaching, Heading
    <2> QED  BY <2>8, <2>9
  <1> QED  BY <1>6, <1>7

\* A search that goes on is short of the fourth super frame.
LEMMA FourSuffice ==
    ASSUME IInv, Approaching, heard >= Enough, ~Busy
    PROVE  FALSE
  <1>1. /\ Len(data) \in Nat /\ Len(data) <= FrameSize
        /\ heard \in Nat /\ m_unsyncFrameCount \in 0..4
    BY Sizes DEF IInv, TypeOK, Busy, Enough
  <1>2. PICK P \in Int, first \in Lost..(2 * Lost - 1) :
            /\ Located(data, next, heard, P, first)
            /\ Heading(m_unsyncFrameCount, m_dabSuperFrameCount, P, first)
    BY DEF Approaching
  <1> DEFINE t == P + Len(data)
             q == t \div Lost
  <1>3. t \in Nat
    <2>1. first \in Nat /\ P \in Int /\ Len(data) \in Nat
      BY <1>1, Sizes
    <2>2. t >= first
      BY <1>2 DEF Located
    <2> QED  BY <2>1, <2>2
  <1>4. q \in Nat
    <2> HIDE DEF t
    <2> QED  BY <1>3, Sizes, DivMod
  <1>5. heard + 1 <= q
    BY <1>2 DEF Located
  <1>6. Lost * 5 <= t
    <2> HIDE DEF t
    <2>1. 5 <= q
      <3> HIDE DEF q
      <3> QED  BY <1>1, <1>4, <1>5 DEF Enough
    <2> QED  BY <1>3, <2>1, Sizes, Times
  <1>7. CASE P + Left(m_unsyncFrameCount) * FrameSize <= 3 * Lost
    <2> DEFINE w == Left(m_unsyncFrameCount) * FrameSize
    <2>1. w \in Nat
      <3>1. m_unsyncFrameCount = 0 \/ m_unsyncFrameCount \in 1..4
        BY <1>1
      <3> QED  BY <3>1, LeftIs
    <2>2. P + w <= 3 * Lost
      BY <1>7
    <2> HIDE DEF w
    <2> QED  BY <1>1, <1>6, <2>1, <2>2, Sizes DEF Lost
  <1>8. CASE \E k \in 1..3 : P = Lost * k + m_unsyncFrameCount * FrameSize
    <2>1. PICK k \in 1..3 : P = Lost * k + m_unsyncFrameCount * FrameSize
      BY <1>8
    <2> DEFINE w == m_unsyncFrameCount * FrameSize
    <2>2. w \in Nat /\ w + FrameSize <= Lost
      BY <1>1, Frames
    <2>3. P = Lost * k + w
      BY <2>1
    <2> HIDE DEF w
    <2>4. k = 1 \/ k = 2 \/ k = 3
      OBVIOUS
    <2> QED  BY <1>1, <1>6, <2>2, <2>3, <2>4, Sizes
  <1> QED  BY <1>2, <1>7, <1>8 DEF Heading

\* Reception is clean, and the loops are in step or on their way; or it is not,
\* and no super frame counts.
ResumingInv == IF Clean THEN InStep \/ Approaching ELSE heard = 0

\* For any size of frame and of the mscData calls, whatever noise was received
\* before: between two calls, once four super frames have ended without noise since
\* the last fire code of 0 (one that has it may be the first), both loops are in step
\* with the transmission.
THEOREM SyncIsResumed == Spec => []ResumesInStep
  <1>1. Init => ResumingInv
    BY DEF Init, ResumingInv, Clean
  <1>2. ASSUME IInv, IInv', ResumingInv, [Next]_vars
        PROVE  ResumingInv'
    <2>1. CASE ReceiveNoise
      BY <2>1 DEF ReceiveNoise, ResumingInv, Clean
    <2>2. CASE ReceiveClean
      <3>1. TypeOK /\ TypeOK' /\ ~Busy
        BY <1>2, <2>2 DEF IInv, ReceiveClean
      <3>2. UNCHANGED <<m_unsyncFrameCount, m_dabSuperFrameCount>>
        BY <2>2 DEF ReceiveClean, syncVars, frameVars
      <3>3. PICK p \in Positions, n \in 1..MaxChunk :
              /\ Clean => p = next
              /\ next' = (p + n) % Lost
              /\ \/ /\ data' = data \o Chunk(p, n, {})
                    /\ heard' = AtMost(Enough, heard + (p + n) \div Lost)
                 \/ \E zeros \in SUBSET {i \in 1..n : (p + i - 1) % Lost = 0} :
                    \E last \in zeros :
                       /\ \A i \in zeros : i <= last
                       /\ data' = data \o Chunk(p, n, zeros)
                       /\ heard' = AtMost(Enough, (n - last + 1) \div Lost)
        BY <2>2, <3>1, CleanIs
      <3>4. Clean'
        <4>1. p + n \in Nat
          BY Sizes DEF Positions
        <4>2. (p + n) % Lost \in 0..(Lost - 1)
          BY <4>1, Sizes, DivMod
        <4> QED  BY <3>3, <4>2, Sizes DEF Clean
      <3>5. CASE Clean /\ InStep
        <4>1. InStep'
          BY <1>2, <2>2, <3>5, CleanFollows
        <4> QED  BY <3>4, <4>1 DEF ResumingInv
      <3>6. CASE /\ data' = data \o Chunk(p, n, {})
                 /\ heard' = AtMost(Enough, heard + (p + n) \div Lost)
                 /\ ~(Clean /\ InStep)
        <4>1. CASE ~Clean
          <5>1. Approaching'
            BY <1>2, <3>1, <3>2, <3>3, <3>6, <4>1, Begins DEF ResumingInv
          <5> QED  BY <3>4, <5>1 DEF ResumingInv
        <4>2. CASE Clean
          <5>1. Approaching'
            BY <1>2, <3>1, <3>2, <3>3, <3>6, <4>2, Continues DEF ResumingInv
          <5> QED  BY <3>4, <5>1 DEF ResumingInv
        <4> QED  BY <4>1, <4>2
      <3>7. CASE \E zeros \in SUBSET {i \in 1..n : (p + i - 1) % Lost = 0} :
                 \E last \in zeros :
                    /\ \A i \in zeros : i <= last
                    /\ data' = data \o Chunk(p, n, zeros)
                    /\ heard' = AtMost(Enough, (n - last + 1) \div Lost)
        <4>1. Approaching'
          BY <1>2, <3>1, <3>2, <3>3, <3>7, Restarts
        <4> QED  BY <3>4, <4>1 DEF ResumingInv
      <3> QED  BY <3>3, <3>5, <3>6, <3>7
    <2>3. CASE synchronizeData
      <3>1. UNCHANGED <<next, heard>>
        BY <2>3 DEF synchronizeData, TakeFrame, FindFrame, SkipByte, airVars
      <3>2. CASE ~Clean
        BY <1>2, <3>1, <3>2 DEF ResumingInv, Clean
      <3>3. CASE Clean /\ InStep
        BY <1>2, <2>3, <3>1, <3>3, LoopInStep DEF ResumingInv, Clean
      <3>4. CASE Clean /\ ~InStep
        <4>1. PICK P \in Int, first \in Lost..(2 * Lost - 1) :
                  /\ Located(data, next, heard, P, first)
                  /\ Heading(m_unsyncFrameCount, m_dabSuperFrameCount, P, first)
          BY <1>2, <3>4 DEF ResumingInv, Approaching
        <4>2. TypeOK'
          BY <1>2 DEF IInv
        <4>3. InStep' \/ Approaching'
          BY <1>2, <2>3, <3>4, <4>1, <4>2, SkipApproaches, FindApproaches, TakeApproaches
             DEF synchronizeData
        <4>4. Clean'
          BY <3>1, <3>4 DEF Clean
        <4> QED  BY <4>3, <4>4 DEF ResumingInv
      <3> QED  BY <3>2, <3>3, <3>4
    <2>4. CASE UNCHANGED vars
      BY <1>2, <2>4
         DEF vars, syncVars, frameVars, airVars, ResumingInv, Clean, InStep,
             FollowFrom, Approaching
    <2> QED  BY <1>2, <2>1, <2>2, <2>3, <2>4 DEF Next
  <1>3. IInv /\ ResumingInv => ResumesInStep
    BY FourSuffice DEF ResumingInv, ResumesInStep, Enough
  <1> QED  BY <1>1, <1>2, <1>3, LoopsCorrect, PTL DEF Spec

=============================================================================
