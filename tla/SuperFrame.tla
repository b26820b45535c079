----------------------------- MODULE SuperFrame -----------------------------
(***************************************************************************)
(* What DabPlusServiceComponentDecoder (src/dabplus_decoder.cpp) does with *)
(* the contents of a super frame: processData reads the access units' (AU) *)
(* starts from its first frame, collects four more, has the Reed-Solomon   *)
(* decoder correct the bytes, and forwards each AU whose checksum is right *)
(* without its programme-associated data (PAD) and its checksum.  Which    *)
(* frames belong together is the business of DabPlusDecoder: here frames   *)
(* come in step.  Each iteration of the loop over the AUs is an action.    *)
(*                                                                         *)
(* A byte is its position in superFrameData, so that an AU is an interval  *)
(* of positions; of its value is kept whether it is the one that was sent. *)
(***************************************************************************)
EXTENDS Naturals, Sequences, FiniteSets

CONSTANTS
    Bitrates, \* kbit/s: what dab_aac is called with
    Layouts,  \* the AU starts, but for the first, a super frame may be sent with
    PadSizes, \* sizes of the PAD in an AU
    Bursts    \* <<first, length>>: runs of bytes reception may get wrong

\* The widths of the numbers involved.
Uint16 == {x \in Nat : x < 65536}
Start == {x \in Nat : x < 4096}

ASSUME BitratesAssumption == Bitrates \subseteq Uint16 \ {0}
ASSUME LayoutsAssumption == Layouts \subseteq Seq(Start)
\* A PAD has at most two bytes of length.
ASSUME PadSizesAssumption == PadSizes \subseteq 0..510
ASSUME BurstsAssumption == Bursts \subseteq Nat \X Nat

-----------------------------------------------------------------------------
(* Sizes; every one is a uint16_t. *)

FrameSize(bitrate) == (bitrate * 3) % 65536
SuperFrameSize(bitrate) == ((bitrate \div 8) * 110) % 65536

\* superFrameData.size() after five frames, and subch_index.
Received(bitrate) == 5 * FrameSize(bitrate)
SubchIndex(len) == len \div 120

NumAUs(dacRate, sbr) ==
    IF dacRate THEN IF sbr THEN 3 ELSE 6 ELSE IF sbr THEN 2 ELSE 4

\* After the fire code, the format and n - 1 starts of 12 bits.
FirstStart(n) == IF n = 2 THEN 5 ELSE IF n = 3 THEN 6 ELSE IF n = 4 THEN 8 ELSE 11

-----------------------------------------------------------------------------
(* The starts in the header: 12 bits each, from byte 3 on. *)

\* The k-th half byte (from 0) of the starts as they are sent.
SentNibble(starts, k) ==
    LET i == k \div 3 + 1
    IN  IF i > Len(starts) THEN 0 ELSE (starts[i] \div <<256, 16, 1>>[(k % 3) + 1]) % 16

\* frameData[3 + k].
HeaderByte(starts, k) ==
    16 * SentNibble(starts, 2 * k) + SentNibble(starts, 2 * k + 1)

\* Two starts take three bytes: where frameIter is when the i-th is read.
FrameIter(i) == (3 * (i - 1)) \div 2

\* Broken on purpose: the halves of a shared byte are exchanged.
WrongHalf(starts, i, first) ==
    LET here == HeaderByte(starts, FrameIter(i))
        there == HeaderByte(starts, FrameIter(i) + 1)
    IN  IF i % 2 = 1 THEN here * 16 + (there % 16)
        ELSE IF first THEN (here \div 16) * 256 + there
        ELSE (there \div 16) * 256 + here

\* auStart for i.  Both expressions move the iterator on in the left operand and use
\* it in the right one, the even one moving it on again.  Which operand comes first
\* is up to the compiler.
AuStart(starts, i, first) ==
    LET here == HeaderByte(starts, FrameIter(i))
        there == HeaderByte(starts, FrameIter(i) + 1)
    IN  IF i % 2 = 1 THEN here * 16 + (IF first THEN there ELSE here) \div 16
        ELSE IF first THEN (here % 16) * 256 + there
        ELSE (there % 16) * 256 + here

\* Broken on purpose (see the mutants of PROJECT.json): nothing keeps a start from
\* lying behind the end.
Unordered(starts, i, size) == starts[i] <= starts[i - 1]

\* The sanity checks.
Insane(starts, i, size) == starts[i] > size \/ starts[i] <= starts[i - 1]

\* The AU starts up to, and without, the first that fails them.
SanePrefix(starts, size) ==
    LET insane == {i \in 2..Len(starts) : Insane(starts, i, size)}
    IN  IF insane = {} THEN starts
        ELSE SubSeq(starts, 1, (CHOOSE i \in insane : \A j \in insane : i <= j) - 1)

-----------------------------------------------------------------------------

VARIABLES
    bitrate,              \* what setSubchannelBitrate was called with
    leftFirst,            \* the order of evaluation the compiler has chosen, for
                          \* an even and for an odd AU start
    m_dabSuperFrameCount, \* frames collected
    auStarts,
    auLengths,
    wrong,                \* the positions that are not as they were sent
    examined,             \* iterations of the loop over the AUs done
    forwarded,            \* what the last step gave to ProcessUntouchedStream,
                          \* the positions from..to-1; or nothing, << >>
    \* What was sent and received, for the properties:
    sent,                 \* the starts of all AUs and the end; << >> for none
    pad,                  \* the size of the PAD of the AU examined last; << >> for none
    burst                 \* the bytes received wrongly

buildVars == <<bitrate, leftFirst>>
airVars == <<sent, pad, burst>>
vars == <<buildVars, m_dabSuperFrameCount, auStarts, auLengths, wrong, examined,
          forwarded, airVars>>

m_superFrameSize == SuperFrameSize(bitrate)
superFrameDataSize == m_dabSuperFrameCount * FrameSize(bitrate)

NoBurst == <<0, 0>>
BytesOf(b) == b[1]..(b[1] + b[2] - 1)

Init ==
    /\ bitrate \in Bitrates
    /\ leftFirst \in [0..1 -> BOOLEAN]
    /\ m_dabSuperFrameCount = 0
    /\ auStarts = << >>
    /\ auLengths = << >>
    /\ wrong = {}
    /\ examined = 0
    /\ forwarded = << >>
    /\ sent = << >>
    /\ pad = << >>
    /\ burst = NoBurst

\* Lengths are differences of uint16_t.
Lengths(starts) ==
    [i \in 1..(Len(starts) - 1) |-> (starts[i + 1] + 65536 - starts[i]) % 65536]

StartsRead(n, layout) ==
    <<FirstStart(n)>> \o [i \in 1..(n - 1) |-> AuStart(layout, i, leftFirst[i % 2])]

\* A frame whose fire code is right, so that the first 11 bytes are as they were
\* sent.  Wrong starts leave the super frame as far as it was filled, to be cleared
\* by the next.
FirstFrame(dacRate, sbr, layout) ==
    LET n == NumAUs(dacRate, sbr)
        starts == SanePrefix(StartsRead(n, layout), m_superFrameSize)
    IN  /\ m_dabSuperFrameCount = 0
        /\ Len(layout) = n - 1
        /\ sent' = <<FirstStart(n)>> \o layout \o <<m_superFrameSize>>
        /\ IF Len(starts) = n
           THEN /\ auStarts' = Append(starts, m_superFrameSize)
                /\ auLengths' = Lengths(auStarts')
                /\ m_dabSuperFrameCount' = 1
           ELSE /\ auStarts' = starts
                /\ auLengths' = << >>
                /\ UNCHANGED m_dabSuperFrameCount
        /\ wrong' = {}
        /\ examined' = 0
        /\ UNCHANGED <<buildVars, forwarded, pad, burst>>

\* Broken on purpose: the fifth frame does not complete the super frame.
NeverComplete ==
    /\ m_dabSuperFrameCount > 0
    /\ m_dabSuperFrameCount' = m_dabSuperFrameCount + 1
    /\ UNCHANGED <<buildVars, auStarts, auLengths, wrong, examined, forwarded, airVars>>

NextFrame ==
    /\ m_dabSuperFrameCount \in 1..3
    /\ m_dabSuperFrameCount' = m_dabSuperFrameCount + 1
    /\ UNCHANGED <<buildVars, auStarts, auLengths, wrong, examined, forwarded, airVars>>

-----------------------------------------------------------------------------
(* DecodeSuperframe. *)

\* Broken on purpose: packets are taken one after the other.
PacketInARow(i, subchIndex) == {120 * i + pos : pos \in 0..119}

\* The positions of the bytes of the i-th packet.
Packet(i, subchIndex) == {pos * subchIndex + i : pos \in 0..119}

\* decode_rs_char, a (120, 110) code, corrects up to five bytes of a packet, and
\* leaves a packet with more alone; correction is in place.
DecodeSuperframe(bad, len) ==
    LET s == SubchIndex(len)
        corrected == {i \in 0..(s - 1) : Cardinality(bad \cap Packet(i, s)) <= 5}
    IN  bad \ UNION {Packet(i, s) : i \in corrected}

\* The fifth frame completes the super frame; what of it was received wrongly shows
\* only now.
LastFrame(b) ==
    /\ m_dabSuperFrameCount = 4
    /\ BytesOf(b) \subseteq 11..(Received(bitrate) - 1)
    /\ burst' = b
    /\ wrong' = DecodeSuperframe(BytesOf(b), Received(bitrate))
    /\ m_dabSuperFrameCount' = 5
    /\ UNCHANGED <<buildVars, auStarts, auLengths, examined, forwarded, sent, pad>>

-----------------------------------------------------------------------------
(* The loop over the AUs. *)

\* The number of AUs, from what is left of it.
numAUs == Len(auLengths)

SentAus == {[from |-> sent[i], to |-> sent[i + 1]] : i \in 1..(Len(sent) - 1)}

\* The checksum is taken to tell every other interval from an AU that was sent.
CRC_CCITT_CHECK(from, len) ==
    /\ len >= 2
    /\ [from |-> from, to |-> from + len] \in SentAus
    /\ wrong \cap (from..(from + len - 1)) = {}

\* How a PAD of p bytes begins: an identifier, and one or two bytes of length.
PadHeader(p) == IF p < 255 THEN 2 ELSE 3
PadFits(p, len) == PadHeader(p) + p + 2 <= len

\* Broken on purpose: padDataStart is not incremented.
PadSpanFixed(p) == 2 + (IF p < 255 THEN p ELSE (p % 256))

\* padDataStart + padDataLen.  The latter is the first length byte and, where that
\* is 0xFF, the second, but it has eight bits.
PadSpan(p) == IF p < 255 THEN 2 + p ELSE 3 + (p % 256)

\* One iteration: an AU whose checksum is wrong is passed over; PAD, if there is
\* some, is cut off at the front.
ExamineAu ==
    /\ m_dabSuperFrameCount = 5
    /\ superFrameDataSize >= m_superFrameSize
    /\ examined < numAUs
    /\ examined' = examined + 1
    /\ LET i == examined + 1
       IN  IF CRC_CCITT_CHECK(auStarts[i], auLengths[i])
           THEN /\ pad' \in {<< >>} \cup
                      {<<p>> : p \in {q \in PadSizes : PadFits(q, auLengths[i])}}
                /\ LET cut == IF pad' = << >> THEN 0 ELSE PadSpan(pad'[1])
                   IN  /\ auStarts' = [auStarts EXCEPT ![i] = @ + cut]
                       /\ auLengths' = [auLengths EXCEPT ![i] = (@ + 65536 - cut) % 65536]
                /\ forwarded' = [from |-> auStarts'[i],
                                 to |-> auStarts'[i] + auLengths'[i] - 2]
           ELSE /\ pad' = << >>
                /\ forwarded' = << >>
                /\ UNCHANGED <<auStarts, auLengths>>
    /\ UNCHANGED <<buildVars, m_dabSuperFrameCount, wrong, sent, burst>>

\* After the last AU, or where the super frame is too short.
EndOfSuperFrame ==
    /\ m_dabSuperFrameCount = 5
    /\ examined = numAUs \/ superFrameDataSize < m_superFrameSize
    /\ m_dabSuperFrameCount' = 0
    /\ forwarded' = << >>
    /\ sent' = << >>
    /\ pad' = << >>
    /\ burst' = NoBurst
    /\ UNCHANGED <<buildVars, auStarts, auLengths, wrong, examined>>

Next ==
    \/ \E dacRate, sbr \in BOOLEAN, layout \in Layouts : FirstFrame(dacRate, sbr, layout)
    \/ NextFrame
    \/ \E b \in Bursts : LastFrame(b)
    \/ ExamineAu
    \/ EndOfSuperFrame

Spec == Init /\ [][Next]_vars

-----------------------------------------------------------------------------

TypeOK ==
    /\ bitrate \in Bitrates
    /\ leftFirst \in [0..1 -> BOOLEAN]
    /\ m_dabSuperFrameCount \in 0..5
    /\ auStarts \in Seq(Uint16) /\ auLengths \in Seq(Uint16)
    /\ m_dabSuperFrameCount > 0 =>
           numAUs \in {2, 3, 4, 6} /\ Len(auStarts) = numAUs + 1
    /\ wrong \subseteq Nat
    /\ examined \in 0..numAUs
    /\ forwarded = << >> \/ forwarded \in [from : Uint16, to : Uint16]
    /\ sent \in Seq(Uint16)
    /\ pad = << >> \/ pad \in {<<p>> : p \in PadSizes}
    /\ burst \in Bursts \cup {NoBurst}

\* Whatever starts are sent at whatever bit rate, the AUs yet to be examined lie
\* within the bytes received, and so does every AU that is forwarded.
InBounds ==
    /\ m_dabSuperFrameCount = 5 /\ superFrameDataSize >= m_superFrameSize =>
           \A i \in (examined + 1)..numAUs :
               auStarts[i] + auLengths[i] <= superFrameDataSize
    /\ forwarded # << >> =>
           forwarded.from <= forwarded.to /\ forwarded.to < superFrameDataSize

\* Starts that could be those of AUs.
Rising(starts) ==
    /\ \A i \in 2..(Len(starts) - 1) : starts[i - 1] < starts[i]
    /\ starts[Len(starts) - 1] <= starts[Len(starts)]

\* The compiler does what was meant.
LeftToRight == leftFirst[0] /\ leftFirst[1]

\* The starts of the AUs yet to be examined are those sent, and a super frame is
\* only ever dropped whole if its starts cannot be right.
StartsAreSent ==
    LeftToRight =>
        /\ m_dabSuperFrameCount > 0 =>
               \A i \in (examined + 1)..(numAUs + 1) : auStarts[i] = sent[i]
        /\ m_dabSuperFrameCount = 0 /\ sent # << >> => ~Rising(sent)

\* What the eight bits of padDataLen leave in an AU of a PAD of p bytes.
PadLeft(p) == IF p > 255 THEN 256 ELSE 0

\* What is forwarded of an AU, when its checksum is right, is what follows its PAD up to
\* its checksum, preceded by 256 bytes of the PAD where that has more than 255,
\* whatever the compiler makes of the iterators and reception of the bytes; it is the
\* AU whose turn it is if the compiler does what was meant.  (Starts read wrongly may
\* still enclose a later AU.)
OnlySentAus ==
    forwarded # << >> =>
        /\ \E j \in 1..(Len(sent) - 1) :
               /\ LeftToRight => j = examined
               /\ forwarded.to = sent[j + 1] - 2
               /\ pad = << >> => forwarded.from = sent[j]
               /\ \A p \in PadSizes :
                      pad = <<p>> =>
                          forwarded.from + PadLeft(p) = sent[j] + PadHeader(p) + p
        /\ wrong \cap (forwarded.from..(forwarded.to - 1)) = {}

\* An AU is lost only if a longer burst than five bytes for each packet has hit it:
\* the interleaving spreads a shorter one over the packets so that it is corrected,
\* and what cannot be corrected costs the AUs it is in and no other.
NothingLost ==
    LeftToRight /\ bitrate % 8 = 0 /\ m_dabSuperFrameCount = 5 /\ examined > 0
        => \/ forwarded # << >>
           \/ sent[examined + 1] - sent[examined] < 2
           \/ /\ burst[2] > 5 * SubchIndex(superFrameDataSize)
              /\ BytesOf(burst) \cap (sent[examined]..(sent[examined + 1] - 1)) # {}

=============================================================================
