--------------------------- MODULE DabPlusDecoder ---------------------------
(***************************************************************************)
(* DabPlusServiceComponentDecoder (src/dabplus_decoder.cpp): finding the   *)
(* super frames of a DAB+ service in the bytes of its sub-channel.  Two    *)
(* loops count frames independently of each other: synchronizeData looks   *)
(* for the fire code byte by byte and then takes five frames unseen;       *)
(* processData looks for it again and collects five frames of its own.     *)
(* Each action but the input is one iteration of the loop in               *)
(* synchronizeData, with the processData call it makes.                    *)
(*                                                                         *)
(* A byte of a super frame that is sent whole is its position in it, 0 the *)
(* first byte of its fire code.  The other bytes are told apart by what a  *)
(* frame that begins with one is taken for.  The Reed-Solomon code and the *)
(* checksum of each access unit come after all this: here a super frame is *)
(* delivered when it is handed to the Reed-Solomon decoder.                *)
(***************************************************************************)
EXTENDS Naturals, Sequences

CONSTANTS
    FrameSize, \* m_frameSize: bytes of a frame, a fifth of a super frame
    MaxChunk   \* the most bytes of one mscData call: 2044

\* CHECK_FIRECODE reads 11 bytes, the zero test two; a frame has 24 or more.
ASSUME FrameSizeAssumption == FrameSize \in Nat /\ FrameSize >= 2
ASSUME MaxChunkAssumption == MaxChunk \in Nat \ {0}

Positions == 0..(5 * FrameSize - 1)

\* "good": the frame beginning here has a right fire code and rising AU starts;
\* "bad": right fire code, wrong AU starts; "goodzero", "badzero": the same, and the
\* fire code is 0 (a frame of zeros is "badzero"); "data": anything else.
Noise == {"good", "bad", "goodzero", "badzero", "data"}
Sent(p) == [sent |-> TRUE, at |-> p, zero |-> FALSE]
Stray(n) == [sent |-> FALSE, as |-> n]

\* The first byte of a super frame whose header happens to have the fire code 0.
ZeroCode == [sent |-> TRUE, at |-> 0, zero |-> TRUE]
Byte == {Sent(p) : p \in Positions} \cup {ZeroCode} \cup {Stray(n) : n \in Noise}

\* Whether a byte is the one sent at a position.
Is(byte, p) == byte = Sent(p) \/ (p = 0 /\ byte = ZeroCode)

\* Whether a frame is the k-th of a super frame as it was sent.
IsSent(frame, k) == \A i \in 1..FrameSize : Is(frame[i], k * FrameSize + i - 1)

VARIABLES
    data,                 \* from unsyncIter on; between calls m_unsyncDataBuffer
    m_unsyncSync,
    m_unsyncFrameCount,
    m_isSync,
    m_dabSuperFrameCount,
    intact,               \* whether superFrameData holds the first frames of a
                          \* super frame, in order and nothing else
    delivered,            \* the super frame the last step completed, if any
    passing,              \* whether synchronizeData is in a super frame it has
                          \* passed over because its fire code is 0
    next,                 \* the position to be sent next, if reception is clean
    heard                 \* ends of super frames received since it is and since the
                          \* last fire code of 0, at most Enough

syncVars == <<m_unsyncSync, m_unsyncFrameCount>>
frameVars == <<m_isSync, m_dabSuperFrameCount, intact>>
airVars == <<next, heard>>
vars == <<data, syncVars, frameVars, delivered, passing, airVars>>

\* No position; and how far heard counts.
Lost == 5 * FrameSize
Enough == 4
Clean == next # Lost

Init ==
    /\ data = << >>
    /\ m_unsyncSync = FALSE
    /\ m_unsyncFrameCount = 0
    /\ m_isSync = FALSE
    /\ m_dabSuperFrameCount = 0
    /\ intact = TRUE
    /\ delivered = "none"
    /\ passing = FALSE
    /\ next = Lost
    /\ heard = 0

-----------------------------------------------------------------------------
(* What componentDataInput is given. *)

\* The loop runs while more than a frame is left.
Busy == Len(data) > FrameSize

ReceiveNoise ==
    /\ ~Busy
    /\ \E n \in 1..MaxChunk : \E noise \in [1..n -> Noise] :
           data' = data \o [i \in 1..n |-> Stray(noise[i])]
    /\ next' = Lost
    /\ heard' = 0
    /\ delivered' = "none"
    /\ UNCHANGED <<syncVars, frameVars, passing>>

\* Super frames follow one another.
After(p, n) == (p + n) % (5 * FrameSize)

AtMost(max, n) == IF n <= max THEN n ELSE max

\* n bytes of super frames from position first on; those at zeros begin a super
\* frame with fire code 0.
Chunk(first, n, zeros) ==
    [i \in 1..n |-> IF i \in zeros THEN ZeroCode ELSE Sent((first + i - 1) % Lost)]

\* Reception may become clean anywhere in a super frame, and any super frame may
\* have a fire code of 0.
ReceiveClean ==
    /\ ~Busy
    /\ \E first \in (IF Clean THEN {next} ELSE Positions), n \in 1..MaxChunk :
       \E zeros \in SUBSET {i \in 1..n : (first + i - 1) % Lost = 0} :
           /\ data' = data \o Chunk(first, n, zeros)
           /\ next' = (first + n) % Lost
           /\ \/ /\ zeros = {}
                 /\ heard' = AtMost(Enough, heard + (first + n) \div Lost)
              \/ \E last \in zeros :
                 /\ \A i \in zeros : i <= last
                 /\ heard' = AtMost(Enough, (n - last + 1) \div Lost)
    /\ delivered' = "none"
    /\ UNCHANGED <<syncVars, frameVars, passing>>

-----------------------------------------------------------------------------
(* The loops. *)

CHECK_FIRECODE(frame) ==
    \/ Is(frame[1], 0)
    \/ frame[1] \in {Stray(n) : n \in Noise \ {"data"}}

GoodAuStarts(frame) ==
    \/ Is(frame[1], 0)
    \/ frame[1] \in {Stray("good"), Stray("goodzero")}

\* The first frame of a super frame.  Wrong AU starts leave it cleared.
StartSuperFrame(frame) ==
    /\ m_dabSuperFrameCount = 0
    /\ CHECK_FIRECODE(frame)
    /\ delivered' = "none"
    /\ IF GoodAuStarts(frame)
       THEN /\ intact' = IsSent(frame, 0)
            /\ m_dabSuperFrameCount' = 1
            /\ m_isSync' = TRUE
       ELSE /\ intact' = TRUE
            /\ UNCHANGED <<m_dabSuperFrameCount, m_isSync>>

\* Broken on purpose (see the mutants of PROJECT.json): a completed super frame
\* leaves m_isSync set.
ContinueInSync(frame) ==
    /\ m_isSync
    /\ intact' = (intact /\ IsSent(frame, m_dabSuperFrameCount))
    /\ delivered' = "none"
    /\ m_dabSuperFrameCount' = (m_dabSuperFrameCount + 1) % 5
    /\ UNCHANGED m_isSync

\* Any other frame: the next of the super frame, or dropped.
ContinueSuperFrame(frame) ==
    /\ ~(m_dabSuperFrameCount = 0 /\ CHECK_FIRECODE(frame))
    /\ IF m_dabSuperFrameCount > 5 \/ ~m_isSync
       THEN /\ m_isSync' = FALSE
            /\ m_dabSuperFrameCount' =
                   IF m_dabSuperFrameCount > 5 THEN 0 ELSE m_dabSuperFrameCount
            /\ delivered' = "none"
            /\ UNCHANGED intact
       ELSE /\ intact' = (intact /\ IsSent(frame, m_dabSuperFrameCount))
            /\ IF m_dabSuperFrameCount + 1 = 5
               THEN /\ delivered' = IF intact' THEN "whole" ELSE "mixed"
                    /\ m_dabSuperFrameCount' = 0
                    /\ m_isSync' = FALSE
               ELSE /\ delivered' = "none"
                    /\ m_dabSuperFrameCount' = m_dabSuperFrameCount + 1
                    /\ UNCHANGED m_isSync

processData(frame) == StartSuperFrame(frame) \/ ContinueSuperFrame(frame)

Frame == SubSeq(data, 1, FrameSize)
Skip(n) == data' = SubSeq(data, n + 1, Len(data))

\* Broken on purpose: the frame found by its fire code is not counted.
CountsOneLess ==
    /\ Busy
    /\ m_unsyncSync
    /\ processData(Frame)
    /\ Skip(FrameSize)
    /\ passing' = FALSE
    /\ IF m_unsyncFrameCount = 5
       THEN m_unsyncSync' = FALSE /\ m_unsyncFrameCount' = 0
       ELSE m_unsyncFrameCount' = m_unsyncFrameCount + 1 /\ UNCHANGED m_unsyncSync
    /\ UNCHANGED airVars

\* Broken on purpose: sync is given up one frame early.
GivesUpEarly ==
    /\ Busy
    /\ m_unsyncSync
    /\ processData(Frame)
    /\ Skip(FrameSize)
    /\ passing' = FALSE
    /\ IF m_unsyncFrameCount + 1 = 4
       THEN m_unsyncSync' = FALSE /\ m_unsyncFrameCount' = 0
       ELSE m_unsyncFrameCount' = m_unsyncFrameCount + 1 /\ UNCHANGED m_unsyncSync
    /\ UNCHANGED airVars

\* In sync the next four frames are taken as they come.
TakeFrame ==
    /\ Busy
    /\ m_unsyncSync
    /\ processData(Frame)
    /\ Skip(FrameSize)
    /\ passing' = FALSE
    /\ IF m_unsyncFrameCount + 1 = 5
       THEN m_unsyncSync' = FALSE /\ m_unsyncFrameCount' = 0
       ELSE m_unsyncFrameCount' = m_unsyncFrameCount + 1 /\ UNCHANGED m_unsyncSync
    /\ UNCHANGED airVars

\* The frame begins with two bytes of 0.  This is meant for silence, but the two
\* bytes are the fire code, and a super frame that is sent may have it, too.
ZeroStart == data[1] \in {ZeroCode, Stray("goodzero"), Stray("badzero")}

FindFrame ==
    /\ Busy
    /\ ~m_unsyncSync
    /\ ~ZeroStart
    /\ CHECK_FIRECODE(Frame)
    /\ processData(Frame)
    /\ Skip(FrameSize)
    /\ passing' = FALSE
    /\ m_unsyncSync' = TRUE
    /\ m_unsyncFrameCount' = m_unsyncFrameCount + 1
    /\ UNCHANGED airVars

SkipByte ==
    /\ Busy
    /\ ~m_unsyncSync
    /\ ZeroStart \/ ~CHECK_FIRECODE(Frame)
    /\ Skip(1)
    /\ passing' = (data[1] = ZeroCode \/ (passing /\ data[1].sent))
    /\ delivered' = "none"
    /\ UNCHANGED <<syncVars, frameVars, airVars>>

synchronizeData == TakeFrame \/ FindFrame \/ SkipByte

Next == ReceiveNoise \/ ReceiveClean \/ synchronizeData

Fairness == WF_vars(synchronizeData) /\ WF_vars(ReceiveNoise \/ ReceiveClean)

Spec == Init /\ [][Next]_vars
FairSpec == Spec /\ Fairness

-----------------------------------------------------------------------------

TypeOK ==
    /\ data \in Seq(Byte) /\ Len(data) <= FrameSize + MaxChunk
    /\ m_unsyncSync \in BOOLEAN
    /\ m_unsyncFrameCount \in 0..4
    /\ m_isSync \in BOOLEAN
    /\ m_dabSuperFrameCount \in 0..4
    /\ intact \in BOOLEAN
    /\ delivered \in {"none", "whole", "mixed"}
    /\ passing \in BOOLEAN
    /\ next \in 0..Lost
    /\ heard \in 0..Enough

\* Each flag agrees with its count; so frames are never appended to a super frame
\* that was not begun, and no super frame is ever taken for damaged.
CountsAgree ==
    /\ m_unsyncSync <=> m_unsyncFrameCount # 0
    /\ m_isSync <=> m_dabSuperFrameCount # 0

\* The bytes left follow one another from position p on.
FollowFrom(p) == \A i \in 1..Len(data) : Is(data[i], (p + i - 1) % Lost)

\* The two loops are in step with each other and with the transmission: both have
\* taken the same number of frames, all of one super frame, and the bytes left
\* are those that follow in it; or they have taken none, and what is left follows
\* in a super frame synchronizeData has passed over for its fire code of 0.
InStep ==
    /\ m_unsyncFrameCount = m_dabSuperFrameCount
    /\ m_isSync => intact
    /\ \E p \in Positions :
          /\ FollowFrom(p)
          /\ next = (p + Len(data)) % Lost
          /\ p = m_dabSuperFrameCount * FrameSize \/ (passing /\ m_dabSuperFrameCount = 0)

\* Between two calls, once super frames have ended four times since reception is clean
\* and since the last fire code of 0, whatever was received before, both loops are in
\* step: a fire code found where there is none costs no more than the super frames it
\* overlaps and two more.
ResumesInStep == heard >= Enough /\ ~Busy => InStep

\* Once in step, the loops stay in step for as long as reception is clean: no frame
\* is taken out of its place, and no byte is passed over but those of super frames
\* whose fire code is 0.
StaysInStep == [][InStep /\ Clean' => InStep']_vars

\* If reception is clean from some time on and super frames with a fire code other
\* than 0 keep coming, super frames are delivered whole for ever, however the bytes
\* are cut into mscData calls.
Recovers ==
    <>[]Clean /\ []<>(\E i \in 1..Len(data) : data[i] = Sent(0))
        => []<>(delivered = "whole")

=============================================================================
