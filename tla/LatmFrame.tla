------------------------------ MODULE LatmFrame ------------------------------
(***************************************************************************)
(* BitWriter and BitReader (src/tools.h, src/tools.cpp), and what writes   *)
(* with the one: ProcessUntouchedStream (src/dabplus_decoder.cpp) puts an  *)
(* access unit (AU) into a LATM frame, a field at a time.  A demultiplexer *)
(* reads the frame with the other.  Fields begin at any bit: each action   *)
(* is one iteration of AddBits or GetBits, the bits that fall in one byte. *)
(***************************************************************************)
EXTENDS Integers, Sequences

CONSTANT Aus \* sequences of bytes: the AUs to be framed

\* The length of an AU is a uint16_t.  Its start has 12 bits, but the last AU ends with
\* the super frame, of whatever size the bit rate given makes it.
ASSUME AusAssumption == Aus \subseteq {s \in Seq(0..255) : Len(s) < 2^16}

VARIABLES
    data,      \* of the BitWriter, and what the BitReader reads
    byte_bits, \* bits used of the last byte, 0 for all
    au,        \* what ProcessUntouchedStream was called with
    todo,      \* its calls of AddBits left: <<data_new, count>>
    phase,     \* "idle", "writing", "reading" or "failed"
    ptr,       \* bytes the BitReader has finished; data_bytes is what is left
    data_bits, \* bits of the next one it has
    asked,     \* the GetBits call under way: <<result_value, count>>
    values     \* the results of those before

writerVars == <<data, byte_bits, au, todo>>
readerVars == <<ptr, data_bits, asked, values>>
latmVars == <<writerVars, phase, readerVars>>

\* The bits of a field of count that fall in a byte with so many bits used.
Fitting(count, used) == IF count < 8 - used THEN count ELSE 8 - used

\* Broken on purpose (see the mutants of PROJECT.json): a byte is never begun anew.
NeverFull(used, copy_bits) == used + copy_bits

\* The bits used of the last byte, after copy_bits more.
Used(used, copy_bits) == (used + copy_bits) % 8

\* Broken on purpose: the lowest bits of a field go first.
LowestFirst(data_new, count, copy_bits) == data_new % 2^copy_bits

\* Of the count bits left of a field, the copy_bits highest.
CopyData(data_new, count, copy_bits) == (data_new \div 2^(count - copy_bits)) % 2^copy_bits

\* Broken on purpose: the byte is filled from its low end.
AtLowEnd(copy_data, used, copy_bits) == copy_data * 2^used

\* Where they go: below the bits used.
Placed(copy_data, used, copy_bits) == copy_data * 2^(8 - used - copy_bits)

\* Bitwise or of two bytes.
Bit(v, k) == (v \div 2^k) % 2
OrBit(a, b, k) == IF Bit(a, k) + Bit(b, k) = 0 THEN 0 ELSE 2^k
Or(a, b) == OrBit(a, b, 0) + OrBit(a, b, 1) + OrBit(a, b, 2) + OrBit(a, b, 3)
                + OrBit(a, b, 4) + OrBit(a, b, 5) + OrBit(a, b, 6) + OrBit(a, b, 7)

-----------------------------------------------------------------------------
(* The fields of a frame. *)

\* AudioSyncStream with no length yet, StreamMuxConfig, AudioSpecificConfig (the same
\* for every service), and what comes before the payload.
Header ==
    << <<695, 11>>, <<0, 13>>, <<0, 1>>,
       <<0, 1>>, <<1, 1>>, <<0, 6>>, <<0, 4>>, <<0, 3>>,
       <<5, 5>>, <<8, 4>>, <<1, 4>>, <<5, 4>>, <<2, 5>>, <<4, 3>>,
       <<0, 3>>, <<255, 8>>, <<0, 1>>, <<0, 1>> >>

Octets(s) == [i \in 1..Len(s) |-> <<s[i], 8>>]

\* Broken on purpose: no byte of less than 255 ends
\* the length of an AU of 255 bytes.
LengthWithoutEnd(len) ==
    [i \in 1..((len + 254) \div 255) |->
        IF i <= len \div 255 THEN 255 ELSE len % 255]

PayloadLengthInfo(len) ==
    [i \in 1..(len \div 255 + 1) |-> IF i <= len \div 255 THEN 255 ELSE len % 255]

Fields(unit) == Header \o Octets(PayloadLengthInfo(Len(unit))) \o Octets(unit)

-----------------------------------------------------------------------------
(* Reading: the fields in turn, then the payload's length, then the payload. *)

\* The values of the payload's length that have been read, and what it amounts to.
LengthEnds(vs) == {k \in (Len(Header) + 1)..Len(vs) : vs[k] # 255}
LengthEnd(vs) == CHOOSE k \in LengthEnds(vs) : \A j \in LengthEnds(vs) : k <= j
PayloadLength(vs) == 255 * (LengthEnd(vs) - Len(Header) - 1) + vs[LengthEnd(vs)]

AllRead(vs) ==
    LengthEnds(vs) # {} /\ Len(vs) = LengthEnd(vs) + PayloadLength(vs)

\* The bits of the next field; none after the last.
NextCount(vs) ==
    IF Len(vs) < Len(Header) THEN Header[Len(vs) + 1][2]
    ELSE IF AllRead(vs) THEN 0 ELSE 8

-----------------------------------------------------------------------------

LatmInit ==
    /\ data = << >> /\ byte_bits = 0
    /\ au = << >>
    /\ todo = << >>
    /\ phase = "idle"
    /\ ptr = 0 /\ data_bits = 0
    /\ asked = <<0, 0>>
    /\ values = << >>

ProcessUntouchedStream(unit) ==
    /\ phase = "idle"
    /\ data' = << >> /\ byte_bits' = 0
    /\ au' = unit
    /\ todo' = Fields(unit)
    /\ phase' = "writing"
    /\ UNCHANGED readerVars

\* One iteration: as many bits as the last byte has room for.
AddBits ==
    /\ phase = "writing"
    /\ todo # << >>
    /\ LET data_new == Head(todo)[1]
           count == Head(todo)[2]
           copy_bits == Fitting(count, byte_bits)
           copy_data == CopyData(data_new, count, copy_bits)
           bytes == IF byte_bits = 0 THEN Append(data, 0) ELSE data
       IN  /\ data' = [bytes EXCEPT ![Len(bytes)] =
                           Or(@, Placed(copy_data, byte_bits, copy_bits))]
           /\ byte_bits' = Used(byte_bits, copy_bits)
           /\ todo' = IF copy_bits = count THEN Tail(todo)
                      ELSE <<<<data_new, count - copy_bits>>>> \o Tail(todo)
    /\ UNCHANGED <<au, phase, readerVars>>

\* The number of bytes after this field, as far as its 13 bits in two bytes hold it;
\* then the frame is sent, and read.
WriteAudioMuxLengthBytes ==
    /\ phase = "writing"
    /\ todo = << >>
    /\ LET len == Len(data) - 3
       IN  data' = [data EXCEPT ![2] = Or(@, (len \div 256) % 2^5), ![3] = len % 256]
    /\ phase' = "reading"
    /\ asked' = <<0, NextCount(<< >>)>>
    /\ UNCHANGED <<byte_bits, au, todo, ptr, data_bits, values>>

-----------------------------------------------------------------------------

\* One iteration: as many bits as the byte has left.  GetBits returns false where
\* the bytes run out; what it has read of the field is lost.
GetBits ==
    /\ phase = "reading"
    /\ asked[2] > 0
    /\ LET copy_bits == Fitting(asked[2], data_bits)
           result_value ==
               asked[1] * 2^copy_bits
                   + (data[ptr + 1] % 2^(8 - data_bits)) \div 2^(8 - data_bits - copy_bits)
       IN  IF ptr = Len(data)
           THEN phase' = "failed" /\ UNCHANGED readerVars
           ELSE /\ ptr' = ptr + (data_bits + copy_bits) \div 8
                /\ data_bits' = Used(data_bits, copy_bits)
                /\ IF copy_bits = asked[2]
                   THEN /\ values' = Append(values, result_value)
                        /\ asked' = <<0, NextCount(values')>>
                   ELSE /\ asked' = <<result_value, asked[2] - copy_bits>>
                        /\ UNCHANGED values
                /\ UNCHANGED phase
    /\ UNCHANGED writerVars

\* The AU has been read; the next frame is read by a new BitReader.
ReadWhole ==
    /\ phase = "reading"
    /\ asked[2] = 0
    /\ phase' = "idle"
    /\ ptr' = 0 /\ data_bits' = 0
    /\ values' = << >>
    /\ UNCHANGED <<writerVars, asked>>

LatmNext ==
    \/ \E unit \in Aus : ProcessUntouchedStream(unit)
    \/ AddBits \/ WriteAudioMuxLengthBytes
    \/ GetBits \/ ReadWhole

LatmSpec == LatmInit /\ [][LatmNext]_latmVars

-----------------------------------------------------------------------------

LatmTypeOK ==
    /\ data \in Seq(0..255) /\ byte_bits \in 0..7
    /\ au \in Aus \cup {<< >>}
    /\ todo \in Seq(Nat \X (0..13))
    /\ phase \in {"idle", "writing", "reading", "failed"}
    /\ ptr \in 0..Len(data) /\ data_bits \in 0..7
    /\ asked \in Nat \X (0..13)
    /\ values \in Seq(Nat)

\* The bits of the last byte that are not written are zero, so that the next field
\* can be put there by an or; a frame is not begun in the middle of a byte.
RestIsZero ==
    /\ byte_bits > 0 => data # << >> /\ data[Len(data)] % 2^(8 - byte_bits) = 0
    /\ data = << >> => byte_bits = 0

\* The fields with the length filled in, which has 13 bits.
Framed == [Header EXCEPT ![2] = <<(Len(data) - 3) % 2^13, 13>>]

\* Every field comes out as it was put in, wherever it lies in the bytes, whatever
\* the length of the AU: 255 bytes take one more byte of length than 254.  The
\* length of the frame, filled in last, is that of what follows it, though modulo 2^13:
\* that of a frame of 8195 bytes or more is wrong.  The reader, which does not go by
\* it, ends in the last byte.
ReadsBack ==
    phase = "reading" =>
        /\ \A k \in 1..Len(Header) : k <= Len(values) => values[k] = Framed[k][1]
        /\ asked[2] = 0 =>
               /\ SubSeq(values, Len(values) - Len(au) + 1, Len(values)) = au
               /\ PayloadLength(values) = Len(au)
               /\ ptr = Len(data) - 1 /\ data_bits = 6

\* The bytes never run out before the AU is read.
NeverShort == phase # "failed"

=============================================================================
