------------------------------- MODULE MCParts -------------------------------
(***************************************************************************)
(* The tools of tools.h, the division of the FIC into its parts, and the   *)
(* date in it.  They share nothing, so a behaviour runs one of them.       *)
(***************************************************************************)
EXTENDS CircularBuffer, LatmFrame, Checksum, FicBlock, DateTime

\* Three AUs around one byte of length, two with lengths that end in zero.
Unit(n) == [k \in 1..n |-> (37 * k + 91 * n) % 256]
MCAus == {<< >>, <<0>>, <<255, 255, 255>>} \cup {Unit(n) : n \in {2, 254, 255, 256, 510}}

\* FIBs that end before the checksum, one byte before it, and with a marker; a FIG
\* without data has one byte.
MCFibs ==
    {[good |-> g, starts |-> s] : g \in BOOLEAN,
        s \in {<<0>>, <<0, 30>>, <<0, 29, 30>>, <<0, 1, 2, 20>>, <<0, 12, 29>>}}

\* Blocks of up to two FIBs; a whole one has twelve.
MCBlocks == {<< >>} \cup {<<a>> : a \in MCFibs} \cup {<<a, b>> : a, b \in MCFibs}

\* Transfers that end in the header, after it, in a FIB and after one.
MCTransfers == {0, 1, 3, 4, 5, 35, 36, 37, 67, 68}

\* Among them the length of the request, of a whole block and of the buffer; and some
\* that are less than nothing or more than the buffer.
MCUnset == {-4000, -29, -27, -1, 0, 4, 5, 36, 388, 400, 401, 4000}

\* DAB is from 1995; leap years, and those before and after them.
MCYears == 1995..2099

VARIABLE part

partsVars == <<bufferVars, latmVars, crcVars, ficBlockVars, dateVars, part>>

Init ==
    /\ BufferInit /\ LatmInit /\ CrcInit /\ FicBlockInit /\ DateInit
    /\ part \in {"CircularBuffer", "BitWriter", "CalcCRC", "FIC", "FIG 0/10"}
    /\ part # "CircularBuffer" => \A c, d \in Cells : buffer[c] = 0
    /\ part # "CalcCRC" => object = FIRE_CODE
    /\ part # "FIG 0/10" => year = 2000

UseBuffer ==
    part = "CircularBuffer" /\ BufferNext /\ UNCHANGED <<latmVars, crcVars, ficBlockVars, dateVars, part>>
UseBits ==
    part = "BitWriter" /\ LatmNext /\ UNCHANGED <<bufferVars, crcVars, ficBlockVars, dateVars, part>>
UseCrc ==
    part = "CalcCRC" /\ CrcNext /\ UNCHANGED <<bufferVars, latmVars, ficBlockVars, dateVars, part>>
UseFic ==
    part = "FIC" /\ FicBlockNext /\ UNCHANGED <<bufferVars, latmVars, crcVars, dateVars, part>>

UseDate ==
    /\ part = "FIG 0/10" /\ NextDay
    /\ UNCHANGED <<bufferVars, latmVars, crcVars, ficBlockVars, part>>

Next == UseBuffer \/ UseBits \/ UseCrc \/ UseFic \/ UseDate

Spec == Init /\ [][Next]_partsVars
=============================================================================
