------------------------------ MODULE FicBlock ------------------------------
(***************************************************************************)
(* How the fast information channel (FIC) is taken apart: readData         *)
(* (src/raon_tuner.cpp) transfers a block from the chip and passes the     *)
(* bytes after its header on, Process (src/fic_decoder.cpp) divides them   *)
(* into fast information blocks (FIB), ProcessFIB a FIB into information   *)
(* groups (FIG).  FicDecoder models what is done with a FIG.  Each         *)
(* iteration of the two loops is an action.                                *)
(***************************************************************************)
EXTENDS Integers, Sequences

CONSTANTS
    Blocks,    \* sequences of FIBs: what the chip may have
    Transfers, \* what bytesTransfered may be
    Unset,     \* what `actual` may happen to hold where a transfer does not set it
    SizeMax    \* the largest size_t

FigStarts(starts) ==
    /\ starts # << >> /\ starts[1] = 0
    /\ \A k \in 2..Len(starts) : starts[k - 1] < starts[k] /\ starts[k] <= 30

\* A FIB is the offsets at which its FIGs begin, with the end of the last, and
\* whether its checksum is right.
ASSUME BlocksAssumption ==
    Blocks \subseteq Seq([good : BOOLEAN, starts : {s \in Seq(0..30) : FigStarts(s)}])
ASSUME TransfersAssumption == Transfers \subseteq 0..400
ASSUME SizeMaxAssumption == SizeMax \in Nat /\ SizeMax >= 400 /\ SizeMax % 32 = 31

\* An int, which is no wider than a size_t.  The buffer has 400 bytes: a number that is
\* negative or above 400 makes Process read beyond it, to no defined effect, if it leaves
\* an integer count of FIBs; such a number is left out.
Tame == {n \in (3 - SizeMax)..SizeMax : n \in 0..400 \/ (n - 4) % 32 # 0}
ASSUME UnsetAssumption == Unset \subseteq Tame

VARIABLES
    block,  \* what the chip had for the last transfer
    bytesTransfered,
    actualSet, \* whether the transfer has set it
    len,    \* what Process was called with, or 0 if it has returned at once
    i,      \* FIBs begun
    offset, \* in the FIB begun last; 30 if it is done with
    figs    \* what ProcessFIG0 and 1 were called with: <<FIB, offset, len>>

ficBlockVars == <<block, bytesTransfered, actualSet, len, i, offset, figs>>

FicBlockInit ==
    /\ block = << >>
    /\ bytesTransfered = 4
    /\ actualSet = TRUE
    /\ len = 0
    /\ i = 0
    /\ offset = 30
    /\ figs = << >>

\* bytesTransfered - 4 as a size_t: after less than a header it is as good as
\* endless.
SizeOf(transfered) ==
    IF transfered >= 4 THEN transfered - 4 ELSE SizeMax + 1 - (4 - transfered)

\* Broken on purpose (see the mutants of PROJECT.json): the bytes of a FIB that is
\* not whole are put up with.
AnyCount(length) == length >= 32

\* An integer count of FIBs.
WholeCount(length) == length % 32 = 0

Idle == 32 * i >= len /\ offset >= 30

\* readData, where the FIC has an interrupt; the observer passes on to Process.
ReadData(transfered) ==
    /\ Idle
    /\ bytesTransfered' = transfered
    /\ len' = IF WholeCount(SizeOf(transfered)) THEN SizeOf(transfered) ELSE 0
    /\ i' = 0
    /\ offset' = 30
    /\ figs' = << >>

ReadFicBlock(b, transfered) ==
    /\ transfered <= 4 + 32 * Len(b)
    /\ ReadData(transfered)
    /\ block' = b
    /\ actualSet' = TRUE

\* The transfer cannot be begun, for the device is gone or memory short: nothing is
\* filled, and `actual`, which bulkTransferData does not initialise, holds anything.
ReadNothing(unset) ==
    /\ ReadData(unset)
    /\ block' = << >>
    /\ actualSet' = FALSE

\* The FIBs the transfer has filled.  What it has not filled of the buffer is zero,
\* and zeros have a wrong checksum.
Filled(k) == k <= Len(block) /\ 4 + 32 * k <= bytesTransfered

\* ProcessFIB looks at the checksum.
BeginFib ==
    /\ offset >= 30
    /\ 32 * i < len
    /\ i' = i + 1
    /\ offset' = IF Filled(i') /\ block[i'].good THEN 0 ELSE 30
    /\ UNCHANGED <<block, bytesTransfered, actualSet, len, figs>>

\* Of the first byte of a FIG, its length; of the byte after the last FIG, 0xFF, the
\* end marker.
LenAt(starts, at) ==
    IF at = starts[Len(starts)] THEN 255
    ELSE LET k == CHOOSE n \in 1..(Len(starts) - 1) :
                      starts[n] <= at /\ at < starts[n + 1]
         IN  starts[k + 1] - starts[k] - 1

\* Broken on purpose: two bytes are left, a FIG without data has room in one.
BeforeLastByte(at) == at < 29

BeforeChecksum(at) == at < 30

\* One iteration of its loop.
TakeFig ==
    /\ offset < 30
    /\ LET length == LenAt(block[i].starts, offset)
       IN  IF BeforeChecksum(offset) /\ length # 255
           THEN /\ figs' = Append(figs, <<i, offset, length>>)
                /\ offset' = offset + 1 + length
           ELSE /\ offset' = 30
                /\ UNCHANGED figs
    /\ UNCHANGED <<block, bytesTransfered, actualSet, len, i>>

FicBlockNext ==
    \/ \E b \in Blocks, transfered \in Transfers : ReadFicBlock(b, transfered)
    \/ \E unset \in Unset : ReadNothing(unset)
    \/ BeginFib \/ TakeFig

FicBlockSpec == FicBlockInit /\ [][FicBlockNext]_ficBlockVars

-----------------------------------------------------------------------------

\* However short the transfer was, a FIB is only looked for where it has filled the
\* buffer: after less than the header, the length wraps around to what is no integer
\* count of FIBs.
OnlyTransferred == actualSet /\ i > 0 => 4 + 32 * i <= bytesTransfered

\* The FIGs of FIB k.
FigsOf(k) ==
    LET starts == block[k].starts
    IN  IF Filled(k) /\ block[k].good
        THEN {<<k, starts[n], starts[n + 1] - starts[n] - 1>> : n \in 1..(Len(starts) - 1)}
        ELSE {}

\* Once a block has been taken apart, the handlers have got every FIG of every FIB
\* with a right checksum, whether an end marker follows it or the checksum does, and
\* nothing else, each once and in order; and none after a transfer that brought
\* nothing, however many bytes it seems to have brought.
EveryFigOnce ==
    /\ Idle => {figs[n] : n \in 1..Len(figs)} = UNION {FigsOf(k) : k \in 1..i}
    /\ \A n \in 2..Len(figs) :
           \/ figs[n - 1][1] < figs[n][1]
           \/ figs[n - 1][1] = figs[n][1] /\ figs[n - 1][2] < figs[n][2]

=============================================================================
