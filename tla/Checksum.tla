------------------------------ MODULE Checksum ------------------------------
(***************************************************************************)
(* CalcCRC (src/tools.h, src/tools.cpp), which checks every FIB with a     *)
(* table it computes; and the two functions of src/dabplus_decoder.h that  *)
(* compute the same kind of checksum with tables that were typed in:       *)
(* CHECK_FIRECODE, which finds super frames, and CRC_CCITT_CHECK, which    *)
(* checks access units.  All compute along a message, a byte or a bit to   *)
(* an action.  Of the CalcCRC objects this program uses only that of the   *)
(* FIBs; the other two stand for what the functions should compute.        *)
(*                                                                         *)
(* A byte or a register is the set of the positions of its one bits: then  *)
(* an exclusive or is the difference of two sets.                          *)
(***************************************************************************)
EXTENDS Naturals, Sequences, ChecksumTables

CONSTANTS
    Bytes,  \* what messages are made of, as numbers
    MaxLen, \* bytes of the longest message
    MaxOdd  \* the most bits after its last byte

ASSUME BytesAssumption == Bytes \subseteq 0..255
ASSUME MaxLenAssumption == MaxLen \in Nat

\* len % 8 in ProcessBits
ASSUME MaxOddAssumption == MaxOdd \in 0..7

Bits(n) == {k \in 0..15 : (n \div 2^k) % 2 = 1}
Xor(a, b) == (a \ b) \cup (b \ a)
ShiftLeft(r, n) == {k + n : k \in r} \cap 0..15
ShiftRight8(r) == {k - 8 : k \in r \cap 8..15}
High(r) == r \cap 8..15
Low(r) == r \cap 0..7

\* The three objects.
CRC16_CCITT == [initial_invert |-> TRUE, final_invert |-> TRUE, gen_polynom |-> Bits(\h1021)]
CRC16_IBM == [initial_invert |-> TRUE, final_invert |-> FALSE, gen_polynom |-> Bits(\h8005)]
FIRE_CODE == [initial_invert |-> FALSE, final_invert |-> FALSE, gen_polynom |-> Bits(\h782f)]

VARIABLES
    object,  \* the CalcCRC object used
    message, \* the whole bytes so far
    odd,     \* the number of bits after them
    crc,     \* as the object computes it
    serial,  \* as it would be computed from the first bit to the last
    state,   \* firstState of CHECK_FIRECODE, once it has two bytes
    check    \* crc in CRC_CCITT_CHECK

crcVars == <<object, message, odd, crc, serial, state, check>>

Ones == 0..15
Initialize(o) == IF o.initial_invert THEN Ones ELSE {}
Finalize(r) == IF object.final_invert THEN Xor(r, Ones) ELSE r

CrcInit ==
    /\ object \in {CRC16_CCITT, CRC16_IBM, FIRE_CODE}
    /\ message = << >>
    /\ odd = 0
    /\ crc = Initialize(object)
    /\ serial = Initialize(object)
    /\ state = {}
    /\ check = Ones

AfterBit(r, bit) ==
    IF bit # (15 \in r) THEN Xor(ShiftLeft(r, 1), object.gen_polynom) ELSE ShiftLeft(r, 1)

\* Broken on purpose (see the mutants of PROJECT.json): seven steps.
LutOfSeven(byte) ==
    LET step[i \in 0..7] == IF i = 0 THEN ShiftLeft(byte, 8) ELSE AfterBit(step[i - 1], FALSE)
    IN  step[7]

\* crc_lut, as FillLUT makes it.
crc_lut(byte) ==
    LET step[i \in 0..8] == IF i = 0 THEN ShiftLeft(byte, 8) ELSE AfterBit(step[i - 1], FALSE)
    IN  step[8]

AfterByte(r, byte) == Xor(ShiftLeft(r, 8), crc_lut(Xor(ShiftRight8(r), byte)))

\* The bits of a byte, the highest first.
AfterBitsOf(r, byte) ==
    LET step[i \in 0..8] == IF i = 0 THEN r ELSE AfterBit(step[i - 1], 8 - i \in byte)
    IN  step[8]

\* The value of a byte.
Value(byte) ==
    LET at(k) == IF k \in byte THEN 2^k ELSE 0
    IN  at(0) + at(1) + at(2) + at(3) + at(4) + at(5) + at(6) + at(7)

\* Broken on purpose: an entry was typed wrong.
EntryMistyped(table, byte) ==
    LET v == Value(byte)
        entry == table[(v \div 8) + 1][(v % 8) + 1]
    IN  Bits(IF v = 182 THEN entry + 16 ELSE entry)

\* What a table has for a byte.
Entry(table, byte) ==
    LET v == Value(byte) IN Bits(table[(v \div 8) + 1][(v % 8) + 1])

\* One iteration of CHECK_FIRECODE: the byte enters at the low end.
Fed(r, byte) ==
    LET secState == Entry(FIRECODE_TABLE, ShiftRight8(r))
    IN  Xor(Low(secState), byte) \cup High(Xor(secState, ShiftLeft(r, 8)))

\* One iteration of CRC_CCITT_CHECK.
Checking(r, byte) ==
    Xor(ShiftLeft(r, 8), Entry(CRC_CCITT_TABLE, Xor(ShiftRight8(r), byte)))

ProcessByte(b) ==
    /\ odd = 0
    /\ Len(message) < MaxLen
    /\ message' = Append(message, b)
    /\ crc' = AfterByte(crc, Bits(b))
    /\ serial' = AfterBitsOf(serial, Bits(b))
    /\ state' = IF Len(message) < 2 THEN ShiftLeft(state, 8) \cup Bits(b)
                ELSE Fed(state, Bits(b))
    /\ check' = Checking(check, Bits(b))
    /\ UNCHANGED <<object, odd>>

\* ProcessBits ends with up to seven single bits.
ProcessBit(bit) ==
    /\ odd < MaxOdd
    /\ odd' = odd + 1
    /\ crc' = AfterBit(crc, bit)
    /\ serial' = AfterBit(serial, bit)
    /\ UNCHANGED <<object, message, state, check>>

CrcNext ==
    \/ \E b \in Bytes : ProcessByte(b)
    \/ \E bit \in BOOLEAN : ProcessBit(bit)

CrcSpec == CrcInit /\ [][CrcNext]_crcVars

-----------------------------------------------------------------------------

\* What Calc returns for the message.
Calc == Finalize(crc)

\* What CHECK_FIRECODE is left with after the message and then a checksum.
Checked(sum) == Fed(Fed(state, ShiftRight8(sum)), Low(sum))

\* Broken on purpose: the checksum is not compared inverted.
CheckedUninverted(sum) == check = sum

\* Whether CRC_CCITT_CHECK takes the message with a checksum.
CRC_CCITT_CHECK(sum) == check = Xor(sum, Ones)

\* The table gives for a byte what its eight bits give one by one, for all three
\* polynomials, so that ProcessBits may go on by bits where it stopped by bytes.
TableIsBitwise == crc = serial

\* CHECK_FIRECODE, whose register the bytes enter at the other end and whose table
\* was typed in, takes exactly the frames that CalcCRC_FIRE_CODE would: it is left
\* with zero after a message and its checksum, and with something else where a bit
\* of the checksum differs.
FireCodeAgrees ==
    object = FIRE_CODE /\ odd = 0 /\ Len(message) >= 2 =>
        /\ Checked(Calc) = {}
        /\ \A k \in 0..15 : Checked(Xor(Calc, {k})) # {}

\* CRC_CCITT_CHECK, with the other table that was typed in, takes an access unit
\* with exactly the checksum that CalcCRC_CRC16_CCITT would compute for it.
AuChecksumAgrees ==
    object = CRC16_CCITT /\ odd = 0 =>
        /\ CRC_CCITT_CHECK(Calc)
        /\ \A k \in 0..15 : ~CRC_CCITT_CHECK(Xor(Calc, {k}))

=============================================================================
