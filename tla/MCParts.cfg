\* A buffer of three bytes, LATM frames, checksums of three bytes that
\* look up every entry of the typed tables, blocks of two
\* FIBs, the days of 105 years.
CONSTANTS
    Byte = {0, 1}
    Capacity = 3
    MaxBytes = 4
    Aus <- MCAus
    Bytes = {0, 1, 2, 3, 4, 5, 6, 7, 8, 9, 10, 11, 12, 13, 14, 15}
    MaxLen = 3
    MaxOdd = 1
    Blocks <- MCBlocks
    Transfers <- MCTransfers
    Unset <- MCUnset
    Years <- MCYears
    SizeMax = 4095
SPECIFICATION Spec
\* A message of full length with its single bits comes to an end,
\* and so do the years.
CHECK_DEADLOCK FALSE
INVARIANTS
    BufferTypeOK
    SizeIsDistance
    LatmTypeOK
    RestIsZero
    ReadsBack
    NeverShort
    TableIsBitwise
    FireCodeAgrees
    AuChecksumAgrees
    OnlyTransferred
    EveryFigOnce
    DateIsCalendar
PROPERTIES
    ImplementsQueue
