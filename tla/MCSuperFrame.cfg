\* What is forwarded of super frames with bursts of wrong bytes and PAD.
CONSTANTS
    Bitrates <- MCBitrates
    Layouts <- MCLayouts
    PadSizes <- MCPadSizes
    Bursts <- MCBursts
SPECIFICATION Spec
INVARIANTS
    TypeOK
    InBounds
    StartsAreSent
    OnlySentAus
    NothingLost
