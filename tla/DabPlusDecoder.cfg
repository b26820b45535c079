\* Frames of two bytes; calls bring fewer bytes than a frame, as many or more.
CONSTANTS
    FrameSize = 2
    MaxChunk = 3
SPECIFICATION FairSpec
INVARIANTS
    TypeOK
    CountsAgree
    ResumesInStep
PROPERTIES
    StaysInStep
    Recovers
