\* Every ADC clock, the channels past the gaps in the raster and the last one.
CONSTANTS
    Frequencies = {176640, 210096, 217008, 224096, 239200}
    SubChannels = {1, 2}
    AdcMayFail = FALSE
SPECIFICATION Spec
INVARIANTS
    TypeOK
    EveryAccessOnItsPage
    NearestChannel
    TuneIsComplete
    AudioIsRequested
