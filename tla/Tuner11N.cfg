\* Channel 11N, as the scanner's table gives it.
CONSTANTS
    Frequencies = {217008}
    SubChannels = {1}
    AdcMayFail = FALSE
SPECIFICATION Spec
INVARIANT ReceivesRequested
