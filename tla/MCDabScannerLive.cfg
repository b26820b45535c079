\* Every scan ends and attributes its services rightly when tuning succeeds.
CONSTANTS
    Sids <- MCSids
    Subchids <- MCSubchids
    Scids <- MCScids
    Labels <- MCLabels
    Orgs <- MCOrgs
    Languages <- MCLanguages
    Ptys <- MCPtys
    AsuFlags <- MCAsuFlags
    Cids <- MCCids
    Switchings <- MCSwitchings
    Regions <- MCRegions
    EIds <- MCEIds
    Dates <- MCDates
    UaData <- MCUaData
    None = None
    NumFreqs = 2
    QuietReads = 3
    OnAir <- MCSmallOnAir
    AdcMayFail = FALSE
    Texts <- MCTexts
    Utf8 <- MCUtf8
SPECIFICATION FairSpec
\* The scan is over at some point.
CHECK_DEADLOCK FALSE
INVARIANTS
    Attribution
PROPERTIES
    ScanCompletes
