\* Safety of a scan of two frequencies, tuning failures and a reconfiguration included.
CONSTANTS
    Sids <- MCSids
    Subchids <- MCSubchids
    Scids <- MCScids
    Labels <- MCLabels
    Orgs <- MCOrgs
    Languages <- MCLanguages
    Ptys <- MCPtys
    AsuFlags <- MCAsuFlags
    Cids <- MCCids
    Switchings <- MCSwitchings
    Regions <- MCRegions
    EIds <- MCEIds
    Dates <- MCDates
    UaData <- MCUaData
    None = None
    NumFreqs = 2
    QuietReads = 2
    OnAir <- MCOnAir
    AdcMayFail = TRUE
    Texts <- MCTexts
    Utf8 <- MCUtf8
SPECIFICATION Spec
\* The scan is over at some point.
CHECK_DEADLOCK FALSE
INVARIANTS
    TypeOK
    ListedIsCurrent
    EnsembleLabelIsCurrent
PROPERTIES
    ImplementsPlaylist
