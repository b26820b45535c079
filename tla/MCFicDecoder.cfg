\* Every handler that can change what one service is listed as, in any order.
CONSTANTS
    Sids <- MCSids
    Subchids <- MCSubchids
    Scids <- MCScids
    Labels <- MCLabels
    Orgs <- MCOrgs
    Languages <- MCLanguages
    Ptys <- MCPtys
    AsuFlags <- MCAsuFlags
    Cids <- MCCids
    Switchings <- MCSwitchings
    Regions <- MCRegions
    EIds <- MCEIds
    Dates <- MCDates
    UaData <- MCUaData
    None = None
SPECIFICATION FicSpec
CONSTRAINT MCBound
INVARIANTS
    FicTypeOK
    PrimaryHasComponent
PROPERTIES
    NoSilentChange
