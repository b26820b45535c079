\* A consistent multiplex received in any order, with repetitions and resets.
CONSTANTS
    Sids <- MCSids
    Subchids <- MCSubchids
    Scids <- MCScids
    Labels <- MCLabels
    Orgs <- MCOrgs
    Languages <- MCLanguages
    Ptys <- MCPtys
    AsuFlags <- MCAsuFlags
    Cids <- MCCids
    Switchings <- MCSwitchings
    Regions <- MCRegions
    EIds <- MCEIds
    Dates <- MCDates
    UaData <- MCUaData
    None = None
    Broadcast <- MCBroadcast
INVARIANTS
    DatabaseIsKnowledge
PROPERTIES
    RepeatIsSilent
SPECIFICATION KnowledgeSpec
