SPECIFICATION FairSpec
CONSTANTS
    EntityLimit = 5
    EvidenceLimit = 10
    PartyLimit = 3
    NoOrder = NoOrder
    Databases <- FourDatabases
    MaxImports = 2
INVARIANTS
    TypeOK
    NeverIncomplete
    OutputVerified
    StableNeverRepaired
    ConfidenceHonest
    SilentOnlyAfterRepair
    DecisionCurrent
PROPERTIES
    KeepsPromise
    CaseEnds
