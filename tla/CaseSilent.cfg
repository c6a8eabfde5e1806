SPECIFICATION Spec
CONSTANTS
    EntityLimit = 5
    EvidenceLimit = 10
    PartyLimit = 3
    NoOrder = NoOrder
    Databases <- AllDatabases
    MaxImports = 1
INVARIANT FailureTraced
