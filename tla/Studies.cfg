SPECIFICATION Spec
CONSTANTS
    EntityLimit = 5
    EvidenceLimit = 10
    PartyLimit = 3
    NoOrder = NoOrder
    None = None
    Runs = {s1, s2}
    First = 1
    Selections <- MCSelections
    Databases <- MCDatabases
    Predictions <- MCPredictions
    MaxImports = 1
    MaxStudies = 1
INVARIANTS
    MessagesGrounded
    LabelsFit
PROPERTY KeepsPromise
SYMMETRY MCSymmetry
CHECK_DEADLOCK FALSE
