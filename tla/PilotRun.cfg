SPECIFICATION Spec
CONSTANTS
    EntityLimit = 5
    EvidenceLimit = 10
    PartyLimit = 3
    NoOrder = NoOrder
    None = None
    Absent = Absent
    Part = Part
    Distribution <- MCDistribution
    Orders = {1, 2, 3, 4, 5}
    Tables <- MCTables
    Behaviours <- MCBehaviours
    MaxChanges = 1
INVARIANTS
    PilotAccepts
    SummaryAddsUp
