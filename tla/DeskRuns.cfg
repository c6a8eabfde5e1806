SPECIFICATION PageSpec
CONSTANTS
    Runs = {r1, r2}
    MaxKills = 2
INVARIANTS
    RowHonest
    RunningAccounted
    DecisionGrounded
PROPERTIES
    SettledKept
    ShutdownEnds
