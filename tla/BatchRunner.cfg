SPECIFICATION FairSpec
CONSTANTS
    Cases = {c1, c2, c3}
    Limit = 2
    Undefined = Undefined
INVARIANTS
    TypeOK
    NoStaleOutput
    TraceHonest
    ExitHonest
PROPERTY BatchEnds
