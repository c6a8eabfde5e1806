SPECIFICATION ClientFairSpec
CONSTANTS
    Calls = {a1, a2, s1}
    Studies = {s1}
    Slots = 1
    Attempts = 2
INVARIANTS
    ClientTypeOK
    FailsForCause
PROPERTY CallsEnd
