SPECIFICATION CasesFairSpec
CONSTANTS
    Requests = {q1, q2, q3}
    Capacity = 2
INVARIANTS
    Contiguous
PROPERTIES
    NeverReplaced
    RequestsEnd
