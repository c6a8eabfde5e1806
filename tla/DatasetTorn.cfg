SPECIFICATION Spec
CONSTANTS
    NumInputs = 2
    Cases <- TwoCases
    NumPairs = 2
    NumTrials = 2
    Contents = {h1, h2}
    Distribution <- OneEach
    Databases <- ThreeDatabases
    Unset = Unset
    Budgets = {0, 1}
    Tears = TRUE
    MaxResumes = 1
    MaxChanges = 1
INVARIANT ResumeReadable
