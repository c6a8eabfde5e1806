SPECIFICATION FairSpec
CONSTANTS
    NumInputs = 2
    Cases <- TwoCases
    NumPairs = 2
    NumTrials = 2
    Contents = {h1}
    Distribution <- OneEach
    Databases <- ThreeDatabases
    Unset = Unset
    Budgets = {0, 1}
    Tears = TRUE
    MaxResumes = 3
    MaxChanges = 2
INVARIANTS
    CaseFromOneAttempt
    ManifestHonest
    LabelFits
PROPERTIES
    KeepsPromise
    RunSettles
