SPECIFICATION FairSpec
CONSTANTS
    NumPolicies = 2
    Scores = {0, 1}
    ThresholdStd <- Std
    ThresholdAbs = 0
    KeepBack = 1
    MaxYaml = 2
    MaxIt = 3
    MayFail = {0}
    MaxFaults = 1
    None = None
    Empty = Empty
CHECK_DEADLOCK FALSE
INVARIANTS
    TypeOK
    DirectoryBounded
PROPERTIES
    ReliedUponKept
    PopulationAdvances
