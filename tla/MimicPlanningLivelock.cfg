SPECIFICATION FairSpec
CONSTANTS
    Envs = {e1, e2}
    NumTrials = 2
    Configs <- SkillgenConfigs
    MayFail = FALSE
    MaxSteps = 1
    MaxFailures = 3
PROPERTIES
    StopsAfterEnoughAttempts
