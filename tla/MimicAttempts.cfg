SPECIFICATION FairSpec
CONSTANTS
    Envs = {e1, e2}
    NumTrials = 2
    Configs <- AttemptConfigs
    MayFail = TRUE
    MaxSteps = 2
    MaxFailures = 3
INVARIANTS
    QueuesMatchTasks
    EveryRowFilled
    EpisodeIsAttempt
    BooksBalance
    TargetDelivered
PROPERTIES
    NothingAfterFailure
    Terminates
    ImplementsLockstep
