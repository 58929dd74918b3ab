SPECIFICATION FairSpec
CONSTANTS
    Configs <- AllConfigs
    NumDemos = 2
    MaxCommands = 4
    MaxFaults = 3
    None = None
CHECK_DEADLOCK FALSE
INVARIANTS
    AcceptedCommandHolds
    ScriptFollowsManager
    InjectedResetDelivered
    NoResetLoop
    ResetsAnswered
PROPERTIES
    SessionReturns
