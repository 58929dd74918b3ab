SPECIFICATION Spec
CONSTANTS
    robot = robot
    imu = imu
    actions = actions
    Objects = {robot, imu, actions}
    Kind <- ThreeKinds
    Backends = {"physx", "ovphysx", "newton"}
    Switch = FALSE
    MayFail = {robot}
    MaxIds = 8
    MaxGui = 1
CHECK_DEADLOCK FALSE
INVARIANTS
    HandlesAreOwn
    ReadyIsCurrent
    ResetLeavesAllReady
    FailuresReported
    InvalidAfterClose
