\* The data and event paths, with driver calls that may fail.
SPECIFICATION Spec
CONSTANTS
    Addr = {1, 2}
    CanStates = {0, 3}
    Bitrates = {500}
    DefaultBitrate = 500
    FlagSets = {{}}
    Kinds = {"frame", "start", "stop"}
    QCap = 2
    NumBufs = 2
    DriverMayFail = TRUE
    MaxFrames = 4
    MaxMsgs = 3
    MaxChanges = 1
    MaxBinds = 2
INVARIANTS
    TypeOK
    FramesAccounted
    PeerCurrent
    PeerBeforeFrames
    StartedMeansRunning
PROPERTY FifoSpec
CHECK_DEADLOCK FALSE
