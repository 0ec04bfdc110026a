\* The whole of can-gw on a bus that need not acknowledge: one scan of the
\* converter, three frames of the bus at most, a queue of two, vrings of two
\* buffers, a platform that may fail.
SPECIFICATION AppFairSpec
CONSTANTS
    Addr = {1}
    CanStates = {3}
    Bitrates = {500}
    DefaultBitrate = 500
    FlagSets = {{}}
    Kinds = {"frame", "mode", "start", "stop"}
    QCap = 2
    NumBufs = 2
    DriverMayFail = TRUE
    MaxFrames = 3
    MaxMsgs = 2
    MaxChanges = 1
    MaxBinds = 1
    MaxScans = 1
INVARIANTS
    AppTypeOK
    ServedWhenRunning
PROPERTIES
    FifoSpec
    OnlyAdcLost
    HandledUnlessUnacked
CHECK_DEADLOCK FALSE
