\* can_stop fails and its result is not looked at.
SPECIFICATION Spec
CONSTANTS
    Addr = {1}
    CanStates = {0, 3}
    Bitrates = {250, 500}
    DefaultBitrate = 500
    FlagSets = {{}}
    Kinds = {"bitrate", "start", "stop"}
    QCap = 1
    NumBufs = 2
    DriverMayFail = TRUE
    MaxFrames = 0
    MaxMsgs = 3
    MaxChanges = 0
    MaxBinds = 1
INVARIANT AppliedWhileStopped
CHECK_DEADLOCK FALSE
