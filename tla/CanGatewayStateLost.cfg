\* EVT_STATE finds no free buffer behind CAN frames.
SPECIFICATION SpecAcked
CONSTANTS
    Addr = {1}
    CanStates = {0, 3}
    Bitrates = {250, 500}
    DefaultBitrate = 500
    FlagSets = {{}}
    Kinds = {"start"}
    QCap = 1
    NumBufs = 1
    DriverMayFail = FALSE
    MaxFrames = 2
    MaxMsgs = 3
    MaxChanges = 1
    MaxBinds = 1
PROPERTY StateReported
CHECK_DEADLOCK FALSE
