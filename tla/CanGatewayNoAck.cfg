\* Nobody on the bus acknowledges: can_send does not return.
SPECIFICATION FairSpec
CONSTANTS
    Addr = {1}
    CanStates = {0, 3}
    Bitrates = {250, 500}
    DefaultBitrate = 500
    FlagSets = {{}}
    Kinds = {"frame", "start", "stop"}
    QCap = 1
    NumBufs = 2
    DriverMayFail = FALSE
    MaxFrames = 0
    MaxMsgs = 3
    MaxChanges = 0
    MaxBinds = 1
PROPERTY MessagesHandled
CHECK_DEADLOCK FALSE
