\* The control and event paths under fairness, with driver calls that succeed.
SPECIFICATION SpecAcked
CONSTANTS
    Addr = {1}
    CanStates = {0, 3}
    Bitrates = {250, 500}
    DefaultBitrate = 500
    FlagSets = {{}, {"LOOPBACK"}, {"LISTENONLY", "ONESHOT"}}
    Kinds = {"frame", "bitrate", "mode", "start", "stop"}
    QCap = 1
    NumBufs = 4
    DriverMayFail = FALSE
    MaxFrames = 0
    MaxMsgs = 4
    MaxChanges = 2
    MaxBinds = 1
INVARIANTS
    NoLostWakeup
    RunsAsAsked
PROPERTIES
    MessagesHandled
    StateReported
CHECK_DEADLOCK FALSE
