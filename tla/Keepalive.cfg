\* Two buffers stand for eight: the ring is full after one CAN message more.
CONSTANTS
    Addr = {1, 2}
    PERIOD = 2
    PauseAt = 1
    PauseLen = 1
    NumBufs = 2
    MaxTime = 8
    MaxBinds = 2
    MaxCan = 1
SPECIFICATION SpecAcked
CHECK_DEADLOCK FALSE
INVARIANTS TypeOK NeverAhead
PROPERTIES GapsAreLosses FollowsModule
