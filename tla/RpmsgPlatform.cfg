\* Both boot paths, both SoCs, every call may fail; the two services of
\* main-app are interchangeable.
CONSTANTS
    Service = {keepalive, can_gw}
    MayFail = TRUE
    keepalive = keepalive
    can_gw = can_gw
SPECIFICATION Spec
CHECK_DEADLOCK FALSE
INVARIANTS TypeOK VringsOfLinux KicksStop NoLostKick
PROPERTIES LatchSpec EveryoneAnswered KickAnswered EveryoneBound
