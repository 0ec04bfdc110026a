\* Three messages of the client and three lines; the lines can use up the
\* two buffers of vring 1.
SPECIFICATION Spec
CONSTANTS
    COUNT = 3
    NumBufs = 2
    MaxLines = 3
INVARIANTS
    TypeOK
    BuffersAccounted
    NoMissedKick
PROPERTY EchoesAll
CHECK_DEADLOCK FALSE
