\* Two threads that share the device, bipolar and unipolar ranges.
CONSTANTS
    a = a
    b = b
    Callers = {a, b}
    NumCh = 2
    Gains = {"2/5"}
    Requests <- MCRequests
    Modes = {FALSE}
    MaxRequested = 3
    MaxRepeats = 1
SPECIFICATION Spec
INVARIANTS TypeOK WriteOutOfRead InPlace DecodedRight ReadIsWhole
PROPERTIES ReadReturns
