\* The same with read_async (CONFIG_ADC_ASYNC).
CONSTANTS
    a = a
    b = b
    Callers = {a, b}
    NumCh = 2
    Gains = {"2/5"}
    Requests <- MCRequests
    Modes = {FALSE, TRUE}
    MaxRequested = 3
    MaxRepeats = 1
SPECIFICATION Spec
INVARIANTS WriteOutOfRead
