\* Four channels, two in each frame, one retry, and a queue for one frame.
CONSTANTS
    NumCh = 4
    Retries = 1
    QCap = 1
SPECIFICATION Spec
INVARIANTS TypeOK SoundIsAligned
PROPERTIES KeepsScanning
