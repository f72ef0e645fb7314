SPECIFICATION CaptureSpec
CONSTANTS
    MaxMails = 2
    ChunkSize = 2
    QueueMax = 2
    PenMax = 2
    MaxPassCuts = 0
CHECK_DEADLOCK FALSE
INVARIANTS RefusedStaysHeld
