\* Two goroutines log three records each through a channel of two and a buffer of
\* two, so that the channel overflows and the buffer spills.
SPECIFICATION FairSpec
CONSTANTS
    w1 = w1
    w2 = w2
    Writers = {w1, w2}
    QueueSize = 2
    BufSize = 2
    MaxWrites = 3
CHECK_DEADLOCK FALSE
PROPERTIES
    ImplementsLossyLog
    CloseReturns
    EventuallyWritten
