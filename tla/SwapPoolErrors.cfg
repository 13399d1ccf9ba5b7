\* Three processes that share one frame; the flash devices may fail.
SPECIFICATION FairSpec
CONSTANTS
    Asid = {u1, u2, u3}
    Process = {u1, u2, u3}
    Page <- MCStack
    POOLSIZE = 1
    IOErrors = TRUE
    Semaphore <- MCSemaphore
    swapPoolSemaphore = swapPoolSemaphore
    NULL = NULL
    OUT = OUT
INVARIANTS
    PoolExclusive
    FrameExclusive
PROPERTY
    FaultServed
