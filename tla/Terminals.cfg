\* Two processes whose buffers compete for one frame.
SPECIFICATION TermSpec
CONSTANTS
    Asid = {u1, u2}
    Process = {u1, u2}
    Page <- MCPage
    POOLSIZE = 1
    IOErrors = FALSE
    MaxLen = 2
    TransmitErrors = FALSE
    Semaphore <- MCSemaphore
    swapPoolSemaphore = swapPoolSemaphore
    readTermsemaphore = readTermsemaphore
    writeTermsemaphore = writeTermsemaphore
    NULL = NULL
    OUT = OUT
SYMMETRY Symmetry
INVARIANTS
    TerminalExclusive
    OneDriver
    TrueStatus
CHECK_DEADLOCK FALSE
