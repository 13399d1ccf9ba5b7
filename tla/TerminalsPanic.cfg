\* Two processes; the transmitter may fail.
SPECIFICATION TermSpec
CONSTANTS
    Asid = {u1, u2}
    Process = {u1, u2}
    Page <- MCPage
    POOLSIZE = 1
    IOErrors = FALSE
    MaxLen = 2
    TransmitErrors = TRUE
    Semaphore <- MCSemaphore
    swapPoolSemaphore = swapPoolSemaphore
    readTermsemaphore = readTermsemaphore
    writeTermsemaphore = writeTermsemaphore
    NULL = NULL
    OUT = OUT
INVARIANT
    NoPanic
CHECK_DEADLOCK FALSE
