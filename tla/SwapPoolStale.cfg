\* Two processes; the flash devices may fail.
SPECIFICATION Spec
CONSTANTS
    Asid = {u1, u2}
    Process = {u1, u2}
    Page <- MCPage
    POOLSIZE = 2
    IOErrors = TRUE
    Semaphore <- MCSemaphore
    swapPoolSemaphore = swapPoolSemaphore
    NULL = NULL
    OUT = OUT
SYMMETRY Symmetry
INVARIANT
    TableExact
