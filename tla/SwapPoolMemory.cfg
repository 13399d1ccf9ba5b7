\* Two processes with a data page and a stack page each, on three frames.
SPECIFICATION Spec
CONSTANTS
    Asid = {u1, u2}
    Process = {u1, u2}
    Page <- MCPage
    POOLSIZE = 3
    IOErrors = FALSE
    Semaphore <- MCSemaphore
    swapPoolSemaphore = swapPoolSemaphore
    NULL = NULL
    OUT = OUT
SYMMETRY Symmetry
INVARIANTS
    TypeOK
    TableExact
    TLBCoherent
    ReadsLastWrite
