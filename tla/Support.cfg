\* The shell and two programs on two frames.
SPECIFICATION FairSupportSpec
CONSTANTS
    Asid = {shell, u2, u3}
    Test = test
    Shell = shell
    Process <- MCProcess
    Page <- MCPage
    POOLSIZE = 2
    IOErrors = FALSE
    Semaphore <- MCSemaphore
    swapPoolSemaphore = swapPoolSemaphore
    masterSemaphore = masterSemaphore
    shellSemaphore = shellSemaphore
    NULL = NULL
    OUT = OUT
INVARIANTS
    ShellWaits
    NothingLeft
PROPERTIES
    NoneCutShort
    EndsTogether
CHECK_DEADLOCK FALSE
