SPECIFICATION TestSpec
CONSTANTS
    Pcb = {1, 2, 3, 4, 5, 6, 7, 8, 9, 10, 11, 12, 13, 14, 15, 16, 17, 18, 19, 20}
    NULL = NULL
    UserSem <- TestSem
    Device = {"TERM0"}
    PseudoClock = "clock"
    Prio = {0, 1, 10}
    Supports = {"pFiveSupport"}
    MaxPid = 40
    MaxVal = 3
    Slices = 3
    Rounds = 2
    Yields = 1
CHECK_DEADLOCK FALSE
INVARIANTS
    FamilyTree
    ReadySaved
    ResetsIdle
    WaitersCounted

    
