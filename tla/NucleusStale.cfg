SPECIFICATION Spec
CONSTANTS
    Pcb = {b1, b2, b3}
    NULL = NULL
    UserSem = {s1}
    Device = {d1}
    PseudoClock = clock
    Prio = {0, 1}
    Supports = {}
    MaxPid = 4
    MaxVal = 1
SYMMETRY Symmetry
CHECK_DEADLOCK FALSE
INVARIANT
    ReadySaved
