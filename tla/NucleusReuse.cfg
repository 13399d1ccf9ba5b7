SPECIFICATION Spec
CONSTANTS
    Pcb = {b1, b2, b3}
    NULL = NULL
    UserSem = {s1, s2}
    Device = {d1, d2}
    PseudoClock = clock
    Prio = {0, 1}
    Supports = {sup}
    MaxPid = 5
    MaxVal = 1
SYMMETRY Symmetry
CHECK_DEADLOCK FALSE
INVARIANTS
    TypeOK
    OnePlace
    CountersExact
    KernelSemaphores
    UserSemaphores
    BlockedSaved
    CpuVerdict
PROPERTIES
    UnsavedSurvived
    TurnTaking
    HighestFirst
    AbstractSemaphores
