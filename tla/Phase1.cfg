SPECIFICATION Spec
CONSTANTS
    MAXPROC = 3
    Key = {1, 2}
    Prio = {0, 1}
INVARIANTS
    TypeOK
    WellLinked
    TreeLinks
    Descriptors
    DescriptorLeft
PROPERTIES
    Implements
