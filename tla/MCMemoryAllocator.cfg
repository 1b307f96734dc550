\* Two processes, memories of 0 and 5 bytes, at most five blocks; size_t is 4 bits wide.
SPECIFICATION Spec
CONSTANTS
    NULL = NULL
    Processes = {A, B}
    MemSizes <- MC_MemSizes
    Sizes <- MC_Sizes
    SIZE_MOD = 16
    Nodes = {n1, n2, n3, n4, n5}
SYMMETRY MC_Symmetry
INVARIANT ListTilesMemory
INVARIANT StrategiesChooseRightHole
PROPERTY ImplementsAddressSpace
