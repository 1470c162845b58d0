SPECIFICATION Spec
CONSTANTS
    Names = {x, y}
    Addr = {a1, a2, a3, a4}
    NULL = NULL
    MaxBlocks = 2
    MaxRefs = 3
    MaxFunctions = 0
SYMMETRY Symmetry
INVARIANTS RefsBound Pooled
PROPERTIES Verdict
CHECK_DEADLOCK FALSE
