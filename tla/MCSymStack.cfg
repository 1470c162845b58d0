SPECIFICATION Spec
CONSTANTS
    Names = {n1, n2}
    Addr = {a1, a2, a3, a4, a5}
    NULL = NULL
    MaxBlocks = 1
    MaxGlobals = 3
    MaxResidue = 1
SYMMETRY Symmetry
INVARIANTS ScopeRule
PROPERTIES BlockRestores InlineCompiled InlineShrinks
CHECK_DEADLOCK FALSE
