CONSTANTS
    W = 4
    Avoided = {"unsigned"}
SPECIFICATION Spec
INVARIANTS Computes SameWhenConstant
CHECK_DEADLOCK FALSE
