CONSTANTS
    MaxStack = 3
    MaxBranch = 0
    Leaves = {"int", "ll", "gint", "gll", "kint", "kll"}
    IntOps = {"+", "-", "*", "/", "%", "<<", "cmp"}
    LongOps = {"+", "*", "/"}
    Calls <- AllCalls
    Avoided = {"sizeof", "stmt_expr", "shift"}
SPECIFICATION Spec
INVARIANTS TypeOK Held Stored TestsAndCallsRight
CHECK_DEADLOCK FALSE
