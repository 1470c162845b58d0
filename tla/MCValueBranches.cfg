CONSTANTS
    MaxStack = 3
    MaxBranch = 1
    Leaves = {"kint"}
    IntOps = {"/", "cmp"}
    LongOps = {"+"}
    Calls <- OneCall
    Avoided = {"sizeof", "stmt_expr", "shift"}
SPECIFICATION Spec
INVARIANT Held
PROPERTY SameOnAllWays
CHECK_DEADLOCK FALSE
