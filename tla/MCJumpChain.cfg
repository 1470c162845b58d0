CONSTANTS
    Operands <- MCOperands
    Tests <- MCTests
    Conditions <- MCConditions
    MaxCode = 6
    MaxOpen = 2
SPECIFICATION Spec
INVARIANTS TypeOK Threaded Arrives TestsRight
CHECK_DEADLOCK FALSE
