SPECIFICATION Spec
CONSTANTS
    A = "A"
    B = "B"
    Macros = {"A", "B"}
    Headers = {"a", "b"}
    Main = "main"
    Sources <- MCSources
    MaxLines = 4
    INCLUDE_STACK_SIZE = 2
    IFDEF_STACK_SIZE = 3
    MaxUnits = 2
    Steps <- Enough
INVARIANTS TypeOK IfdefNested Transparent Accepted
PROPERTIES Terminates
CHECK_DEADLOCK FALSE
