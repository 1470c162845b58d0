SPECIFICATION Spec
CONSTANTS
    Fn = {f, g}
    Extern = {}
    Types = {"memory", "exe"}
    MaxHandles = 2
    MaxDefs = 2
    MaxCommands = 1
SYMMETRY Symmetry
INVARIANTS CommandsOwn CommandsCurrent
CHECK_DEADLOCK FALSE
