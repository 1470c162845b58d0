CONSTANTS
    Idents <- MCIdents
    Punctuators = {"(", ")", ",", ";", ":", "{", "}", "#", "##", "num"}
    Wide = {"num"}
    Programs <- MCPrograms
    MaxUnits = 2
SPECIFICATION Spec
INVARIANTS Delivered Live
CHECK_DEADLOCK FALSE
