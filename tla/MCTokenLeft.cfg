CONSTANTS
    Idents <- MCIdents
    Punctuators = {"(", ")", ",", ";", ":", "{", "}", "#", "##", "num"}
    Wide = {"num"}
    Programs <- OneProgram
    MaxUnits = 2
SPECIFICATION Spec
INVARIANT OwnTokens
CHECK_DEADLOCK FALSE
