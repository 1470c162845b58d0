SPECIFICATION Spec
CONSTANTS
    Dummies = 0
    Keywords = 1
    Standard = 1
    MaxTok = 3
    MaxStack = 4
    MaxParams = 1
    MaxLive = 2
INVARIANTS TypeOK DefinesLive ParamsBelow ParamsOwned OwnTable
PROPERTIES UnitFrame MacroEnvSpec
CHECK_DEADLOCK FALSE
