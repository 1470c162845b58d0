CONSTANTS
    Fn = {"f", "g"}
    Var = {"v"}
    Static = {"f", "v"}
    Extern = {"f"}
    Size <- MCSize
    CodeSize = {1, 2}
    elf_hash <- MCHash
    Avoided = {"used", "redefined", "tentative", "static", "output"}
    MaxUnits = 2
    MaxDefs = 3
    MaxRefs = 1
SPECIFICATION Spec
INVARIANTS TypeOK Found AsDefined Meant Disjoint
CHECK_DEADLOCK FALSE
