CONSTANTS
    Stmt = {"o", "u", "b", "zy", "yf", "zf", "e"}
    Val = {"x", "y", "z", "v"}
    Field = {"f"}
    EpsField = "eps"
    EmptyField = "empty"
    AnyField = "any"
    AllBut <- MCAllBut
    Instr <- MCInstr
    SuccsOf <- MCSuccsOf
    Entry <- MCEntry
SPECIFICATION FairSpec
INVARIANT NoneMissed
CHECK_DEADLOCK FALSE
