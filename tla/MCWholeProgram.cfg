CONSTANTS
    Stmt = {"o", "p", "pq", "b", "pg", "yf", "qf", "qg", "tf", "e",
            "h", "n", "nf", "c", "hf", "cf"}
    Val = {"x", "p", "q", "y", "t", "v", "h", "n", "c"}
    Field = {"f", "g"}
    EpsField = "eps"
    EmptyField = "empty"
    AnyField = "any"
    AllBut <- MCAllBut
    Instr <- MCInstr
    SuccsOf <- MCSuccsOf
    Entry <- MCEntry
SPECIFICATION MCSpec
INVARIANTS ImportsClosed NoneMissed NothingInvented
PROPERTY SolvesReturn
CHECK_DEADLOCK FALSE
