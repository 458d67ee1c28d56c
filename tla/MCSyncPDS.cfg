CONSTANTS
    Stmt = {"s", "j", "e", "m", "r"}
    Fact = {"u", "x"}
    Field = {"f", "g"}
    EpsStmt = "epsStmt"
    EpsField = "eps"
    EmptyField = "empty"
    AnyField = "any"
    AllBut <- MCAllBut
    Successors <- MCSuccessors
    InitialNode <- MCInitialNode
    Starts <- MCStarts
    StateListener = {"j", "e"}
    ListensAt <- MCListensAt
SPECIFICATION FairSpec
INVARIANTS Synchronized ComputedOnce ToldAsDue OrderIndependent
PROPERTIES CallsReturn
CHECK_DEADLOCK FALSE
