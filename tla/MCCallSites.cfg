CONSTANTS
    Query = {"a", "b", "back"}
    ForwardQuery = {"a", "b"}
    Stmt = {"call", "exit"}
    Val = {"x", "y", "g"}
    StaticVal = {"g"}
    ExitStmt = {"exit"}
    SuccsOf <- MCSuccs
    Field = {"f", "empty"}
    EmptyField = "empty"
    Epsilon = "eps"
    AsNode <- MCAsNode
    StartsAt <- MCStartsAt
    Found <- MCFound
SPECIFICATION FairSpec
INVARIANTS ImportsExact PairedOnce
PROPERTIES CallsReturn
CHECK_DEADLOCK FALSE
