CONSTANTS
    Boomerang = {1, 2}
    ForwardQuery = {"seed", "other"}
    seed = "seed"
    Node = {"n", "m"}
    StmtOf <- MCStmtOf
    Stmt = {"n", "m"}
    Fact = {"alloc"}
    Target = {"alloc", "generated"}
    FactOf <- MCFactOf
    NoFact = "none"
    Weight <- MCWeight
    One <- Id
    CombineWith <- MCUnion
    NoWeight <- MCNoWeight
    FieldEvents <- MCFields
    CallEvents <- MCCalls
    Rule <- MCRule
    Connects <- MCConnects
    timeouts = TRUE
SPECIFICATION FairSpec
INVARIANTS PotentialComplete WeakUpdatesExact StrongOnlyIfSure WatchRuns
PROPERTIES RunReturns
CHECK_DEADLOCK FALSE
