CONSTANTS
    Solver = {"back", "forw"}
    Method = {"main", "callee", "other"}
    Work = {"use", "call", "enter", "static", "alloc", "alias", "flow", "return", "other"}
    MethodOf <- MCMethodOf
    Performs <- MCPerforms
    Queries <- MCQueries
    Options = {TRUE, FALSE}
SPECIFICATION FairSpec
INVARIANTS RunOnce NothingLost ForwardsKnow OrderIndependent
PROPERTIES SolvesReturn
CHECK_DEADLOCK FALSE
