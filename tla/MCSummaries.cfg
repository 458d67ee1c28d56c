CONSTANTS
    one = one
    two = two
    own = own
    Solver = {one, two, own}
    Control <- MCControl
    Label = {"a", "b", "c", "d", "e", "f", "g", "r", "eps"}
    Eps = "eps"
    Rules <- MCRules
    CreateState <- MCCreateState
    Generated <- MCGenerated
    Initial <- MCInitial
    FactOf <- MCFactOf
    SolverStarts <- MCSolverStarts
SPECIFICATION MCSpec
INVARIANTS SummariesExact HandedOn ReturnsReported
PROPERTIES SummariesReturn
CHECK_DEADLOCK FALSE
