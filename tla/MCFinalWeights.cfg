CONSTANTS
    State = {"init", "g", "h", "x"}
    Generated = {"g", "h"}
    initialState = "init"
    Transition <- MCTransition
    Weight <- TransitionFunction
    One <- one
    Extend <- ExtendWith
    Combine <- CombineWith
    Seeds <- MCSeeds
    TypeState = {"init", "open"}
    startState = "init"
    Identity = Identity
    Matcher <- MCMatcher
    Method = {"open", "close"}
SPECIFICATION FairSpec
INVARIANTS FinalWeightsExact FinalStatesExact
PROPERTIES CallsReturn
CHECK_DEADLOCK FALSE
