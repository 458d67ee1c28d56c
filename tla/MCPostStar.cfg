CONSTANTS
    State <- MCState
    Label <- MCLabel
    Wildcard <- MCWildcard
    Excludes <- MCExcludes
    Eps = "eps"
    Empties = {"eps", "none"}
    Generated <- MCGenerated
    CreateState <- MCCreateState
    Weight <- MCWeight
    One <- MCOne
    Extend <- MCExtend
    Combine <- MCCombine
    Rules <- MCRules
    Seeds <- MCSeeds
    Observed = {"weight", "connect", "unbalanced"}
SPECIFICATION MCSpec
INVARIANTS Saturated PushesConnected PopsReported
PROPERTIES WeightsOnlyImprove KeepsPromise CallsReturn
CHECK_DEADLOCK FALSE
