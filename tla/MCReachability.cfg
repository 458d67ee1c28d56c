CONSTANTS
    State <- MCState
    Label = {"eps", "f"}
    Continue = {"eps"}
    Seeds <- MCSeeds
    Listener = {"l", "m"}
    Watches <- MCWatches
SPECIFICATION FairSpec
INVARIANTS ToldOnlyReachable ToldAllReachable
PROPERTIES CallsReturn
CHECK_DEADLOCK FALSE
