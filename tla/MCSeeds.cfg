CONSTANTS
    SootMethod = {"main", "run", "even", "odd", "lib", "libInit", "extra", "extraInit", "unused"}
    EntryPoints = {"main", "run"}
    Callees <- MCCallees
    Seeds <- MCSeedsOf
    ClassOf <- MCClassOf
    Initializers <- MCInitializers
    analyseClassInitializers = TRUE
SPECIFICATION SeedsFairSpec
INVARIANTS SeedsExact ScopeExact
CHECK_DEADLOCK FALSE
