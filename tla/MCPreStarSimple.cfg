CONSTANTS
    State = {"1", "acc"}
    Label = {"1", "2", "3"}
    Wildcard = {}
    Weight = {"one"}
    One = "one"
    Zero = "one"
    Extend <- MCOne
    Combine <- MCOne
    Rules <- MCRules
    Initials <- MCInitials
SPECIFICATION Spec
INVARIANTS NormalRulesSaturated
CHECK_DEADLOCK FALSE
