SPECIFICATION WorklistSpec
CONSTANTS
    Session = {s1, s2}
    Txn = {t1}
    Outcome = {o1, o2}
    Eligible <- AllEligible
    None = None
    MaxRuns = 2
    MaxActions = 4
SYMMETRY Interchangeable
CHECK_DEADLOCK FALSE
INVARIANTS
    ListedStateWasReal
    ResolvedItemHasOutcome
