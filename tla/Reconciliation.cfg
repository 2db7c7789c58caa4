SPECIFICATION Spec
CONSTANTS
    Session = {s1, s2}
    Txn = {t1, t2}
    Outcome = {o1, o2}
    Eligible <- AllEligible
    None = None
    MaxRuns = 2
    MaxActions = 3
SYMMETRY Interchangeable
CHECK_DEADLOCK FALSE
INVARIANTS
    TypeOK
    MatchIsOneToOne
    ResolutionFollowsReview
    ActionsReplay
PROPERTIES
    EvidenceIsFrozen
    ImplementsLedger
