\* The operations of two concurrent sessions on the task of one decision.
SPECIFICATION FairSpec
CONSTANTS
    Session = {s1, s2}
    Extraction = {e1}
    Field = {f1}
    Decision = {d1}
    Reviewer = {accountant, senior}
    Senior = {senior}
    Verdicts <- TaskVerdicts
    None = None
    MaxClock = 2
    MaxHistory = 5
INVARIANTS
    ApprovalAuthority
    HistoryReplays
PROPERTIES
    CommittedIsFinal
    ImplementsLifecycle
    EveryRequestEnds
CHECK_DEADLOCK FALSE
