\* Corrections, decisions and approvals of one extraction run racing each other.
SPECIFICATION Spec
CONSTANTS
    Session = {s1, s2, s3}
    Extraction = {e1}
    Field = {f1, f2}
    Decision = {d1, d2}
    Reviewer = {accountant}
    Senior = {}
    Verdicts <- EvidenceVerdicts
    None = None
    MaxClock = 4
    MaxHistory = 2
SYMMETRY InterchangeableDecisions
INVARIANTS
    TypeOK
    ApprovalsMatchEvidence
    RevisionsGapless
    OneOutcomePerTerminalTask
CHECK_DEADLOCK FALSE
