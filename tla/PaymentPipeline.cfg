SPECIFICATION Spec
CONSTANTS
    None = None
    Text <- SampleText
    Blank <- SampleBlank
    Lexicon <- SampleLexicon
    Directory <- SampleDirectory
    MaxMoney = 11
    Adjustment = 0
    ExtractionRun = {"a", "b", "c"}
    DocumentOf <- SampleDocument
    Hash <- SampleHash
    Extracted <- SampleExtracted
    Corrections <- SampleCorrections
    Txn = {"named", "bare"}
    Bank <- SampleBank
    PriorLimit = 1
    MaxDecisions = 3
    MaxApprovals = 2
    MaxCorrections = 2
    MaxClock = 3
    MaxMatchRuns = 2
CHECK_DEADLOCK FALSE
INVARIANTS
    TypeOK
    CandidatesAreThePayments
    RankedByEvidence
    RankingIsStable
    TwinsAreFlagged
    RepeatedApprovalsAgree
