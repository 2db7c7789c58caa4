SPECIFICATION Spec
CONSTANTS
    None = None
    Text <- SampleText
    Blank <- SampleBlank
    Lexicon <- SampleLexicon
    Directory <- SampleDirectory
    MaxMoney = 11
    Adjustment = 0
    ExtractionRun = {"a", "b"}
    DocumentOf <- SampleDocument
    Hash <- SampleHash
    Extracted <- SampleExtracted
    Corrections <- SampleCorrections
    Txn = {"named", "bare"}
    Bank <- SampleBank
    PriorLimit = 2
    MaxDecisions = 2
    MaxApprovals = 2
    MaxCorrections = 1
    MaxClock = 4
    MaxMatchRuns = 1
CHECK_DEADLOCK FALSE
INVARIANT DuplicatesFlaggedBeforeApproval
