SPECIFICATION ExtractionSpec
CONSTANTS
    Upload = {u1, u2}
    Job = {j1}
    Outputs <- SampleOutputs
    NoUpload = NoUpload
    Nothing = Nothing
    MaxFields = 2
    MaxValueChars = 4
    ColumnChars = 4
    MaxInteger = 7
CHECK_DEADLOCK FALSE
SYMMETRY Interchangeable
INVARIANTS
    ExtractionTypeOK
    ExtractedFromCleanSource
    OutputIsRecorded
    OnlyCleanAccepted
    StoredAnswerIsDurable
    DocumentNamesItsFile
    NoLeftoverFile
