SPECIFICATION ExtractionSpec
CONSTANTS
    Upload = {u1}
    Job = {j1}
    Outputs <- LongOutputs
    NoUpload = NoUpload
    Nothing = Nothing
    MaxFields = 2
    MaxValueChars = 10
    ColumnChars = 4
    MaxInteger = 7
CHECK_DEADLOCK FALSE
INVARIANT MalformedOutputFailsTheRun
