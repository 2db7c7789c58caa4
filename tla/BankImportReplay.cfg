SPECIFICATION Spec
CONSTANTS
    Request = {r1, r2}
    Ref = {"A", "B", "C"}
    Source = {"x", "y", "z"}
    Value = {1, 2}
    Period = {1, 2}
    Batches <- SampleBatches
    None = None
CHECK_DEADLOCK FALSE
INVARIANTS
    ExactReplayReturnsIdentities
