SPECIFICATION Spec
CONSTANTS
    Modes = {"postgres"}
    Serial = TRUE
    Sessions = {"s"}
    Requests = {1, 2, 3, 4, 5}
    Batch <- MCLaps
    Owner <- MCOwner
    MaxTries <- Twice
    Capacity = 100
    EventLimit = 100
    SampleStep = 5
    CooldownWindowMs = 30000
    Catalog <- MCOneLayout
    None = None
    DetectTrack <- MCDetectTrack
INVARIANTS DerivedRowsExact
CHECK_DEADLOCK FALSE
