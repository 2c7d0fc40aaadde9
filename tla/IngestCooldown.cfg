SPECIFICATION Spec
CONSTANTS
    Modes = {"postgres"}
    Serial = TRUE
    Sessions = {"s"}
    Requests = {1, 2}
    Batch <- MCSlow
    Owner <- MCOwner
    MaxTries <- Once
    Capacity = 100
    EventLimit = 100
    SampleStep = 5
    CooldownWindowMs = 30000
    Catalog <- MCCatalog
    None = None
    DetectTrack <- MCDetectTrack
INVARIANTS CooldownOnDocumentedKey
CHECK_DEADLOCK FALSE
