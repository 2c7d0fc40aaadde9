SPECIFICATION Spec
CONSTANTS
    Modes = {"memory"}
    Serial = FALSE
    Sessions = {"s"}
    Requests = {1}
    Batch <- MCCross
    Owner <- MCOwner
    MaxTries <- Once
    Capacity = 3
    EventLimit = 1
    SampleStep = 5
    CooldownWindowMs = 30000
    Catalog <- MCCatalog
    None = None
    DetectTrack <- MCDetectTrack
PROPERTIES FinishedTakesNoFrames
CHECK_DEADLOCK FALSE
