SPECIFICATION Spec
CONSTANTS
    Modes = {"memory", "postgres"}
    Serial = FALSE
    Sessions = {"s"}
    Requests = {1, 2}
    Batch <- MCCross
    Owner <- MCOwner
    MaxTries <- FirstTwice
    Capacity = 3
    EventLimit = 1
    SampleStep = 5
    CooldownWindowMs = 30000
    Catalog <- MCCatalog
    None = None
    DetectTrack <- MCDetectTrack
INVARIANTS TypeOK EffectiveLayoutInCatalog AcceptedIsStored
PROPERTIES RecheckKeepsFinishedClosed LapFirstReportWins DetectionFirstWins
CHECK_DEADLOCK FALSE
