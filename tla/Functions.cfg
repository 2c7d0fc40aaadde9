SPECIFICATION FunctionsSpec
CONSTANTS
    Steps = {50, 400}
    Distances = {0, 3, 7, 10}
    MaxFrames = 4
    MaxBody = 3
    MaxDrive = 6
    MaxList = 3
    MaxMetres = 20
    MaxBatchFrames = 3
    DayMs = 100
    DefaultListLimit = 2
    ZoneOffsetMs = 0
    MinMicroSectorPoints = 4
    MinCompletedLapFrames = 3
    ThrottleAppliedThreshold = 5
    TotalMeters = 7
    JitterToleranceMeters = 1
    MaxForwardDeltaMeters = 3
    MaxReverseDeltaMeters = 2
INVARIANTS
    DistanceAccounted
    DerivedRowsStable ExportExact BodyAccounted RuntimesAgree
    CatalogIsSound SanitizedManifest StartLineIsHarmless RuleEventsSound
    DetectionSound DetectionIsStable AdviceIsSound
CHECK_DEADLOCK FALSE
