SPECIFICATION Spec
CONSTANTS
    Replicas = {r1, r2}
    MigrationCount = 2
    Tracks = {t1, t2}
    Clients = {c1, c2}
    MaxFaults = 2
INVARIANTS ServingHasSchema FinishedOnce
PROPERTIES FinishLearned
CHECK_DEADLOCK FALSE
