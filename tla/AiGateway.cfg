SPECIFICATION FairSpec
CONSTANTS
    Modes = {"memory", "postgres"}
    Sessions = {"s"}
    Requests = {1, 2}
    Owner <- MCOwner
    TokenUnits = 2
    Burst = 1
    MaxAttempts = 2
    BaseBackoff = 1
    MaxBackoff = 1
    Second = 2
    MaxDuration = 3
    RetryAfters = {0, 1, 3}
    MaxTime = 2
INVARIANTS TypeOK RateBound CallsAreAdmitted UsageCountsAnswers AuditTellsOutcome
PROPERTIES RetryWaits RequestAnswered
CHECK_DEADLOCK FALSE
