SPECIFICATION FairSpec
CONSTANTS
    Sessions = {s1, s2}
    Requests = {r1, r2, r3}
    NoRequest = NoRequest
    Batches <- MCBatches
    Inputs <- MCInputs
    LockKeys <- MCKeys
    Hash <- MCHash
INVARIANTS DenseBatchIndex NoLostRace
PROPERTIES FinishedIsFrozen ImplementsFrameLog AppendReturns
CHECK_DEADLOCK FALSE
