SPECIFICATION Spec
CONSTANTS
    Batches <- MCBatches
    FramePeriodMs = 300
    MaxFrames = 7
INVARIANTS StintAcrossBatchesReported
CHECK_DEADLOCK FALSE
