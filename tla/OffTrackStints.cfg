SPECIFICATION Spec
CONSTANTS
    Batches <- MCBatches
    FramePeriodMs = 300
    MaxFrames = 7
INVARIANTS EventsAreOffTrack OpenStintReported
CHECK_DEADLOCK FALSE
