---------------------------- MODULE LapContinuity ----------------------------
(***************************************************************************)
(* geometry.LapContinuityTracker: laps counted from projected distances.   *)
(* The length is one layout's; distances are integers.                     *)
(***************************************************************************)
EXTENDS Integers

CONSTANTS
    TotalMeters,            \* length of the layout
    JitterToleranceMeters,
    MaxForwardDeltaMeters,
    MaxReverseDeltaMeters

ASSUME LengthAssumption == TotalMeters \in Nat \ {0}
ASSUME OptionsAssumption ==
    /\ JitterToleranceMeters \in Nat
    /\ MaxForwardDeltaMeters \in Nat \ {0}
    /\ MaxReverseDeltaMeters \in Nat \ {0}

VARIABLES
    initialized, closed, lapCount, distance, totalForward,
    start,      \* history: where the current run of updates began
    reversed,   \* history: metres driven backwards
    lineBack    \* history: times the start line was crossed backwards

vars == <<initialized, closed, lapCount, distance, totalForward, start, reversed, lineBack>>

TypeOK ==
    /\ initialized \in BOOLEAN /\ closed \in BOOLEAN
    /\ lapCount \in Nat /\ totalForward \in Nat /\ reversed \in Nat /\ lineBack \in Nat
    /\ distance \in 0 .. TotalMeters /\ start \in 0 .. TotalMeters

Init ==
    /\ initialized = FALSE /\ closed = FALSE
    /\ lapCount = 0 /\ distance = 0 /\ totalForward = 0
    /\ start = 0 /\ reversed = 0 /\ lineBack = 0

\* Metres from one distance forward to another.
ForwardDelta(from, to) == IF to >= from THEN to - from ELSE TotalMeters - from + to

\* An open track clamps, a closed one wraps.
clampOpenDistance(d) == IF d < 0 THEN 0 ELSE IF d > TotalMeters THEN TotalMeters ELSE d

CurrentDistance(d, isClosed) == IF isClosed THEN d % TotalMeters ELSE clampOpenDistance(d)

\* Reset, or the first update on another kind of track.
Begin(d, isClosed) ==
    /\ ~initialized \/ closed # isClosed
    /\ initialized' = TRUE /\ closed' = isClosed
    /\ lapCount' = 0 /\ totalForward' = 0
    /\ distance' = CurrentDistance(d, isClosed)
    /\ start' = CurrentDistance(d, isClosed) /\ reversed' = 0 /\ lineBack' = 0

\* The two distances a measurement may mean, on either kind of track.
Forward(current) ==
    IF closed THEN ForwardDelta(distance, current) ELSE current - distance

Backward(current) ==
    IF closed THEN ForwardDelta(current, distance) ELSE distance - current

IsJitter(current) ==
    IF closed THEN \/ Forward(current) <= JitterToleranceMeters
                   \/ Backward(current) <= JitterToleranceMeters
    ELSE /\ Forward(current) <= JitterToleranceMeters
         /\ Backward(current) <= JitterToleranceMeters

IsForward(current) ==
    /\ ~IsJitter(current)
    /\ Forward(current) <= MaxForwardDeltaMeters
    /\ IF closed THEN Forward(current) < Backward(current) ELSE Forward(current) > 0

IsReverse(current) ==
    /\ ~IsJitter(current) /\ ~IsForward(current)
    /\ Backward(current) <= MaxReverseDeltaMeters
    /\ ~closed => Backward(current) > 0

\* Within the jitter the distance stays: small steps in one direction add up.
Jitter(d) ==
    /\ initialized
    /\ IsJitter(CurrentDistance(d, closed))
    /\ UNCHANGED vars

\* Faulty: a distance exactly on the line is not past it.
WrapsForwardLate(current) == closed /\ current < distance /\ current > 0

WrapsForward(current) == closed /\ current < distance

Advance(d) ==
    LET current == CurrentDistance(d, closed) IN
    /\ initialized
    /\ IsForward(current)
    /\ totalForward' = totalForward + Forward(current)
    /\ lapCount' = lapCount + (IF WrapsForward(current) THEN 1 ELSE 0)
    /\ distance' = current
    /\ UNCHANGED <<initialized, closed, start, reversed, lineBack>>

\* Backwards over the line takes no lap back.
StepBack(d) ==
    LET current == CurrentDistance(d, closed) IN
    /\ initialized
    /\ IsReverse(current)
    /\ distance' = current
    /\ reversed' = reversed + Backward(current)
    /\ lineBack' = lineBack + (IF closed /\ current > distance THEN 1 ELSE 0)
    /\ UNCHANGED <<initialized, closed, lapCount, totalForward, start>>

\* Anything else is not accepted and changes nothing.
LargeJump(d) ==
    LET current == CurrentDistance(d, closed) IN
    /\ initialized
    /\ ~IsJitter(current) /\ ~IsForward(current) /\ ~IsReverse(current)
    /\ UNCHANGED vars

\* Update(d, TotalMeters, isClosed)
Update(d, isClosed) ==
    \/ Begin(d, isClosed)
    \/ /\ closed = isClosed
       /\ Jitter(d) \/ Advance(d) \/ StepBack(d) \/ LargeJump(d)

Reset ==
    /\ initialized' = FALSE /\ closed' = FALSE
    /\ lapCount' = 0 /\ distance' = 0 /\ totalForward' = 0
    /\ start' = 0 /\ reversed' = 0 /\ lineBack' = 0

Next == Reset \/ \E d \in Int, isClosed \in BOOLEAN : Update(d, isClosed)

Spec == Init /\ [][Next]_vars

-----------------------------------------------------------------------------
\* What the tracker reports accounts for every metre driven: on a closed track
\* the laps counted, less the crossings of the line backwards that Update does
\* not take back, are the whole laps between the first and the last distance;
\* on an open one no lap is ever counted.
DistanceAccounted ==
    start + totalForward - reversed
        = distance + (IF closed THEN (lapCount - lineBack) * TotalMeters ELSE 0)
=============================================================================
