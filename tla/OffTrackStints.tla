--------------------------- MODULE OffTrackStints ---------------------------
(***************************************************************************)
(* How ingestFramesHandler calls the off-track rule: batch after batch,    *)
(* each stored BEFORE the rule looks at the stored frames.  `emitted' is   *)
(* what the rule has handed to the event store.                            *)
(***************************************************************************)
EXTENDS FrameEvents

CONSTANTS
    Batches,        \* bodies: the onTrack flags of one request's frames
    FramePeriodMs,  \* time from one frame to the next
    MaxFrames       \* bound on the stored frames

ASSUME PeriodAssumption == FramePeriodMs \in Nat \ {0}
ASSUME BatchesAssumption == \A b \in Batches : b \in Seq(BOOLEAN) /\ b # <<>>
ASSUME FramesAssumption == MaxFrames \in Nat

VARIABLES frames, appended, emitted

vars == <<frames, appended, emitted>>

Init ==
    /\ frames = <<>>
    /\ appended = <<>>
    /\ emitted = {}

Frame(position, onTrack) ==
    [ts |-> position * FramePeriodMs, lap |-> 1, last |-> 0, best |-> 0, onTrack |-> onTrack]

Ingest(flags) ==
    LET batch == [i \in 1 .. Len(flags) |-> Frame(Len(frames) + i, flags[i])]
        accumulated == frames \o batch
        generated == GenerateFrameEventsForAppend(accumulated, batch, "none")
    IN
    /\ Len(accumulated) <= MaxFrames
    /\ frames' = accumulated
    /\ appended' = batch
    /\ emitted' = emitted \cup ToSet(generated)

Next == \E flags \in Batches : Ingest(flags)

Spec == Init /\ [][Next]_vars

-----------------------------------------------------------------------------
\* The stints the stored frames really hold, as one would find them in the
\* whole session at once: positions of the first and the last frame.
Stints ==
    {p \in (1 .. Len(frames)) \X (1 .. Len(frames)) :
        /\ p[1] <= p[2]
        /\ \A k \in p[1] .. p[2] : ~frames[k].onTrack
        /\ p[1] > 1 => frames[p[1] - 1].onTrack
        /\ p[2] < Len(frames) => frames[p[2] + 1].onTrack
        /\ frames[p[2]].ts - frames[p[1]].ts >= OffTrackMinDurationMs}

Reported(p) ==
    \E e \in emitted : e.range = <<frames[p[1]].ts, frames[p[2]].ts>> /\ e.lap = frames[p[1]].lap

\* No event is invented: the car was off the track in every stored frame of an
\* event's range, and long enough.
EventsAreOffTrack ==
    \A e \in emitted :
        /\ e.range[2] - e.range[1] >= OffTrackMinDurationMs
        /\ \A i \in 1 .. Len(frames) :
              e.range[1] <= frames[i].ts /\ frames[i].ts <= e.range[2] => ~frames[i].onTrack

\* A stint the car is still in has been reported from its true start, over as
\* many requests as it spans.
OpenStintReported == \A p \in Stints : p[2] = Len(frames) => Reported(p)

\* A stint that ended in a later request than it began in has been reported
\* with its full range.
StintAcrossBatchesReported ==
    \A p \in Stints :
        p[2] < Len(frames) /\ p[1] <= Len(frames) - Len(appended) => Reported(p)
=============================================================================
