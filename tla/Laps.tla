-------------------------------- MODULE Laps --------------------------------
(***************************************************************************)
(* Package laps as functions of frames: which laps a list of frames        *)
(* completes, how many telemetry gaps a lap has, and its samples over      *)
(* distance.                                                               *)
(*                                                                         *)
(* A frame is a record; the fields used here are                           *)
(*    ts    TimestampUnixMs, greater than zero in every accepted frame     *)
(*    lap   LapNumber                                                      *)
(*    last  LastLapMs, 0 when the field is missing                         *)
(*    dist  LapDistanceMeters, NoDistance when missing, NaN or negative    *)
(***************************************************************************)
EXTENDS Integers, Sequences, FiniteSets, SequencesExt

telemetryGapFloorMs == 250
NoDistance == -1

\* The k-th of the given positions.
Nth(positions, k) == CHOOSE i \in positions : Cardinality({j \in positions : j <= i}) = k

\* The elements at the given positions, in their order.
At(seq, positions) == [k \in 1 .. Cardinality(positions) |-> seq[Nth(positions, k)]]

-----------------------------------------------------------------------------
\* Frames that report the time of the lap before theirs.
Reporting(frames) == {i \in 1 .. Len(frames) : frames[i].lap > 0 /\ frames[i].last > 0}

\* One completed lap per reported lap number, from its first report.
ExtractCompleted(frames) ==
    LET first == {i \in Reporting(frames) :
                    \A j \in Reporting(frames) : frames[j].lap = frames[i].lap => i <= j}
        reports == At(frames, first)
    IN  [k \in 1 .. Len(reports) |->
            [lap |-> reports[k].lap - 1, time |-> reports[k].last, at |-> reports[k].ts]]

-----------------------------------------------------------------------------
\* Faulty: deltas of zero are kept.
nonNegativeTimestampDeltas(frames) ==
    LET times == SortSeq([i \in 1 .. Len(frames) |-> frames[i].ts], <)
    IN  [i \in 1 .. Len(frames) - 1 |-> times[i + 1] - times[i]]

\* Between neighbours in the order of time; frames with equal timestamps leave
\* no delta.
positiveTimestampDeltas(frames) ==
    LET times == SortSeq([i \in 1 .. Len(frames) |-> frames[i].ts], <)
        deltas == [i \in 1 .. Len(frames) - 1 |-> times[i + 1] - times[i]]
    IN  At(deltas, {i \in 1 .. Len(frames) - 1 : deltas[i] > 0})

\* Four times the median, and at least the floor.
telemetryGapThresholdMs(deltas) ==
    LET sorted == SortSeq(deltas, <)
        mid == Len(sorted) \div 2
        threshold == IF Len(sorted) % 2 = 1 THEN 4 * sorted[mid + 1]
                     ELSE 2 * (sorted[mid] + sorted[mid + 1])
    IN  IF threshold < telemetryGapFloorMs THEN telemetryGapFloorMs ELSE threshold

OfLap(lap, frames) == At(frames, {i \in 1 .. Len(frames) : frames[i].lap = lap})

CountTelemetryGaps(lap, frames) ==
    LET deltas == positiveTimestampDeltas(OfLap(lap, frames))
    IN  IF deltas = <<>> THEN 0
        ELSE Cardinality({i \in DOMAIN deltas : deltas[i] > telemetryGapThresholdMs(deltas)})

-----------------------------------------------------------------------------
\* Faulty: not sorted.
SortByArrival(frames) == frames

\* sort.SliceStable by timestamp.
SortByTime(frames) ==
    LET before(i, j) == \/ frames[i].ts < frames[j].ts
                        \/ frames[i].ts = frames[j].ts /\ i < j
        order == SortSeq([i \in 1 .. Len(frames) |-> i], before)
    IN  [k \in 1 .. Len(frames) |-> frames[order[k]]]

\* Of neighbouring frames at the same distance the last one stays.
collapseDuplicateDistanceFrames(frames) ==
    At(frames, {i \in 1 .. Len(frames) : i = Len(frames) \/ frames[i].dist # frames[i + 1].dist})

\* The two frames a sample at this distance is interpolated from; a sample is
\* identified by them, its channel values being a function of the two.
bracketFrames(frames, d) ==
    LET i == CHOOSE i \in 1 .. Len(frames) - 1 :
                /\ frames[i].dist <= d /\ d <= frames[i + 1].dist
                /\ \A j \in 1 .. i - 1 : d > frames[j + 1].dist
    IN  IF d = frames[i].dist THEN <<frames[i].ts, frames[i].ts>>
        ELSE <<frames[i].ts, frames[i + 1].ts>>

NoSamples == [d \in {} |-> d]

\* Samples of a lap at every multiple of step its frames span, as a function
\* from distance; none when a distance is missing or runs backwards.
BuildLapSamples(lap, frames, step) ==
    LET sorted == SortByTime(OfLap(lap, frames))
        usable == /\ Len(sorted) >= 2
                  /\ \A i \in 1 .. Len(sorted) : sorted[i].dist # NoDistance
                  /\ \A i \in 2 .. Len(sorted) : sorted[i - 1].dist <= sorted[i].dist
        track == collapseDuplicateDistanceFrames(sorted)
        buckets == {d \in track[1].dist .. track[Len(track)].dist : d % step = 0}
    IN  IF ~usable \/ Len(track) < 2 THEN NoSamples
        ELSE [d \in buckets |-> bracketFrames(track, d)]
=============================================================================
