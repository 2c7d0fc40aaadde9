----------------------------- MODULE FrameEvents -----------------------------
(***************************************************************************)
(* The rules that turn frames into engineer events when a batch is         *)
(* appended (events/producer.go).  Further fields of a frame:              *)
(*    best     BestLapMs, 0 when the field is missing                      *)
(*    onTrack  IsOnTrack                                                   *)
(* An event keeps what identity and deduplication depend on; severity,     *)
(* confidence and wording are left out, and of the metrics only the frame  *)
(* count of a stint is kept.                                               *)
(***************************************************************************)
EXTENDS Laps, FiniteSetsExt

LapRegressionMinDeltaMs == 1500
OffTrackMinDurationMs == 500
NoRange == <<>>

\* max(1500 ms, 3 % of the reference lap, rounded up)
RegressionThreshold(referenceMs) ==
    Max({LapRegressionMinDeltaMs, (3 * referenceMs + 99) \div 100})

\* baseFrameEvent: the ID is made of session, lap, type and range.
baseFrameEvent(lap, ts, type, rule, range, ref, count) ==
    [id |-> <<lap, type, range>>, lap |-> lap, type |-> type, rule |-> rule,
     ts |-> ts, range |-> range, ref |-> ref, count |-> count]

\* Against the best lap the frame reports: the first frame per lap that shows
\* the regression.
lapTimeRegressionEvents(frames, ref) ==
    LET shows(i) == /\ frames[i].lap > 0 /\ frames[i].last > 0 /\ frames[i].best > 0
                    /\ frames[i].last - frames[i].best >= RegressionThreshold(frames[i].best)
        first == {i \in 1 .. Len(frames) :
                    shows(i) /\ \A j \in 1 .. i - 1 : shows(j) => frames[j].lap # frames[i].lap}
        hits == At(frames, first)
    IN  [k \in 1 .. Len(hits) |->
            LET f == hits[k]
            IN  baseFrameEvent(f.lap - 1, f.ts, "lap_time_regression", "best_lap",
                               <<f.ts, f.ts>>, ref, 0)]

\* Against the lap before it, as far as the accumulated frames still report
\* that one.  The event has no range and its ID is fixed per lap.
previousLapRegressionEvents(accumulated, appended, ref) ==
    LET known == ToSet(ExtractCompleted(accumulated))
        slower(c) == \E p \in known : /\ p.lap = c.lap - 1
                                      /\ c.time - p.time >= RegressionThreshold(p.time)
        Event(c) == [baseFrameEvent(c.lap, c.at, "lap_time_regression", "previous_lap",
                                    NoRange, ref, 0)
                       EXCEPT !.id = <<c.lap, "lap_time_regression", "previous_lap">>]
        completed == ExtractCompleted(appended)
        hits == At(completed, {i \in 1 .. Len(completed) : slower(completed[i])})
    IN  [k \in 1 .. Len(hits) |-> Event(hits[k])]

\* Faulty: a stint does not end when the car is back on the track.
offTrackStintEventsNoReset(frames, ref) ==
    LET off == {i \in 1 .. Len(frames) : ~frames[i].onTrack}
        s == frames[Min(off)]
        e == frames[Max(off)]
    IN  IF off = {} \/ e.ts - s.ts < OffTrackMinDurationMs THEN <<>>
        ELSE <<baseFrameEvent(s.lap, e.ts, "off_track_stint", "off_track",
                              <<s.ts, e.ts>>, ref, Cardinality(off))>>

\* Stints: maximal runs of frames off the track that last long enough.
offTrackStintEvents(frames, ref) ==
    LET off(i) == i \in 1 .. Len(frames) /\ ~frames[i].onTrack
        starts == {i \in 1 .. Len(frames) : off(i) /\ ~off(i - 1)}
        endOf(i) == CHOOSE j \in i .. Len(frames) : ~off(j + 1) /\ \A k \in i .. j : off(k)
        long(i) == frames[endOf(i)].ts - frames[i].ts >= OffTrackMinDurationMs
        stints == {i \in starts : long(i)}
    IN  [k \in 1 .. Cardinality(stints) |->
            LET first == Nth(stints, k)
                s == frames[first]
                e == frames[endOf(first)]
            IN  baseFrameEvent(s.lap, e.ts, "off_track_stint", "off_track",
                               <<s.ts, e.ts>>, ref, endOf(first) - first + 1)]

\* Faulty: earlier requests are not looked at.
appendOffTrackTailNone(accumulated, appended) == appended

\* The frames to look for stints in: the appended ones, preceded by the stint
\* that the stored frames end with.  The stored frames include the appended
\* ones already; they are cut before the first appended timestamp, if any
\* stored frame is older than that.
appendOffTrackTail(accumulated, appended) ==
    LET older == {i \in 1 .. Len(accumulated) : accumulated[i].ts < appended[1].ts}
        end == IF older = {} THEN Len(accumulated) ELSE Max(older)
        start == Min({i \in 1 .. end : \A k \in i .. end : ~accumulated[k].onTrack})
    IN  IF \/ accumulated = <<>>
           \/ accumulated[Len(accumulated)].onTrack
           \/ accumulated[end].onTrack
        THEN appended
        ELSE SubSeq(accumulated, start, end) \o appended

GenerateFrameEventsForAppend(accumulated, appended, ref) ==
    lapTimeRegressionEvents(appended, ref)
        \o previousLapRegressionEvents(accumulated, appended, ref)
        \o offTrackStintEvents(appendOffTrackTail(accumulated, appended), ref)
=============================================================================
