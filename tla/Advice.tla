------------------------------- MODULE Advice -------------------------------
(***************************************************************************)
(* POST /sessions/{id}/race-engineer-advice up to the call of the gateway: *)
(* the events selected, the signals derived from laps and events, and the  *)
(* track and layout given as context.                                      *)
(*                                                                         *)
(* A stored event is [id, ts, type, severity, track, layout], track and    *)
(* layout 0 when the event carries no ref; a lap is [lap, time, gaps, at]. *)
(* The wording of signals is left out.                                     *)
(***************************************************************************)
EXTENDS TrackDetection

NoLimit == 0  \* since, when the client left it out

\* asked is <<>> when the client left the number out.
normalizeAdviceMaxEvents(asked) == IF asked = <<>> THEN 5 ELSE Max({1, Min({10, asked[1]})})

\* sort.SliceStable by timestamp.
ByTimestamp(events) ==
    LET Before(i, j) == \/ events[i].ts < events[j].ts
                        \/ events[i].ts = events[j].ts /\ i < j
        order == SetToSortSeq(DOMAIN events, Before)
    IN  [k \in DOMAIN events |-> events[order[k]]]

Since(s, since, At(_)) ==
    IF since = NoLimit THEN s ELSE SelectSeq(s, LAMBDA x : At(x) >= since)

\* The newest maxEvents events, oldest first.
selectRaceEngineerAdviceEvents(stored, since, maxEvents) ==
    LET matching == ByTimestamp(Since(stored, since, LAMBDA e : e.ts))
        n == Len(matching)
    IN  IF n > maxEvents THEN SubSeq(matching, n - maxEvents + 1, n) ELSE matching

-----------------------------------------------------------------------------
\* Faulty: the lap listed last is the latest.
AsListed(laps) == laps

ByLapNumber(laps) ==
    LET Before(a, b) == a.lap < b.lap \/ (a.lap = b.lap /\ a.at < b.at)
    IN  SortSeq(laps, Before)

Total(s, Val(_)) == FoldLeft(LAMBDA acc, x : acc + Val(x), 0, s)

\* Over the last three laps, the latest included.
recentAverageLapMs(laps) ==
    LET window == SubSeq(laps, Max({1, Len(laps) - 2}), Len(laps))
    IN  Total(window, LAMBDA l : l.time) \div Len(window)

\* Lap times are positive: a lap is stored with the time its report carried.
buildLapPaceRegressionSignal(listed) ==
    LET laps == ByLapNumber(listed)
        latest == Last(laps).time
        best == Min({l.time : l \in Elements(laps)})
        threshold == Max({1500, (3 * best + 99) \div 100})
        bestDelta == latest - best
        recentDelta == latest - recentAverageLapMs(laps)
        toRecent == recentDelta >= threshold /\ recentDelta > bestDelta
        delta == IF toRecent THEN recentDelta ELSE bestDelta
    IN  IF Len(laps) < 2 \/ (bestDelta < threshold /\ recentDelta < threshold) THEN <<>>
        ELSE <<[kind |-> "lap_pace_regression",
                severity |-> IF delta >= 2 * threshold THEN "high" ELSE "medium",
                reference |-> IF toRecent THEN "recent average" ELSE "session best"]>>

buildTelemetryGapSignal(laps) ==
    LET affected == SelectSeq(laps, LAMBDA l : l.gaps > 0)
        total == Total(affected, LAMBDA l : l.gaps)
        worst == Max({l.gaps : l \in Elements(affected)})
    IN  IF affected = <<>> \/ (total < 2 /\ worst < 2) THEN <<>>
        ELSE <<[kind |-> "telemetry_gap_warning",
                severity |-> IF total >= 4 \/ worst >= 3 THEN "high"
                             ELSE IF total >= 2 \/ Len(affected) >= 2 THEN "medium" ELSE "low"]>>

buildOffTrackSignal(events) ==
    LET stints == SelectSeq(events, LAMBDA e : e.type = "off_track_stint")
        severities == {e.severity : e \in Elements(stints)}
    IN  IF stints = <<>> THEN <<>>
        ELSE <<[kind |-> "off_track_stint_warning",
                severity |-> IF "high" \in severities THEN "high"
                             ELSE IF "medium" \in severities \/ Len(stints) >= 2 THEN "medium"
                             ELSE "low"]>>

buildRaceEngineerAdviceSignals(stored, laps, since) ==
    LET recentLaps == Since(laps, since, LAMBDA l : l.at) IN
    buildLapPaceRegressionSignal(recentLaps) \o buildTelemetryGapSignal(recentLaps)
        \o buildOffTrackSignal(Since(stored, since, LAMBDA e : e.ts))

-----------------------------------------------------------------------------
NoPair == <<0, 0>>

\* Faulty: the first track and the first layout, of whichever events.
firstTrackAndLayout(events) ==
    LET t == SelectInSeq(events, LAMBDA e : e.track # 0)
        l == SelectInSeq(events, LAMBDA e : e.layout # 0)
    IN  <<IF t = 0 THEN 0 ELSE events[t].track, IF l = 0 THEN 0 ELSE events[l].layout>>

\* Both from the same event.
selectAdviceEventCatalogRefs(events) ==
    LET i == SelectInSeq(events, LAMBDA e : e.track # 0 /\ e.layout # 0)
    IN  IF i = 0 THEN NoPair ELSE <<events[i].track, events[i].layout>>

CatalogPairs(c) == UNION {{<<t.id, l.id>> : l \in Elements(t.layouts)} : t \in Elements(c.tracks)}

resolvePersistedSessionCatalogRefs(session, c) ==
    IF session.detected \in CatalogPairs(c) THEN session.detected ELSE NoPair

detectTrackLayoutFromFrames(frames, c) ==
    LET result == DetectTrack(frames, c)
        best == CHOOSE e \in result.evidence : TRUE
    IN  IF (\E f \in Elements(frames) : f.lap >= 1) /\ result.status = "detected"
        THEN <<best.track, best.layout>> ELSE NoPair

resolveManualSessionTrackRef(session, c) ==
    IF session.track \in {t.id : t \in Elements(c.tracks)} THEN session.track ELSE 0

\* The context of the request: what the events say, what was detected before,
\* what the frames say now, and last the track alone that the client chose.
AdviceContext(session, selected, frames, c) ==
    LET pairs == SelectSeq(<<selectAdviceEventCatalogRefs(selected),
                             resolvePersistedSessionCatalogRefs(session, c),
                             detectTrackLayoutFromFrames(frames, c)>>,
                           LAMBDA pair : pair[1] # 0 /\ pair[2] # 0)
    IN  Head(Append(pairs, <<resolveManualSessionTrackRef(session, c), 0>>))

\* What the handler does: an answer of its own, or a request to the gateway.
raceEngineerAdvice(session, stored, laps, frames, c, since, asked) ==
    LET selected == selectRaceEngineerAdviceEvents(stored, since, normalizeAdviceMaxEvents(asked))
        signals == buildRaceEngineerAdviceSignals(stored, laps, since)
    IN  IF selected = <<>> /\ signals = <<>> THEN [status |-> "no_events"]
        ELSE [status |-> "request", session |-> session.id, events |-> selected,
              signals |-> signals, context |-> AdviceContext(session, selected, frames, c)]

\* ConsumerInput.Validate of what is built: Validate was passed by every event
\* when it was stored, and the rest of the request is constant.
ValidConsumerInput(r) ==
    /\ r.session # 0
    /\ r.events # <<>> \/ r.signals # <<>>
    /\ \A s \in Elements(r.signals) : s.severity \in {"low", "medium", "high"}
=============================================================================
