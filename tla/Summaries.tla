------------------------------ MODULE Summaries ------------------------------
(***************************************************************************)
(* What GET /sessions, GET /sessions/{id}/summary and the admin statistics *)
(* make of the stored data, in memory and in PostgreSQL.                   *)
(*                                                                         *)
(* A state of the stores is a record d:                                    *)
(*   d.sessions  set of sessions: id (a number, for the order of the IDs), *)
(*               started, ended (0: active), layout, detected ("": none)   *)
(*   d.requests  per id, the accepted frames of each ingest request        *)
(*   d.events, d.audits   per id, the number of rows                       *)
(*   d.rejections         the rejection records                            *)
(* Names, platform and alias are copied through and left out.              *)
(***************************************************************************)
EXTENDS FrameBatch, FiniteSetsExt, Normalize

CONSTANTS
    DayMs,
    DefaultListLimit,
    ZoneOffsetMs      \* of the time zone of the database session

\* The in-memory store of a session: its frames in one list, not yet full.
MemoryFrames(d, id) == FlattenSeq(d.requests[id])

\* A row of frame_batches: the columns that queries aggregate.
BatchRow(frames) ==
    [lap |-> frames[1].lap, count |-> Len(frames),
     from |-> Min({frames[i].ts : i \in DOMAIN frames}),
     to |-> Max({frames[i].ts : i \in DOMAIN frames})]

BatchRows(d, id) ==
    LET batches == FlattenSeq([i \in DOMAIN d.requests[id] |-> splitFramesByLap(d.requests[id][i])])
    IN  [i \in DOMAIN batches |-> BatchRow(batches[i])]

Persisted(rows) == SumOver(rows, LAMBDA row : row.count)

RejectedOf(d, id) ==
    aggregateRejectionSummaries(SelectSeq(d.rejections, LAMBDA r : r.session = id))

-----------------------------------------------------------------------------
EffectiveLayoutID(s) == IF s.layout # "" THEN s.layout ELSE s.detected

Status(s) == IF s.ended # 0 THEN "finished" ELSE "active"

DurationMs(s) == IF s.ended # 0 THEN s.ended - s.started ELSE 0

\* The part of a list item that both repositories build in the same way.
Item(s, layout, frames, events, rejected) ==
    [id |-> s.id, layout |-> layout, detected |-> s.detected, status |-> Status(s),
     started |-> s.started, duration |-> DurationMs(s), frames |-> frames, events |-> events,
     rejected |-> rejected]

buildItem(d, s) ==
    Item(s, EffectiveLayoutID(s), Len(MemoryFrames(d, s.id)), d.events[s.id],
         RejectedOf(d, s.id).rejected)

\* Faulty: the chosen layout is shown, detected or not.
scanChosenLayout(d, s) ==
    Item(s, s.layout, Persisted(BatchRows(d, s.id)), d.events[s.id], RejectedOf(d, s.id).rejected)

\* scanSummaryItem has its own fallback to the detected layout.
scanSummaryItem(d, s) ==
    Item(s, IF s.layout = "" THEN s.detected ELSE s.layout, Persisted(BatchRows(d, s.id)),
         d.events[s.id], RejectedOf(d, s.id).rejected)

\* started_at descending, then id descending.
NewerSession(s, t) == s.started > t.started \/ (s.started = t.started /\ s.id > t.id)

MemoryList(d, limit) ==
    LET all == SetToSortSeq(d.sessions, NewerSession)
        n == IF limit <= 0 \/ limit > Len(all) THEN Len(all) ELSE limit
    IN  [i \in 1 .. n |-> buildItem(d, all[i])]

PostgresList(d, limit) ==
    LET all == SetToSortSeq(d.sessions, NewerSession)
        n == Min({IF limit <= 0 THEN DefaultListLimit ELSE limit, Len(all)})
    IN  [i \in 1 .. n |-> scanSummaryItem(d, all[i])]

\* frameBatches and aiAuditLogCount are constants 0 in memory, where neither exists.
MemorySummary(d, s) ==
    LET frames == MemoryFrames(d, s.id)
        times == {frames[i].ts : i \in DOMAIN frames}
    IN  [session |-> buildItem(d, s), batches |-> 0, persisted |-> Len(frames),
         range |-> IF frames = <<>> THEN <<>> ELSE <<Min(times), Max(times)>>,
         laps |-> Cardinality({frames[i].lap : i \in DOMAIN frames}),
         events |-> d.events[s.id], audits |-> 0, reasons |-> RejectedOf(d, s.id).reasons]

PostgresSummary(d, s) ==
    LET rows == BatchRows(d, s.id) IN
    [session |-> scanSummaryItem(d, s), batches |-> Len(rows), persisted |-> Persisted(rows),
     range |-> IF rows = <<>> THEN <<>>
               ELSE <<Min({rows[i].from : i \in DOMAIN rows}), Max({rows[i].to : i \in DOMAIN rows})>>,
     laps |-> Cardinality({rows[i].lap : i \in DOMAIN rows}),
     events |-> d.events[s.id], audits |-> d.audits[s.id], reasons |-> RejectedOf(d, s.id).reasons]

-----------------------------------------------------------------------------
\* The admin statistics. Sessions that started at the same moment may come in
\* any order from either repository; here the order of the IDs decides.
Day(s) == s.started \div DayMs

\* DATE(started_at) counts days in the time zone of the database session.
DateOf(s) == (s.started + ZoneOffsetMs) \div DayMs

RecentSession(s, frames) ==
    [id |-> s.id, started |-> s.started, duration |-> DurationMs(s), status |-> Status(s),
     frames |-> frames]

Recent(d, limit, Frames(_)) ==
    LET all == SetToSortSeq(d.sessions, NewerSession) IN
    [i \in 1 .. Min({limit, Len(all)}) |-> RecentSession(all[i], Frames(all[i].id))]

MemoryStats(d, limit, days, now) ==
    LET Frames(id) == Len(MemoryFrames(d, id))
        shown == {s \in d.sessions : s.started >= now - days * DayMs}
        Of(day) == {s \in shown : Day(s) = day}
    IN  [sessions |-> Cardinality(d.sessions),
         active |-> Cardinality({s \in d.sessions : Status(s) = "active"}),
         finished |-> Cardinality({s \in d.sessions : Status(s) # "active"}),
         frames |-> MapThenSumSet(Frames, {s.id : s \in d.sessions}),
         recent |-> Recent(d, limit, Frames),
         daily |-> [day \in {Day(s) : s \in shown} |->
                      [sessions |-> Cardinality(Of(day)),
                       frames |-> MapThenSumSet(Frames, {s.id : s \in Of(day)})]]]

\* sessions LEFT JOIN frame_batches: a pair for every batch of a session, and
\* one with no batch (0) for a session that has none.
Joined(d, sessions) ==
    UNION {{<<s, k>> : k \in IF BatchRows(d, s.id) = <<>> THEN {0} ELSE DOMAIN BatchRows(d, s.id)}
           : s \in sessions}

\* Faulty: COUNT(*) instead of COUNT(DISTINCT s.id).
CountSessionsPerRow(pairs) == Cardinality(pairs)

CountDistinctSessions(pairs) == Cardinality({p[1] : p \in pairs})

PostgresStats(d, limit, days, now) ==
    LET Frames(id) == Persisted(BatchRows(d, id))
        shown == {s \in d.sessions : s.started >= now - days * DayMs}
        Of(day) == {p \in Joined(d, shown) : DateOf(p[1]) = day}
        FrameCount(p) == IF p[2] = 0 THEN 0 ELSE BatchRows(d, p[1].id)[p[2]].count
    IN  [sessions |-> Cardinality(d.sessions),
         active |-> Cardinality({s \in d.sessions : s.ended = 0}),
         finished |-> Cardinality({s \in d.sessions : s.ended # 0}),
         frames |-> MapThenSumSet(Frames, {s.id : s \in d.sessions}),
         recent |-> Recent(d, limit, Frames),
         daily |-> [day \in {DateOf(s) : s \in shown} |->
                      [sessions |-> CountDistinctSessions(Of(day)),
                       frames |-> MapThenSumSet(FrameCount, Of(day))]]]
=============================================================================
