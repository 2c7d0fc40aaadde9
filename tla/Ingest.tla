------------------------------- MODULE Ingest -------------------------------
(***************************************************************************)
(* POST /sessions/{id}/frames, call by call, together with the other       *)
(* handlers that write the session: create, finish and track-layout.       *)
(*                                                                         *)
(* The handler checks the session, appends the accepted frames and then    *)
(* derives laps, gap counts, samples, the detected layout and events from  *)
(* frames it reads back.  Nothing spans the calls: other requests run      *)
(* between any two of them, and an error in the middle answers 500 and     *)
(* leaves what is already stored.  The client then sends the same batch    *)
(* again.                                                                  *)
(*                                                                         *)
(* Both runtimes are modelled.  With mode = "postgres" a call is a         *)
(* statement (Append is the transaction of PostgresFrameStore, which       *)
(* implements the atomic append used here); with mode = "memory" it is a   *)
(* critical section of the store's mutex.                                  *)
(***************************************************************************)
EXTENDS FrameEvents, EventDedup

CONSTANTS
    Modes,              \* runtimes to consider: "memory", "postgres"
    Serial,             \* the client sends one batch at a time, in order
    Sessions,           \* session IDs
    Requests,           \* ingest requests, numbered
    Batch,              \* what Normalize made of each request's body
    Owner,              \* the session each request addresses
    MaxTries,           \* how often each request may be sent
    Capacity,           \* FrameStore.capacity
    EventLimit,         \* Store.limit
    SampleStep,         \* DefaultSampleStepMeters
    Catalog,            \* <<track, layout>> pairs of the track catalog
    None,               \* the empty string of an optional ID
    DetectTrack(_)      \* tracks.DetectTrack: a Catalog pair, or None

ASSUME ModeAssumption == Modes \subseteq {"memory", "postgres"} /\ Serial \in BOOLEAN
ASSUME RequestsAssumption == Requests \subseteq Nat /\ MaxTries \in [Requests -> Nat]
ASSUME OwnerAssumption == Owner \in [Requests -> Sessions]
ASSUME BoundsAssumption ==
    Capacity \in Nat \ {0} /\ EventLimit \in Nat \ {0} /\ SampleStep \in Nat \ {0}
ASSUME BatchAssumption ==   \* what Frame.Validate lets through
    \A r \in Requests : LET list == Batch[r].frames IN
        /\ list \in Seq(Range(list))
        /\ \A i \in 1 .. Len(list) :
              list[i].ts \in Nat \ {0} /\ list[i].lap \in Nat /\ list[i].last \in Nat
ASSUME CatalogAssumption == \* pairs of IDs that are not empty
    /\ None \notin Catalog
    /\ \A p \in Catalog : p = <<p[1], p[2]>> /\ p[1] # None /\ p[2] # None

VARIABLES
    mode,       \* the runtime this process was started with
    session,    \* sessions table: status, chosen and detected track and layout
    frames,     \* stored frames of each session
    laps,       \* laps table: session -> lap -> [time, at, gaps]
    samples,    \* lap_samples: session -> lap -> distance -> sample
    events,     \* stored events, oldest first
    seen,       \* the deduplicator
    rejections, \* rejected frames in the stored rejection summaries
    pc,         \* next call of each request's handler
    tries,      \* how often the request was sent
    snap,       \* the session as validateSession returned it
    todo,       \* what the current loop has left
    found,      \* detected layout on its way to the session
    answer      \* last status code

stores == <<session, frames, laps, samples, events, seen, rejections>>
handler == <<pc, tries, snap, todo, found, answer>>
vars == <<mode, session, frames, laps, samples, events, seen, rejections, pc,
          tries, snap, todo, found, answer>>

NoSession == [status |-> "absent", track |-> None, layout |-> None,
              detectedTrack |-> None, detectedLayout |-> None]

Empty == [k \in {} |-> k]

Init ==
    /\ mode \in Modes
    /\ session = [s \in Sessions |-> NoSession]
    /\ frames = [s \in Sessions |-> <<>>]
    /\ laps = [s \in Sessions |-> Empty]
    /\ samples = [s \in Sessions |-> Empty]
    /\ events = <<>>
    /\ seen = NothingSeen
    /\ rejections = [s \in Sessions |-> 0]
    /\ pc = [r \in Requests |-> "idle"]
    /\ tries = [r \in Requests |-> 0]
    /\ snap = [r \in Requests |-> NoSession]
    /\ todo = [r \in Requests |-> <<>>]
    /\ found = [r \in Requests |-> None]
    /\ answer = [r \in Requests |-> 0]

-----------------------------------------------------------------------------
(* The other session handlers.                                             *)

\* createSessionHandler: the track is optional, a layout cannot be given.
CreateSession(s, track) ==
    /\ session[s].status = "absent"
    /\ session' = [session EXCEPT ![s].status = "active", ![s].track = track]
    /\ UNCHANGED <<frames, laps, samples, events, seen, rejections, handler, mode>>

\* finishSessionHandler: Repository.End, refused unless the session is active.
FinishSession(s) ==
    /\ session[s].status = "active"
    /\ session' = [session EXCEPT ![s].status = "finished"]
    /\ UNCHANGED <<frames, laps, samples, events, seen, rejections, handler, mode>>

\* sessionTrackLayoutHandler: a pair of the catalog, on a finished session too.
SetTrackLayout(s, pair) ==
    /\ session[s].status # "absent"
    /\ session' = [session EXCEPT ![s].track = pair[1], ![s].layout = pair[2]]
    /\ UNCHANGED <<frames, laps, samples, events, seen, rejections, handler, mode>>

-----------------------------------------------------------------------------
(* ingestFramesHandler.                                                    *)

Answer(r, code) ==
    /\ pc' = [pc EXCEPT ![r] = "answered"]
    /\ answer' = [answer EXCEPT ![r] = code]
    /\ todo' = [todo EXCEPT ![r] = <<>>]

Goto(r, label, list) ==
    /\ pc' = [pc EXCEPT ![r] = label]
    /\ todo' = [todo EXCEPT ![r] = list]
    /\ UNCHANGED answer

\* The client sends a batch, or sends it again after a 500 or because the 202 got
\* lost; one that sends in order waits for the batches before it.
MaySend(r) ==
    /\ tries[r] < MaxTries[r]
    /\ Serial => \A q \in Requests : q < r => pc[q] = "answered" /\ answer[q] = 202

Send(r) ==
    /\ pc[r] \in {"idle", "answered"}
    /\ answer[r] \in {0, 202, 500}
    /\ MaySend(r)
    /\ Serial => \A q \in Requests : pc[q] \in {"idle", "answered"}
    /\ tries' = [tries EXCEPT ![r] = @ + 1]
    /\ Goto(r, "validate", <<>>)
    /\ UNCHANGED <<stores, snap, found, mode>>

\* validateSession(..., requireActive): everything later works on this copy.
\* Then the body is decoded and normalised, which may refuse it as a whole.
ValidateSession(r) ==
    LET s == Owner[r] IN
    /\ pc[r] = "validate"
    /\ \/ session[s].status = "absent" /\ Answer(r, 404) /\ UNCHANGED snap
       \/ session[s].status = "finished" /\ Answer(r, 409) /\ UNCHANGED snap
       \/ session[s].status = "active" /\ ~Batch[r].valid /\ Answer(r, 400) /\ UNCHANGED snap
       \/ /\ session[s].status = "active" /\ Batch[r].valid
          /\ snap' = [snap EXCEPT ![r] = session[s]]
          /\ Goto(r, IF Batch[r].frames = <<>> THEN "reject" ELSE "append", <<>>)
    /\ UNCHANGED <<stores, tries, found, mode>>

\* Faulty: one element too many stays.
NewestAndOneMore(seq, n) ==
    IF Len(seq) > n + 1 THEN SubSeq(seq, Len(seq) - n, Len(seq)) ELSE seq

\* The newest n elements.
Newest(seq, n) == IF Len(seq) > n THEN SubSeq(seq, Len(seq) - n + 1, Len(seq)) ELSE seq

\* Faulty: the session is not looked at again.
AppendFramesUnchecked(r) ==
    LET completed == ExtractCompleted(Batch[r].frames) IN
    /\ pc[r] = "append"
    /\ frames' = [frames EXCEPT ![Owner[r]] = @ \o Batch[r].frames]
    /\ Goto(r, IF completed = <<>> THEN "derive" ELSE "laps", completed)
    /\ UNCHANGED <<session, laps, samples, events, seen, rejections, tries, snap, found, mode>>

\* Faulty: the handler goes on although the store refused the frames.
AppendFramesRefusalIgnored(r) ==
    LET s == Owner[r]
        completed == ExtractCompleted(Batch[r].frames)
    IN
    /\ pc[r] = "append"
    /\ frames' = [frames EXCEPT ![s] =
          IF session[s].status = "active" THEN @ \o Batch[r].frames ELSE @]
    /\ Goto(r, IF completed = <<>> THEN "derive" ELSE "laps", completed)
    /\ UNCHANGED <<session, laps, samples, events, seen, rejections, tries, snap, found, mode>>

\* frameStore.Append: the buffer in memory keeps the newest frames and knows
\* nothing of sessions; PostgreSQL re-checks the session under its row lock.
AppendFrames(r) ==
    LET s == Owner[r]
        completed == ExtractCompleted(Batch[r].frames)
    IN
    /\ pc[r] = "append"
    /\ \/ /\ mode = "postgres" /\ session[s].status = "finished"
          /\ Answer(r, 409)
          /\ UNCHANGED frames
       \/ /\ mode = "postgres" => session[s].status = "active"
          /\ frames' = [frames EXCEPT ![s] =
                IF mode = "memory" THEN Newest(@ \o Batch[r].frames, Capacity)
                                   ELSE @ \o Batch[r].frames]
          /\ Goto(r, IF completed = <<>> THEN "derive" ELSE "laps", completed)
    /\ UNCHANGED <<session, laps, samples, events, seen, rejections, tries, snap, found, mode>>

\* The row that a report makes.
Row(c) == [time |-> c.time, at |-> c.at, gaps |-> 0]

\* Faulty: the latest report wins.
UpsertLatest(table, list) ==
    LET reported == {list[k].lap : k \in DOMAIN list}
        Latest(l) == list[CHOOSE k \in DOMAIN list :
                            list[k].lap = l /\ \A j \in DOMAIN list : list[j].lap = l => j <= k]
    IN  [l \in DOMAIN table \cup reported |-> IF l \in reported THEN Row(Latest(l)) ELSE table[l]]

\* The laps table after a list of reports.  The first report of a lap makes its
\* row; a later one only overwrites the gap count, by the report's, which is zero,
\* and in PostgreSQL only if it is the very same report.
Upsert(table, list) ==
    LET Reports(l) == {k \in DOMAIN list : list[k].lap = l}
        First(l) == list[CHOOSE k \in Reports(l) : \A j \in Reports(l) : k <= j]
        Overwritten(l) == \E k \in Reports(l) :
            mode = "memory" \/ (table[l].time = list[k].time /\ table[l].at = list[k].at)
    IN  [l \in DOMAIN table \cup {list[k].lap : k \in DOMAIN list} |->
            IF l \notin DOMAIN table THEN Row(First(l))
            ELSE IF Overwritten(l) THEN [table[l] EXCEPT !.gaps = 0]
            ELSE table[l]]

\* lapRepo.UpsertCompleted: one critical section, or one statement per lap.
UpsertCompleted(r) ==
    LET s == Owner[r]
        n == IF mode = "memory" THEN Len(todo[r]) ELSE 1
        rest == SubSeq(todo[r], n + 1, Len(todo[r]))
    IN
    /\ pc[r] = "laps"
    /\ laps' = [laps EXCEPT ![s] = Upsert(@, SubSeq(todo[r], 1, n))]
    /\ IF rest = <<>> THEN Goto(r, "count", <<>>) ELSE Goto(r, "laps", rest)
    /\ UNCHANGED <<session, frames, samples, events, seen, rejections, tries, snap, found, mode>>

\* Faulty: only the request's own frames are counted.
CountGapsOfBatch(r) ==
    LET completed == ExtractCompleted(Batch[r].frames) IN
    /\ pc[r] = "count"
    /\ Goto(r, "gaps", [k \in 1 .. Len(completed) |->
            [lap |-> completed[k].lap,
             gaps |-> CountTelemetryGaps(completed[k].lap, Batch[r].frames)]])
    /\ UNCHANGED <<stores, tries, snap, found, mode>>

\* persistTelemetryGapCounts, first half: one read of the frames for all laps.
CountGaps(r) ==
    LET completed == ExtractCompleted(Batch[r].frames) IN
    /\ pc[r] = "count"
    /\ Goto(r, "gaps", [k \in 1 .. Len(completed) |->
            [lap |-> completed[k].lap,
             gaps |-> CountTelemetryGaps(completed[k].lap, frames[Owner[r]])]])
    /\ UNCHANGED <<stores, tries, snap, found, mode>>

\* Second half: one update per lap.
UpdateTelemetryGapCount(r) ==
    LET s == Owner[r]
        c == Head(todo[r])
        rest == Tail(todo[r])
    IN
    /\ pc[r] = "gaps"
    /\ laps' = [laps EXCEPT ![s] =
                  IF c.lap \in DOMAIN @ THEN [@ EXCEPT ![c.lap].gaps = c.gaps] ELSE @]
    /\ IF rest = <<>> THEN Goto(r, "sample", <<>>) ELSE Goto(r, "gaps", rest)
    /\ UNCHANGED <<session, frames, samples, events, seen, rejections, tries, snap, found, mode>>

\* persistLapSamples, first half: another read; the samples of every lap, in
\* the order of their distance.
BuildSamples(r) ==
    LET completed == ExtractCompleted(Batch[r].frames)
        Of(c) == LET built == BuildLapSamples(c.lap, frames[Owner[r]], SampleStep)
                     far == IF built = NoSamples THEN 0 ELSE Max(DOMAIN built) \div SampleStep
                     order == SelectSeq([k \in 1 .. far + 1 |-> (k - 1) * SampleStep],
                                        LAMBDA d : d \in DOMAIN built)
                 IN  [k \in 1 .. Len(order) |->
                        [lap |-> c.lap, dist |-> order[k], value |-> built[order[k]]]]
        all == FlattenSeq([k \in 1 .. Len(completed) |-> Of(completed[k])])
    IN
    /\ pc[r] = "sample"
    /\ IF all = <<>> THEN Goto(r, "derive", <<>>) ELSE Goto(r, "samples", all)
    /\ UNCHANGED <<stores, tries, snap, found, mode>>

\* ON CONFLICT DO NOTHING: the first sample at a distance stays.
PutSample(table, p) ==
    LET lap == IF p.lap \in DOMAIN table THEN table[p.lap] ELSE Empty
        new == [d \in DOMAIN lap \cup {p.dist} |-> IF d \in DOMAIN lap THEN lap[d] ELSE p.value]
    IN  [l \in DOMAIN table \cup {p.lap} |-> IF l = p.lap THEN new ELSE table[l]]

\* Second half, sampleRepo.UpsertSamples: one critical section per lap, or one
\* statement per sample.
UpsertSamples(r) ==
    LET s == Owner[r]
        batch == IF mode = "memory"
                 THEN SelectSeq(todo[r], LAMBDA p : p.lap = Head(todo[r]).lap)
                 ELSE <<Head(todo[r])>>
        rest == SubSeq(todo[r], Len(batch) + 1, Len(todo[r]))
    IN
    /\ pc[r] = "samples"
    /\ samples' = [samples EXCEPT ![s] = FoldLeft(PutSample, @, batch)]
    /\ IF rest = <<>> THEN Goto(r, "derive", <<>>) ELSE Goto(r, "samples", rest)
    /\ UNCHANGED <<session, frames, laps, events, seen, rejections, tries, snap, found, mode>>

hasLapOneBegan(list) == \E i \in 1 .. Len(list) : list[i].lap >= 1

\* Faulty: a chosen track does not keep detection away.
DeriveEventsAnyTrack(r) ==
    LET accumulated == frames[Owner[r]]
        ref == IF hasLapOneBegan(accumulated) THEN DetectTrack(accumulated) ELSE None
    IN
    /\ pc[r] = "derive"
    /\ found' = [found EXCEPT ![r] = ref]
    /\ Goto(r, IF ref # None /\ snap[r].detectedTrack = None THEN "detected" ELSE "events",
            GenerateFrameEventsForAppend(accumulated, Batch[r].frames, ref))
    /\ UNCHANGED <<stores, tries, snap, mode>>

\* The third read of the frames; detection and the event rules are functions
\* of what it returns.  A layout is on its way to the session only if neither
\* a track nor a detected one was known when the request was validated.
DeriveEvents(r) ==
    LET accumulated == frames[Owner[r]]
        ref == IF hasLapOneBegan(accumulated) THEN DetectTrack(accumulated) ELSE None
        store == ref # None /\ snap[r].track = None /\ snap[r].detectedTrack = None
    IN
    /\ pc[r] = "derive"
    /\ found' = [found EXCEPT ![r] = ref]
    /\ Goto(r, IF store THEN "detected" ELSE "events",
            GenerateFrameEventsForAppend(accumulated, Batch[r].frames, ref))
    /\ UNCHANGED <<stores, tries, snap, mode>>

\* Faulty: the check of the request's own copy is taken to be enough.
SetDetectedTrackLayoutAlways(r) ==
    LET s == Owner[r] IN
    /\ pc[r] = "detected"
    /\ session' = [session EXCEPT ![s].detectedTrack = found[r][1],
                                  ![s].detectedLayout = found[r][2]]
    /\ Goto(r, "events", todo[r])
    /\ UNCHANGED <<frames, laps, samples, events, seen, rejections, tries, snap, found, mode>>

\* sessionRepo.SetDetectedTrackLayout: writes only where nothing was detected
\* yet.  An error is logged and the request goes on.
SetDetectedTrackLayout(r) ==
    LET s == Owner[r] IN
    /\ pc[r] = "detected"
    /\ \/ session' = [session EXCEPT ![s] =
              IF @.detectedTrack = None /\ @.detectedLayout = None
              THEN [@ EXCEPT !.detectedTrack = found[r][1], !.detectedLayout = found[r][2]]
              ELSE @]
       \/ mode = "postgres" /\ UNCHANGED session
    /\ Goto(r, "events", todo[r])
    /\ UNCHANGED <<frames, laps, samples, events, seen, rejections, tries, snap, found, mode>>

Stored(s, event) == [session |-> s, event |-> event]

\* eventStore.Append up to the end of its critical section: the deduplicator
\* decides and remembers; in memory the event is stored there and then.
DedupEvent(r) ==
    LET s == Owner[r]
        event == Head(todo[r])
        key == DedupKey(s, event)
    IN
    /\ pc[r] = "events" /\ todo[r] # <<>>
    /\ IF Suppressed(seen, key, event.ts)
       THEN /\ Goto(r, "events", Tail(todo[r]))
            /\ UNCHANGED <<seen, events>>
       ELSE /\ seen' = Remember(seen, key, event.ts)
            /\ IF mode = "memory"
               THEN /\ events' = Newest(Append(events, Stored(s, event)), EventLimit)
                    /\ Goto(r, "events", Tail(todo[r]))
               ELSE /\ Goto(r, "insert", todo[r])
                    /\ UNCHANGED events
    /\ UNCHANGED <<session, frames, laps, samples, rejections, tries, snap, found, mode>>

\* INSERT ... ON CONFLICT (id) DO NOTHING.
InsertEvent(r) ==
    LET s == Owner[r]
        event == Head(todo[r])
        known == \E i \in 1 .. Len(events) :
                    events[i].session = s /\ events[i].event.id = event.id
    IN
    /\ pc[r] = "insert"
    /\ events' = IF known THEN events ELSE Append(events, Stored(s, event))
    /\ Goto(r, "events", Tail(todo[r]))
    /\ UNCHANGED <<session, frames, laps, samples, seen, rejections, tries, snap, found, mode>>

EventsDone(r) ==
    /\ pc[r] = "events" /\ todo[r] = <<>>
    /\ Goto(r, "reject", <<>>)
    /\ UNCHANGED <<stores, tries, snap, found, mode>>

\* rejectionStore.Append, best effort, and the answer.
StoreRejections(r) ==
    /\ pc[r] = "reject"
    /\ \/ /\ Batch[r].rejected > 0
          /\ rejections' = [rejections EXCEPT ![Owner[r]] = @ + Batch[r].rejected]
       \/ UNCHANGED rejections
    /\ Answer(r, 202)
    /\ UNCHANGED <<session, frames, laps, samples, events, seen, tries, snap, found, mode>>

\* Any call before the answer may fail, by a database error or because the
\* request's context is cancelled: 500, and nothing is undone.  The session map
\* in memory looks at no context.
Fail(r) ==
    /\ pc[r] \in {"validate", "append", "laps", "count", "gaps", "sample", "samples",
                  "derive", "events", "insert"}
    /\ pc[r] = "events" => todo[r] # <<>>
    /\ mode = "memory" => pc[r] # "validate"
    /\ Answer(r, 500)
    /\ UNCHANGED <<stores, tries, snap, found, mode>>

Step(r) ==
    \/ Send(r)
    \/ ValidateSession(r)
    \/ AppendFrames(r)
    \/ UpsertCompleted(r)
    \/ CountGaps(r)
    \/ UpdateTelemetryGapCount(r)
    \/ BuildSamples(r)
    \/ UpsertSamples(r)
    \/ DeriveEvents(r)
    \/ SetDetectedTrackLayout(r)
    \/ DedupEvent(r)
    \/ InsertEvent(r)
    \/ EventsDone(r)
    \/ StoreRejections(r)
    \/ Fail(r)

Next ==
    \/ \E s \in Sessions :
          \/ \E track \in {p[1] : p \in Catalog} \cup {None} : CreateSession(s, track)
          \/ FinishSession(s)
          \/ \E pair \in Catalog : SetTrackLayout(s, pair)
    \/ \E r \in Requests : Step(r)

Spec == Init /\ [][Next]_vars

-----------------------------------------------------------------------------
(* Properties.                                                             *)

Labels == {"idle", "validate", "append", "laps", "count", "gaps", "sample", "samples",
           "derive", "detected", "events", "insert", "reject", "answered"}

Optional(ids) == ids \cup {None}
Tracks == {p[1] : p \in Catalog}
Layouts == {p[2] : p \in Catalog}

TypeOK ==
    /\ session \in [Sessions -> [status : {"absent", "active", "finished"},
                                 track : Optional(Tracks), layout : Optional(Layouts),
                                 detectedTrack : Optional(Tracks),
                                 detectedLayout : Optional(Layouts)]]
    /\ \A s \in Sessions : mode = "memory" => Len(frames[s]) <= Capacity
    /\ \A s \in Sessions : \A l \in DOMAIN laps[s] :
          laps[s][l].time > 0 /\ laps[s][l].at > 0 /\ laps[s][l].gaps \in Nat
    /\ mode = "memory" => Len(events) <= EventLimit
    /\ pc \in [Requests -> Labels]
    /\ answer \in [Requests -> {0, 202, 400, 404, 409, 500}]
    /\ \A r \in Requests : pc[r] \in {"laps", "gaps", "samples", "insert"} => todo[r] # <<>>

FinishedUntouched ==
    \A s \in Sessions : session[s].status = "finished" => frames'[s] = frames[s]

\* Once a session is finished no frame enters it, not even from a request that
\* was validated while it was active: the endpoint answers 409 instead.
FinishedTakesNoFrames == [][FinishedUntouched]_vars

\* PostgreSQL keeps to that, because its append checks the session again.
RecheckKeepsFinishedClosed == [][mode = "postgres" => FinishedUntouched]_vars

\* The time and the moment of a completed lap are those of its first report,
\* whatever is reported, repeated or raced later.
LapFirstReportWins ==
    [][\A s \in Sessions : \A l \in DOMAIN laps[s] :
          /\ l \in DOMAIN laps'[s]
          /\ laps'[s][l].time = laps[s][l].time
          /\ laps'[s][l].at = laps[s][l].at]_vars

\* Two requests may both find nothing detected and then detect different
\* layouts: the first to be written stays, track and layout together.
DetectionFirstWins ==
    [][\A s \in Sessions :
          session[s].detectedTrack # None =>
            /\ session'[s].detectedTrack = session[s].detectedTrack
            /\ session'[s].detectedLayout = session[s].detectedLayout]_vars

\* What a session response is enriched with (sessionTrackCapabilities): the
\* chosen track and layout before the detected ones, each on its own.
EffectiveTrackID(s) == IF s.track # None THEN s.track ELSE s.detectedTrack
EffectiveLayoutID(s) == IF s.layout # None THEN s.layout ELSE s.detectedLayout

\* Although the two halves are chosen independently, and although detection
\* acts on a copy of the session that the track-layout handler may have
\* overtaken, they are always a pair of the catalog; a session created with a
\* track never gets a detected layout.
EffectiveLayoutInCatalog ==
    \A s \in Sessions :
        LET pair == <<EffectiveTrackID(session[s]), EffectiveLayoutID(session[s])>> IN
        /\ pair[1] # None /\ pair[2] # None => pair \in Catalog
        /\ session[s].track # None /\ session[s].layout = None =>
              session[s].detectedTrack = None

Accepted(r) == pc[r] = "answered" /\ answer[r] = 202

InOnePiece(part, seq) ==
    \E i \in 0 .. Len(seq) - Len(part) : SubSeq(seq, i + 1, i + Len(part)) = part

\* A 202 means that the batch is stored in one piece and that every lap it
\* completes has a row, which states a report some stored frame really made.
AcceptedIsStored ==
    \A r \in Requests : Accepted(r) /\ mode = "postgres" =>
        LET s == Owner[r] IN
        /\ InOnePiece(Batch[r].frames, frames[s])
        /\ \A i \in Reporting(Batch[r].frames) :
              LET l == Batch[r].frames[i].lap - 1 IN
              /\ l \in DOMAIN laps[s]
              /\ \E j \in Reporting(frames[s]) :
                    /\ frames[s][j].lap = l + 1
                    /\ frames[s][j].last = laps[s][l].time
                    /\ frames[s][j].ts = laps[s][l].at

\* Everything the client has started on the session has been accepted.
Settled(s) == \A r \in Requests : Owner[r] = s /\ tries[r] > 0 => Accepted(r)

\* With a client that sends in order and repeats what failed, the rows derived
\* from the frames are those of the frames as they are: a request that failed
\* between its calls, leaving a count of zero, half the samples or frames stored
\* twice, is made good by its repetition.
DerivedRowsExact ==
    \A s \in Sessions : Settled(s) =>
        \A l \in DOMAIN laps[s] :
            LET built == BuildLapSamples(l, frames[s], SampleStep) IN
            /\ laps[s][l].gaps = CountTelemetryGaps(l, frames[s])
            /\ IF l \in DOMAIN samples[s] THEN samples[s][l] = built ELSE built = NoSamples

\* What the documentation calls the stable key of an event: no event ID, no
\* timestamp.
DocumentedKey(e) == <<e.session, e.event.type, e.event.lap, e.event.ref, e.event.rule>>

\* Of two events with the same documented key inside one cooldown window only
\* one is stored.
CooldownOnDocumentedKey ==
    \A i, j \in 1 .. Len(events) :
        i < j /\ DocumentedKey(events[i]) = DocumentedKey(events[j]) =>
            events[j].event.ts - events[i].event.ts >= CooldownWindowMs
=============================================================================
