---------------------------- MODULE IngestProofs ----------------------------
(***************************************************************************)
(* What the ingest handler keeps in both runtimes, for any number of       *)
(* sessions, concurrent and repeated requests, any batches, any catalog    *)
(* and any failures between two calls.                                     *)
(***************************************************************************)
EXTENDS Ingest, FrameEventsProofs

-----------------------------------------------------------------------------
(* Which call writes what.                                                 *)

\* The handlers of other endpoints write the session and nothing else.
LEMMA SessionHandlers ==
    ASSUME NEW s \in Sessions,
           \/ \E track \in {p[1] : p \in Catalog} \cup {None} : CreateSession(s, track)
           \/ FinishSession(s)
           \/ \E pair \in Catalog : SetTrackLayout(s, pair)
    PROVE  UNCHANGED <<mode, frames, laps, samples, events, seen, rejections, pc, tries,
                       snap, todo, found, answer>>
BY DEF CreateSession, FinishSession, SetTrackLayout, handler

\* A call of the ingest handler writes one store and its own request's state.
LEMMA Writers ==
    ASSUME NEW r \in Requests, Step(r)
    PROVE  /\ mode' = mode
           /\ frames' = frames \/ AppendFrames(r)
           /\ laps' = laps \/ UpsertCompleted(r) \/ UpdateTelemetryGapCount(r)
           /\ events' = events \/ DedupEvent(r) \/ InsertEvent(r)
           /\ session' = session \/ SetDetectedTrackLayout(r)
           /\ snap' = snap \/ ValidateSession(r)
           /\ found' = found \/ DeriveEvents(r)
<1>1. CASE Send(r)
  BY <1>1 DEF Send, stores
<1>2. CASE ValidateSession(r)
  BY <1>2 DEF ValidateSession, stores
<1>3. CASE AppendFrames(r)
  BY <1>3 DEF AppendFrames
<1>4. CASE UpsertCompleted(r)
  BY <1>4 DEF UpsertCompleted
<1>5. CASE CountGaps(r)
  BY <1>5 DEF CountGaps, stores
<1>6. CASE UpdateTelemetryGapCount(r)
  BY <1>6 DEF UpdateTelemetryGapCount
<1>7. CASE BuildSamples(r)
  BY <1>7, Zenon DEF BuildSamples, stores
<1>8. CASE UpsertSamples(r)
  BY <1>8, Zenon DEF UpsertSamples
<1>9. CASE DeriveEvents(r)
  BY <1>9 DEF DeriveEvents, stores
<1>10. CASE SetDetectedTrackLayout(r)
  BY <1>10 DEF SetDetectedTrackLayout
<1>11. CASE DedupEvent(r)
  BY <1>11 DEF DedupEvent
<1>12. CASE InsertEvent(r)
  BY <1>12 DEF InsertEvent
<1>13. CASE EventsDone(r)
  BY <1>13 DEF EventsDone, stores
<1>14. CASE StoreRejections(r)
  BY <1>14 DEF StoreRejections
<1>15. CASE Fail(r)
  BY <1>15 DEF Fail, stores
<1> QED BY <1>1, <1>2, <1>3, <1>4, <1>5, <1>6, <1>7, <1>8, <1>9, <1>10, <1>11, <1>12,
           <1>13, <1>14, <1>15 DEF Step

\* Where a call leads to: an answer, or another call.
Moves(r) == (\E code \in {202, 400, 404, 409, 500} : Answer(r, code))
            \/ (\E label \in Labels : \E list : Goto(r, label, list))

\* Every call of the handler ends in one of the two.
LEMMA StepMoves ==
    ASSUME NEW r \in Requests, Step(r)
    PROVE  Moves(r)
<1>1. CASE Send(r)
  BY <1>1 DEF Send, Moves, Labels
<1>2. CASE ValidateSession(r)
  BY <1>2 DEF ValidateSession, Moves, Labels
<1>3. CASE AppendFrames(r)
  BY <1>3 DEF AppendFrames, Moves, Labels
<1>4. CASE UpsertCompleted(r)
  BY <1>4 DEF UpsertCompleted, Moves, Labels
<1>5. CASE CountGaps(r)
  BY <1>5 DEF CountGaps, Moves, Labels
<1>6. CASE UpdateTelemetryGapCount(r)
  BY <1>6 DEF UpdateTelemetryGapCount, Moves, Labels
<1>7. CASE BuildSamples(r)
  BY <1>7, Zenon DEF BuildSamples, Moves, Labels
<1>8. CASE UpsertSamples(r)
  BY <1>8, Zenon DEF UpsertSamples, Moves, Labels
<1>9. CASE DeriveEvents(r)
  BY <1>9 DEF DeriveEvents, Moves, Labels
<1>10. CASE SetDetectedTrackLayout(r)
  BY <1>10 DEF SetDetectedTrackLayout, Moves, Labels
<1>11. CASE DedupEvent(r)
  BY <1>11 DEF DedupEvent, Moves, Labels
<1>12. CASE InsertEvent(r)
  BY <1>12 DEF InsertEvent, Moves, Labels
<1>13. CASE EventsDone(r)
  BY <1>13 DEF EventsDone, Moves, Labels
<1>14. CASE StoreRejections(r)
  BY <1>14 DEF StoreRejections, Moves, Labels
<1>15. CASE Fail(r)
  BY <1>15 DEF Fail, Moves, Labels
<1> QED BY <1>1, <1>2, <1>3, <1>4, <1>5, <1>6, <1>7, <1>8, <1>9, <1>10, <1>11, <1>12,
           <1>13, <1>14, <1>15 DEF Step

-----------------------------------------------------------------------------
(* The handler's own state.                                                *)

\* What the loop of a call has left: something, and of the right kind.
LoopOK(r) ==
    /\ pc[r] \in {"laps", "gaps", "samples", "insert"} => todo[r] # <<>>
    /\ pc[r] = "laps" => todo[r] \in Seq(Completions(Batch[r].frames))
    /\ pc[r] = "count" => ExtractCompleted(Batch[r].frames) # <<>>
    /\ pc[r] = "gaps" => todo[r] \in Seq([lap : Int, gaps : Nat])
    /\ pc[r] = "insert" => mode = "postgres"

HandlerInv ==
    /\ mode \in {"memory", "postgres"}
    /\ pc \in [Requests -> Labels]
    /\ answer \in [Requests -> {0, 202, 400, 404, 409, 500}]
    /\ DOMAIN todo = Requests /\ DOMAIN snap = Requests /\ DOMAIN found = Requests
    /\ \A r \in Requests : LoopOK(r)

\* The frames of all batches.
Known == UNION {Range(Batch[r].frames) : r \in Requests}

\* The frames of a session are frames of the batches; the buffer has its capacity.
FramesInv ==
    /\ frames \in [Sessions -> Seq(Known)]
    /\ mode = "memory" => \A s \in Sessions : Len(frames[s]) <= Capacity

\* A report of a completed lap, as ExtractCompleted makes it.
Report == [lap : Nat, time : Nat \ {0}, at : Nat \ {0}]

\* A batch is a list of known frames, and its completed laps are reports of them.
LEMMA BatchFacts ==
    ASSUME NEW r \in Requests
    PROVE  /\ Batch[r].frames \in Seq(Known) /\ Len(Batch[r].frames) \in Nat
           /\ \A i \in 1 .. Len(Batch[r].frames) :
                 /\ Batch[r].frames[i].ts \in Nat \ {0}
                 /\ Batch[r].frames[i].lap \in Nat
                 /\ Batch[r].frames[i].last \in Nat
           /\ ExtractCompleted(Batch[r].frames) \in Seq(Completions(Batch[r].frames))
           /\ \A i \in Reporting(Batch[r].frames) :
                 \E k \in 1 .. Len(ExtractCompleted(Batch[r].frames)) :
                    ExtractCompleted(Batch[r].frames)[k].lap = Batch[r].frames[i].lap - 1
           /\ Completions(Batch[r].frames) \subseteq Report
<1> DEFINE list == Batch[r].frames
<1>1. /\ list \in Seq(Range(list))
      /\ \A i \in 1 .. Len(list) :
            list[i].ts \in Nat \ {0} /\ list[i].lap \in Nat /\ list[i].last \in Nat
  BY BatchAssumption
<1>2. Range(list) \subseteq Known
  BY DEF Known
<1>3. list \in Seq(Known) /\ Len(list) \in Nat
  <2> HIDE DEF list
  <2> QED BY <1>1, <1>2
<1>4. Completions(list) \subseteq Report
  <2> HIDE DEF list
  <2> SUFFICES ASSUME NEW i \in Reporting(list)
               PROVE  [lap |-> list[i].lap - 1, time |-> list[i].last, at |-> list[i].ts]
                         \in Report
    BY DEF Completions
  <2>1. i \in 1 .. Len(list) /\ list[i].lap > 0 /\ list[i].last > 0
    BY DEF Reporting
  <2>2. list[i].lap - 1 \in Nat /\ list[i].last \in Nat \ {0} /\ list[i].ts \in Nat \ {0}
    BY <1>1, <2>1
  <2> QED BY <2>2 DEF Report
<1>5. /\ ExtractCompleted(list) \in Seq(Completions(list))
      /\ \A i \in Reporting(list) : \E k \in 1 .. Len(ExtractCompleted(list)) :
            ExtractCompleted(list)[k].lap = list[i].lap - 1
  <2> HIDE DEF list
  <2> QED BY <1>1, <1>3, ExtractLists
<1> QED BY <1>1, <1>3, <1>4, <1>5

\* A batch with a report completes a lap.
LEMMA ReportCompletesLap ==
    ASSUME NEW r \in Requests, NEW i \in Reporting(Batch[r].frames)
    PROVE  ExtractCompleted(Batch[r].frames) # <<>>
<1> DEFINE completed == ExtractCompleted(Batch[r].frames)
<1>1. PICK k \in 1 .. Len(completed) : completed[k].lap = Batch[r].frames[i].lap - 1
  BY BatchFacts
<1> HIDE DEF completed
<1>2. completed # <<>>
  BY <1>1
<1> QED BY <1>2 DEF completed

\* The requests that do not move keep their state.
LEMMA OthersStay ==
    ASSUME HandlerInv, NEW r \in Requests, Step(r)
    PROVE  /\ pc' \in [Requests -> Labels]
           /\ answer' \in [Requests -> {0, 202, 400, 404, 409, 500}]
           /\ DOMAIN todo' = Requests /\ DOMAIN snap' = Requests /\ DOMAIN found' = Requests
           /\ \A q \in Requests : q # r =>
                 /\ pc'[q] = pc[q] /\ todo'[q] = todo[q] /\ answer'[q] = answer[q]
                 /\ snap'[q] = snap[q] /\ found'[q] = found[q]
<1>1. Moves(r)
  BY StepMoves
<1>2. /\ pc' \in [Requests -> Labels]
      /\ answer' \in [Requests -> {0, 202, 400, 404, 409, 500}]
      /\ DOMAIN todo' = Requests
      /\ \A q \in Requests : q # r => pc'[q] = pc[q] /\ todo'[q] = todo[q] /\ answer'[q] = answer[q]
  <2>1. CASE \E code \in {202, 400, 404, 409, 500} : Answer(r, code)
    BY <2>1 DEF HandlerInv, Answer, Labels
  <2>2. CASE \E label \in Labels : \E list : Goto(r, label, list)
    BY <2>2 DEF HandlerInv, Goto
  <2> QED BY <1>1, <2>1, <2>2 DEF Moves
<1>3. DOMAIN snap' = Requests /\ \A q \in Requests : q # r => snap'[q] = snap[q]
  <2>1. CASE snap' = snap
    BY <2>1 DEF HandlerInv
  <2>2. CASE ValidateSession(r)
    BY <2>2 DEF HandlerInv, ValidateSession
  <2> QED BY <2>1, <2>2, Writers
<1>4. DOMAIN found' = Requests /\ \A q \in Requests : q # r => found'[q] = found[q]
  <2>1. CASE found' = found
    BY <2>1 DEF HandlerInv
  <2>2. CASE DeriveEvents(r)
    BY <2>2 DEF HandlerInv, DeriveEvents
  <2> QED BY <2>1, <2>2, Writers
<1> QED BY <1>2, <1>3, <1>4

\* Where the moved request is afterwards.
LEMMA OwnMove ==
    ASSUME HandlerInv, NEW r \in Requests
    PROVE  /\ \A code : Answer(r, code) =>
                 pc'[r] = "answered" /\ todo'[r] = <<>> /\ answer'[r] = code
           /\ \A label, list : Goto(r, label, list) =>
                 pc'[r] = label /\ todo'[r] = list /\ answer'[r] = answer[r]
BY DEF HandlerInv, Answer, Goto

\* The rest of a list after its first n elements.
LEMMA RestOfList ==
    ASSUME NEW S, NEW list \in Seq(S), NEW n \in 0 .. Len(list)
    PROVE  /\ SubSeq(list, n + 1, Len(list)) \in Seq(S)
           /\ SubSeq(list, 1, n) \in Seq(S)
           /\ Len(SubSeq(list, 1, n)) = n /\ Len(SubSeq(list, n + 1, Len(list))) = Len(list) - n
           /\ \A i \in 1 .. n : SubSeq(list, 1, n)[i] = list[i]
           /\ \A i \in 1 .. Len(list) - n : SubSeq(list, n + 1, Len(list))[i] = list[n + i]
BY SubSeqProperties

\* The loop of the moved request is in order after each of its calls.
LEMMA OwnLoop ==
    ASSUME HandlerInv, FramesInv, NEW r \in Requests, Step(r)
    PROVE  LoopOK(r)'
<1> USE OwnMove
<1>a. LoopOK(r) /\ DOMAIN todo = Requests /\ mode' = mode /\ mode \in {"memory", "postgres"}
  BY Writers DEF HandlerInv
<1>1. CASE \E code : Answer(r, code)
  BY <1>1 DEF LoopOK
<1>2. ASSUME NEW label \in Labels \ {"laps", "count", "gaps", "samples", "insert"}, NEW list,
             Goto(r, label, list)
      PROVE  LoopOK(r)'
  BY <1>2 DEF LoopOK
<1>3. CASE Send(r)
  BY <1>2, <1>3 DEF Send, Labels
<1>4. CASE ValidateSession(r)
  BY <1>1, <1>2, <1>4 DEF ValidateSession, Labels
<1>5. CASE AppendFrames(r)
  <2> DEFINE completed == ExtractCompleted(Batch[r].frames)
  <2>1. CASE completed # <<>> /\ Goto(r, "laps", completed)
    BY <2>1, BatchFacts DEF LoopOK
  <2>2. CASE Goto(r, "derive", completed)
    BY <1>2, <2>2 DEF Labels
  <2> QED BY <1>1, <1>5, <2>1, <2>2 DEF AppendFrames
<1>6. CASE UpsertCompleted(r)
  <2> DEFINE n == IF mode = "memory" THEN Len(todo[r]) ELSE 1
             rest == SubSeq(todo[r], n + 1, Len(todo[r]))
  <2>1. todo[r] \in Seq(Completions(Batch[r].frames)) /\ todo[r] # <<>>
    BY <1>a, <1>6 DEF UpsertCompleted, LoopOK
  <2>2. n \in 0 .. Len(todo[r])
    BY <2>1
  <2>3. rest \in Seq(Completions(Batch[r].frames))
    BY <2>1, <2>2, RestOfList
  <2>4. CASE Goto(r, "count", <<>>)
    <3>1. ExtractCompleted(Batch[r].frames) # <<>>
      <4>1. todo[r][1] \in Completions(Batch[r].frames)
        BY <2>1
      <4>2. PICK i \in Reporting(Batch[r].frames) : TRUE
        BY <4>1 DEF Completions
      <4> QED BY <4>2, ReportCompletesLap
    <3> QED BY <2>4, <3>1 DEF LoopOK
  <2>5. CASE rest # <<>> /\ Goto(r, "laps", rest)
    <3> HIDE DEF rest
    <3>1. pc'[r] = "laps" /\ todo'[r] = rest
      BY <2>5
    <3> QED BY <2>3, <2>5, <3>1 DEF LoopOK
  <2> QED BY <1>6, <2>4, <2>5 DEF UpsertCompleted
<1>7. CASE CountGaps(r)
  <2> DEFINE completed == ExtractCompleted(Batch[r].frames)
             counts == [k \in 1 .. Len(completed) |->
                          [lap |-> completed[k].lap,
                           gaps |-> CountTelemetryGaps(completed[k].lap, frames[Owner[r]])]]
  <2>1. completed # <<>> /\ completed \in Seq(Completions(Batch[r].frames))
    BY <1>a, <1>7, BatchFacts DEF CountGaps, LoopOK
  <2>2. Len(frames[Owner[r]]) \in Nat
    BY OwnerAssumption DEF FramesInv
  <2>3. Goto(r, "gaps", counts)
    BY <1>7 DEF CountGaps
  <2>4. counts \in Seq([lap : Int, gaps : Nat]) /\ counts # <<>>
    <3> HIDE DEF completed
    <3>1. Len(completed) \in Nat \ {0}
      BY <2>1
    <3>2. ASSUME NEW k \in 1 .. Len(completed)
          PROVE  /\ completed[k].lap \in Int
                 /\ CountTelemetryGaps(completed[k].lap, frames[Owner[r]]) \in Nat
      <4>1. completed[k] \in Completions(Batch[r].frames)
        BY <2>1
      <4>2. completed[k] \in Report
        BY <4>1, BatchFacts
      <4>3. completed[k].lap \in Int
        BY <4>2 DEF Report
      <4>4. CountTelemetryGaps(completed[k].lap, frames[Owner[r]]) \in Nat
        BY <2>2, GapCountIsNat
      <4> QED BY <4>3, <4>4
    <3> QED BY <3>1, <3>2
  <2> HIDE DEF counts
  <2> QED BY <2>3, <2>4 DEF LoopOK
<1>8. CASE UpdateTelemetryGapCount(r)
  <2>1. todo[r] \in Seq([lap : Int, gaps : Nat]) /\ todo[r] # <<>>
    BY <1>a, <1>8 DEF UpdateTelemetryGapCount, LoopOK
  <2>2. CASE Tail(todo[r]) # <<>> /\ Goto(r, "gaps", Tail(todo[r]))
    <3>1. pc'[r] = "gaps" /\ todo'[r] = Tail(todo[r])
      BY <2>2
    <3>2. Tail(todo[r]) \in Seq([lap : Int, gaps : Nat])
      BY <2>1
    <3> QED BY <2>2, <3>1, <3>2 DEF LoopOK
  <2>3. CASE Goto(r, "sample", <<>>)
    BY <1>2, <2>3 DEF Labels
  <2> QED BY <1>8, <2>2, <2>3 DEF UpdateTelemetryGapCount
<1>9. CASE BuildSamples(r)
  <2>1. \/ Goto(r, "derive", <<>>)
        \/ \E list : list # <<>> /\ Goto(r, "samples", list)
    BY <1>9, Zenon DEF BuildSamples
  <2> QED BY <1>2, <2>1 DEF LoopOK, Labels
<1>10. CASE UpsertSamples(r)
  <2>1. \/ Goto(r, "derive", <<>>)
        \/ \E list : list # <<>> /\ Goto(r, "samples", list)
    BY <1>10, Zenon DEF UpsertSamples
  <2> QED BY <1>2, <2>1 DEF LoopOK, Labels
<1>11. CASE DeriveEvents(r)
  BY <1>2, <1>11 DEF DeriveEvents, Labels
<1>12. CASE SetDetectedTrackLayout(r)
  BY <1>2, <1>12 DEF SetDetectedTrackLayout, Labels
<1>13. CASE DedupEvent(r)
  <2>1. CASE Goto(r, "events", Tail(todo[r]))
    BY <1>2, <2>1 DEF Labels
  <2>2. CASE mode # "memory" /\ todo[r] # <<>> /\ Goto(r, "insert", todo[r])
    BY <1>a, <2>2 DEF LoopOK
  <2> QED BY <1>13, <2>1, <2>2 DEF DedupEvent
<1>14. CASE InsertEvent(r)
  BY <1>2, <1>14 DEF InsertEvent, Labels
<1>15. CASE EventsDone(r)
  BY <1>2, <1>15 DEF EventsDone, Labels
<1>16. CASE StoreRejections(r)
  BY <1>1, <1>16 DEF StoreRejections
<1>17. CASE Fail(r)
  BY <1>1, <1>17 DEF Fail
<1> QED BY <1>3, <1>4, <1>5, <1>6, <1>7, <1>8, <1>9, <1>10, <1>11, <1>12, <1>13, <1>14,
           <1>15, <1>16, <1>17 DEF Step

\* Every step keeps the handlers' state in order.
LEMMA HandlerKept ==
    ASSUME HandlerInv, FramesInv, [Next]_vars
    PROVE  HandlerInv'
<1>1. ASSUME NEW r \in Requests, Step(r)
      PROVE  HandlerInv'
  <2>1. mode' = mode
    BY <1>1, Writers
  <2>2. ASSUME NEW q \in Requests, q # r
        PROVE  LoopOK(q)'
    <3>1. pc'[q] = pc[q] /\ todo'[q] = todo[q] /\ LoopOK(q)
      BY <1>1, <2>2, OthersStay DEF HandlerInv
    <3> QED BY <2>1, <3>1 DEF LoopOK
  <2>3. LoopOK(r)'
    BY <1>1, OwnLoop
  <2>4. \A q \in Requests : LoopOK(q)'
    BY <2>2, <2>3
  <2>5. /\ pc' \in [Requests -> Labels]
        /\ answer' \in [Requests -> {0, 202, 400, 404, 409, 500}]
        /\ DOMAIN todo' = Requests /\ DOMAIN snap' = Requests /\ DOMAIN found' = Requests
    BY <1>1, OthersStay
  <2> QED BY <2>1, <2>4, <2>5 DEF HandlerInv
<1>2. CASE UNCHANGED <<mode, pc, answer, todo, snap, found>>
  BY <1>2 DEF HandlerInv, LoopOK
<1> QED BY <1>1, <1>2, SessionHandlers DEF Next, vars

-----------------------------------------------------------------------------
(* Frames, laps and events.                                                *)

\* Newest cuts a sequence to n elements.
LEMMA NewestBounds ==
    ASSUME NEW S, NEW seq \in Seq(S), NEW n \in Nat
    PROVE  Newest(seq, n) \in Seq(S) /\ Len(Newest(seq, n)) <= n
<1>1. CASE Len(seq) > n
  <2>1. Len(seq) - n \in 0 .. Len(seq)
    BY <1>1
  <2>2. /\ SubSeq(seq, (Len(seq) - n) + 1, Len(seq)) \in Seq(S)
        /\ Len(SubSeq(seq, (Len(seq) - n) + 1, Len(seq))) = Len(seq) - (Len(seq) - n)
    BY <2>1, RestOfList
  <2> QED BY <1>1, <2>2 DEF Newest
<1>2. CASE ~(Len(seq) > n)
  BY <1>2 DEF Newest
<1> QED BY <1>1, <1>2

\* What Append leaves of the frames of a session.
Appended(r) == IF mode = "memory" THEN Newest(frames[Owner[r]] \o Batch[r].frames, Capacity)
               ELSE frames[Owner[r]] \o Batch[r].frames

\* Append writes the frames of the request's session, or nothing.
LEMMA AppendWrites ==
    ASSUME FramesInv, NEW r \in Requests, AppendFrames(r)
    PROVE  \/ frames' = frames
           \/ /\ frames' = [frames EXCEPT ![Owner[r]] = Appended(r)]
              /\ mode = "postgres" => session[Owner[r]].status = "active"
<1>1. Owner[r] \in Sessions /\ DOMAIN frames = Sessions
  BY OwnerAssumption DEF FramesInv
<1> QED BY <1>1 DEF AppendFrames, Appended

\* Every step keeps the frames within the batches and the buffer's capacity.
LEMMA FramesKept ==
    ASSUME HandlerInv, FramesInv, [Next]_vars
    PROVE  FramesInv'
<1>1. ASSUME NEW r \in Requests, AppendFrames(r), mode' = mode
      PROVE  FramesInv'
  <2>1. Owner[r] \in Sessions /\ DOMAIN frames = Sessions /\ frames[Owner[r]] \in Seq(Known)
    BY OwnerAssumption DEF FramesInv
  <2>2. frames[Owner[r]] \o Batch[r].frames \in Seq(Known)
    BY <2>1, BatchFacts
  <2>3. Appended(r) \in Seq(Known) /\ (mode = "memory" => Len(Appended(r)) <= Capacity)
    BY <2>2, NewestBounds, BoundsAssumption DEF Appended
  <2>4. frames' = frames \/ frames' = [frames EXCEPT ![Owner[r]] = Appended(r)]
    BY <1>1, AppendWrites
  <2> QED BY <1>1, <2>1, <2>3, <2>4 DEF FramesInv
<1>2. CASE UNCHANGED <<frames, mode>>
  BY <1>2 DEF FramesInv
<1> QED BY <1>1, <1>2, Writers, SessionHandlers DEF Next, vars

LapRow == [time : Nat \ {0}, at : Nat \ {0}, gaps : Nat]

\* The laps table of a session is a function from laps to rows.
LapsInv ==
    /\ DOMAIN laps = Sessions
    /\ \A s \in Sessions : laps[s] \in [DOMAIN laps[s] -> LapRow]

\* A table after a list of reports: the rows keep what they report, and a new row
\* states a report of the list.
KeepsReports(table, list, new) ==
    /\ DOMAIN new = DOMAIN table \cup {list[k].lap : k \in 1 .. Len(list)}
    /\ new \in [DOMAIN new -> LapRow]
    /\ \A l \in DOMAIN table : new[l].time = table[l].time /\ new[l].at = table[l].at
    /\ \A l \in DOMAIN new \ DOMAIN table :
          \E k \in 1 .. Len(list) :
             list[k].lap = l /\ new[l].time = list[k].time /\ new[l].at = list[k].at

\* Upsert makes such a table.
LEMMA UpsertRows ==
    ASSUME NEW S, S \subseteq Report,
           NEW table, table \in [DOMAIN table -> LapRow], NEW list \in Seq(S)
    PROVE  KeepsReports(table, list, Upsert(table, list))
<1> DEFINE new == Upsert(table, list)
<1> DEFINE Reports(l) == {k \in DOMAIN list : list[k].lap = l}
           first(l) == CHOOSE k \in Reports(l) : \A j \in Reports(l) : k <= j
           Overwritten(l) == \E k \in Reports(l) :
             mode = "memory" \/ (table[l].time = list[k].time /\ table[l].at = list[k].at)
<1>1. new = [l \in DOMAIN table \cup {list[k].lap : k \in DOMAIN list} |->
               IF l \notin DOMAIN table THEN Row(list[first(l)])
               ELSE IF Overwritten(l) THEN [table[l] EXCEPT !.gaps = 0]
               ELSE table[l]]
  BY DEF Upsert
<1> HIDE DEF new
<1>2. DOMAIN list = 1 .. Len(list) /\ \A k \in DOMAIN list : list[k] \in S
  OBVIOUS
<1>3. DOMAIN new = DOMAIN table \cup {list[k].lap : k \in 1 .. Len(list)}
  BY <1>1, <1>2
<1>4. ASSUME NEW l \in DOMAIN new, l \notin DOMAIN table
      PROVE  /\ new[l] \in LapRow
             /\ \E k \in 1 .. Len(list) :
                   list[k].lap = l /\ new[l].time = list[k].time /\ new[l].at = list[k].at
  <2>1. Reports(l) \in SUBSET Nat /\ Reports(l) # {}
    BY <1>2, <1>3, <1>4
  <2>2. \E x \in Reports(l) : \A y \in Reports(l) : x <= y
    <3> HIDE DEF Reports
    <3> QED BY <2>1, FirstPosition
  <2>3. first(l) \in DOMAIN list /\ list[first(l)].lap = l
    BY <2>2
  <2>4. new[l] = Row(list[first(l)])
    BY <1>1, <1>3, <1>4
  <2> HIDE DEF first
  <2>5. list[first(l)] \in Report
    BY <1>2, <2>3
  <2>6. new[l] \in LapRow
    BY <2>4, <2>5 DEF Row, LapRow, Report
  <2>7. new[l].time = list[first(l)].time /\ new[l].at = list[first(l)].at
    BY <2>4 DEF Row
  <2> QED BY <1>2, <2>3, <2>6, <2>7
<1>5. ASSUME NEW l \in DOMAIN table
      PROVE  new[l] \in LapRow /\ new[l].time = table[l].time /\ new[l].at = table[l].at
  <2>1. table[l] \in LapRow
    OBVIOUS
  <2>2. new[l] = table[l] \/ new[l] = [table[l] EXCEPT !.gaps = 0]
    BY <1>1
  <2> QED BY <2>1, <2>2 DEF LapRow
<1>6. new \in [DOMAIN new -> LapRow]
  <2>1. \A l \in DOMAIN new : new[l] \in LapRow
    BY <1>4, <1>5
  <2>2. new = [l \in DOMAIN new |-> new[l]]
    BY <1>1
  <2> QED BY <2>1, <2>2
<1> QED BY <1>3, <1>4, <1>5, <1>6 DEF KeepsReports, new

\* One step of the laps table of session s, for LapFirstReportWins.
RowsStay(s) ==
    \A l \in DOMAIN laps[s] : /\ l \in DOMAIN laps'[s]
                              /\ laps'[s][l].time = laps[s][l].time
                              /\ laps'[s][l].at = laps[s][l].at

\* UpsertCompleted writes the first part of the reports that the loop has left.
LEMMA UpsertWrites ==
    ASSUME HandlerInv, LapsInv, NEW r \in Requests, UpsertCompleted(r)
    PROVE  \E n \in 1 .. Len(todo[r]) :
              /\ SubSeq(todo[r], 1, n) \in Seq(Completions(Batch[r].frames))
              /\ laps' = [laps EXCEPT ![Owner[r]] =
                            Upsert(laps[Owner[r]], SubSeq(todo[r], 1, n))]
              /\ LET rest == SubSeq(todo[r], n + 1, Len(todo[r])) IN
                 IF rest = <<>> THEN Goto(r, "count", <<>>) ELSE Goto(r, "laps", rest)
<1> DEFINE n == IF mode = "memory" THEN Len(todo[r]) ELSE 1
<1>1. todo[r] \in Seq(Completions(Batch[r].frames)) /\ todo[r] # <<>>
  BY DEF UpsertCompleted, HandlerInv, LoopOK
<1>2. n \in 1 .. Len(todo[r])
  BY <1>1
<1>3. SubSeq(todo[r], 1, n) \in Seq(Completions(Batch[r].frames))
  BY <1>1, <1>2, RestOfList
<1>4. Owner[r] \in Sessions /\ DOMAIN laps = Sessions
  BY OwnerAssumption DEF LapsInv
<1>5. laps' = [laps EXCEPT ![Owner[r]] = Upsert(laps[Owner[r]], SubSeq(todo[r], 1, n))]
  BY <1>4 DEF UpsertCompleted
<1>6. LET rest == SubSeq(todo[r], n + 1, Len(todo[r])) IN
      IF rest = <<>> THEN Goto(r, "count", <<>>) ELSE Goto(r, "laps", rest)
  BY DEF UpsertCompleted
<1> HIDE DEF n
<1> QED BY <1>2, <1>3, <1>5, <1>6

\* UpdateTelemetryGapCount writes the gap count of a row that exists.
LEMMA GapWrites ==
    ASSUME HandlerInv, LapsInv, NEW r \in Requests, UpdateTelemetryGapCount(r)
    PROVE  /\ LapsInv'
           /\ \A s \in Sessions : RowsStay(s) /\ DOMAIN laps'[s] = DOMAIN laps[s]
<1> DEFINE s == Owner[r]
           c == Head(todo[r])
           row == [laps[s][c.lap] EXCEPT !.gaps = c.gaps]
<1>1. s \in Sessions /\ DOMAIN laps = Sessions /\ laps[s] \in [DOMAIN laps[s] -> LapRow]
  BY OwnerAssumption DEF LapsInv
<1>2. c \in [lap : Int, gaps : Nat]
  <2>1. todo[r] \in Seq([lap : Int, gaps : Nat]) /\ todo[r] # <<>>
    BY DEF UpdateTelemetryGapCount, HandlerInv, LoopOK
  <2> QED BY <2>1, HeadTailProperties
<1>3. CASE c.lap \notin DOMAIN laps[s]
  <2>1. laps' = [laps EXCEPT ![s] = laps[s]]
    BY <1>1, <1>3 DEF UpdateTelemetryGapCount
  <2> QED BY <1>1, <2>1 DEF LapsInv, RowsStay
<1>4. CASE c.lap \in DOMAIN laps[s]
  <2>1. laps' = [laps EXCEPT ![s] = [laps[s] EXCEPT ![c.lap].gaps = c.gaps]]
    BY <1>1, <1>4 DEF UpdateTelemetryGapCount
  <2>2. laps[s][c.lap] \in LapRow
    BY <1>1, <1>4
  <2> HIDE DEF c, s
  <2>3. [laps[s] EXCEPT ![c.lap].gaps = c.gaps] = [laps[s] EXCEPT ![c.lap] = row]
    BY <1>1, <1>4
  <2>4. row \in LapRow /\ row.time = laps[s][c.lap].time /\ row.at = laps[s][c.lap].at
    BY <1>2, <2>2 DEF LapRow
  <2> HIDE DEF row
  <2>5. laps'[s] = [laps[s] EXCEPT ![c.lap] = row] /\ DOMAIN laps' = Sessions
    BY <1>1, <2>1, <2>3
  <2>6. \A t \in Sessions : t # s => laps'[t] = laps[t]
    BY <1>1, <2>1
  <2>7. DOMAIN laps'[s] = DOMAIN laps[s] /\ laps'[s] \in [DOMAIN laps'[s] -> LapRow]
    BY <1>1, <1>4, <2>4, <2>5
  <2>8. RowsStay(s)
    BY <1>1, <1>4, <2>4, <2>5 DEF RowsStay
  <2>9. LapsInv'
    BY <2>5, <2>6, <2>7 DEF LapsInv
  <2> QED BY <2>6, <2>7, <2>8, <2>9 DEF RowsStay
<1> QED BY <1>3, <1>4

\* Every step keeps the rows' reports; a new row is a report of a batch being stored.
LEMMA LapsKept ==
    ASSUME HandlerInv, LapsInv, [Next]_vars
    PROVE  /\ LapsInv'
           /\ \A s \in Sessions : RowsStay(s)
           /\ \A s \in Sessions : \A l \in DOMAIN laps'[s] \ DOMAIN laps[s] :
                 \E r \in Requests :
                    /\ Owner[r] = s /\ pc[r] = "laps"
                    /\ \E c \in Completions(Batch[r].frames) :
                          c.lap = l /\ laps'[s][l].time = c.time /\ laps'[s][l].at = c.at
<1>1. ASSUME NEW r \in Requests, UpsertCompleted(r)
      PROVE  /\ LapsInv'
             /\ \A s \in Sessions : RowsStay(s)
             /\ \A s \in Sessions : \A l \in DOMAIN laps'[s] \ DOMAIN laps[s] :
                   /\ Owner[r] = s /\ pc[r] = "laps"
                   /\ \E c \in Completions(Batch[r].frames) :
                         c.lap = l /\ laps'[s][l].time = c.time /\ laps'[s][l].at = c.at
  <2> DEFINE S == Completions(Batch[r].frames)
             o == Owner[r]
  <2>1. S \subseteq Report
    BY BatchFacts
  <2>2. PICK n : /\ SubSeq(todo[r], 1, n) \in Seq(S)
                 /\ laps' = [laps EXCEPT ![o] = Upsert(laps[o], SubSeq(todo[r], 1, n))]
    BY <1>1, UpsertWrites
  <2> DEFINE list == SubSeq(todo[r], 1, n)
             new == Upsert(laps[o], list)
  <2>3. o \in Sessions /\ DOMAIN laps = Sessions /\ laps[o] \in [DOMAIN laps[o] -> LapRow]
    BY OwnerAssumption DEF LapsInv
  <2>4. list \in Seq(S) /\ laps' = [laps EXCEPT ![o] = new]
    BY <2>2
  <2> HIDE DEF S, list
  <2>5. KeepsReports(laps[o], list, new)
    BY <2>1, <2>3, <2>4, UpsertRows
  <2> HIDE DEF new, o
  <2>6. laps'[o] = new /\ DOMAIN laps' = Sessions /\ \A s \in Sessions : s # o => laps'[s] = laps[s]
    BY <2>3, <2>4
  <2>7. LapsInv'
    <3>1. new \in [DOMAIN new -> LapRow]
      BY <2>5 DEF KeepsReports
    <3> QED BY <2>6, <3>1 DEF LapsInv
  <2>8. \A s \in Sessions : RowsStay(s)
    <3>1. \A l \in DOMAIN laps[o] :
            l \in DOMAIN new /\ new[l].time = laps[o][l].time /\ new[l].at = laps[o][l].at
      BY <2>5 DEF KeepsReports
    <3> QED BY <2>6, <3>1 DEF RowsStay
  <2>9. ASSUME NEW s \in Sessions, NEW l \in DOMAIN laps'[s] \ DOMAIN laps[s]
        PROVE  /\ Owner[r] = s /\ pc[r] = "laps"
               /\ \E c \in S : c.lap = l /\ laps'[s][l].time = c.time /\ laps'[s][l].at = c.at
    <3>1. s = o
      BY <2>6, <2>9
    <3>2. PICK k \in 1 .. Len(list) : /\ list[k].lap = l
                                      /\ new[l].time = list[k].time
                                      /\ new[l].at = list[k].at
      BY <2>5, <2>6, <2>9, <3>1 DEF KeepsReports
    <3>3. list[k] \in S
      BY <2>4, <3>2
    <3>4. pc[r] = "laps"
      BY <1>1 DEF UpsertCompleted
    <3> QED BY <2>6, <3>1, <3>2, <3>3, <3>4 DEF o
  <2> QED BY <2>7, <2>8, <2>9 DEF S
<1>2. CASE laps' = laps
  BY <1>2 DEF LapsInv, RowsStay
<1>3. ASSUME NEW r \in Requests, UpdateTelemetryGapCount(r)
      PROVE  /\ LapsInv'
             /\ \A s \in Sessions : RowsStay(s) /\ DOMAIN laps'[s] = DOMAIN laps[s]
  BY <1>3, GapWrites
<1>4. \/ laps' = laps
      \/ \E r \in Requests : UpsertCompleted(r) \/ UpdateTelemetryGapCount(r)
  BY Writers, SessionHandlers DEF Next, vars
<1> QED BY <1>1, <1>2, <1>3, <1>4

\* The events are a list, and the store in memory has its limit.
EventsInv ==
    /\ \E S : events \in Seq(S)
    /\ mode = "memory" => Len(events) <= EventLimit

\* Every step keeps the events within the store's limit.
LEMMA EventsKept ==
    ASSUME HandlerInv, EventsInv, [Next]_vars
    PROVE  EventsInv'
<1>1. PICK S : events \in Seq(S)
  BY DEF EventsInv
<1>2. ASSUME NEW e
      PROVE  /\ Append(events, e) \in Seq(S \cup {e})
             /\ Newest(Append(events, e), EventLimit) \in Seq(S \cup {e})
             /\ Len(Newest(Append(events, e), EventLimit)) <= EventLimit
  <2>1. events \in Seq(S \cup {e})
    BY <1>1
  <2>2. Append(events, e) \in Seq(S \cup {e})
    BY <2>1
  <2> QED BY <2>2, NewestBounds, BoundsAssumption
<1>3. CASE UNCHANGED <<events, mode>>
  BY <1>3 DEF EventsInv
<1>4. ASSUME NEW r \in Requests, DedupEvent(r), mode' = mode
      PROVE  EventsInv'
  <2> DEFINE e == Stored(Owner[r], Head(todo[r]))
  <2>1. \/ events' = events
        \/ events' = Newest(Append(events, e), EventLimit)
    BY <1>4 DEF DedupEvent
  <2> HIDE DEF e
  <2>2. CASE events' = Newest(Append(events, e), EventLimit)
    BY <1>2, <2>2 DEF EventsInv
  <2> QED BY <1>3, <1>4, <2>1, <2>2
<1>5. ASSUME NEW r \in Requests, InsertEvent(r), mode' = mode
      PROVE  EventsInv'
  <2> DEFINE e == Stored(Owner[r], Head(todo[r]))
  <2>1. mode' = "postgres"
    BY <1>5 DEF InsertEvent, HandlerInv, LoopOK
  <2>2. events' = events \/ events' = Append(events, e)
    BY <1>5 DEF InsertEvent
  <2> HIDE DEF e
  <2>3. \E T : events' \in Seq(T)
    BY <1>1, <1>2, <2>2
  <2> QED BY <2>1, <2>3 DEF EventsInv
<1> QED BY <1>3, <1>4, <1>5, Writers, SessionHandlers DEF Next, vars

-----------------------------------------------------------------------------
(* The session row.                                                        *)

\* A session is a record of its five columns.
Columns(row) == row = [status |-> row.status, track |-> row.track, layout |-> row.layout,
                       detectedTrack |-> row.detectedTrack,
                       detectedLayout |-> row.detectedLayout]

SessionShape ==
    /\ session = [s \in Sessions |-> session[s]]
    /\ \A s \in Sessions : Columns(session[s])

\* What one step does to a session row, whoever takes it.
Created(s) == \E track \in Tracks \cup {None} :
    /\ session[s].status = "absent"
    /\ session'[s] = [session[s] EXCEPT !.status = "active", !.track = track]
Finished(s) ==
    /\ session[s].status = "active"
    /\ session'[s] = [session[s] EXCEPT !.status = "finished"]
Chosen(s) == \E pair \in Catalog :
    /\ session[s].status # "absent"
    /\ session'[s] = [session[s] EXCEPT !.track = pair[1], !.layout = pair[2]]
Detected(s) == \E r \in Requests :
    /\ Owner[r] = s /\ pc[r] = "detected"
    /\ session[s].detectedTrack = None /\ session[s].detectedLayout = None
    /\ session'[s] = [session[s] EXCEPT !.detectedTrack = found[r][1],
                                        !.detectedLayout = found[r][2]]

\* A session row stays, or is created, finished, given a layout or detected.
LEMMA SessionWriters ==
    ASSUME SessionShape, [Next]_vars
    PROVE  /\ session' = [s \in Sessions |-> session'[s]]
           /\ \A s \in Sessions : \/ session'[s] = session[s]
                                  \/ Created(s) \/ Finished(s) \/ Chosen(s) \/ Detected(s)
<1>1. session = [s \in Sessions |-> session[s]]
  BY DEF SessionShape
<1>2. ASSUME NEW o \in Sessions, NEW track \in Tracks \cup {None}, CreateSession(o, track)
      PROVE  /\ session' = [s \in Sessions |-> session'[s]]
             /\ \A s \in Sessions : session'[s] = session[s] \/ Created(s)
  BY <1>1, <1>2 DEF CreateSession, Created
<1>3. ASSUME NEW o \in Sessions, FinishSession(o)
      PROVE  /\ session' = [s \in Sessions |-> session'[s]]
             /\ \A s \in Sessions : session'[s] = session[s] \/ Finished(s)
  BY <1>1, <1>3 DEF FinishSession, Finished
<1>4. ASSUME NEW o \in Sessions, NEW pair \in Catalog, SetTrackLayout(o, pair)
      PROVE  /\ session' = [s \in Sessions |-> session'[s]]
             /\ \A s \in Sessions : session'[s] = session[s] \/ Chosen(s)
  BY <1>1, <1>4 DEF SetTrackLayout, Chosen
<1>5. ASSUME NEW r \in Requests, SetDetectedTrackLayout(r)
      PROVE  /\ session' = [s \in Sessions |-> session'[s]]
             /\ \A s \in Sessions : session'[s] = session[s] \/ Detected(s)
  <2>1. Owner[r] \in Sessions
    BY OwnerAssumption
  <2> QED BY <1>1, <1>5, <2>1 DEF SetDetectedTrackLayout, Detected
<1>6. CASE session' = session
  BY <1>1, <1>6
<1>7. \/ session' = session
      \/ \E o \in Sessions :
            \/ \E track \in Tracks \cup {None} : CreateSession(o, track)
            \/ FinishSession(o)
            \/ \E pair \in Catalog : SetTrackLayout(o, pair)
      \/ \E r \in Requests : SetDetectedTrackLayout(r)
  BY Writers DEF Next, vars, Tracks
<1> QED BY <1>2, <1>3, <1>4, <1>5, <1>6, <1>7

\* Every step keeps the columns.
LEMMA ShapeKept ==
    ASSUME SessionShape, [Next]_vars
    PROVE  SessionShape'
<1>1. ASSUME NEW s \in Sessions
      PROVE  Columns(session'[s])
  <2>1. Columns(session[s])
    BY DEF SessionShape
  <2>2. \/ session'[s] = session[s]
        \/ Created(s) \/ Finished(s) \/ Chosen(s) \/ Detected(s)
    BY SessionWriters
  <2> QED BY <2>1, <2>2 DEF Columns, Created, Finished, Chosen, Detected
<1> QED BY <1>1, SessionWriters DEF SessionShape

-----------------------------------------------------------------------------
(* The invariant of all behaviours, and the action properties.             *)

IngestInv == HandlerInv /\ FramesInv /\ LapsInv /\ EventsInv /\ SessionShape

\* The handler's state, the stored frames, laps and events and the session rows keep
\* their kinds and their limits in every behaviour.
THEOREM IngestInvariant == Spec => []IngestInv
<1>1. ASSUME Init PROVE IngestInv
  <2>1. HandlerInv
    BY <1>1, ModeAssumption DEF Init, HandlerInv, LoopOK, Labels
  <2>2. FramesInv
    BY <1>1, BoundsAssumption DEF Init, FramesInv
  <2>3. LapsInv
    BY <1>1 DEF Init, LapsInv, Empty
  <2>4. EventsInv
    <3>1. events \in Seq({}) /\ Len(events) = 0
      BY <1>1 DEF Init
    <3> QED BY <3>1, BoundsAssumption DEF EventsInv
  <2>5. SessionShape
    BY <1>1 DEF Init, SessionShape, Columns, NoSession
  <2> QED BY <2>1, <2>2, <2>3, <2>4, <2>5 DEF IngestInv
<1>2. ASSUME IngestInv, [Next]_vars PROVE IngestInv'
  BY <1>2, HandlerKept, FramesKept, LapsKept, EventsKept, ShapeKept DEF IngestInv
<1> QED BY <1>1, <1>2, PTL DEF Spec

\* In PostgreSQL no frame enters a finished session, not even from a request that was
\* validated while the session was active: Append looks at the row again.
THEOREM FinishedStaysClosed == Spec => RecheckKeepsFinishedClosed
<1>1. ASSUME IngestInv, [Next]_vars
      PROVE  [mode = "postgres" => FinishedUntouched]_vars
  <2>1. ASSUME NEW r \in Requests, AppendFrames(r), mode = "postgres"
        PROVE  FinishedUntouched
    <3>1. DOMAIN frames = Sessions
      BY <1>1 DEF IngestInv, FramesInv
    <3>2. \/ frames' = frames
          \/ /\ frames' = [frames EXCEPT ![Owner[r]] = Appended(r)]
             /\ session[Owner[r]].status = "active"
      BY <1>1, <2>1, AppendWrites DEF IngestInv
    <3> QED BY <3>1, <3>2 DEF FinishedUntouched
  <2>2. CASE frames' = frames
    BY <2>2 DEF FinishedUntouched
  <2>3. frames' = frames \/ \E r \in Requests : AppendFrames(r)
    BY <1>1, Writers, SessionHandlers DEF Next, vars
  <2> QED BY <2>1, <2>2, <2>3
<1> QED BY <1>1, IngestInvariant, PTL DEF Spec, RecheckKeepsFinishedClosed

\* The time and the moment of a completed lap stay those of its first report, in both
\* runtimes and in every interleaving of batches that report it.
THEOREM FirstReportOfLapStays == Spec => LapFirstReportWins
<1>1. ASSUME IngestInv, [Next]_vars
      PROVE  [\A s \in Sessions : \A l \in DOMAIN laps[s] :
                /\ l \in DOMAIN laps'[s]
                /\ laps'[s][l].time = laps[s][l].time
                /\ laps'[s][l].at = laps[s][l].at]_vars
  BY <1>1, LapsKept DEF IngestInv, RowsStay
<1> QED BY <1>1, IngestInvariant, PTL DEF Spec, LapFirstReportWins

\* Once a session has a detected track, the track and its layout stay, whatever later
\* requests detect.
THEOREM FirstDetectionStays == Spec => DetectionFirstWins
<1>1. ASSUME IngestInv, [Next]_vars
      PROVE  [\A s \in Sessions :
                session[s].detectedTrack # None =>
                  /\ session'[s].detectedTrack = session[s].detectedTrack
                  /\ session'[s].detectedLayout = session[s].detectedLayout]_vars
  <2> SUFFICES ASSUME NEW s \in Sessions, session[s].detectedTrack # None
               PROVE  /\ session'[s].detectedTrack = session[s].detectedTrack
                      /\ session'[s].detectedLayout = session[s].detectedLayout
    OBVIOUS
  <2>1. Columns(session[s])
    BY <1>1 DEF IngestInv, SessionShape
  <2>2. \/ session'[s] = session[s]
        \/ Created(s) \/ Finished(s) \/ Chosen(s) \/ Detected(s)
    BY <1>1, SessionWriters DEF IngestInv
  <2> QED BY <2>1, <2>2 DEF Columns, Created, Finished, Chosen, Detected
<1> QED BY <1>1, IngestInvariant, PTL DEF Spec, DetectionFirstWins

-----------------------------------------------------------------------------
(* The effective layout.  What a detection returns comes from the catalog  *)
(* it searches; that is the only thing asked of DetectTrack.               *)

DetectsFromCatalog == \A list : DetectTrack(list) \in Catalog \cup {None}

\* A session row: nothing is known of an absent session; a chosen layout belongs to
\* the chosen track and a detected one to the detected track; a track chosen without
\* a layout keeps detection away.
RowOK(row) ==
    /\ row.status \in {"absent", "active", "finished"}
    /\ row.status = "absent" => row = NoSession
    /\ row.track \in Tracks \cup {None}
    /\ row.layout # None => <<row.track, row.layout>> \in Catalog
    /\ \/ row.detectedTrack = None /\ row.detectedLayout = None
       \/ <<row.detectedTrack, row.detectedLayout>> \in Catalog
    /\ row.track # None /\ row.layout = None => row.detectedTrack = None

\* The calls that work on the copy of the session before a detection is written.
Detecting == {"append", "laps", "count", "gaps", "sample", "samples", "derive", "detected"}

\* The copy may be stale, but never about a track chosen without a layout: such a
\* track is given at creation only, before any request finds the session.
CopyOK(r) ==
    /\ found[r] \in Catalog \cup {None}
    /\ pc[r] = "detected" => found[r] # None /\ snap[r].track = None
    /\ pc[r] \in Detecting =>
          /\ session[Owner[r]].status # "absent"
          /\ session[Owner[r]].track # None /\ session[Owner[r]].layout = None =>
                snap[r].track # None

LayoutInv == (\A s \in Sessions : RowOK(session[s])) /\ \A r \in Requests : CopyOK(r)

\* Every step keeps the rows in order.
LEMMA RowsKept ==
    ASSUME IngestInv, LayoutInv, [Next]_vars, NEW s \in Sessions
    PROVE  RowOK(session'[s])
<1>1. RowOK(session[s]) /\ Columns(session[s])
  BY DEF LayoutInv, IngestInv, SessionShape
<1>2. \/ session'[s] = session[s]
      \/ Created(s) \/ Finished(s) \/ Chosen(s) \/ Detected(s)
  BY SessionWriters DEF IngestInv
<1>3. CASE session'[s] = session[s]
  BY <1>1, <1>3
<1>4. CASE Created(s)
  BY <1>1, <1>4, CatalogAssumption DEF Created, RowOK, Columns, NoSession
<1>5. CASE Finished(s)
  BY <1>1, <1>5 DEF Finished, RowOK, Columns
<1>6. CASE Chosen(s)
  <2>1. PICK pair \in Catalog :
          /\ session[s].status # "absent"
          /\ session'[s] = [session[s] EXCEPT !.track = pair[1], !.layout = pair[2]]
    BY <1>6 DEF Chosen
  <2>2. pair = <<pair[1], pair[2]>> /\ pair[1] # None /\ pair[2] # None /\ pair[1] \in Tracks
    BY CatalogAssumption DEF Tracks
  <2> QED BY <1>1, <2>1, <2>2 DEF RowOK, Columns
<1>7. CASE Detected(s)
  <2>1. PICK r \in Requests :
          /\ Owner[r] = s /\ pc[r] = "detected"
          /\ session[s].detectedTrack = None /\ session[s].detectedLayout = None
          /\ session'[s] = [session[s] EXCEPT !.detectedTrack = found[r][1],
                                              !.detectedLayout = found[r][2]]
    BY <1>7 DEF Detected
  <2>2. /\ found[r] \in Catalog
        /\ session[s].status # "absent"
        /\ ~(session[s].track # None /\ session[s].layout = None)
    BY <2>1 DEF LayoutInv, CopyOK, Detecting
  <2>3. found[r] = <<found[r][1], found[r][2]>>
    BY <2>2, CatalogAssumption
  <2> QED BY <1>1, <2>1, <2>2, <2>3 DEF RowOK, Columns
<1> QED BY <1>2, <1>3, <1>4, <1>5, <1>6, <1>7

\* No step gives a session that a request has found a track without a layout.
LEMMA FoundRowStays ==
    ASSUME IngestInv, LayoutInv, [Next]_vars, NEW s \in Sessions,
           session[s].status # "absent"
    PROVE  /\ session'[s].status # "absent"
           /\ session'[s].track # None /\ session'[s].layout = None =>
                 session[s].track # None /\ session[s].layout = None
<1>1. RowOK(session[s]) /\ Columns(session[s])
  BY DEF LayoutInv, IngestInv, SessionShape
<1>2. \/ session'[s] = session[s]
      \/ Created(s) \/ Finished(s) \/ Chosen(s) \/ Detected(s)
  BY SessionWriters DEF IngestInv
<1>3. ~Created(s)
  BY DEF Created
<1>4. CASE Chosen(s)
  <2>1. PICK pair \in Catalog :
          session'[s] = [session[s] EXCEPT !.track = pair[1], !.layout = pair[2]]
    BY <1>4 DEF Chosen
  <2>2. pair[2] # None
    BY CatalogAssumption
  <2> QED BY <1>1, <2>1, <2>2 DEF Columns
<1> QED BY <1>1, <1>2, <1>3, <1>4 DEF Columns, Finished, Detected

\* A request comes to a detecting call from validation, with a fresh copy of an active
\* session, or from another one, with the copy it had.
LEMMA IntoDetecting ==
    ASSUME IngestInv, NEW r \in Requests, Step(r), pc'[r] \in Detecting
    PROVE  \/ /\ session[Owner[r]].status = "active"
              /\ snap'[r] = session[Owner[r]]
              /\ session' = session
           \/ pc[r] \in Detecting /\ snap'[r] = snap[r]
<1>0. HandlerInv
  BY DEF IngestInv
<1> USE OwnMove, <1>0
<1>1. CASE ValidateSession(r)
  <2>1. DOMAIN snap = Requests
    BY DEF HandlerInv
  <2>2. session' = session
    BY <1>1 DEF ValidateSession, stores
  <2>3. \A code : ~Answer(r, code)
    BY DEF Detecting
  <2>4. snap' = [snap EXCEPT ![r] = session[Owner[r]]] /\ session[Owner[r]].status = "active"
    BY <1>1, <2>3 DEF ValidateSession
  <2> QED BY <2>1, <2>2, <2>4
<1>2. CASE snap' = snap
  <2>1. CASE Send(r)
    BY <2>1 DEF Send, Detecting
  <2>2. CASE AppendFrames(r)
    BY <1>2, <2>2 DEF AppendFrames, Detecting
  <2>3. CASE UpsertCompleted(r)
    BY <1>2, <2>3 DEF UpsertCompleted, Detecting
  <2>4. CASE CountGaps(r)
    BY <1>2, <2>4 DEF CountGaps, Detecting
  <2>5. CASE UpdateTelemetryGapCount(r)
    BY <1>2, <2>5 DEF UpdateTelemetryGapCount, Detecting
  <2>6. CASE BuildSamples(r)
    BY <1>2, <2>6, Zenon DEF BuildSamples, Detecting
  <2>7. CASE UpsertSamples(r)
    BY <1>2, <2>7, Zenon DEF UpsertSamples, Detecting
  <2>8. CASE DeriveEvents(r)
    BY <1>2, <2>8 DEF DeriveEvents, Detecting
  <2>9. CASE SetDetectedTrackLayout(r)
    BY <2>9 DEF SetDetectedTrackLayout, Detecting
  <2>10. CASE DedupEvent(r)
    BY <2>10 DEF DedupEvent, Detecting
  <2>11. CASE InsertEvent(r)
    BY <2>11 DEF InsertEvent, Detecting
  <2>12. CASE EventsDone(r)
    BY <2>12 DEF EventsDone, Detecting
  <2>13. CASE StoreRejections(r)
    BY <2>13 DEF StoreRejections, Detecting
  <2>14. CASE Fail(r)
    BY <2>14 DEF Fail, Detecting
  <2> QED BY <1>1, <2>1, <2>2, <2>3, <2>4, <2>5, <2>6, <2>7, <2>8, <2>9, <2>10, <2>11,
             <2>12, <2>13, <2>14 DEF Step
<1> QED BY <1>1, <1>2, Writers

\* Only DeriveEvents sends a layout on its way, and only where no track was chosen.
LEMMA IntoDetected ==
    ASSUME IngestInv, NEW r \in Requests, Step(r), pc'[r] = "detected"
    PROVE  DeriveEvents(r) /\ found'[r] # None /\ snap'[r] = snap[r] /\ snap[r].track = None
<1>0. HandlerInv
  BY DEF IngestInv
<1> USE OwnMove, <1>0
<1>1. CASE DeriveEvents(r)
  <2>1. DOMAIN found = Requests
    BY DEF HandlerInv
  <2> QED BY <1>1, <2>1 DEF DeriveEvents
<1>2. ~Send(r) /\ ~ValidateSession(r) /\ ~AppendFrames(r)
  BY DEF Send, ValidateSession, AppendFrames
<1>3. ~UpsertCompleted(r)
  BY DEF UpsertCompleted
<1>4. ~CountGaps(r) /\ ~UpdateTelemetryGapCount(r)
  <2>1. CountGaps(r) => \E list : Goto(r, "gaps", list)
    BY DEF CountGaps
  <2>2. UpdateTelemetryGapCount(r) => \E label \in {"gaps", "sample"} : \E list : Goto(r, label, list)
    BY DEF UpdateTelemetryGapCount
  <2> QED BY <2>1, <2>2
<1>5. ~BuildSamples(r)
  BY Zenon DEF BuildSamples
<1>6. ~UpsertSamples(r)
  <2>1. UpsertSamples(r) => \E label \in {"derive", "samples"} : \E list : Goto(r, label, list)
    BY Zenon DEF UpsertSamples
  <2> QED BY <2>1
<1>7. ~SetDetectedTrackLayout(r) /\ ~DedupEvent(r) /\ ~InsertEvent(r) /\ ~EventsDone(r)
  <2>1. ~SetDetectedTrackLayout(r)
    BY DEF SetDetectedTrackLayout
  <2>2. ~DedupEvent(r)
    BY DEF DedupEvent
  <2>3. ~InsertEvent(r) /\ ~EventsDone(r)
    BY DEF InsertEvent, EventsDone
  <2> QED BY <2>1, <2>2, <2>3
<1>8. ~StoreRejections(r) /\ ~Fail(r)
  BY DEF StoreRejections, Fail
<1> QED BY <1>1, <1>2, <1>3, <1>4, <1>5, <1>6, <1>7, <1>8 DEF Step

\* Every step keeps the requests' copies in order.
LEMMA CopiesKept ==
    ASSUME DetectsFromCatalog, IngestInv, LayoutInv, [Next]_vars, NEW q \in Requests
    PROVE  CopyOK(q)'
<1> DEFINE o == Owner[q]
<1>1. CopyOK(q) /\ o \in Sessions
  BY OwnerAssumption DEF LayoutInv
<1>2. session[o].status # "absent" =>
        /\ session'[o].status # "absent"
        /\ session'[o].track # None /\ session'[o].layout = None =>
              session[o].track # None /\ session[o].layout = None
  BY <1>1, FoundRowStays
<1>3. CASE pc'[q] = pc[q] /\ snap'[q] = snap[q] /\ found'[q] = found[q]
  BY <1>1, <1>2, <1>3 DEF CopyOK
<1>4. CASE Step(q)
  <2>1. found'[q] \in Catalog \cup {None}
    <3>1. CASE found' = found
      BY <1>1, <3>1 DEF CopyOK
    <3>2. CASE DeriveEvents(q)
      <4>1. DOMAIN found = Requests
        BY DEF IngestInv, HandlerInv
      <4>2. DetectTrack(frames[o]) \in Catalog \cup {None}
        BY DEF DetectsFromCatalog
      <4> QED BY <3>2, <4>1, <4>2 DEF DeriveEvents
    <3> QED BY <1>4, <3>1, <3>2, Writers
  <2>2. pc'[q] = "detected" => found'[q] # None /\ snap'[q].track = None
    BY <1>4, IntoDetected
  <2>3. ASSUME pc'[q] \in Detecting
        PROVE  /\ session'[o].status # "absent"
               /\ session'[o].track # None /\ session'[o].layout = None => snap'[q].track # None
    <3>1. CASE pc[q] \in Detecting /\ snap'[q] = snap[q]
      BY <1>1, <1>2, <3>1 DEF CopyOK
    <3>2. CASE /\ session[o].status = "active"
               /\ snap'[q] = session[o]
               /\ session' = session
      BY <3>2
    <3> QED BY <1>4, <2>3, <3>1, <3>2, IntoDetecting
  <2> QED BY <2>1, <2>2, <2>3 DEF CopyOK
<1>5. ASSUME NEW r \in Requests, Step(r), r # q
      PROVE  pc'[q] = pc[q] /\ snap'[q] = snap[q] /\ found'[q] = found[q]
  BY <1>5, OthersStay DEF IngestInv
<1> QED BY <1>3, <1>4, <1>5, SessionHandlers DEF Next, vars

\* Given a detection that answers from the catalog, the session rows and the requests'
\* copies of them stay in order.
THEOREM LayoutInvariant ==
    ASSUME DetectsFromCatalog
    PROVE  Spec => []LayoutInv
<1>1. ASSUME Init PROVE LayoutInv
  BY <1>1 DEF Init, LayoutInv, RowOK, CopyOK, NoSession, Detecting
<1>2. ASSUME IngestInv, LayoutInv, [Next]_vars PROVE LayoutInv'
  BY <1>2, RowsKept, CopiesKept DEF LayoutInv
<1> QED BY <1>1, <1>2, IngestInvariant, PTL DEF Spec

\* The track and the layout that a session response is enriched with, each chosen or
\* detected on its own, are a pair of the catalog; a track chosen at creation is never
\* joined by a detected one.
THEOREM EffectivePairInCatalog ==
    ASSUME DetectsFromCatalog
    PROVE  Spec => []EffectiveLayoutInCatalog
<1>1. ASSUME NEW a, NEW b, <<a, b>> \in Catalog
      PROVE  a # None /\ b # None
  <2>1. <<a, b>>[1] = a /\ <<a, b>>[2] = b
    OBVIOUS
  <2> QED BY <1>1, <2>1, CatalogAssumption, Zenon
<1>2. ASSUME LayoutInv, NEW s \in Sessions
      PROVE  LET pair == <<EffectiveTrackID(session[s]), EffectiveLayoutID(session[s])>> IN
             /\ pair[1] # None /\ pair[2] # None => pair \in Catalog
             /\ session[s].track # None /\ session[s].layout = None =>
                   session[s].detectedTrack = None
  <2>1. RowOK(session[s])
    BY <1>2 DEF LayoutInv
  <2>2. CASE session[s].layout # None
    BY <1>1, <2>1, <2>2 DEF RowOK, EffectiveTrackID, EffectiveLayoutID
  <2>3. CASE session[s].layout = None
    BY <1>1, <2>1, <2>3 DEF RowOK, EffectiveTrackID, EffectiveLayoutID
  <2> QED BY <2>2, <2>3
<1>3. LayoutInv => EffectiveLayoutInCatalog
  BY <1>2 DEF EffectiveLayoutInCatalog
<1> QED BY <1>3, LayoutInvariant, PTL

\* Sessions, stored data, limits and the handler's state have their types.
THEOREM IngestTyped ==
    ASSUME DetectsFromCatalog
    PROVE  Spec => []TypeOK
<1>1. ASSUME IngestInv, LayoutInv PROVE TypeOK
  <2>1. session \in [Sessions -> [status : {"absent", "active", "finished"},
                                  track : Optional(Tracks), layout : Optional(Layouts),
                                  detectedTrack : Optional(Tracks),
                                  detectedLayout : Optional(Layouts)]]
    <3>1. ASSUME NEW s \in Sessions
          PROVE  /\ Columns(session[s])
                 /\ session[s].status \in {"absent", "active", "finished"}
                 /\ session[s].track \in Optional(Tracks)
                 /\ session[s].layout \in Optional(Layouts)
                 /\ session[s].detectedTrack \in Optional(Tracks)
                 /\ session[s].detectedLayout \in Optional(Layouts)
      <4>1. RowOK(session[s]) /\ Columns(session[s])
        BY <1>1 DEF LayoutInv, IngestInv, SessionShape
      <4>2. ASSUME NEW a, NEW b, <<a, b>> \in Catalog
            PROVE  a \in Tracks /\ b \in Layouts
        <5>1. <<a, b>>[1] = a /\ <<a, b>>[2] = b
          OBVIOUS
        <5> QED BY <4>2, <5>1, Zenon DEF Tracks, Layouts
      <4> QED BY <4>1, <4>2 DEF RowOK, Optional
    <3>2. session = [s \in Sessions |-> session[s]]
      BY <1>1 DEF IngestInv, SessionShape
    <3> QED BY <3>1, <3>2 DEF Columns
  <2>2. \A s \in Sessions : mode = "memory" => Len(frames[s]) <= Capacity
    BY <1>1 DEF IngestInv, FramesInv
  <2>3. \A s \in Sessions : \A l \in DOMAIN laps[s] :
          laps[s][l].time > 0 /\ laps[s][l].at > 0 /\ laps[s][l].gaps \in Nat
    <3>1. \A s \in Sessions : \A l \in DOMAIN laps[s] : laps[s][l] \in LapRow
      BY <1>1 DEF IngestInv, LapsInv
    <3> QED BY <3>1 DEF LapRow
  <2>4. mode = "memory" => Len(events) <= EventLimit
    BY <1>1 DEF IngestInv, EventsInv
  <2>5. /\ pc \in [Requests -> Labels]
        /\ answer \in [Requests -> {0, 202, 400, 404, 409, 500}]
        /\ \A r \in Requests : pc[r] \in {"laps", "gaps", "samples", "insert"} => todo[r] # <<>>
    BY <1>1 DEF IngestInv, HandlerInv, LoopOK
  <2> QED BY <2>1, <2>2, <2>3, <2>4, <2>5 DEF TypeOK
<1> QED BY <1>1, IngestInvariant, LayoutInvariant, PTL

-----------------------------------------------------------------------------
(* What a 202 says in PostgreSQL.                                          *)

\* Element by element: part stands in seq after its first i elements.
Occurs(part, seq) ==
    \E i \in 0 .. Len(seq) - Len(part) : \A k \in 1 .. Len(part) : seq[i + k] = part[k]

\* To be in one piece is to occur element by element.
LEMMA PieceByElement ==
    ASSUME NEW S, NEW seq \in Seq(S), NEW part \in Seq(S)
    PROVE  InOnePiece(part, seq) <=> Occurs(part, seq)
<1>1. ASSUME NEW i \in 0 .. Len(seq) - Len(part)
      PROVE  SubSeq(seq, i + 1, i + Len(part)) = part <=>
             \A k \in 1 .. Len(part) : seq[i + k] = part[k]
  <2> DEFINE cut == SubSeq(seq, i + 1, i + Len(part))
  <2>1. /\ cut \in Seq(S) /\ Len(cut) = Len(part)
        /\ \A k \in 1 .. Len(part) : cut[k] = seq[i + k]
    BY SubSeqProperties
  <2> HIDE DEF cut
  <2>2. cut = part <=> \A k \in 1 .. Len(part) : cut[k] = part[k]
    BY <2>1, SeqEqual
  <2> QED BY <2>1, <2>2 DEF cut
<1> QED BY <1>1 DEF InOnePiece, Occurs

\* What is in one piece stays so when frames are appended, and what is appended is.
LEMMA PieceStays ==
    ASSUME NEW S, NEW seq \in Seq(S), NEW part \in Seq(S), NEW more \in Seq(S)
    PROVE  /\ InOnePiece(part, seq) => InOnePiece(part, seq \o more)
           /\ InOnePiece(more, seq \o more)
           /\ InOnePiece(<<>>, seq)
<1>1. /\ seq \o more \in Seq(S) /\ Len(seq \o more) = Len(seq) + Len(more)
      /\ \A k \in 1 .. Len(seq) : (seq \o more)[k] = seq[k]
      /\ \A k \in 1 .. Len(more) : (seq \o more)[Len(seq) + k] = more[k]
  OBVIOUS
<1>2. ASSUME InOnePiece(part, seq)
      PROVE  InOnePiece(part, seq \o more)
  <2>1. PICK i \in 0 .. Len(seq) - Len(part) : \A k \in 1 .. Len(part) : seq[i + k] = part[k]
    <3>1. Occurs(part, seq)
      BY <1>2, PieceByElement
    <3> QED BY <3>1 DEF Occurs
  <2>2. i \in 0 .. Len(seq \o more) - Len(part)
    BY <1>1
  <2>3. \A k \in 1 .. Len(part) : (seq \o more)[i + k] = part[k]
    BY <1>1, <2>1
  <2>4. Occurs(part, seq \o more)
    BY <2>2, <2>3 DEF Occurs
  <2> QED BY <1>1, <2>4, PieceByElement
<1>3. InOnePiece(more, seq \o more)
  <2>1. Len(seq) \in 0 .. Len(seq \o more) - Len(more)
    BY <1>1
  <2>2. Occurs(more, seq \o more)
    BY <1>1, <2>1 DEF Occurs
  <2> QED BY <1>1, <2>2, PieceByElement
<1>4. InOnePiece(<<>>, seq)
  <2>1. <<>> \in Seq(S) /\ Occurs(<<>>, seq)
    BY DEF Occurs
  <2> QED BY <2>1, PieceByElement
<1> QED BY <1>2, <1>3, <1>4

\* A frame of the list reports this row.
Reports(list, l, row) ==
    \E j \in Reporting(list) : /\ list[j].lap = l + 1
                               /\ list[j].last = row.time
                               /\ list[j].ts = row.at

\* A report stays when frames are appended, and a report of a piece is one of the whole.
LEMMA ReportsStay ==
    ASSUME NEW S, NEW seq \in Seq(S), NEW part \in Seq(S), NEW l, NEW row,
           Reports(part, l, row), InOnePiece(part, seq)
    PROVE  Reports(seq, l, row)
<1>1. PICK i \in 0 .. Len(seq) - Len(part) : \A k \in 1 .. Len(part) : seq[i + k] = part[k]
  <2>1. Occurs(part, seq)
    BY PieceByElement
  <2> QED BY <2>1 DEF Occurs
<1>2. PICK j \in 1 .. Len(part) : /\ part[j].lap > 0 /\ part[j].last > 0
                                  /\ part[j].lap = l + 1
                                  /\ part[j].last = row.time
                                  /\ part[j].ts = row.at
  BY DEF Reports, Reporting
<1>3. i + j \in 1 .. Len(seq) /\ seq[i + j] = part[j]
  BY <1>1, <1>2
<1> QED BY <1>2, <1>3 DEF Reports, Reporting

\* The calls that come after the completed laps have their rows.
AfterLaps == {"count", "gaps", "sample", "samples", "derive", "detected", "events",
              "insert", "reject"}

\* From its append on, a batch is stored in one piece, and every lap that it reports has
\* a row or is still to be written.
BatchStored(r) ==
    /\ pc[r] \in AfterLaps \cup {"laps"} \/ Accepted(r) =>
          InOnePiece(Batch[r].frames, frames[Owner[r]])
    /\ pc[r] \in AfterLaps \/ Accepted(r) =>
          \A i \in Reporting(Batch[r].frames) :
             Batch[r].frames[i].lap - 1 \in DOMAIN laps[Owner[r]]
    /\ pc[r] = "laps" =>
          \A i \in Reporting(Batch[r].frames) :
             \/ Batch[r].frames[i].lap - 1 \in DOMAIN laps[Owner[r]]
             \/ \E k \in 1 .. Len(todo[r]) : todo[r][k].lap = Batch[r].frames[i].lap - 1

\* In PostgreSQL, where nothing is evicted, every row states a stored report.
StoredInv ==
    mode = "postgres" =>
        /\ \A s \in Sessions : \A l \in DOMAIN laps[s] : Reports(frames[s], l, laps[s][l])
        /\ \A r \in Requests : BatchStored(r)

\* In PostgreSQL the frames of a session only grow.
LEMMA FramesGrow ==
    ASSUME IngestInv, [Next]_vars, mode = "postgres", NEW s \in Sessions
    PROVE  /\ frames[s] \in Seq(Known) /\ frames'[s] \in Seq(Known)
           /\ InOnePiece(frames[s], frames'[s])
           /\ \A part \in Seq(Known) : InOnePiece(part, frames[s]) => InOnePiece(part, frames'[s])
<1>1. frames[s] \in Seq(Known) /\ DOMAIN frames = Sessions
  BY DEF IngestInv, FramesInv
<1>2. InOnePiece(frames[s], frames[s])
  <2>1. Occurs(frames[s], frames[s])
    <3>1. 0 \in 0 .. Len(frames[s]) - Len(frames[s])
      BY <1>1
    <3>2. \A k \in 1 .. Len(frames[s]) : frames[s][0 + k] = frames[s][k]
      BY <1>1
    <3> QED BY <3>1, <3>2 DEF Occurs
  <2> QED BY <1>1, <2>1, PieceByElement
<1>3. CASE frames'[s] = frames[s]
  BY <1>1, <1>2, <1>3
<1>4. ASSUME NEW more \in Seq(Known), frames'[s] = frames[s] \o more
      PROVE  /\ frames'[s] \in Seq(Known)
             /\ InOnePiece(frames[s], frames'[s])
             /\ \A part \in Seq(Known) :
                   InOnePiece(part, frames[s]) => InOnePiece(part, frames'[s])
  <2>1. frames'[s] \in Seq(Known)
    BY <1>1, <1>4
  <2>2. \A part \in Seq(Known) : InOnePiece(part, frames[s]) => InOnePiece(part, frames[s] \o more)
    BY <1>1, PieceStays
  <2> QED BY <1>1, <1>2, <1>4, <2>1, <2>2
<1>5. ASSUME NEW r \in Requests, AppendFrames(r)
      PROVE  frames'[s] = frames[s] \/ frames'[s] = frames[s] \o Batch[r].frames
  <2>1. frames' = frames \/ frames' = [frames EXCEPT ![Owner[r]] = frames[Owner[r]] \o Batch[r].frames]
    BY <1>5, AppendWrites DEF IngestInv, Appended
  <2> QED BY <1>1, <2>1
<1>6. frames' = frames \/ \E r \in Requests : AppendFrames(r)
  BY Writers, SessionHandlers DEF Next, vars
<1> QED BY <1>1, <1>3, <1>4, <1>5, <1>6, BatchFacts

\* Every step keeps every row's report among the stored frames.
LEMMA RowsStayReported ==
    ASSUME IngestInv, StoredInv, [Next]_vars, mode = "postgres",
           NEW s \in Sessions, NEW l \in DOMAIN laps'[s]
    PROVE  Reports(frames'[s], l, laps'[s][l])
<1>1. /\ frames[s] \in Seq(Known) /\ frames'[s] \in Seq(Known)
      /\ InOnePiece(frames[s], frames'[s])
  BY FramesGrow
<1>2. CASE l \in DOMAIN laps[s]
  <2>1. Reports(frames[s], l, laps[s][l])
    BY <1>2 DEF StoredInv
  <2>2. laps'[s][l].time = laps[s][l].time /\ laps'[s][l].at = laps[s][l].at
    BY <1>2, LapsKept DEF IngestInv, RowsStay
  <2>3. Reports(frames[s], l, laps'[s][l])
    BY <2>1, <2>2 DEF Reports
  <2> QED BY <1>1, <2>3, ReportsStay
<1>3. CASE l \notin DOMAIN laps[s]
  <2>1. PICK r \in Requests :
          /\ Owner[r] = s /\ pc[r] = "laps"
          /\ \E c \in Completions(Batch[r].frames) :
                c.lap = l /\ laps'[s][l].time = c.time /\ laps'[s][l].at = c.at
    BY <1>3, LapsKept DEF IngestInv
  <2>2. PICK i \in Reporting(Batch[r].frames) :
          /\ Batch[r].frames[i].lap - 1 = l
          /\ laps'[s][l].time = Batch[r].frames[i].last
          /\ laps'[s][l].at = Batch[r].frames[i].ts
    BY <2>1 DEF Completions
  <2>3. Batch[r].frames[i].lap = l + 1
    <3>1. Batch[r].frames[i].lap \in Nat
      BY BatchFacts DEF Reporting
    <3> QED BY <2>2, <3>1
  <2>4. Reports(Batch[r].frames, l, laps'[s][l])
    BY <2>2, <2>3 DEF Reports
  <2>5. InOnePiece(Batch[r].frames, frames[s])
    BY <2>1 DEF StoredInv, BatchStored
  <2>6. Batch[r].frames \in Seq(Known) /\ InOnePiece(Batch[r].frames, frames'[s])
    BY <2>5, BatchFacts, FramesGrow
  <2> QED BY <1>1, <2>4, <2>6, ReportsStay
<1> QED BY <1>2, <1>3

\* Where a request that is stored or accepted after a call comes from.
LEMMA IntoStored ==
    ASSUME IngestInv, mode = "postgres", NEW r \in Requests, Step(r),
           pc'[r] \in AfterLaps \cup {"laps"} \/ Accepted(r)'
    PROVE  \/ pc[r] \in AfterLaps /\ pc'[r] # "laps"
           \/ pc[r] = "laps" /\ UpsertCompleted(r)
           \/ /\ frames' = [frames EXCEPT ![Owner[r]] = @ \o Batch[r].frames]
              /\ IF ExtractCompleted(Batch[r].frames) = <<>> THEN pc'[r] = "derive"
                 ELSE pc'[r] = "laps" /\ todo'[r] = ExtractCompleted(Batch[r].frames)
           \/ Batch[r].frames = <<>> /\ pc'[r] = "reject"
<1>0. HandlerInv
  BY DEF IngestInv
<1> USE OwnMove, <1>0
<1> USE DEF AfterLaps, Accepted
<1>1. CASE Send(r)
  BY <1>1 DEF Send
<1>2. CASE ValidateSession(r)
  <2>1. \/ \E code \in {400, 404, 409} : Answer(r, code)
        \/ Batch[r].frames = <<>> /\ Goto(r, "reject", <<>>)
        \/ Goto(r, "append", <<>>)
    BY <1>2 DEF ValidateSession
  <2>2. CASE \E code \in {400, 404, 409} : Answer(r, code)
    <3>1. pc'[r] = "answered" /\ answer'[r] # 202
      BY <2>2
    <3> QED BY <3>1
  <2>3. CASE Batch[r].frames = <<>> /\ Goto(r, "reject", <<>>)
    <3>1. Batch[r].frames = <<>> /\ pc'[r] = "reject"
      BY <2>3
    <3> QED BY <3>1
  <2>4. CASE Goto(r, "append", <<>>)
    <3>1. pc'[r] = "append"
      BY <2>4
    <3> QED BY <3>1
  <2> QED BY <2>1, <2>2, <2>3, <2>4
<1>3. CASE AppendFrames(r)
  <2> DEFINE completed == ExtractCompleted(Batch[r].frames)
  <2>1. \/ Answer(r, 409)
        \/ /\ frames' = [frames EXCEPT ![Owner[r]] = @ \o Batch[r].frames]
           /\ Goto(r, IF completed = <<>> THEN "derive" ELSE "laps", completed)
    BY <1>3 DEF AppendFrames
  <2>2. Answer(r, 409) => pc'[r] = "answered" /\ answer'[r] = 409
    OBVIOUS
  <2> DEFINE label == IF completed = <<>> THEN "derive" ELSE "laps"
  <2>3. Goto(r, label, completed) => pc'[r] = label /\ todo'[r] = completed
    <3> HIDE DEF label, completed
    <3> QED OBVIOUS
  <2>4. ~Answer(r, 409)
    BY <2>2
  <2> QED BY <2>1, <2>3, <2>4
<1>4. CASE UpsertCompleted(r)
  BY <1>4 DEF UpsertCompleted
<1>5. CASE CountGaps(r)
  BY <1>5 DEF CountGaps
<1>6. CASE UpdateTelemetryGapCount(r)
  <2>1. pc[r] = "gaps" /\ \E label \in {"gaps", "sample"} : \E list : Goto(r, label, list)
    BY <1>6 DEF UpdateTelemetryGapCount
  <2> QED BY <2>1
<1>7. CASE BuildSamples(r)
  <2>1. pc[r] = "sample" /\ \E label \in {"derive", "samples"} : \E list : Goto(r, label, list)
    BY <1>7, Zenon DEF BuildSamples
  <2> QED BY <2>1
<1>8. CASE UpsertSamples(r)
  <2>1. pc[r] = "samples" /\ \E label \in {"derive", "samples"} : \E list : Goto(r, label, list)
    BY <1>8, Zenon DEF UpsertSamples
  <2> QED BY <2>1
<1>9. CASE DeriveEvents(r)
  <2>1. pc[r] = "derive" /\ \E label \in {"detected", "events"} : \E list : Goto(r, label, list)
    BY <1>9 DEF DeriveEvents
  <2> QED BY <2>1
<1>10. CASE SetDetectedTrackLayout(r)
  BY <1>10 DEF SetDetectedTrackLayout
<1>11. CASE DedupEvent(r)
  BY <1>11 DEF DedupEvent
<1>12. CASE InsertEvent(r)
  BY <1>12 DEF InsertEvent
<1>13. CASE EventsDone(r)
  BY <1>13 DEF EventsDone
<1>14. CASE StoreRejections(r)
  <2>1. pc[r] = "reject" /\ Answer(r, 202)
    BY <1>14 DEF StoreRejections
  <2>2. pc'[r] = "answered"
    BY <2>1
  <2> QED BY <2>1, <2>2
<1>15. CASE Fail(r)
  BY <1>15 DEF Fail
<1> QED BY <1>1, <1>2, <1>3, <1>4, <1>5, <1>6, <1>7, <1>8, <1>9, <1>10, <1>11, <1>12,
           <1>13, <1>14, <1>15 DEF Step

\* The reports that the loop has left after a write, and the laps that have a row.
LEMMA UpsertProgress ==
    ASSUME IngestInv, NEW r \in Requests, UpsertCompleted(r), NEW l,
           \/ l \in DOMAIN laps[Owner[r]]
           \/ \E k \in 1 .. Len(todo[r]) : todo[r][k].lap = l
    PROVE  /\ pc'[r] \in {"laps", "count"}
           /\ \/ l \in DOMAIN laps'[Owner[r]]
              \/ pc'[r] = "laps" /\ \E k \in 1 .. Len(todo'[r]) : todo'[r][k].lap = l
<1> DEFINE o == Owner[r]
           S == Completions(Batch[r].frames)
<1>1. HandlerInv /\ LapsInv
  BY DEF IngestInv
<1>2. o \in Sessions /\ DOMAIN laps = Sessions /\ laps[o] \in [DOMAIN laps[o] -> LapRow]
  BY <1>1, OwnerAssumption DEF LapsInv
<1>3. todo[r] \in Seq(S)
  BY <1>1 DEF UpsertCompleted, HandlerInv, LoopOK
<1>4. PICK n \in 1 .. Len(todo[r]) :
        /\ SubSeq(todo[r], 1, n) \in Seq(S)
        /\ laps' = [laps EXCEPT ![o] = Upsert(laps[o], SubSeq(todo[r], 1, n))]
        /\ LET rest == SubSeq(todo[r], n + 1, Len(todo[r])) IN
           IF rest = <<>> THEN Goto(r, "count", <<>>) ELSE Goto(r, "laps", rest)
  BY <1>1, UpsertWrites
<1> DEFINE list == SubSeq(todo[r], 1, n)
           rest == SubSeq(todo[r], n + 1, Len(todo[r]))
<1>5. /\ rest \in Seq(S) /\ Len(list) = n /\ Len(rest) = Len(todo[r]) - n
      /\ \A i \in 1 .. n : list[i] = todo[r][i]
      /\ \A i \in 1 .. Len(todo[r]) - n : rest[i] = todo[r][n + i]
  BY <1>3, <1>4, RestOfList
<1>6. IF rest = <<>> THEN pc'[r] = "count" ELSE pc'[r] = "laps" /\ todo'[r] = rest
  <2> DEFINE next == IF rest = <<>> THEN Goto(r, "count", <<>>) ELSE Goto(r, "laps", rest)
  <2>1. next
    BY <1>4
  <2> HIDE DEF rest
  <2>2. /\ Goto(r, "count", <<>>) => pc'[r] = "count"
        /\ Goto(r, "laps", rest) => pc'[r] = "laps" /\ todo'[r] = rest
    BY <1>1, OwnMove
  <2> QED BY <2>1, <2>2
<1>7. DOMAIN laps'[o] = DOMAIN laps[o] \cup {list[k].lap : k \in 1 .. Len(list)}
  <2>1. S \subseteq Report /\ list \in Seq(S)
    BY <1>4, BatchFacts
  <2>2. laps'[o] = Upsert(laps[o], list)
    BY <1>2, <1>4
  <2> HIDE DEF S, list, o
  <2>3. KeepsReports(laps[o], list, Upsert(laps[o], list))
    BY <1>2, <2>1, UpsertRows
  <2> QED BY <2>2, <2>3 DEF KeepsReports
<1>8. CASE l \in DOMAIN laps[o]
  BY <1>6, <1>7, <1>8
<1>9. ASSUME NEW k \in 1 .. Len(todo[r]), todo[r][k].lap = l
      PROVE  \/ l \in DOMAIN laps'[o]
             \/ pc'[r] = "laps" /\ \E j \in 1 .. Len(todo'[r]) : todo'[r][j].lap = l
  <2> HIDE DEF list, rest, o
  <2>1. CASE k <= n
    <3>1. k \in 1 .. Len(list) /\ list[k].lap = l
      BY <1>4, <1>5, <1>9, <2>1
    <3> QED BY <1>7, <3>1
  <2>2. CASE k > n
    <3>1. Len(todo[r]) \in Nat
      BY <1>3
    <3>2. k - n \in 1 .. Len(rest) /\ n + (k - n) = k
      BY <1>4, <1>5, <1>9, <2>2, <3>1
    <3>3. rest[k - n] = todo[r][k] /\ rest # <<>>
      BY <1>5, <3>2
    <3> QED BY <1>6, <1>9, <3>2, <3>3
  <2> QED BY <1>4, <1>9, <2>1, <2>2
<1> QED BY <1>6, <1>8, <1>9

\* Every step keeps every batch stored.
LEMMA BatchesKept ==
    ASSUME IngestInv, StoredInv, [Next]_vars, mode = "postgres", NEW q \in Requests
    PROVE  BatchStored(q)'
<1> DEFINE o == Owner[q]
           list == Batch[q].frames
<1>1. BatchStored(q) /\ o \in Sessions /\ list \in Seq(Known)
  BY OwnerAssumption, BatchFacts DEF StoredInv
<1>2. InOnePiece(list, frames[o]) => InOnePiece(list, frames'[o])
  BY <1>1, FramesGrow
<1>3. \A l \in DOMAIN laps[o] : l \in DOMAIN laps'[o]
  BY <1>1, LapsKept DEF IngestInv, RowsStay
<1>4. CASE pc'[q] = pc[q] /\ todo'[q] = todo[q] /\ answer'[q] = answer[q]
  BY <1>1, <1>2, <1>3, <1>4 DEF BatchStored, Accepted
<1>5. CASE Step(q)
  <2> SUFFICES ASSUME pc'[q] \in AfterLaps \cup {"laps"} \/ Accepted(q)'
               PROVE  BatchStored(q)'
    BY DEF BatchStored
  <2>0. "laps" \notin AfterLaps /\ (Accepted(q)' => pc'[q] # "laps")
    BY DEF AfterLaps, Accepted
  <2>1. CASE pc[q] \in AfterLaps /\ pc'[q] # "laps"
    BY <1>1, <1>2, <1>3, <2>1 DEF BatchStored
  <2>2. CASE pc[q] = "laps" /\ UpsertCompleted(q)
    <3>1. InOnePiece(list, frames'[o])
      BY <1>1, <1>2, <2>2 DEF BatchStored
    <3>2. ASSUME NEW i \in Reporting(list)
          PROVE  \/ list[i].lap - 1 \in DOMAIN laps'[o]
                 \/ /\ pc'[q] = "laps"
                    /\ \E k \in 1 .. Len(todo'[q]) : todo'[q][k].lap = list[i].lap - 1
      <4> DEFINE l == list[i].lap - 1
      <4>1. \/ l \in DOMAIN laps[o]
            \/ \E k \in 1 .. Len(todo[q]) : todo[q][k].lap = l
        BY <1>1, <2>2 DEF BatchStored
      <4> HIDE DEF l
      <4>2. \/ l \in DOMAIN laps'[o]
            \/ pc'[q] = "laps" /\ \E k \in 1 .. Len(todo'[q]) : todo'[q][k].lap = l
        BY <2>2, <4>1, UpsertProgress
      <4> QED BY <4>2 DEF l
    <3> QED BY <2>0, <3>1, <3>2 DEF BatchStored
  <2>3. CASE /\ frames' = [frames EXCEPT ![o] = @ \o list]
             /\ IF ExtractCompleted(list) = <<>> THEN pc'[q] = "derive"
                ELSE pc'[q] = "laps" /\ todo'[q] = ExtractCompleted(list)
    <3>1. frames[o] \in Seq(Known) /\ frames'[o] = frames[o] \o list
      BY <1>1, <2>3 DEF IngestInv, FramesInv
    <3>2. InOnePiece(list, frames[o] \o list)
      BY <1>1, <3>1, PieceStays
    <3>3. \A i \in Reporting(list) : \E k \in 1 .. Len(ExtractCompleted(list)) :
            ExtractCompleted(list)[k].lap = list[i].lap - 1
      BY BatchFacts
    <3>4. CASE ExtractCompleted(list) = <<>>
      <4>1. Reporting(list) = {} /\ pc'[q] = "derive"
        BY <2>3, <3>3, <3>4
      <4> QED BY <3>1, <3>2, <4>1 DEF BatchStored
    <3>5. CASE ExtractCompleted(list) # <<>>
      <4>1. pc'[q] = "laps" /\ todo'[q] = ExtractCompleted(list)
        BY <2>3, <3>5
      <4> QED BY <2>0, <3>1, <3>2, <3>3, <4>1 DEF BatchStored
    <3> QED BY <3>4, <3>5
  <2>4. CASE list = <<>> /\ pc'[q] = "reject"
    <3>1. Reporting(list) = {}
      BY <2>4 DEF Reporting
    <3>2. InOnePiece(list, frames'[o])
      <4>1. frames'[o] \in Seq(Known)
        BY <1>1, FramesGrow
      <4> QED BY <1>1, <2>4, <4>1, PieceStays
    <3> QED BY <2>4, <3>1, <3>2 DEF BatchStored
  <2> QED BY <1>5, <2>1, <2>2, <2>3, <2>4, IntoStored
<1>6. ASSUME NEW r \in Requests, Step(r), r # q
      PROVE  pc'[q] = pc[q] /\ todo'[q] = todo[q] /\ answer'[q] = answer[q]
  BY <1>6, OthersStay DEF IngestInv
<1> QED BY <1>4, <1>5, <1>6, SessionHandlers DEF Next, vars

\* In PostgreSQL every row of the laps table states a stored report, and every batch is
\* stored in one piece from its append on, through failures, repetitions and races.
THEOREM StoredInvariant == Spec => []StoredInv
<1>1. ASSUME Init PROVE StoredInv
  BY <1>1 DEF Init, StoredInv, BatchStored, AfterLaps, Accepted, Empty
<1>2. ASSUME IngestInv, StoredInv, [Next]_vars PROVE StoredInv'
  <2>1. mode' = mode
    BY <1>2, Writers, SessionHandlers DEF Next, vars
  <2>2. CASE mode = "postgres"
    BY <1>2, <2>2, RowsStayReported, BatchesKept DEF StoredInv
  <2> QED BY <2>1, <2>2 DEF StoredInv
<1> QED BY <1>1, <1>2, IngestInvariant, PTL DEF Spec

\* A 202 in PostgreSQL means that the whole batch is stored in one piece and that every
\* lap it completes has a row, which states a report that some stored frame really made.
THEOREM AcceptedBatchIsStored == Spec => []AcceptedIsStored
<1>1. ASSUME StoredInv PROVE AcceptedIsStored
  <2> SUFFICES ASSUME NEW r \in Requests, Accepted(r), mode = "postgres"
               PROVE  LET s == Owner[r] IN
                      /\ InOnePiece(Batch[r].frames, frames[s])
                      /\ \A i \in Reporting(Batch[r].frames) :
                            LET l == Batch[r].frames[i].lap - 1 IN
                            /\ l \in DOMAIN laps[s]
                            /\ \E j \in Reporting(frames[s]) :
                                  /\ frames[s][j].lap = l + 1
                                  /\ frames[s][j].last = laps[s][l].time
                                  /\ frames[s][j].ts = laps[s][l].at
    BY DEF AcceptedIsStored
  <2>1. Owner[r] \in Sessions /\ BatchStored(r)
    BY <1>1, OwnerAssumption DEF StoredInv
  <2>2. \A l \in DOMAIN laps[Owner[r]] : Reports(frames[Owner[r]], l, laps[Owner[r]][l])
    BY <1>1, <2>1 DEF StoredInv
  <2> QED BY <2>1, <2>2 DEF BatchStored, Reports
<1> QED BY <1>1, StoredInvariant, PTL
=============================================================================
