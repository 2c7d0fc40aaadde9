------------------------ MODULE OffTrackStintsProofs ------------------------
(***************************************************************************)
(* What the off-track rule reports over the batches of a session, for any  *)
(* batches, any number of frames and any time from one frame to the next:  *)
(* no stint is invented, and the stint that the car is in is reported from *)
(* its true start.                                                         *)
(***************************************************************************)
EXTENDS OffTrackStints, FrameEventsProofs

-----------------------------------------------------------------------------
(* The rules about lap times have nothing to say here.                     *)

\* At no position nothing is listed.
LEMMA AtNothing ==
    ASSUME NEW seq
    PROVE  At(seq, {}) = <<>>
BY FS_EmptySet DEF At

\* Frames that report no lap time complete no lap.
LEMMA NothingCompleted ==
    ASSUME NEW list, Len(list) \in Nat, \A i \in 1 .. Len(list) : list[i].last = 0
    PROVE  ExtractCompleted(list) = <<>>
<1> DEFINE first == {i \in Reporting(list) :
                       \A j \in Reporting(list) : list[j].lap = list[i].lap => i <= j}
           reports == At(list, first)
<1>1. Reporting(list) = {}
  BY DEF Reporting
<1>2. first = {}
  BY <1>1
<1>3. reports = <<>>
  <2> HIDE DEF first
  <2> QED BY <1>2, AtNothing
<1>4. ExtractCompleted(list)
         = [k \in 1 .. Len(reports) |->
              [lap |-> reports[k].lap - 1, time |-> reports[k].last, at |-> reports[k].ts]]
  BY DEF ExtractCompleted
<1> HIDE DEF reports
<1> QED BY <1>3, <1>4

\* Without lap times an appended batch makes the events of its stints only.
LEMMA OnlyStintEvents ==
    ASSUME NEW acc, NEW app, Len(app) \in Nat, \A i \in 1 .. Len(app) : app[i].last = 0,
           Len(appendOffTrackTail(acc, app)) \in Nat, NEW ref
    PROVE  GenerateFrameEventsForAppend(acc, app, ref)
              = offTrackStintEvents(appendOffTrackTail(acc, app), ref)
<1> DEFINE stints == offTrackStintEvents(appendOffTrackTail(acc, app), ref)
<1>1. lapTimeRegressionEvents(app, ref) = <<>>
  <2> DEFINE shows(i) == /\ app[i].lap > 0 /\ app[i].last > 0 /\ app[i].best > 0
                         /\ app[i].last - app[i].best >= RegressionThreshold(app[i].best)
             first == {i \in 1 .. Len(app) :
                         shows(i) /\ \A j \in 1 .. i - 1 : shows(j) => app[j].lap # app[i].lap}
             hits == At(app, first)
  <2>1. \A i \in 1 .. Len(app) : ~shows(i)
    OBVIOUS
  <2>2. first = {}
    <3> HIDE DEF shows
    <3> QED BY <2>1
  <2>3. hits = <<>>
    <3> HIDE DEF first
    <3> QED BY <2>2, AtNothing
  <2>4. lapTimeRegressionEvents(app, ref)
           = [k \in 1 .. Len(hits) |->
                baseFrameEvent(hits[k].lap - 1, hits[k].ts, "lap_time_regression", "best_lap",
                               <<hits[k].ts, hits[k].ts>>, ref, 0)]
    BY DEF lapTimeRegressionEvents
  <2> HIDE DEF hits
  <2> QED BY <2>3, <2>4
<1>2. previousLapRegressionEvents(acc, app, ref) = <<>>
  <2> DEFINE known == ToSet(ExtractCompleted(acc))
             slower(c) == \E p \in known : /\ p.lap = c.lap - 1
                                           /\ c.time - p.time >= RegressionThreshold(p.time)
             completed == ExtractCompleted(app)
             positions == {i \in 1 .. Len(completed) : slower(completed[i])}
             hits == At(completed, positions)
             Event(c) == [baseFrameEvent(c.lap, c.at, "lap_time_regression", "previous_lap",
                                         NoRange, ref, 0)
                            EXCEPT !.id = <<c.lap, "lap_time_regression", "previous_lap">>]
  <2>1. completed = <<>>
    BY NothingCompleted
  <2>2. positions = {}
    <3> HIDE DEF slower, completed
    <3> QED BY <2>1
  <2>3. hits = <<>>
    <3> HIDE DEF positions, completed
    <3> QED BY <2>2, AtNothing
  <2>4. previousLapRegressionEvents(acc, app, ref) = [k \in 1 .. Len(hits) |-> Event(hits[k])]
    BY DEF previousLapRegressionEvents
  <2> HIDE DEF hits, Event
  <2> QED BY <2>3, <2>4
<1>3. \E m \in Nat : stints = [k \in 1 .. m |-> stints[k]]
  BY StintsFound
<1> HIDE DEF stints
<1>4. PICK m \in Nat : stints = [k \in 1 .. m |-> stints[k]]
  BY <1>3
<1>5. stints \in Seq({stints[k] : k \in 1 .. m})
  BY <1>4
<1>6. <<>> \o <<>> \o stints = stints
  <2>1. <<>> \o <<>> = <<>>
    OBVIOUS
  <2> QED BY <1>5, <2>1, ConcatEmptySeq
<1> QED BY <1>1, <1>2, <1>6 DEF GenerateFrameEventsForAppend, stints

-----------------------------------------------------------------------------
(* Time.                                                                   *)

\* Later frames have later timestamps.
LEMMA TimeRises ==
    ASSUME NEW i \in Nat, NEW j \in Nat
    PROVE  /\ i * FramePeriodMs \in Nat /\ j * FramePeriodMs \in Nat
           /\ i < j <=> i * FramePeriodMs < j * FramePeriodMs
<1>1. FramePeriodMs \in Nat /\ FramePeriodMs > 0
  BY PeriodAssumption
<1>2. i * FramePeriodMs \in Nat /\ j * FramePeriodMs \in Nat
  BY <1>1
<1>3. ASSUME NEW x \in Nat, NEW y \in Nat, x < y
      PROVE  x * FramePeriodMs < y * FramePeriodMs
  <2>1. PICK d \in Nat : y = x + d /\ d > 0
    <3>1. y - x \in Nat /\ y = x + (y - x) /\ y - x > 0
      BY <1>3
    <3> QED BY <3>1
  <2>2. y * FramePeriodMs = x * FramePeriodMs + d * FramePeriodMs
    BY <1>1, <2>1
  <2>3. d * FramePeriodMs > 0 /\ d * FramePeriodMs \in Nat /\ x * FramePeriodMs \in Nat
    BY <1>1, <2>1
  <2> QED BY <2>2, <2>3
<1>4. i < j => i * FramePeriodMs < j * FramePeriodMs
  BY <1>3
<1>5. ASSUME ~(i < j)
      PROVE  ~(i * FramePeriodMs < j * FramePeriodMs)
  <2>1. CASE i = j
    BY <1>2, <2>1
  <2>2. CASE j < i
    BY <1>2, <1>3, <2>2
  <2> QED BY <1>5, <2>1, <2>2
<1> QED BY <1>2, <1>4, <1>5


-----------------------------------------------------------------------------
(* The inductive invariant.                                                *)

FrameRecords == [ts : Nat, lap : {1}, last : {0}, best : {0}, onTrack : BOOLEAN]

\* The stored frames are those sent, one period apart.
FramesInv ==
    /\ frames \in Seq(FrameRecords)
    /\ \A i \in 1 .. Len(frames) : frames[i].ts = i * FramePeriodMs

\* An event was made of two stored frames with the car off the track in every
\* frame from the first to the second.
MadeOfStint(e, list) ==
    \E i \in 1 .. Len(list) : \E j \in i .. Len(list) :
        /\ e.range = <<list[i].ts, list[j].ts>>
        /\ list[j].ts - list[i].ts >= OffTrackMinDurationMs
        /\ \A k \in i .. j : ~list[k].onTrack

EventsInv == \A e \in emitted : MadeOfStint(e, frames)

StintInv == FramesInv /\ EventsInv /\ OpenStintReported

\* A batch extends the stored frames by frames of the same kind.
LEMMA BatchExtends ==
    ASSUME FramesInv, NEW flags \in Batches, Ingest(flags)
    PROVE  /\ appended' \in Seq(FrameRecords) /\ appended' # <<>>
           /\ frames' = frames \o appended'
           /\ emitted' = emitted \cup ToSet(GenerateFrameEventsForAppend(frames', appended', "none"))
           /\ FramesInv' /\ Rising(frames')
<1> DEFINE batch == [i \in 1 .. Len(flags) |-> Frame(Len(frames) + i, flags[i])]
           n == Len(frames)
           m == Len(flags)
<1>1. m \in Nat /\ m > 0 /\ n \in Nat /\ \A i \in 1 .. m : flags[i] \in BOOLEAN
  BY BatchesAssumption DEF FramesInv
<1>2. /\ appended' = batch /\ frames' = frames \o batch
      /\ emitted' = emitted \cup ToSet(GenerateFrameEventsForAppend(frames', appended', "none"))
  BY DEF Ingest
<1> HIDE DEF n, m
<1>3. ASSUME NEW i \in 1 .. m
      PROVE  batch[i] \in FrameRecords /\ batch[i].ts = (n + i) * FramePeriodMs
  <2>1. batch[i] = Frame(n + i, flags[i])
    BY DEF n, m
  <2>2. (n + i) * FramePeriodMs \in Nat
    BY <1>1, TimeRises
  <2> QED BY <1>1, <2>1, <2>2 DEF Frame, FrameRecords
<1>4. DOMAIN batch = 1 .. m /\ Len(batch) = m
  BY <1>1 DEF m
<1>5. batch \in Seq(FrameRecords) /\ batch # <<>>
  <2>1. batch = [i \in 1 .. m |-> batch[i]]
    BY DEF m
  <2> HIDE DEF batch
  <2> QED BY <1>1, <1>3, <1>4, <2>1
<1> HIDE DEF batch
<1>6. /\ frames' \in Seq(FrameRecords) /\ Len(frames') = n + m
      /\ \A i \in 1 .. n + m : frames'[i] = IF i <= n THEN frames[i] ELSE batch[i - n]
  BY <1>2, <1>4, <1>5, ConcatProperties DEF FramesInv, n
<1>7. ASSUME NEW i \in 1 .. n + m
      PROVE  frames'[i].ts = i * FramePeriodMs
  <2>1. CASE i <= n
    <3>1. i \in 1 .. Len(frames)
      BY <1>1, <2>1 DEF n
    <3> QED BY <1>6, <2>1, <3>1 DEF FramesInv
  <2>2. CASE ~(i <= n)
    <3>1. i - n \in 1 .. m /\ n + (i - n) = i
      BY <1>1, <2>2
    <3> QED BY <1>3, <1>6, <2>2, <3>1
  <2> QED BY <2>1, <2>2
<1>8. FramesInv'
  BY <1>6, <1>7 DEF FramesInv
<1>9. Rising(frames')
  <2>1. ASSUME NEW i \in 1 .. n + m
        PROVE  frames'[i].ts \in Int /\ frames'[i].onTrack \in BOOLEAN
    <3>1. i \in 1 .. Len(frames')
      BY <1>6
    <3>2. frames'[i] \in FrameRecords
      BY <1>6, <3>1, ElementOfSeq
    <3> QED BY <3>2 DEF FrameRecords
  <2>2. ASSUME NEW i \in 1 .. n + m, NEW j \in 1 .. n + m, i < j
        PROVE  frames'[i].ts < frames'[j].ts
    <3>1. i \in Nat /\ j \in Nat
      BY <1>1
    <3> QED BY <1>7, <2>2, <3>1, TimeRises
  <2> QED BY <1>6, <2>1, <2>2 DEF Rising
<1> QED BY <1>2, <1>5, <1>8, <1>9

\* What a batch makes is made of the stints that the rule looks at.
LEMMA BatchEvents ==
    ASSUME FramesInv, NEW flags \in Batches, Ingest(flags)
    PROVE  LET tail == appendOffTrackTail(frames', appended') IN
           /\ Len(tail) \in Nat
           /\ \A e \in emitted' : e \in emitted \/
                 \E a, b \in 1 .. Len(tail) :
                    Run(tail, a, b) /\ Long(tail, a, b) /\ e = StintEvent(tail, a, b, "none")
           /\ \A a, b \in 1 .. Len(tail) : Run(tail, a, b) /\ Long(tail, a, b) =>
                 StintEvent(tail, a, b, "none") \in emitted'
<1> DEFINE tail == appendOffTrackTail(frames', appended')
           made == offTrackStintEvents(tail, "none")
<1>1. /\ appended' \in Seq(FrameRecords) /\ appended' # <<>>
      /\ frames' = frames \o appended'
      /\ emitted' = emitted \cup ToSet(GenerateFrameEventsForAppend(frames', appended', "none"))
      /\ FramesInv' /\ Rising(frames')
  BY BatchExtends
<1>2. Len(tail) \in Nat
  <2>1. frames \in Seq(FrameRecords) /\ frames' \in Seq(FrameRecords)
    BY <1>1 DEF FramesInv
  <2> DEFINE e == IF Len(frames) = 0 THEN Len(frames') ELSE Len(frames)
  <2>2. \/ tail = appended'
        \/ \E s \in 1 .. e : tail = SubSeq(frames', s, e) \o appended'
    BY <1>1, <2>1, TailKinds
  <2>3. e \in 1 .. Len(frames')
    BY <1>1, <2>1
  <2> HIDE DEF tail, e
  <2>4. ASSUME NEW s \in 1 .. e, tail = SubSeq(frames', s, e) \o appended'
        PROVE  Len(tail) \in Nat
    BY <1>1, <2>1, <2>3, <2>4, TailFrames
  <2> QED BY <1>1, <2>2, <2>4
<1>3. Len(appended') \in Nat /\ \A i \in 1 .. Len(appended') : appended'[i].last = 0
  <2>1. Len(appended') \in Nat /\ \A i \in 1 .. Len(appended') : appended'[i] \in FrameRecords
    BY <1>1, ElementOfSeq
  <2> QED BY <2>1 DEF FrameRecords
<1>4. emitted' = emitted \cup ToSet(made)
  BY <1>1, <1>2, <1>3, OnlyStintEvents
<1>5. /\ \A k \in DOMAIN made : \E a, b \in 1 .. Len(tail) :
            Run(tail, a, b) /\ Long(tail, a, b) /\ made[k] = StintEvent(tail, a, b, "none")
      /\ \A a, b \in 1 .. Len(tail) : Run(tail, a, b) /\ Long(tail, a, b) =>
            \E k \in DOMAIN made : made[k] = StintEvent(tail, a, b, "none")
  <2> HIDE DEF tail
  <2> QED BY <1>2, StintsFound
<1>6. ToSet(made) = {made[k] : k \in DOMAIN made}
  BY DEF ToSet
<1> HIDE DEF tail, made
<1> QED BY <1>2, <1>4, <1>5, <1>6 DEF tail

\* No batch makes an event that is not of a stint, and later batches change no
\* stored frame.
LEMMA EventsStaySound ==
    ASSUME FramesInv, EventsInv, NEW flags \in Batches, Ingest(flags)
    PROVE  EventsInv'
<1> DEFINE tail == appendOffTrackTail(frames', appended')
<1>1. /\ appended' \in Seq(FrameRecords) /\ appended' # <<>>
      /\ frames' = frames \o appended' /\ frames \in Seq(FrameRecords)
      /\ Rising(frames')
  BY BatchExtends DEF FramesInv
<1>2. /\ Len(frames) \in Nat /\ Len(frames') \in Nat /\ Len(frames) <= Len(frames')
      /\ \A k \in 1 .. Len(frames) : frames'[k] = frames[k]
  BY <1>1
<1>3. ASSUME NEW e, MadeOfStint(e, frames)
      PROVE  MadeOfStint(e, frames')
  <2>1. PICK i \in 1 .. Len(frames), j \in 1 .. Len(frames) :
           /\ j >= i
           /\ e.range = <<frames[i].ts, frames[j].ts>>
           /\ frames[j].ts - frames[i].ts >= OffTrackMinDurationMs
           /\ \A k \in i .. j : ~frames[k].onTrack
    BY <1>2, <1>3 DEF MadeOfStint
  <2>2. i \in 1 .. Len(frames') /\ j \in i .. Len(frames')
    BY <1>2, <2>1
  <2>3. frames'[i] = frames[i] /\ frames'[j] = frames[j]
    BY <1>2
  <2>4. \A k \in i .. j : k \in 1 .. Len(frames)
    BY <1>2
  <2>5. \A k \in i .. j : ~frames'[k].onTrack
    BY <1>2, <2>1, <2>4
  <2> QED BY <2>1, <2>2, <2>3, <2>5 DEF MadeOfStint
<1>4. ASSUME NEW a, NEW b, Run(tail, a, b), Long(tail, a, b)
      PROVE  MadeOfStint(StintEvent(tail, a, b, "none"), frames')
  <2>1. PICK i \in 1 .. Len(frames') : \E j \in i .. Len(frames') :
           /\ tail[a] = frames'[i] /\ tail[b] = frames'[j]
           /\ \A k \in i .. j : Off(frames', k)
    BY <1>1, <1>4, TailIsSound
  <2>2. PICK j \in i .. Len(frames') :
           /\ tail[a] = frames'[i] /\ tail[b] = frames'[j]
           /\ \A k \in i .. j : Off(frames', k)
    BY <2>1
  <2>3. StintEvent(tail, a, b, "none").range = <<tail[a].ts, tail[b].ts>>
    BY DEF StintEvent, baseFrameEvent
  <2>4. frames'[j].ts - frames'[i].ts >= OffTrackMinDurationMs
    BY <1>4, <2>2 DEF Long
  <2> HIDE DEF tail
  <2>5. \A k \in i .. j : ~frames'[k].onTrack
    BY <2>2 DEF Off
  <2> QED BY <2>2, <2>3, <2>4, <2>5 DEF MadeOfStint
<1> HIDE DEF tail
<1>5. \A e \in emitted' : e \in emitted \/
         \E a, b \in 1 .. Len(tail) :
            Run(tail, a, b) /\ Long(tail, a, b) /\ e = StintEvent(tail, a, b, "none")
  BY BatchEvents DEF tail
<1> QED BY <1>3, <1>4, <1>5 DEF EventsInv

\* After a batch the stint that the frames end with is reported.
LEMMA OpenStintIsReported ==
    ASSUME FramesInv, NEW flags \in Batches, Ingest(flags)
    PROVE  OpenStintReported'
<1> DEFINE tail == appendOffTrackTail(frames', appended')
           N == Len(frames')
<1>1. /\ appended' \in Seq(FrameRecords) /\ appended' # <<>>
      /\ frames' = frames \o appended' /\ frames \in Seq(FrameRecords)
      /\ Rising(frames')
  BY BatchExtends DEF FramesInv
<1>2. N \in Nat
  BY <1>1
<1>3. SUFFICES ASSUME NEW i \in 1 .. N, NEW j \in 1 .. N, j = N, i <= j,
                      \A k \in i .. j : ~frames'[k].onTrack,
                      i > 1 => frames'[i - 1].onTrack,
                      frames'[j].ts - frames'[i].ts >= OffTrackMinDurationMs
               PROVE  \E e \in emitted' : /\ e.range = <<frames'[i].ts, frames'[j].ts>>
                                          /\ e.lap = frames'[i].lap
  BY DEF OpenStintReported, Stints, Reported
<1>4. Run(frames', i, N)
  BY <1>2, <1>3 DEF Run, Off
<1>5. PICK a \in 1 .. Len(tail), b \in 1 .. Len(tail) :
         Run(tail, a, b) /\ tail[a] = frames'[i] /\ tail[b] = frames'[N]
  <2> DEFINE all == frames \o appended'
             seen == appendOffTrackTail(all, appended')
  <2>1. Rising(all) /\ Run(all, i, Len(all)) /\ frames' = all
    BY <1>1, <1>4
  <2>2. HoldsLast(seen, all, i)
    BY <1>1, <2>1, TailIsComplete
  <2> HIDE DEF all
  <2> QED BY <2>1, <2>2 DEF HoldsLast
<1>6. Long(tail, a, b)
  BY <1>3, <1>5 DEF Long
<1>7. StintEvent(tail, a, b, "none") \in emitted'
  BY <1>5, <1>6, BatchEvents
<1>8. /\ StintEvent(tail, a, b, "none").range = <<tail[a].ts, tail[b].ts>>
      /\ StintEvent(tail, a, b, "none").lap = tail[a].lap
  BY DEF StintEvent, baseFrameEvent
<1> HIDE DEF tail
<1> QED BY <1>3, <1>5, <1>7, <1>8

\* The invariant holds whatever is sent.
THEOREM StintInvariant == Spec => []StintInv
<1>1. Init => StintInv
  <2> SUFFICES ASSUME Init
               PROVE  StintInv
    OBVIOUS
  <2>1. frames = <<>> /\ emitted = {}
    BY DEF Init
  <2>2. FramesInv
    BY <2>1 DEF FramesInv
  <2>3. EventsInv
    BY <2>1 DEF EventsInv
  <2>4. Stints = {}
    BY <2>1 DEF Stints
  <2> QED BY <2>2, <2>3, <2>4 DEF StintInv, OpenStintReported
<1>2. StintInv /\ [Next]_vars => StintInv'
  <2> SUFFICES ASSUME StintInv, [Next]_vars
               PROVE  StintInv'
    OBVIOUS
  <2>1. ASSUME NEW flags \in Batches, Ingest(flags)
        PROVE  StintInv'
    BY <2>1, BatchExtends, EventsStaySound, OpenStintIsReported DEF StintInv
  <2>2. CASE UNCHANGED vars
    BY <2>2 DEF vars, StintInv, FramesInv, EventsInv, OpenStintReported, Stints, Reported
  <2> QED BY <2>1, <2>2 DEF Next
<1> QED BY <1>1, <1>2, PTL DEF Spec

\* No event is invented: whatever the batches, the car was off the track in
\* every stored frame of an event's range, and long enough.
THEOREM NoStintInvented == Spec => []EventsAreOffTrack
<1>1. ASSUME StintInv
      PROVE  EventsAreOffTrack
  <2> SUFFICES ASSUME NEW e \in emitted
               PROVE  /\ e.range[2] - e.range[1] >= OffTrackMinDurationMs
                      /\ \A x \in 1 .. Len(frames) :
                            e.range[1] <= frames[x].ts /\ frames[x].ts <= e.range[2]
                               => ~frames[x].onTrack
    BY DEF EventsAreOffTrack
  <2>1. FramesInv /\ MadeOfStint(e, frames)
    BY <1>1 DEF StintInv, EventsInv
  <2>2. PICK i \in 1 .. Len(frames) : \E j \in i .. Len(frames) :
           /\ e.range = <<frames[i].ts, frames[j].ts>>
           /\ frames[j].ts - frames[i].ts >= OffTrackMinDurationMs
           /\ \A k \in i .. j : ~frames[k].onTrack
    BY <2>1 DEF MadeOfStint
  <2>3. PICK j \in i .. Len(frames) :
           /\ e.range = <<frames[i].ts, frames[j].ts>>
           /\ frames[j].ts - frames[i].ts >= OffTrackMinDurationMs
           /\ \A k \in i .. j : ~frames[k].onTrack
    BY <2>2
  <2>4. Len(frames) \in Nat
    BY <2>1 DEF FramesInv
  <2>5. e.range[1] = frames[i].ts /\ e.range[2] = frames[j].ts
    BY <2>3
  <2>6. ASSUME NEW x \in 1 .. Len(frames), e.range[1] <= frames[x].ts, frames[x].ts <= e.range[2]
        PROVE  ~frames[x].onTrack
    <3>1. i \in Nat /\ j \in Nat /\ x \in Nat /\ j \in 1 .. Len(frames)
      BY <2>4
    <3>2. /\ frames[i].ts = i * FramePeriodMs /\ frames[j].ts = j * FramePeriodMs
          /\ frames[x].ts = x * FramePeriodMs
      BY <2>1, <3>1 DEF FramesInv
    <3>3. ~(x * FramePeriodMs < i * FramePeriodMs) /\ ~(j * FramePeriodMs < x * FramePeriodMs)
      BY <2>5, <2>6, <3>1, <3>2, TimeRises
    <3>4. ~(x < i) /\ ~(j < x)
      BY <3>1, <3>3, TimeRises
    <3>5. x \in i .. j
      BY <3>1, <3>4
    <3> QED BY <2>3, <3>5
  <2> QED BY <2>3, <2>5, <2>6
<1> QED BY <1>1, StintInvariant, PTL

\* A stint the car is still in has been reported from its true start, over as
\* many batches as it spans.
THEOREM OpenStintIsAlwaysReported == Spec => []OpenStintReported
<1>1. StintInv => OpenStintReported
  BY DEF StintInv
<1> QED BY <1>1, StintInvariant, PTL
=============================================================================
