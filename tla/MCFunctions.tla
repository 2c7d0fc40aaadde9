----------------------------- MODULE MCFunctions -----------------------------
(***************************************************************************)
(* The pure functions of the server over every small input of their kind,  *)
(* and the lap tracker.  A behaviour either drives the tracker or builds   *)
(* one input: input.kind says for which functions, and a list is built     *)
(* one element at a time.                                                  *)
(***************************************************************************)
EXTENDS FrameBatch, Summaries, Advice, EventRules, Export, LapContinuity

CONSTANTS
    Steps,        \* ms from one frame to the next
    Distances,    \* lap distances
    MaxFrames,    \* bound on the frames of a request
    MaxBody,      \* bound on the frames of an unchecked body
    MaxDrive,     \* bound on the frames of a drive
    MaxList,      \* bound on corners, samples, manifest entries, events and laps
    MaxMetres     \* bound on what the tracker adds up

VARIABLE input

functionVars == <<vars, input>>

NoInput == [kind |-> "none"]

FunctionsInit == Init /\ input = NoInput

\* The list of this kind so far; the first element starts it.
Built(kind) == IF input.kind = kind THEN input.list ELSE <<>>

Extend(kind, bound, x) ==
    /\ input.kind \in {"none", kind} /\ ~initialized
    /\ Len(Built(kind)) < bound
    /\ input' = [kind |-> kind, list |-> Append(Built(kind), x)]
    /\ UNCHANGED vars

Pick(kind, x) ==
    /\ ~initialized
    /\ input' = [kind |-> kind, value |-> x]
    /\ UNCHANGED vars

Is(kind) == input.kind = kind

-----------------------------------------------------------------------------
\* Frames as Normalize lets them through: timestamps rise, laps do not fall.
AcceptFrame ==
    \E step \in Steps, advance \in {0, 1}, dist \in Distances :
        LET before == Built("frames")
            previous == IF before = <<>> THEN [ts |-> 0, lap |-> 1] ELSE Last(before)
            lap == previous.lap + advance
        IN  Extend("frames", MaxFrames, [ts |-> previous.ts + step, lap |-> lap,
                                         last |-> IF lap > 1 THEN 1 ELSE 0, dist |-> dist])

frames == Built("frames")
LapNumbers == {frames[i].lap : i \in DOMAIN frames}

\* splitFramesByLap loses, repeats and reorders nothing, mixes no laps in one
\* batch and never splits a lap that the request runs through in one go.
SplitIsPartition ==
    LET parts == splitFramesByLap(frames) IN
    Is("frames") =>
    /\ FlattenSeq(parts) = frames
    /\ \A i \in 1 .. Len(parts) :
          parts[i] # <<>> /\ \A k \in 1 .. Len(parts[i]) : parts[i][k].lap = parts[i][1].lap
    /\ \A i \in 2 .. Len(parts) : parts[i][1].lap # parts[i - 1][1].lap

\* A request stored twice, as a retry leaves it, changes neither the completed
\* laps nor the gap counts nor the samples derived from the stored frames.
RepetitionIsHarmless ==
    Is("frames") =>
    /\ ExtractCompleted(frames \o frames) = ExtractCompleted(frames)
    /\ \A l \in LapNumbers :
          /\ CountTelemetryGaps(l, frames \o frames) = CountTelemetryGaps(l, frames)
          /\ BuildLapSamples(l, frames \o frames, 5) = BuildLapSamples(l, frames, 5)

\* The order in which two requests reach the store does not matter to what is
\* derived once both are there.
ArrivalOrderIsHarmless ==
    Is("frames") => \A n \in 0 .. Len(frames) : \A l \in LapNumbers :
        LET swapped == SubSeq(frames, n + 1, Len(frames)) \o SubSeq(frames, 1, n) IN
        /\ CountTelemetryGaps(l, swapped) = CountTelemetryGaps(l, frames)
        /\ BuildLapSamples(l, swapped, 5) = BuildLapSamples(l, frames, 5)

\* What is derived from the stored frames depends neither on retries nor on the
\* order in which concurrent requests reached the store.
DerivedRowsStable == RepetitionIsHarmless /\ ArrivalOrderIsHarmless

\* Export succeeds on what was stored once and in order, whole or lap by lap,
\* with a file the track builder takes. Frames that a retry stored twice and
\* requests stored out of order are refused (400, exitTimestamp) and a failed
\* read is an error of the server (500, exitIO), never a file that lacks frames.
\* Over HTTP an active session is refused before its frames are read.
ExportExact ==
    Is("frames") => \A lap \in LapNumbers \union {AllLaps} : \A n \in 0 .. Len(frames) :
        LET once == Export({}, "finished", frames, lap, FALSE)
            Answer(broken, status, stored) == sessionExportStatus(TRUE, TRUE, broken, status, stored, lap)
            retried == frames \o SubSeq(frames, n + 1, Len(frames))
            swapped == SubSeq(frames, n + 1, Len(frames)) \o SubSeq(frames, 1, n)
        IN
        /\ once = [error |-> "", frames |-> filterFrames(frames, lap)]
        /\ validateBuildRequest("s", once.frames)
        /\ Answer({}, "finished", frames) = 200
        /\ Answer({"frames"}, "active", frames) = 409
        /\ \A stored \in {retried, swapped} : filterFrames(stored, lap) # once.frames =>
              LET again == Export({}, "finished", stored, lap, TRUE) IN
              /\ again.frames = <<>> /\ classifyExportError(again.error) = "exitTimestamp"
              /\ Answer({}, "finished", stored) = 400
        /\ \A broken \in SUBSET {"session", "frames"} \ {{}} :
              LET failed == Export(broken, "finished", frames, lap, TRUE) IN
              /\ failed.frames = <<>> /\ classifyExportError(failed.error) = "exitIO"
              /\ Answer(broken, "finished", frames) = 500

-----------------------------------------------------------------------------
\* Bodies before Normalize.
BodyFrames ==
    {[ts |-> t, lap |-> l, cur |-> c, bad |-> {}] : t \in 0 .. 3, l \in 1 .. 2, c \in 0 .. 1}
        \union {[ts |-> 2, lap |-> -1, cur |-> 0, bad |-> {"invalid_yaw", "invalid_brake"}]}

ReceiveFrame == \E f \in BodyFrames : Extend("body", MaxBody, f)

Body(list) == [session |-> "s", frames |-> list]
body == Built("body")

OutOfOrder(f, g) == g.ts <= f.ts \/ g.lap < f.lap \/ (g.lap = f.lap /\ g.cur < f.cur)

\* Frame.Normalize and validateBatchConsistency compare with the last accepted
\* frame only; still every pair of accepted frames is in order, every frame is
\* accepted or rejected, a rejected one is invalid or out of order with an
\* accepted one before it, and what was accepted is accepted again.
NormalizedInOrder ==
    LET result == NormalizeFrames(Body(body))
        kept == result.frames
        Position(r) == r.index + 1
        rejected == {Position(r) : r \in ToSet(result.rejections)}
    IN
    Is("body") =>
    /\ \A i, j \in DOMAIN kept : i < j => ~OutOfOrder(kept[i], kept[j])
    /\ Len(kept) + Len(result.rejections) = Len(body)
    /\ \A k \in rejected :
          \/ FrameError(body[k]) # ""
          \/ \E i \in (1 .. k - 1) \ rejected : OutOfOrder(body[i], body[k])
    /\ Validate(Body(body)) = "" <=> kept = body
    /\ NormalizeFrames(Body(kept)).frames = kept

\* However the frames are cut into requests, the stored summaries add up to
\* what was rejected, reason by reason and in the same order.
RejectionsAddUp ==
    Is("body") => \A n \in 0 .. Len(body) :
        LET first == NormalizeFrames(Body(SubSeq(body, 1, n))).rejections
            second == NormalizeFrames(Body(SubSeq(body, n + 1, Len(body)))).rejections
            Record(r) == [session |-> "s", rejected |-> Len(r), reasons |-> BuildRejectionSummary(r)]
            records == AppendRejections(AppendRejections(<<>>, Record(first)), Record(second))
            total == RejectionSummaries(records, <<"s", "", "t">>)["s"]
        IN
        /\ total.rejected = Len(first) + Len(second)
        /\ total.reasons = BuildRejectionSummary(first \o second)
        /\ SumOver(total.reasons, LAMBDA r : r.count) = total.rejected

\* Every frame of a body is accounted for: accepted in order, or rejected for a
\* reason and counted under it for good.
BodyAccounted == NormalizedInOrder /\ RejectionsAddUp

-----------------------------------------------------------------------------
\* States of the stores: up to two sessions, each with requests that cross the
\* line or not, a request stored twice, and rejections.
Request(from, laps) == [i \in DOMAIN laps |-> [ts |-> from + i, lap |-> laps[i]]]

StoredRequests ==
    {<<>>, <<Request(20, <<1, 2>>), Request(10, <<1, 1>>)>>, <<Request(10, <<1, 2>>), Request(10, <<1, 2>>)>>}

SessionRows(id) ==
    {[id |-> id, started |-> s, ended |-> e, layout |-> l, detected |-> d] :
        s \in {50, 150}, e \in {0, 170}, l \in {"", "a"}, d \in {"", "b"}}

RejectionRecords ==
    LET Record(id, n) == [session |-> id, rejected |-> n,
                          reasons |-> <<[code |-> "invalid_yaw", count |-> n]>>]
    IN  {<<>>, <<Record(1, 2), Record(2, 1), Record(1, 3)>>}

PickStore ==
    Is("none") /\ \E n \in 0 .. 2 : \E rows \in [1 .. n -> UNION {SessionRows(1), SessionRows(2)}],
        stored \in [1 .. n -> StoredRequests], rejected \in RejectionRecords :
        /\ \A id \in 1 .. n : rows[id].id = id
        /\ Pick("store", [sessions |-> {rows[id] : id \in 1 .. n}, requests |-> stored,
                          events |-> [id \in 1 .. n |-> 2 * id], audits |-> [id \in 1 .. n |-> id],
                          rejections |-> rejected])

\* GET /sessions and GET /sessions/{id}/summary say the same of the same data,
\* computed from frames in memory or from the columns of frame_batches; only
\* what the in-memory runtime does not have (batches, audit rows) differs.
SummariesAgree ==
    Is("store") =>
        LET d == input.value IN
        /\ \A limit \in 1 .. 3 : MemoryList(d, limit) = PostgresList(d, limit)
        /\ \A s \in d.sessions :
              [PostgresSummary(d, s) EXCEPT !.batches = 0, !.audits = 0] = MemorySummary(d, s)

\* The admin statistics agree too: the join with frame_batches counts no
\* session twice and loses none without frames.
StatsAgree ==
    Is("store") => \A limit \in 1 .. 2, days \in 0 .. 2 :
        MemoryStats(input.value, limit, days, 240) = PostgresStats(input.value, limit, days, 240)

\* A client cannot tell the runtimes apart: frame_batches hold the frames of the
\* requests, and what SQL makes of them is what Go makes of the frames.
RuntimesAgree == SplitIsPartition /\ SummariesAgree /\ StatsAgree

-----------------------------------------------------------------------------
Good == [complete |-> TRUE, production |-> TRUE]
SourceSets == {{Good}, {[complete |-> TRUE, production |-> FALSE]},
               {Good, [complete |-> FALSE, production |-> TRUE]}}

CatalogLayout(id, length, sources) ==
    [id |-> id, named |-> TRUE, length |-> length, sources |-> sources, sectors |-> <<>>,
     corners |-> <<>>, line |-> <<>>]

CatalogOf(tracks) == [version |-> "v1", tracks |-> tracks]

LayoutsWith(ids) == {CatalogLayout(id, 100, sources) : id \in ids, sources \in SourceSets}

TracksWith(lists) == [id : {1, 2}, named : {TRUE}, sources : SourceSets, layouts : lists]

PickCatalog ==
    Is("none") /\ \E first \in TracksWith(SeqOf(LayoutsWith({2, 3}), 2)),
                     second \in TracksWith(SeqOf(LayoutsWith({4}), 1)) :
        Pick("catalog", CatalogOf(<<first, second>>))

\* The pairs that a lap of exactly their length leads to.
Detectable(c) ==
    UNION {{<<t.id, l.id>> : l \in {x \in Elements(t.layouts) :
                \E a \in Candidates(c, x.length) : a.track = t.id /\ a.layout = x.id}}
           : t \in Elements(c.tracks)}

\* In a valid catalog GET /catalog lists exactly what a session may select, and
\* detection may find it, and of a seed that ValidateSourceOfTruth accepts it
\* lists every layout: none is stored in the database and hidden from clients.
ListsSelectable(c) ==
    LET listed == BuildCatalogTrackLayoutSummary(c) IN
    /\ ValidateCatalog(c) =>
          /\ listed = {p \in CatalogPairs(c) : FindSelectableTrackLayout(c, p[1], p[2])}
          /\ listed \subseteq Detectable(c)
    /\ ValidateSourceOfTruth(c) => listed = CatalogPairs(c)

ListedIsSelectable == Is("catalog") => ListsSelectable(input.value)

\* Entries of the approved geometry, good and bad in different ways.
ManifestEntries ==
    LET Line(n) == [i \in 1 .. n |-> [x |-> 100 * ((i + 1) % 2), acc |-> 100 * (i - 1), finite |-> TRUE]]
        Entry(t, length, line) == [track |-> t, layout |-> 5, length |-> length, line |-> line]
    IN  {Entry(1, 200, Line(3)), Entry(1, 0, Line(3)), Entry(1, 900, Line(3)),
         Entry(2, 200, Line(3)), Entry(0, 200, Line(3)), Entry(1, 400, Line(5))}

ListEntry == \E g \in ManifestEntries : Extend("manifest", MaxList, g)

GeometryCatalog ==
    CatalogOf(<<[id |-> 1, named |-> TRUE, sources |-> {Good},
                 layouts |-> <<CatalogLayout(5, 2, {Good})>>]>>)

\* Skipping invalid geometry leaves a manifest that the strict check accepts and
\* that skipping again does not change. Exactly the valid entries stay whose key
\* no earlier entry took: an entry takes its key before its shape is looked at,
\* so one with a bad shape keeps out a good one of the same layout behind it, one
\* without a length does not. No layout loses a capability to it, and a distance
\* delta is only offered for a layout with geometry of about its length.
SanitizedManifest ==
    LET manifest == Built("manifest")
        kept == PrepareApprovedGeometry(manifest, TRUE).entries
        Taken(i) == \E j \in 1 .. i - 1 : HasKey(manifest[j]) /\ GeometryKey(manifest[j]) = GeometryKey(manifest[i])
        survivors == SelectSeq([i \in DOMAIN manifest |-> i],
                               LAMBDA i : HasKey(manifest[i]) /\ HasShape(manifest[i]) /\ ~Taken(i))
        Of(entries, layout) == LayoutCapabilities(GeometryCatalog, entries, 1, layout)
    IN
    Is("manifest") =>
    /\ kept = [n \in DOMAIN survivors |-> manifest[survivors[n]]]
    /\ PrepareApprovedGeometry(kept, FALSE) = [ok |-> TRUE, entries |-> kept]
    /\ \A layout \in {5, 6} :
          LET before == Of(manifest, layout)
              after == Of(kept, layout)
          IN  /\ \A x \in DOMAIN before : before[x] # "unavailable" => after[x] = before[x]
              /\ after.distanceDelta = "available" =>
                    \E g \in Elements(manifest) : GeometryKey(g) = <<1, layout>> /\ Abs(g.length - 200) <= 2
    /\ PrepareApprovedGeometry(manifest, FALSE).ok => kept = manifest

-----------------------------------------------------------------------------
LapLength == 4

Corner(s, a, e, mode) ==
    [id |-> 9, named |-> TRUE, sources |-> {Good}, mode |-> mode, start |-> s, apex |-> a, end |-> e]

Positioned ==
    {Corner(s, a, e, "catalog_manual") : s \in 0 .. LapLength, a \in 0 .. LapLength, e \in 0 .. LapLength}

\* Lists of corners that the catalog accepts.
AddCorner ==
    (Is("none") \/ Is("corners")) /\ \E c \in Positioned \union {Corner(0, 0, 0, "catalog_enumerated")} :
        /\ validateCorners(Append(Built("corners"), c), LapLength)
        /\ Extend("corners", MaxList, c)

\* A distance lies in one corner at most, so the first corner that
\* ResolveCurrent finds is the only one, on a closed track and on an open one.
OneCornerAt(list, length, d, isClosed) ==
    LET here == {i \in DOMAIN list : IsManual(list[i]) /\ containsDistance(list[i], d % length, isClosed)}
        found == ResolveCurrent(list, length, d, isClosed)
    IN
    /\ Cardinality(here) <= 1
    /\ isClosed \/ d < length => here = {found} \ {0}
    /\ found = 0 => NoCornerReason(list, length, d, isClosed) # "catalog_has_no_corners"

\* Corners accepted by the catalog never overlap, over the start line either.
CornersDisjoint ==
    Is("corners") => \A d \in 0 .. 2 * LapLength, isClosed \in BOOLEAN :
        OneCornerAt(Built("corners"), LapLength, d, isClosed)

\* What the validation of the catalog promises to those who read it: listing,
\* selection and detection agree, and a distance names one corner at most.
CatalogIsSound == ListedIsSelectable /\ CornersDisjoint

\* A pass: samples 300 ms apart with a speed, throttle and brake.
PassSamples ==
    {[dist |-> d, speed |-> c[1], throttle |-> c[2], brake |-> c[3], valid |-> c[4]] :
        d \in 0 .. LapLength - 1,
        c \in {<<1, 0, NoValue, TRUE>>, <<2, 50, 30, TRUE>>, <<2, NoValue, 0, TRUE>>, <<1, 50, 9, FALSE>>}}

TakeSample ==
    \E s \in PassSamples :
        Extend("pass", MaxList,
               [ts |-> 300 * (Len(Built("pass")) + 1), dist |-> s.dist, speed |-> s.speed,
                throttle |-> s.throttle, brake |-> s.brake, valid |-> s.valid])

\* The same corner and samples when distances are counted from another line,
\* shift metres further back.
RotateCorner(c, shift, length) ==
    [c EXCEPT !.start = (@ + shift) % length, !.apex = (@ + shift) % length,
              !.end = (@ + shift) % length]

RotateSamples(samples, shift, length) ==
    [i \in DOMAIN samples |-> [samples[i] EXCEPT !.dist = (@ + shift) % length]]

PassCorners == {c \in Positioned : c.start < c.end /\ validCornerRange(c, LapLength)}

\* AnalyzeCorner does not depend on where the start line is: a corner that
\* leads over the line is analysed as the same corner in the middle of the lap,
\* and the two checks of a corner's range (catalog and analysis) agree.
StartLineIsHarmless ==
    LET pass == Built("pass") IN
    /\ Is("pass") => \A c \in PassCorners, shift \in 1 .. LapLength - 1 :
          LET moved == RotateCorner(c, shift, LapLength) IN
          validCornerRange(moved, LapLength) =>
              AnalyzeCorner(moved, RotateSamples(pass, shift, LapLength), LapLength, TRUE)
                  = AnalyzeCorner(c, pass, LapLength, TRUE)
    /\ Is("none") => \A c \in Positioned :
          validateCornerRange(c, LapLength) <=> validCornerRange(c, LapLength)

RuleOptionSets ==
    {DefaultRuleOptions, [late |-> <<0, 0, 0>>, exit |-> <<0, 0, 0>>],
     [late |-> <<600, 100, 100>>, exit |-> <<12, 11, 9>>],
     [late |-> <<300, 800, 700>>, exit |-> <<1, 18, 17>>]}

\* Generate never fails on the analysis of a pass (an error would drop every
\* event); an event lies in the pass, and its severity never falls when the
\* loss grows, whatever order normalizeRuleOptions leaves the thresholds in.
RuleEventsSound ==
    LET pass == Built("pass") IN
    Is("pass") => \A c \in PassCorners, options \in RuleOptionSets, reference \in {NoValue, 8, 20} :
        LET analysis == AnalyzeCorner(c, pass, LapLength, TRUE)
            made == Generate([session |-> "s", lap |-> 1, ts |-> Last(pass).ts, analysis |-> analysis,
                              reference |-> reference, refs |-> {NoRef}, options |-> options])
            levels == normalizeRuleOptions(options)
            Loss(e) == IF e.type = "late_throttle" THEN e.metrics[1] ELSE e.metrics[3]
            Level(e) == IF e.type = "late_throttle" THEN levels.late ELSE levels.exit
        IN
        /\ made.ok
        /\ \A e \in Elements(made.events) :
              /\ pass[1].ts <= e.range[1] /\ e.range[2] <= Last(pass).ts
              /\ Loss(e) >= Level(e)[1]
              /\ e.severity = "high" <=> Loss(e) >= Level(e)[3]
              /\ Loss(e) >= Level(e)[2] => e.severity # "low"

-----------------------------------------------------------------------------
\* A lap of the given length, just long enough to count.
LapOf(length) ==
    [i \in 1 .. MinCompletedLapFrames |->
        [x |-> IF i = 1 THEN 0 ELSE length, onTrack |-> TRUE,
         lap |-> IF i = MinCompletedLapFrames THEN 2 ELSE 1]]

Seed == OfficialGT7SeedCatalog

\* One track with a layout of each length.
LengthsCatalog(lengths) ==
    LET sorted == SetToSortSeq(lengths, <) IN
    CatalogOf(<<[id |-> 9, named |-> TRUE, sources |-> {Good},
                 layouts |-> [i \in DOMAIN sorted |-> CatalogLayout(i, sorted[i], {Good})]]>>)

\* Laps against catalogs with layouts of similar lengths, and against the seed.
\* The long ones tell the score from the metres: 1030 m are nearer to 1000 m, but
\* 1061 m have the better score.
PickLap ==
    /\ Is("none")
    /\ \E family \in {<<190 .. 214, {200, 201, 203, 206}>>,
                      <<{1004, 1019, 1030, 1031, 1045}, {1000, 1008, 1030, 1061}>>} :
          \E observed \in family[1], lengths \in SUBSET family[2] :
             Pick("lap", [observed |-> observed, catalog |-> LengthsCatalog(lengths)])

SeedLaps == {l[2] : l \in Elements(SeedLengths)} \union {3664}

PickSeedLap ==
    Is("none") /\ \E observed \in SeedLaps : Pick("seed", [observed |-> observed, catalog |-> Seed])

\* The layouts within tolerance of the lap, by the definition and not by sorting:
\* those no other is more confident than, those whose confidence is within the
\* margin of theirs, those of exactly the observed length.
InReach == Candidates(input.value.catalog, input.value.observed)
Best == {b \in InReach : \A a \in InReach : b.difference * a.length <= a.difference * b.length}
NearBest ==
    {a \in InReach : \E b \in Best :
        400 * (a.difference * b.length - b.difference * a.length) <= 3 * a.length * b.length}
Exact == {a \in InReach : a.difference = 0}

\* DetectTrack answers "detected" only for a best match that is the only one
\* within the score margin or the only exact one. "ambiguous" names exactly the
\* layouts whose score is within the margin of the best, at least two, and is
\* never answered when there is one exact match. "unknown" means that no layout
\* is within tolerance.
DetectionIsClear ==
    Is("lap") \/ Is("seed") =>
        LET result == DetectTrack(LapOf(input.value.observed), input.value.catalog) IN
        CASE result.status = "detected" ->
                \E b \in Best : result.evidence = {b} /\ (NearBest = {b} \/ Exact = {b})
          [] result.status = "ambiguous" ->
                /\ result.evidence = NearBest
                /\ Cardinality(NearBest) > 1 /\ Cardinality(Exact) # 1
          [] result.status = "unknown" -> InReach = {}
          [] OTHER -> FALSE

\* With the seed the server ships, a lap of exactly the length of a layout is
\* detected as that layout unless another one is as long, and the lap of about
\* 3664 m that docs/track-catalog.md tells of is ambiguous.
SeedDetection ==
    Is("seed") =>
        LET observed == input.value.observed
            exact == {l[1] : l \in {x \in Elements(SeedLengths) : x[2] = observed}}
            result == DetectTrack(LapOf(observed), Seed)
            named == {a.layout : a \in result.evidence}
        IN
        CASE Cardinality(exact) = 1 -> result.status = "detected" /\ named = exact
          [] OTHER -> result.status = "ambiguous" /\ exact \subseteq named

\* DetectTrack names a layout exactly when the lap is clear evidence for it, for
\* any catalog and for the seed the server ships.
DetectionSound == DetectionIsClear /\ SeedDetection

\* A drive: metres since the frame before, a new lap or not, on the track or not.
DriveOn ==
    \E move \in {<<100, 0, TRUE>>, <<100, 1, TRUE>>, <<100, 1, FALSE>>, <<0, 0, TRUE>>} :
        LET before == Built("drive")
            previous == IF before = <<>> THEN [x |-> 0, lap |-> 1] ELSE Last(before)
        IN  Extend("drive", MaxDrive, [x |-> previous.x + move[1], lap |-> previous.lap + move[2],
                                       onTrack |-> move[3]])

\* The lap that detection measures is the first one that is long enough: frames
\* that arrive later never change it, so a session is not detected twice.
DetectionIsStable ==
    LET drive == Built("drive") IN
    Is("drive") => \A n \in 1 .. Len(drive) :
        LET early == observedCompletedLapLength(SubSeq(drive, 1, n)) IN
        early > 0 => observedCompletedLapLength(drive) = early

-----------------------------------------------------------------------------
AdvicePairs == {NoPair, <<1, 2>>, <<3, 4>>, <<3, 0>>, <<0, 2>>}

StoreEvent ==
    \E t \in 1 .. 3, pair \in AdvicePairs :
        Extend("events", MaxList,
               [id |-> Len(Built("events")) + 1, ts |-> t, track |-> pair[1], layout |-> pair[2],
                type |-> IF t = 2 THEN "off_track_stint" ELSE "lap_time_regression",
                severity |-> IF pair[1] = 1 THEN "medium" ELSE "low"])

AdviceCatalog ==
    CatalogOf([i \in 1 .. 2 |-> [id |-> 2 * i - 1, named |-> TRUE, sources |-> {Good},
                                 layouts |-> <<CatalogLayout(2 * i, 100 * i, {Good})>>]])

\* The race engineer is asked about the newest events of the window, in order,
\* with a request the gateway accepts; track and layout belong together, and the
\* track that the client chose stands alone only where neither the session nor
\* its frames know a layout.
AdviceIsConsistent ==
    LET stored == Built("events") IN
    Is("events") => \A since \in {NoLimit, 2}, asked \in {<<>>, <<0>>, <<2>>}, detected \in {NoPair, <<1, 2>>, <<9, 9>>},
       chosen \in {0, 3}, driven \in {<<>>, LapOf(100)} :
        LET session == [id |-> 1, detected |-> detected, track |-> chosen]
            matching == {i \in DOMAIN stored : stored[i].ts >= since}
            limit == IF asked = <<>> THEN 5 ELSE Max({1, asked[1]})
        IN
        \A advice \in {raceEngineerAdvice(session, stored, <<>>, driven, AdviceCatalog, since, asked)} :
        IF matching = {} THEN advice.status = "no_events"
        ELSE LET chosenIDs == {e.id : e \in Elements(advice.events)} IN
             /\ ValidConsumerInput(advice)
             /\ Cardinality(chosenIDs) = Min({limit, Cardinality(matching)})
             /\ \A i \in chosenIDs, j \in matching \ chosenIDs : stored[i].ts >= stored[j].ts
             /\ \A i \in 2 .. Len(advice.events) : advice.events[i - 1].ts <= advice.events[i].ts
             /\ advice.context \in CatalogPairs(AdviceCatalog) \union {<<chosen, 0>>}
             /\ advice.context[2] = 0 => detected # <<1, 2>> /\ driven = <<>>

CompleteLap ==
    \E number \in 1 .. MaxList, time \in {60000, 61799, 61800, 63600}, gaps \in {0, 1, 3} :
        /\ \A l \in Elements(Built("laps")) : l.lap # number
        /\ Extend("laps", MaxList, [lap |-> number, time |-> time, gaps |-> gaps, at |-> number])

\* The pace signal compares the latest lap with the best one: the average of
\* the last laps, the latest among them, is never further away, so the wording
\* for it is never used.
PaceAgainstBest ==
    LET laps == Built("laps")
        latest == CHOOSE l \in Elements(laps) : \A k \in Elements(laps) : k.lap <= l.lap
        best == Min({l.time : l \in Elements(laps)})
        threshold == Max({1500, (3 * best + 99) \div 100})
        signal == buildLapPaceRegressionSignal(laps)
    IN
    Len(laps) >= 2 =>
        /\ signal # <<>> <=> latest.time - best >= threshold
        /\ signal # <<>> =>
              /\ signal[1].reference = "session best"
              /\ signal[1].severity = "high" <=> latest.time - best >= 2 * threshold

\* What the race engineer is told agrees with the stored events, the laps and
\* the catalog.
AdviceIsSound == AdviceIsConsistent /\ PaceAgainstBest

-----------------------------------------------------------------------------
\* The tracker, while what it adds up stays in bounds.
Drive ==
    /\ Is("none")
    /\ totalForward <= MaxMetres /\ reversed <= MaxMetres
    /\ \/ Reset
       \/ \E d \in -1 .. TotalMeters + 1, isClosed \in BOOLEAN : Update(d, isClosed)
    /\ UNCHANGED input

FunctionsNext ==
    \/ AcceptFrame \/ ReceiveFrame \/ PickStore \/ PickCatalog \/ ListEntry \/ AddCorner
    \/ TakeSample \/ PickLap \/ PickSeedLap \/ DriveOn \/ StoreEvent \/ CompleteLap \/ Drive

FunctionsSpec == FunctionsInit /\ [][FunctionsNext]_functionVars
=============================================================================
