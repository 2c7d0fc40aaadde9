--------------------------- MODULE TrackDetection ---------------------------
(***************************************************************************)
(* tracks.DetectTrack: from the length of the first completed lap in the   *)
(* retained frames to a layout of the catalog.                             *)
(*                                                                         *)
(* The options are those of DefaultDetectionOptions, the only ones the     *)
(* server uses: 3 % tolerance, a margin of 0.05. The confidence            *)
(* 0.65 + 0.20 (1 - d / (0.03 L)) is never computed: it falls as d / L     *)
(* grows, and fractions are compared by cross-multiplication. Frames move  *)
(* on a line (x), so that frameDistance is exact.                          *)
(***************************************************************************)
EXTENDS Catalog

CONSTANT MinCompletedLapFrames

frameDistance(a, b) == Abs(b.x - a.x)

\* Faulty: a lap begun before the first frame counts from its second frame on.
LapStepNoMinimum(frames, acc, i) ==
    LET moved == acc.length + frameDistance(frames[i - 1], frames[i]) IN
    IF frames[i].lap > acc.lap
    THEN [acc EXCEPT !.lap = frames[i].lap, !.length = 0, !.samples = 1, !.observed = moved]
    ELSE [acc EXCEPT !.length = moved, !.samples = @ + 1]

\* One frame after the first. The distance up to the frame that begins a lap
\* still belongs to the lap before; once a lap is long enough it stays the answer.
LapStep(frames, acc, i) ==
    LET onTrack == frames[i].onTrack /\ frames[i - 1].onTrack
        length == acc.length + (IF onTrack THEN frameDistance(frames[i - 1], frames[i]) ELSE 0)
        samples == acc.samples + 1
    IN
    CASE acc.observed > 0 -> acc
      [] acc.observed = 0 /\ frames[i].lap <= acc.lap ->
            [acc EXCEPT !.length = length, !.samples = samples]
      [] acc.observed = 0 /\ frames[i].lap > acc.lap
         /\ samples >= MinCompletedLapFrames /\ length > 0 -> [acc EXCEPT !.observed = length]
      [] OTHER -> [acc EXCEPT !.lap = frames[i].lap, !.length = 0, !.samples = 1]

\* The observed length, 0 when there is no completed lap.
observedCompletedLapLength(frames) ==
    IF Len(frames) < MinCompletedLapFrames THEN 0
    ELSE FoldLeft(LAMBDA acc, i : LapStep(frames, acc, i),
                  [lap |-> frames[1].lap, length |-> 0, samples |-> 1, observed |-> 0],
                  [k \in 1 .. Len(frames) - 1 |-> k + 1]).observed

-----------------------------------------------------------------------------
InTolerance(difference, length) == 100 * difference <= 3 * length

\* The layouts within tolerance, with the difference of their length.
Candidates(c, observed) ==
    UNION {{[track |-> t.id, layout |-> l.id, length |-> l.length,
             difference |-> Abs(observed - l.length)]
            : l \in {x \in Elements(t.layouts) :
                       /\ hasSelectableLayoutMetadata(t, x)
                       /\ x.length > 0
                       /\ InTolerance(Abs(observed - x.length), x.length)}}
           : t \in Elements(c.tracks)}

\* a is less confident than b by this much, over the product of the lengths.
Behind(a, b) == a.difference * b.length - b.difference * a.length

MoreConfident(a, b) == Behind(b, a) > 0 \/ (Behind(b, a) = 0 /\ a.layout < b.layout)

matchingCandidates(c, observed) ==
    LET all == Candidates(c, observed)
        Rank(a) == Cardinality({b \in all : MoreConfident(b, a)}) + 1
    IN  [i \in 1 .. Cardinality(all) |-> CHOOSE a \in all : Rank(a) = i]

\* best.confidence - a.confidence <= 0.05, that is (20/3) (d_a/L_a - d_b/L_b) <= 1/20.
InMargin(best, a) == Behind(a, best) <= (3 * a.length * best.length) \div 400

\* Faulty: names only the two best.
ambiguousEvidenceTwo(found) == {found[i] : i \in 1 .. 2}

\* The candidates within the margin of the best one.
ambiguousEvidence(found) == {a \in Elements(found) : InMargin(found[1], a)}

\* The branch for a confidence below 0.65 cannot be taken with these options:
\* that is the confidence at the edge of the tolerance.
DetectTrack(frames, c) ==
    LET observed == observedCompletedLapLength(frames)
        found == matchingCandidates(c, observed)
        ambiguous ==
            /\ Len(found) > 1
            /\ found[1].difference > 0 \/ found[2].difference = 0
            /\ InMargin(found[1], found[2])
    IN
    CASE observed = 0 /\ Len(frames) < MinCompletedLapFrames ->
            [status |-> "pending", reason |-> "insufficient_data", evidence |-> {}]
      [] observed = 0 /\ Len(frames) >= MinCompletedLapFrames ->
            [status |-> "pending", reason |-> "no_completed_lap", evidence |-> {}]
      [] observed > 0 /\ found = <<>> ->
            [status |-> "unknown", reason |-> "no_catalog_match", evidence |-> {}]
      [] observed > 0 /\ found # <<>> /\ ambiguous ->
            [status |-> "ambiguous", reason |-> "ambiguous_length", evidence |-> ambiguousEvidence(found)]
      [] OTHER -> [status |-> "detected", reason |-> "length_match", evidence |-> {found[1]}]

-----------------------------------------------------------------------------
\* The layouts of OfficialGT7SeedCatalog: the number in the ID, and the length.
SeedLengths ==
    << <<1240, 5423>>, <<1264, 3942>>, <<346, 1944>>, <<471, 2045>>, <<2003, 5281>>, <<2004, 4361>>,
     <<41, 3602>>, <<95, 20832>>, <<349, 5148>>, <<1247, 23864>>, <<1248, 3629>>, <<365, 5809>>,
     <<1226, 3643>>, <<1231, 3643>>, <<1309, 3694>>, <<1318, 3694>>, <<10, 5807>>, <<442, 2243>>,
     <<4, 4023>>, <<1163, 5729>>, <<462, 7004>>, <<1269, 7004>>, <<469, 5793>>, <<742, 5755>>,
     <<1024, 5434>>, <<1034, 5434>>, <<1007, 4088>>, <<152, 4309>>, <<470, 4318>>, <<846, 2336>>,
     <<874, 4655>>, <<1249, 4730>>, <<1250, 2977>>, <<454, 13629>>, <<854, 13567>>, <<16, 4563>>,
     <<837, 4526>>>>

\* The seed with its layouts under one track: detection does not look at tracks.
OfficialGT7SeedCatalog ==
    LET source == {[complete |-> TRUE, production |-> TRUE]}
        Layout(l) == [id |-> l[1], named |-> TRUE, length |-> l[2], sources |-> source,
                      sectors |-> <<>>, corners |-> <<>>, line |-> <<>>]
    IN  [version |-> "v1",
         tracks |-> <<[id |-> 1, named |-> TRUE, sources |-> source,
                       layouts |-> [i \in DOMAIN SeedLengths |-> Layout(SeedLengths[i])]]>>]
=============================================================================
