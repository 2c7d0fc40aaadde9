------------------------------- MODULE Corners -------------------------------
(***************************************************************************)
(* Package corners: the corner at a distance (ResolveCurrent) and the      *)
(* metrics of a pass through a corner (AnalyzeCorner).                     *)
(*                                                                         *)
(* A sample is [ts, dist, speed, valid, throttle, brake]; throttle and     *)
(* brake are in per cent, NoValue where the field is missing. Speeds stay  *)
(* in the unit of the sample: the conversion to km/h is a factor.          *)
(***************************************************************************)
EXTENDS Catalog

CONSTANT ThrottleAppliedThreshold

NoValue == -1

\* math.Mod and the correction of a negative rest.
normalizeDistance(distance, length) == distance % length

containsDistance(c, distance, closed) ==
    IF c.start < c.end THEN c.start <= distance /\ distance < c.end
    ELSE closed /\ c.start # c.end /\ (distance >= c.start \/ distance < c.end)

\* The position of the corner in the list, 0 for none.
ResolveCurrent(corners, length, distanceFromStart, closed) ==
    LET distance == IF closed THEN normalizeDistance(distanceFromStart, length) ELSE distanceFromStart
        Current(c) == IsManual(c) /\ containsDistance(c, distance, closed)
    IN  IF ~closed /\ distance \notin 0 .. length - 1 THEN 0 ELSE SelectInSeq(corners, Current)

\* The reason given when no corner is found.
NoCornerReason(corners, length, distanceFromStart, closed) ==
    CASE corners = <<>> -> "catalog_has_no_corners"
      [] corners # <<>> /\ ~closed /\ distanceFromStart \notin 0 .. length - 1 ->
            "outside_corner_range"
      [] corners # <<>> /\ (closed \/ distanceFromStart \in 0 .. length - 1)
         /\ \E c \in Elements(corners) : ~IsManual(c) ->
            LET i == SelectInSeq(corners, LAMBDA c : ~IsManual(c)) IN
            IF corners[i].mode = "catalog_enumerated" THEN "catalog_has_enumerated_corners"
            ELSE "unsupported_corner_definition"
      [] OTHER -> "outside_corner_range"

-----------------------------------------------------------------------------
\* The second implementation of validateCornerRange.
validCornerRange(c, length) ==
    /\ {c.start, c.apex, c.end} \subseteq 0 .. length
    /\ IF c.start < c.end THEN c.start < c.apex /\ c.apex < c.end
       ELSE c.start # c.end /\ (c.apex >= c.start \/ c.apex < c.end)

\* Faulty: distances are compared without regard to the start line.
distanceAtOrAfterApexUnwrapped(distance, c) == distance >= c.apex

distanceAtOrAfterApex(distance, c) ==
    IF c.start < c.end THEN distance >= c.apex
    ELSE IF c.apex >= c.start THEN distance >= c.apex \/ distance < c.end
    ELSE distance < c.end /\ distance >= c.apex

\* The samples in the corner, with their distance brought into the lap.
InCorner(c, samples, length, closed) ==
    LET Distance(s) == IF closed THEN normalizeDistance(s.dist, length) ELSE s.dist
        Here(s) == s.valid /\ containsDistance(c, Distance(s), closed)
        here == SelectSeq(samples, Here)
    IN  [i \in DOMAIN here |-> [here[i] EXCEPT !.dist = Distance(here[i])]]

maxBrakeMetric(samples) ==
    LET brakes == {s.brake : s \in Elements(samples)} \ {NoValue} IN
    IF brakes = {} THEN NoValue ELSE Max(brakes \union {0})

\* The first sample at or after the apex with the throttle applied, when the
\* sample with a throttle value before it had it released; 0 for none.
throttleReapplicationMetric(samples, c) ==
    LET known == SelectSeq([i \in DOMAIN samples |-> i], LAMBDA i : samples[i].throttle # NoValue)
        Released(i) == samples[i].throttle < ThrottleAppliedThreshold
        Reapplied(k) ==
            /\ k > 1 /\ distanceAtOrAfterApex(samples[known[k]].dist, c)
            /\ Released(known[k - 1]) /\ ~Released(known[k])
        first == SelectInSeq([k \in DOMAIN known |-> k], Reapplied)
    IN  IF first = 0 THEN 0 ELSE known[first]

\* The first of the slowest samples.
minSample(samples) ==
    LET slowest == Min({s.speed : s \in Elements(samples)}) IN
    samples[SelectInSeq(samples, LAMBDA s : s.speed = slowest)]

\* From the slowest sample to the last one.
exitAccelerationMetric(samples, min) ==
    IF Len(samples) < 2 \/ Last(samples).ts < min.ts THEN NoValue ELSE Last(samples).speed - min.speed

\* The metrics of a pass. A metric that is not available is NoValue (0 for the
\* reapplication, the position of a sample).
AnalyzeCorner(c, samples, length, closed) ==
    LET here == InCorner(c, samples, length, closed)
        min == minSample(here)
        brake == maxBrakeMetric(here)
        throttle == throttleReapplicationMetric(here, c)
        acceleration == exitAccelerationMetric(here, min)
    IN
    IF ~IsManual(c) \/ ~validCornerRange(c, length) \/ here = <<>>
    THEN [status |-> "unavailable"]
    ELSE [status |-> IF brake = NoValue \/ throttle = 0 \/ acceleration = NoValue
                     THEN "partial" ELSE "complete",
          count |-> Len(here), entry |-> here[1].speed, exit |-> Last(here).speed, minimum |-> min.speed,
          brake |-> brake,
          reapplied |-> IF throttle = 0 THEN <<>>
                        ELSE <<[at |-> here[throttle].ts, offset |-> here[throttle].ts - here[1].ts]>>,
          acceleration |-> acceleration]
=============================================================================
