----------------------------- MODULE EventRules -----------------------------
(***************************************************************************)
(* events.Generate, the rules over the metrics of a corner, and the checks *)
(* an engineer event must pass (EngineerEvent.Validate).                   *)
(*                                                                         *)
(* Times are in milliseconds, speeds integers.  A threshold that is NaN or *)
(* infinite is treated like one that is not positive.  A catalog ref is    *)
(* [id, name, strategy], id and name "nil", "empty" or "set", or NoRef.    *)
(* An event keeps what Validate looks at; its ID contains its type and is  *)
(* never empty.                                                            *)
(***************************************************************************)
EXTENDS Corners

NoRef == [id |-> "nil", name |-> "nil", strategy |-> "absent"]

DefaultRuleOptions == [late |-> <<250, 500, 750>>, exit |-> <<5, 10, 15>>]

\* Low, medium and high: each level is checked against the one below it only,
\* so a default that is put in may lie below the level under it.
normalizeThresholds(t, default) ==
    LET low == IF t[1] <= 0 THEN default[1] ELSE t[1]
        medium == IF t[2] <= low THEN default[2] ELSE t[2]
        high == IF t[3] <= medium THEN default[3] ELSE t[3]
    IN  <<low, medium, high>>

normalizeRuleOptions(options) ==
    [late |-> normalizeThresholds(options.late, DefaultRuleOptions.late),
     exit |-> normalizeThresholds(options.exit, DefaultRuleOptions.exit)]

\* Faulty: the levels are asked for from below.
severityFromBelow(value, t) ==
    IF value >= t[2] THEN "medium" ELSE IF value >= t[3] THEN "high" ELSE "low"

severityFor(value, t) ==
    IF value >= t[3] THEN "high" ELSE IF value >= t[2] THEN "medium" ELSE "low"

\* No range rather than one that Validate refuses.
timeRange(from, to) == IF from <= 0 \/ to <= 0 \/ from > to THEN <<>> ELSE <<from, to>>

baseEvent(input, type, severity, metrics, range) ==
    [session |-> input.session, type |-> type, severity |-> severity, ts |-> input.ts,
     range |-> range, lap |-> input.lap, refs |-> input.refs, metrics |-> metrics]

\* Each rule yields at most one event.
lateThrottleEvent(input, options) ==
    LET metric == input.analysis.reapplied[1] IN
    IF input.analysis.reapplied = <<>> \/ metric.offset < options.late[1] \/ input.ts <= 0
    THEN <<>>
    ELSE <<baseEvent(input, "late_throttle", severityFor(metric.offset, options.late),
                     <<metric.offset, options.late[1]>>,
                     timeRange(metric.at - metric.offset, metric.at))>>

\* The reference is the exit speed to compare with, NoValue for none.
lowExitSpeedEvent(input, options) ==
    LET delta == input.reference - input.analysis.exit IN
    IF input.reference = NoValue \/ input.ts <= 0 \/ delta < options.exit[1]
    THEN <<>>
    ELSE <<baseEvent(input, "low_exit_speed", severityFor(delta, options.exit),
                     <<input.analysis.exit, input.reference, delta, options.exit[1]>>,
                     timeRange(input.ts, input.ts))>>

-----------------------------------------------------------------------------
\* CatalogRef.Validate: a name only with an ID, and none where none is shown.
ValidRef(ref) ==
    CASE ref.strategy = "absent" -> TRUE
      [] ref.strategy = "catalog_name" -> ref.id = "set" /\ ref.name = "set"
      [] ref.strategy = "id_only" -> ref.id = "set" /\ ref.name = "nil"
      [] ref.strategy = "none" -> ref.id = "nil" /\ ref.name = "nil"
      [] OTHER -> FALSE

supportedTypes ==
    {"early_braking", "late_braking", "late_throttle", "low_exit_speed", "inconsistent_corner",
     "lap_time_regression", "off_track_stint"}

supportedSeverities == {"low", "medium", "high"}

\* EngineerEvent.Validate; the contract version and the source are constants
\* of every producer, and numbers are finite.
ValidEvent(e) ==
    /\ e.session # ""
    /\ e.type \in supportedTypes /\ e.severity \in supportedSeverities
    /\ e.ts > 0 /\ e.lap >= 0
    /\ e.range # <<>> => e.range[1] > 0 /\ e.range[2] > 0 /\ e.range[1] <= e.range[2]
    /\ \A ref \in e.refs : ValidRef(ref)
    /\ e.metrics # <<>>

\* The events, or an error when one of them is not valid: then there is none.
Generate(input) ==
    LET options == normalizeRuleOptions(input.options)
        events == IF input.analysis.status = "unavailable" THEN <<>>
                  ELSE lateThrottleEvent(input, options) \o lowExitSpeedEvent(input, options)
    IN  IF \A e \in Elements(events) : ValidEvent(e)
        THEN [ok |-> TRUE, events |-> events] ELSE [ok |-> FALSE, events |-> <<>>]
=============================================================================
