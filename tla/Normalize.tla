------------------------------ MODULE Normalize ------------------------------
(***************************************************************************)
(* The check of an ingest body: IngestBatchRequest.Normalize, and what     *)
(* becomes of the frames it refuses: BuildRejectionSummary and the two     *)
(* rejection summary stores.                                               *)
(*                                                                         *)
(* A frame keeps the fields that frames are compared by (ts, lap, cur for  *)
(* currentLapMs); the others are abstracted to bad, the set of checks that *)
(* the rest of the frame fails.                                            *)
(***************************************************************************)
EXTENDS Integers, SequencesExt

CONSTANT MaxBatchFrames

ASSUME MaxBatchAssumption == MaxBatchFrames \in Nat \ {0}

\* The checks of Frame.Normalize, in the order it makes them.
FrameChecks ==
    <<"invalid_timestamp", "invalid_speed", "invalid_rpm", "invalid_throttle", "invalid_brake",
      "invalid_steering", "invalid_fuel", "invalid_position", "invalid_yaw",
      "invalid_wheel_speed", "invalid_lap_distance", "invalid_lap_number", "invalid_lap_time">>

Fails(f, check) ==
    \/ check \in f.bad
    \/ check = "invalid_timestamp" /\ f.ts <= 0
    \/ check = "invalid_lap_number" /\ f.lap < 0
    \/ check = "invalid_lap_time" /\ f.cur < 0

\* The first check that fails is the one reported; "" is no error.
FrameError(f) ==
    LET failing == SelectSeq(FrameChecks, LAMBDA check : Fails(f, check)) IN
    IF failing = <<>> THEN "" ELSE Head(failing)

\* Faulty: the first accepted frame is the one compared with.
validateAgainstFirst(accepted, f) ==
    IF accepted # <<>> /\ (f.ts <= Head(accepted).ts \/ f.lap < Head(accepted).lap)
    THEN "non_monotonic_timestamp" ELSE ""

\* A frame is compared with the last accepted one, not with the one before it.
validateBatchConsistency(accepted, f) ==
    LET last == Last(accepted) IN
    CASE accepted = <<>> -> ""
      [] accepted # <<>> /\ f.ts <= last.ts -> "non_monotonic_timestamp"
      [] accepted # <<>> /\ f.ts > last.ts /\ f.lap < last.lap -> "lap_number_regressed"
      [] accepted # <<>> /\ f.ts > last.ts /\ f.lap = last.lap /\ f.cur < last.cur ->
            "current_lap_time_regressed"
      [] OTHER -> ""

Rejection(f, accepted) ==
    IF FrameError(f) # "" THEN FrameError(f) ELSE validateBatchConsistency(accepted, f)

NormalizeStep(result, f) ==
    LET code == Rejection(f, result.frames) IN
    [frames |-> IF code = "" THEN Append(result.frames, f) ELSE result.frames,
     rejections |-> IF code = "" THEN result.rejections
                    ELSE Append(result.rejections, [code |-> code, index |-> result.index]),
     index |-> result.index + 1]

\* The error of the whole batch, or "".
BatchError(r) ==
    CASE r.session = "" -> "session_id_required"
      [] r.session # "" /\ r.frames = <<>> -> "frames_empty"
      [] r.session # "" /\ Len(r.frames) > MaxBatchFrames -> "batch_too_large"
      [] OTHER -> ""

NormalizeFrames(r) ==
    FoldLeft(NormalizeStep, [frames |-> <<>>, rejections |-> <<>>, index |-> 0], r.frames)

Validate(r) ==
    LET result == NormalizeFrames(r) IN
    CASE BatchError(r) # "" -> BatchError(r)
      [] BatchError(r) = "" /\ result.rejections # <<>> -> Head(result.rejections).code
      [] OTHER -> ""

-----------------------------------------------------------------------------
\* The order of the codes as strings.
CodesInOrder ==
    <<"current_lap_time_regressed", "invalid_brake", "invalid_fuel", "invalid_lap_distance",
      "invalid_lap_number", "invalid_lap_time", "invalid_position", "invalid_rpm",
      "invalid_speed", "invalid_steering", "invalid_throttle", "invalid_timestamp",
      "invalid_wheel_speed", "invalid_yaw", "lap_number_regressed", "non_monotonic_timestamp">>

CodeRank(code) == CHOOSE i \in DOMAIN CodesInOrder : CodesInOrder[i] = code

\* The most frequent reason first, equal counts by code.
MoreFrequent(a, b) ==
    a.count > b.count \/ (a.count = b.count /\ CodeRank(a.code) < CodeRank(b.code))

SortedReasons(codes, Count(_)) ==
    SetToSortSeq({[code |-> c, count |-> Count(c)] : c \in codes}, MoreFrequent)

BuildRejectionSummary(rejections) ==
    SortedReasons({rejections[i].code : i \in DOMAIN rejections},
                  LAMBDA c : Cardinality({i \in DOMAIN rejections : rejections[i].code = c}))

SumOver(s, Val(_)) == FoldLeft(LAMBDA acc, x : acc + Val(x), 0, s)

\* Faulty: a code is counted once per record.
CountRecords(reasons, code) == SumOver(reasons, LAMBDA r : IF r.code = code THEN 1 ELSE 0)

CountOf(reasons, code) == SumOver(reasons, LAMBDA r : IF r.code = code THEN r.count ELSE 0)

\* Append of either store: nothing is kept of a request without rejected frames.
AppendRejections(records, record) ==
    IF record.session = "" \/ record.rejected <= 0 THEN records ELSE Append(records, record)

aggregateRejectionSummaries(records) ==
    [rejected |-> SumOver(records, LAMBDA r : r.rejected),
     reasons |-> SortedReasons(
        UNION {{r.reasons[i].code : i \in DOMAIN r.reasons} : r \in ToSet(records)},
        LAMBDA c : SumOver(records, LAMBDA r : CountOf(r.reasons, c)))]

\* Summaries of either store: one entry per session asked for, the empty ID left out.
RejectionSummaries(records, ids) ==
    [s \in ToSet(ids) \ {""} |->
        aggregateRejectionSummaries(SelectSeq(records, LAMBDA r : r.session = s))]
=============================================================================
