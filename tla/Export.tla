------------------------------- MODULE Export -------------------------------
(***************************************************************************)
(* The export of a session for the track builder: Exporter.Export, its two *)
(* callers (GET .../export/trackbuilder and export-session-frames) and the *)
(* check the track builder makes first.  Frames are those of Laps.         *)
(***************************************************************************)
EXTENDS Laps

AllLaps == -2  \* no lap number was given

filterFrames(frames, lap) ==
    IF lap = AllLaps THEN frames ELSE SelectSeq(frames, LAMBDA f : f.lap = lap)

\* Faulty: equal timestamps pass.
validateTimestampsLoosely(frames) ==
    \A i \in 2 .. Len(frames) : frames[i].ts >= frames[i - 1].ts

validateTimestamps(frames) == \A i \in 2 .. Len(frames) : frames[i].ts > frames[i - 1].ts

\* status is that of the session: "absent", "active" or "finished"; broken says
\* which of the two reads fails, of {"session", "frames"}.
Export(broken, status, frames, lap, allowActive) ==
    LET chosen == filterFrames(frames, lap)
        checks == << <<lap # AllLaps /\ lap < 0, "invalid_lap_number">>,
                     <<"session" \in broken, "load_session">>,
                     <<status = "absent", "missing_session">>,
                     <<status = "active" /\ ~allowActive, "active_blocked">>,
                     <<"frames" \in broken, "load_frames">>,
                     <<chosen = <<>>, "empty_frames">>,
                     <<~validateTimestamps(chosen), "non_monotonic">> >>
        first == SelectInSeq(checks, LAMBDA check : check[1])
    IN  IF first = 0 THEN [error |-> "", frames |-> chosen]
        ELSE [error |-> checks[first][2], frames |-> <<>>]

\* sessionExportHandler never allows an active session.
sessionExportStatus(enabled, parses, broken, status, frames, lap) ==
    LET error == Export(broken, status, frames, lap, FALSE).error IN
    CASE ~enabled -> 403
      [] enabled /\ ~parses -> 400
      [] enabled /\ parses /\ error = "missing_session" -> 404
      [] enabled /\ parses /\ error = "active_blocked" -> 409
      [] enabled /\ parses /\ error \in {"load_session", "load_frames"} -> 500
      [] enabled /\ parses /\ error = "" -> 200
      [] OTHER -> 400

\* The command's exit status, by what went wrong.
classifyExportError(error) ==
    CASE error \in {"missing_session", "empty_frames"} -> "exitMissingData"
      [] error = "active_blocked" -> "exitActiveBlocked"
      [] error = "invalid_lap_number" -> "exitUsageOrConfig"
      [] error = "non_monotonic" -> "exitTimestamp"
      [] error \in {"load_session", "load_frames"} -> "exitIO"
      [] OTHER -> "exitOK"

\* The track builder's own check of the file.
validateBuildRequest(session, frames) ==
    /\ session # "" /\ frames # <<>>
    /\ \A i \in DOMAIN frames : frames[i].ts > 0 /\ (i > 1 => frames[i].ts > frames[i - 1].ts)
=============================================================================
