----------------------------- MODULE FrameBatch -----------------------------
(***************************************************************************)
(* telemetry.splitFramesByLap: the accepted frames of a request become one *)
(* stored batch per run of frames of the same lap.                         *)
(***************************************************************************)
EXTENDS Integers, Sequences

\* Faulty: the first run is forgotten.
RunStartsAfterFirst(frames) ==
    {i \in 2 .. Len(frames) : frames[i].lap # frames[i - 1].lap}

\* Positions where a run starts: the first frame, and every frame whose lap
\* differs from the lap of the run before it.
RunStarts(frames) ==
    {i \in 1 .. Len(frames) : i = 1 \/ frames[i].lap # frames[i - 1].lap}

splitFramesByLap(frames) ==
    LET starts == SelectSeq([i \in 1 .. Len(frames) |-> i], LAMBDA i : i \in RunStarts(frames))
        EndOf(k) == IF k = Len(starts) THEN Len(frames) ELSE starts[k + 1] - 1
    IN  [k \in 1 .. Len(starts) |-> SubSeq(frames, starts[k], EndOf(k))]
=============================================================================
