------------------------ MODULE MCPostgresFrameStore ------------------------
(* Small instances of PostgresFrameStore.                                   *)
EXTENDS PostgresFrameStore, FrameBatch

\* A request within one lap, and one that crosses the line and is stored as
\* two batches.
F(t, l) == [ts |-> t, lap |-> l]
MCFrames == {<<F(1, 1)>>, <<F(2, 1), F(3, 2)>>}
MCInputs == {splitFramesByLap(f) : f \in MCFrames}
MCBatches == {<<F(1, 1)>>, <<F(2, 1)>>, <<F(3, 2)>>}

MCKeys == {1}
\* Both sessions collide on one advisory lock key.
MCHash == [s \in Sessions |-> 1]
=============================================================================
