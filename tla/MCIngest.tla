------------------------------- MODULE MCIngest -------------------------------
(* Small instances of Ingest.                                                 *)
EXTENDS Ingest

F(ts, lap, last, best, onTrack, dist, place) ==
    [ts |-> ts, lap |-> lap, last |-> last, best |-> best, onTrack |-> onTrack,
     dist |-> dist, place |-> place]

Body(list, rejected) == [valid |-> TRUE, frames |-> list, rejected |-> rejected]

\* Lap 1 with a hole of 800 ms between the first two requests.  The second one
\* crosses the line, slower than the best lap, and leaves the track; the third
\* reports lap 1 once more and is still off the track.
Lap1 == <<F(1000, 1, 0, 0, TRUE, 0, 1), F(1100, 1, 0, 0, TRUE, 5, 1), F(1200, 1, 0, 0, TRUE, 10, 1)>>
Line == <<F(2000, 1, 0, 0, TRUE, 15, 1), F(2100, 2, 5000, 1000, FALSE, 0, 1)>>
Lap2 == <<F(2200, 2, 5000, 1000, FALSE, 5, 2), F(2700, 2, 5000, 1000, FALSE, 10, 2)>>

MCOwner == [r \in Requests |-> "s"]
\* The last two are a body without a valid frame and one refused as a whole.
MCLaps == <<Body(Lap1, 0), Body(Line, 1), Body(Lap2, 0), Body(<<>>, 2),
            [valid |-> FALSE, frames |-> <<>>, rejected |-> 0]>>
MCCross == <<Body(Line, 1), Body(Lap2, 0)>>

\* The slow lap reported twice, 100 ms apart.
MCSlow == <<Body(Line, 1), Body(<<F(2200, 2, 5000, 1000, FALSE, 5, 1)>>, 0)>>

Once == [r \in Requests |-> 1]
Twice == [r \in Requests |-> IF r > 3 THEN 1 ELSE 2]
FirstTwice == [r \in Requests |-> IF r = 1 THEN 2 ELSE 1]

MCOneLayout == {<<"t1", "l1">>}
MCCatalog == {<<"t1", "l1">>, <<"t2", "l2">>}

\* Stands for tracks.DetectTrack: it needs a complete lap and may change its
\* mind when more frames arrive.
MCDetectTrack(list) ==
    LET places == {list[i].place : i \in 1 .. Len(list)} IN
    IF ~\E i \in 2 .. Len(list) : list[i].lap > list[i - 1].lap THEN None
    ELSE IF 2 \in places /\ <<"t2", "l2">> \in Catalog THEN <<"t2", "l2">> ELSE <<"t1", "l1">>
=============================================================================
