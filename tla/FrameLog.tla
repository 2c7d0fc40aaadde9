------------------------------ MODULE FrameLog ------------------------------
(***************************************************************************)
(* What the frame store promises to the ingest handler, whatever backs it: *)
(* every session owns one log of frame batches.  A request's batches enter *)
(* the log together, at its end and in their order, and only while the     *)
(* session is active.  A finished session keeps its log for ever.          *)
(***************************************************************************)
EXTENDS Sequences

CONSTANTS
    Sessions,   \* session IDs
    Inputs      \* the batch lists that requests may append

VARIABLES
    status,     \* life cycle of every session
    log         \* batches of every session, in the order Frames() returns them

vars == <<status, log>>

Init ==
    /\ status = [s \in Sessions |-> "absent"]
    /\ log = [s \in Sessions |-> <<>>]

Create(s) ==
    /\ status[s] = "absent"
    /\ status' = [status EXCEPT ![s] = "active"]
    /\ UNCHANGED log

AppendBatches(s, batches) ==
    /\ status[s] = "active"
    /\ log' = [log EXCEPT ![s] = @ \o batches]
    /\ UNCHANGED status

End(s) ==
    /\ status[s] = "active"
    /\ status' = [status EXCEPT ![s] = "finished"]
    /\ UNCHANGED log

Next ==
    \E s \in Sessions :
        \/ Create(s)
        \/ End(s)
        \/ \E batches \in Inputs : AppendBatches(s, batches)

Spec == Init /\ [][Next]_vars
=============================================================================
