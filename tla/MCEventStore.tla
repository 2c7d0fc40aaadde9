---------------------------- MODULE MCEventStore ----------------------------
(* Small instances of EventStore, in units of 10 s.                          *)
EXTENDS EventStore

\* Keys a and b differ in the detected layout only and share their event ID.
MCIDOf == [k \in {"a", "b", "c"} |-> IF k = "c" THEN "y" ELSE "x"]
\* Five events under one key, inside, at and beyond the window, and two more.
MCKey == <<"a", "a", "a", "a", "b", "c", "c">>
MCTs == <<10, 12, 13, 14, 11, 10, 13>>
=============================================================================
