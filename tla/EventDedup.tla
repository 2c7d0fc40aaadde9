----------------------------- MODULE EventDedup -----------------------------
(***************************************************************************)
(* events.EventDeduplicator.  `seen' maps a key to the timestamp of the    *)
(* last event that was let through under it.                               *)
(***************************************************************************)
EXTENDS Integers

CONSTANT CooldownWindowMs   \* DedupOptions.CooldownWindowMs, 30000 by default

ASSUME CooldownAssumption == CooldownWindowMs \in Nat \ {0}

NothingSeen == [k \in {} |-> 0]

\* What makes two events the same.  The range is part of it when there is one,
\* the event ID and the timestamp are not.
DedupKey(session, event) ==
    <<session, event.type, event.lap, event.ref, event.rule, event.range>>

\* Faulty: every older event counts as expired.
SuppressedForward(seen, key, ts) ==
    key \in DOMAIN seen /\ ts >= seen[key] /\ ts - seen[key] < CooldownWindowMs

\* Closer than the window to the event seen last, on either side.
Suppressed(seen, key, ts) ==
    /\ key \in DOMAIN seen
    /\ ts - seen[key] < CooldownWindowMs
    /\ seen[key] - ts < CooldownWindowMs

Remember(seen, key, ts) ==
    [k \in DOMAIN seen \cup {key} |-> IF k = key THEN ts ELSE seen[k]]
=============================================================================
