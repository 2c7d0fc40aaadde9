----------------------------- MODULE EventStore -----------------------------
(***************************************************************************)
(* Both implementations of events.Repository.  In memory one critical      *)
(* section decides and stores; the PostgreSQL repository decides under its *)
(* mutex, lets go of it and then inserts, so other calls, an error or a    *)
(* restart come between the decision and the row.  The deduplicator lives  *)
(* in the process, the rows in the database.                               *)
(***************************************************************************)
EXTENDS EventDedup, Sequences

CONSTANTS
    Modes,          \* runtimes to consider: "memory", "postgres"
    Calls,          \* calls of Append
    Key,            \* the DedupKey of each call's event
    Ts,             \* its timestamp
    IDOf,           \* EventID: the rules make it from parts of the key
    EventLimit,     \* Store.limit
    MaxFailures,    \* bound on failing inserts
    MaxRestarts     \* bound on restarts

ASSUME ModeAssumption == Modes \subseteq {"memory", "postgres"}
ASSUME LimitAssumption == EventLimit \in Nat \ {0}
ASSUME EventsAssumption == \A c \in Calls : Ts[c] \in Nat /\ Key[c] \in DOMAIN IDOf

VARIABLES
    mode,       \* the runtime this process was started with
    stored,     \* the events that List can return, in the order they came in
    seen,       \* the deduplicator
    pc,         \* "idle", "insert" (between the mutex and the INSERT), "done"
    result,     \* what Append returned
    failures,
    restarts

vars == <<mode, stored, seen, pc, result, failures, restarts>>

Event(c) == [id |-> IDOf[Key[c]], key |-> Key[c], ts |-> Ts[c]]

Init ==
    /\ mode \in Modes
    /\ stored = <<>>
    /\ seen = NothingSeen
    /\ pc = [c \in Calls |-> "idle"]
    /\ result = [c \in Calls |-> "none"]
    /\ failures = 0
    /\ restarts = 0

Return(c, value) ==
    /\ pc' = [pc EXCEPT ![c] = "done"]
    /\ result' = [result EXCEPT ![c] = value]

\* Filter finds the event too close to the last one under its key.
Suppress(c) ==
    /\ pc[c] = "idle"
    /\ Suppressed(seen, Key[c], Ts[c])
    /\ Return(c, "suppressed")
    /\ UNCHANGED <<stored, seen, failures, restarts, mode>>

\* Faulty: the newest event has to go.
EvictNewest(list) == IF Len(list) > EventLimit THEN SubSeq(list, 1, EventLimit) ELSE list

\* Faulty: one event too many stays.
EvictLate(list) == IF Len(list) > EventLimit + 1 THEN Tail(list) ELSE list

\* The oldest events make room.
Evict(list) ==
    IF Len(list) > EventLimit THEN SubSeq(list, Len(list) - EventLimit + 1, Len(list)) ELSE list

\* Store.Append of an event that passes.
Store(c) ==
    /\ mode = "memory"
    /\ pc[c] = "idle"
    /\ ~Suppressed(seen, Key[c], Ts[c])
    /\ seen' = Remember(seen, Key[c], Ts[c])
    /\ stored' = Evict(Append(stored, Event(c)))
    /\ Return(c, "accepted")
    /\ UNCHANGED <<failures, restarts, mode>>

\* PostgresRepository.Append up to r.mu.Unlock.
Pass(c) ==
    /\ mode = "postgres"
    /\ pc[c] = "idle"
    /\ ~Suppressed(seen, Key[c], Ts[c])
    /\ seen' = Remember(seen, Key[c], Ts[c])
    /\ pc' = [pc EXCEPT ![c] = "insert"]
    /\ UNCHANGED <<stored, result, failures, restarts, mode>>

Visible(id) == \E i \in 1 .. Len(stored) : stored[i].id = id

\* Faulty: no ON CONFLICT and no unique ID.
InsertAnyway(c) ==
    /\ pc[c] = "insert"
    /\ stored' = Append(stored, Event(c))
    /\ Return(c, "accepted")
    /\ UNCHANGED <<seen, failures, restarts, mode>>

\* INSERT ... ON CONFLICT (id) DO NOTHING; no row affected is "not accepted".
Insert(c) ==
    /\ pc[c] = "insert"
    /\ \/ /\ ~Visible(IDOf[Key[c]])
          /\ stored' = Append(stored, Event(c))
          /\ Return(c, "accepted")
       \/ /\ Visible(IDOf[Key[c]])
          /\ Return(c, "conflict")
          /\ UNCHANGED stored
    /\ UNCHANGED <<seen, failures, restarts, mode>>

\* The INSERT fails, or its request is cancelled.
FailInsert(c) ==
    /\ pc[c] = "insert"
    /\ failures < MaxFailures
    /\ failures' = failures + 1
    /\ Return(c, "error")
    /\ UNCHANGED <<stored, seen, restarts, mode>>

\* The client repeats the batch, and with it every event of the batch.
Retry(c) ==
    /\ pc[c] = "done"
    /\ pc' = [pc EXCEPT ![c] = "idle"]
    /\ result' = [result EXCEPT ![c] = "none"]
    /\ UNCHANGED <<stored, seen, failures, restarts, mode>>

\* The process starts anew; calls under way are lost.
Restart ==
    /\ restarts < MaxRestarts
    /\ restarts' = restarts + 1
    /\ seen' = NothingSeen
    /\ stored' = IF mode = "memory" THEN <<>> ELSE stored
    /\ pc' = [c \in Calls |-> IF pc[c] = "insert" THEN "done" ELSE pc[c]]
    /\ result' = [c \in Calls |-> IF pc[c] = "insert" THEN "error" ELSE result[c]]
    /\ UNCHANGED <<failures, mode>>

Next ==
    \/ \E c \in Calls :
          Suppress(c) \/ Store(c) \/ Pass(c) \/ Insert(c) \/ FailInsert(c) \/ Retry(c)
    \/ Restart

Spec == Init /\ [][Next]_vars

-----------------------------------------------------------------------------
(* Properties.                                                             *)

TypeOK ==
    /\ \A i \in 1 .. Len(stored) : stored[i] \in {Event(c) : c \in Calls}
    /\ mode = "memory" => Len(stored) <= EventLimit
    /\ \A k \in DOMAIN seen : k \in {Key[c] : c \in Calls} /\ seen[k] \in Nat
    /\ pc \in [Calls -> {"idle", "insert", "done"}]
    /\ result \in [Calls -> {"none", "suppressed", "accepted", "conflict", "error"}]

SameKey(i, j) == stored[i].key = stored[j].key

\* In memory, two events of one key that were stored one after the other are at
\* least a cooldown apart, whichever of them is the later one by its timestamp.
NeighboursApart ==
    mode = "memory" => \A i, j \in 1 .. Len(stored) :
        /\ i < j /\ SameKey(i, j)
        /\ \A k \in i + 1 .. j - 1 : ~SameKey(i, k)
        => \/ stored[j].ts - stored[i].ts >= CooldownWindowMs
           \/ stored[i].ts - stored[j].ts >= CooldownWindowMs

\* In memory the deduplicator remembers, for every key with a stored event, the
\* newest of them: eviction takes the older ones first.
SeenIsNewest ==
    mode = "memory" => \A i \in 1 .. Len(stored) :
        (\A j \in i + 1 .. Len(stored) : ~SameKey(i, j)) =>
            stored[i].key \in DOMAIN seen /\ seen[stored[i].key] = stored[i].ts

\* In PostgreSQL an event ID is visible once, also when a restart made the
\* deduplicator forget it, and what was answered as accepted stays visible.
VisibleOnce ==
    mode = "postgres" =>
        /\ \A i, j \in 1 .. Len(stored) : i # j => stored[i].id # stored[j].id
        /\ \A c \in Calls : result[c] \in {"accepted", "conflict"} => Visible(IDOf[Key[c]])

\* A call is told "duplicate" only of an event that can be seen, or is about to
\* be inserted: suppression never loses the only copy.
SuppressedHasOriginal ==
    \A c \in Calls : result[c] = "suppressed" =>
        \/ Visible(IDOf[Key[c]])
        \/ \E d \in Calls : pc[d] = "insert" /\ IDOf[Key[d]] = IDOf[Key[c]]
=============================================================================
