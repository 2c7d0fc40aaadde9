------------------------------- MODULE Server -------------------------------
(***************************************************************************)
(* The life of the API server on PostgreSQL: start, migrations, catalog    *)
(* seed, serving, graceful shutdown, crash and restart, for several        *)
(* replicas on one database; and a handler whose answer depends on it,     *)
(* POST /sessions/{id}/finish for one active session.                      *)
(*                                                                         *)
(* Every SQL statement is a step.  A statement needs the replica's pool to *)
(* be open and may fail; failures, crashes and signals draw on one budget. *)
(***************************************************************************)
EXTENDS Integers, FiniteSets

CONSTANTS
    Replicas,        \* processes with the same database URL
    MigrationCount,  \* files of migrations.UpFiles, in order 1 .. MigrationCount
    Tracks,          \* tracks of the seed catalog
    Clients,         \* clients that finish the session
    MaxFaults        \* bound on failed statements, crashes and signals

ASSUME CountsAssumption == MigrationCount \in Nat /\ MaxFaults \in Nat

VARIABLES
    schema,    \* migrations whose SQL has been applied
    recorded,  \* rows of schema_migrations
    seeded,    \* rows of tracks
    ended,     \* clients whose UPDATE set ended_at
    phase,     \* of each replica
    next,      \* the migration a starting replica is at
    pool,      \* is the replica's pool open?
    call,      \* next statement of each client's handler, or its last answer
    on,        \* the replica a client's request runs on
    early,     \* clients whose endedAt is before the session's started_at
    faults     \* faults so far

database == <<schema, recorded, seeded>>
requests == <<ended, call, on, early>>
vars == <<schema, recorded, seeded, ended, phase, next, pool, call, on, early, faults>>

Versions == 1 .. MigrationCount

Starting == {"check", "apply", "record", "seed"}
Handling == {"end", "classify", "frames", "events"}
Answers == {"200", "400", "409", "500", "lost"}

TypeOK ==
    /\ schema \subseteq Versions /\ recorded \subseteq Versions /\ seeded \subseteq Tracks
    /\ ended \subseteq Clients
    /\ phase \in [Replicas -> {"down", "serving", "draining"} \union Starting]
    /\ next \in [Replicas -> 1 .. MigrationCount + 1]
    /\ pool \in [Replicas -> BOOLEAN]
    /\ call \in [Clients -> {"none"} \union Handling \union Answers]
    /\ on \in [Clients -> Replicas]
    /\ early \subseteq Clients
    /\ faults \in 0 .. MaxFaults

\* The session to finish is there and active; the database may be older than
\* the binary.
Init ==
    /\ schema \in {1 .. n : n \in 0 .. MigrationCount} /\ recorded = schema
    /\ seeded = {} /\ ended = {}
    /\ phase = [r \in Replicas |-> "down"] /\ next = [r \in Replicas |-> 1]
    /\ pool = [r \in Replicas |-> FALSE]
    /\ call = [c \in Clients |-> "none"] /\ on \in [Clients -> Replicas]
    /\ early \in SUBSET Clients
    /\ faults = 0

Goto(r, p) == phase' = [phase EXCEPT ![r] = p]

InFlight(r) == {c \in Clients : on[c] = r /\ call[c] \in Handling}

\* The process is gone: requests it was handling get no answer.
Exits(r) ==
    /\ Goto(r, "down")
    /\ pool' = [pool EXCEPT ![r] = FALSE]
    /\ call' = [c \in Clients |-> IF c \in InFlight(r) THEN "lost" ELSE call[c]]

Fault == faults < MaxFaults /\ faults' = faults + 1

-----------------------------------------------------------------------------
\* OpenPostgres: a pool that answers a ping, then Migrate from the first file.
Start(r) ==
    /\ phase[r] = "down"
    /\ pool' = [pool EXCEPT ![r] = TRUE]
    /\ next' = [next EXCEPT ![r] = 1]
    /\ Goto(r, "check")
    /\ UNCHANGED <<database, requests, faults>>

\* migrationApplied, and the end of the loop.
CheckMigration(r) ==
    /\ phase[r] = "check"
    /\ \/ next[r] > MigrationCount /\ Goto(r, "seed") /\ UNCHANGED next
       \/ /\ next[r] \in recorded
          /\ next' = [next EXCEPT ![r] = @ + 1] /\ UNCHANGED phase
       \/ /\ next[r] \in Versions \ recorded
          /\ Goto(r, "apply") /\ UNCHANGED next
    /\ UNCHANGED <<database, requests, pool, faults>>

\* Faulty: a migration that is there already fails.
ApplyOnce(r) ==
    /\ phase[r] = "apply"
    /\ IF next[r] \in schema THEN Exits(r) ELSE Goto(r, "record") /\ UNCHANGED <<pool, call>>
    /\ schema' = schema \union {next[r]}
    /\ UNCHANGED <<recorded, seeded, ended, on, early, next, faults>>

\* A file is one implicit transaction, and every file can be applied again.
ApplyMigration(r) ==
    /\ phase[r] = "apply"
    /\ schema' = schema \union {next[r]}
    /\ Goto(r, "record")
    /\ UNCHANGED <<recorded, seeded, requests, next, pool, faults>>

\* The version is the primary key: the second of two replicas fails and exits.
RecordMigration(r) ==
    /\ phase[r] = "record"
    /\ recorded' = recorded \union {next[r]}
    /\ IF next[r] \in recorded
       THEN Exits(r) /\ UNCHANGED next
       ELSE /\ next' = [next EXCEPT ![r] = @ + 1]
            /\ Goto(r, "check") /\ UNCHANGED <<pool, call>>
    /\ UNCHANGED <<schema, seeded, ended, on, early, faults>>

\* Faulty: the tracks table is only filled when it is empty.
SeedIfEmpty(r) ==
    /\ phase[r] = "seed"
    /\ \/ /\ seeded = {} /\ \E t \in Tracks : seeded' = seeded \union {t} /\ UNCHANGED phase
       \/ seeded # {} /\ Goto(r, "serving") /\ UNCHANGED seeded
    /\ UNCHANGED <<schema, recorded, requests, next, pool, faults>>

\* SeedTrackReferenceCatalog, an upsert per track; then the server listens.
Seed(r) ==
    /\ phase[r] = "seed"
    /\ \/ \E t \in Tracks \ seeded : seeded' = seeded \union {t} /\ UNCHANGED phase
       \/ Tracks \subseteq seeded /\ Goto(r, "serving") /\ UNCHANGED seeded
    /\ UNCHANGED <<schema, recorded, requests, next, pool, faults>>

\* A statement of the start fails, or the process dies.
Crash(r) ==
    /\ phase[r] # "down"
    /\ Fault
    /\ Exits(r)
    /\ UNCHANGED <<database, ended, on, early, next>>

\* SIGTERM while serving: Shutdown stops accepting requests and starts the
\* function given to RegisterOnShutdown in a goroutine of its own.
Signal(r) ==
    /\ phase[r] = "serving"
    /\ Fault
    /\ Goto(r, "draining")
    /\ UNCHANGED <<database, requests, next, pool>>

\* That function is db.Close: no statement gets a connection any more, whether
\* or not requests are still being handled.
ClosePool(r) ==
    /\ phase[r] = "draining" /\ pool[r]
    /\ pool' = [pool EXCEPT ![r] = FALSE]
    /\ UNCHANGED <<database, requests, phase, next, faults>>

\* Shutdown returns when no request is left, or after ShutdownTimeout.
Exit(r) ==
    /\ phase[r] = "draining"
    /\ \/ InFlight(r) = {} /\ UNCHANGED faults
       \/ InFlight(r) # {} /\ Fault
    /\ Exits(r)
    /\ UNCHANGED <<database, ended, on, early, next>>

-----------------------------------------------------------------------------
Answer(c, a) == call' = [call EXCEPT ![c] = a]

\* A client sends the finish, and sends it again after 500 or no answer.
Send(c, r) ==
    /\ call[c] \in {"none", "500", "lost"}
    /\ phase[r] = "serving"
    /\ on' = [on EXCEPT ![c] = r]
    /\ Answer(c, "end")
    /\ UNCHANGED <<database, ended, phase, next, pool, early, faults>>

\* The next statement of the handler gets no connection, or fails.
StatementFails(c) ==
    /\ call[c] \in Handling
    /\ \/ ~pool[on[c]] /\ UNCHANGED faults
       \/ pool[on[c]] /\ Fault
    /\ Answer(c, "500")
    /\ UNCHANGED <<database, ended, phase, next, pool, on, early>>

\* Faulty: the UPDATE does not look at ended_at.
EndAgain(c) ==
    /\ call[c] = "end" /\ pool[on[c]]
    /\ Answer(c, "frames") /\ ended' = ended \union {c}
    /\ UNCHANGED <<database, phase, next, pool, on, early, faults>>

\* repo.End: UPDATE ... WHERE ended_at IS NULL AND started_at <= $2, committed by
\* itself.
End(c) ==
    /\ call[c] = "end" /\ pool[on[c]]
    /\ IF ended = {} /\ c \notin early
       THEN Answer(c, "frames") /\ ended' = {c}
       ELSE Answer(c, "classify") /\ UNCHANGED ended
    /\ UNCHANGED <<database, phase, next, pool, on, early, faults>>

\* classifyEndNoRows: why no row was updated, as far as a second look tells.
classifyEndNoRows(c) ==
    IF ended # {} THEN "409" ELSE IF c \in early THEN "400" ELSE "500"

\* The rest of the handler: the reason, or the two reads of sessionDTO.
Statement(c) ==
    /\ call[c] \in Handling \ {"end"} /\ pool[on[c]]
    /\ Answer(c, CASE call[c] = "classify" -> classifyEndNoRows(c)
                   [] call[c] = "frames" -> "events"
                   [] call[c] = "events" -> "200")
    /\ UNCHANGED <<database, ended, phase, next, pool, on, early, faults>>

-----------------------------------------------------------------------------
Step(r) ==
    \/ Start(r) \/ CheckMigration(r) \/ ApplyMigration(r) \/ RecordMigration(r)
    \/ Seed(r) \/ ClosePool(r) \/ Exit(r)

Handle(c) == StatementFails(c) \/ End(c) \/ Statement(c)

Next ==
    \/ \E r \in Replicas : Step(r) \/ Crash(r) \/ Signal(r)
    \/ \E c \in Clients : Handle(c) \/ \E r \in Replicas : Send(c, r)

\* A stopped container is started again, processes and handlers run, and a
\* client without a final answer repeats its request.
Fairness ==
    /\ \A r \in Replicas : WF_vars(Step(r))
    /\ \A c \in Clients : WF_vars(Handle(c)) /\ WF_vars(\E r \in Replicas : Send(c, r))

Spec == Init /\ [][Next]_vars /\ Fairness

-----------------------------------------------------------------------------
\* The start of a replica at every phase: what it has passed is in the database.
StartupInv ==
    /\ recorded \subseteq schema
    /\ \A r \in Replicas :
          /\ phase[r] \in Starting => 1 .. next[r] - 1 \subseteq recorded
          /\ phase[r] = "record" => next[r] \in schema
          /\ phase[r] \in {"apply", "record"} => next[r] \in Versions
          /\ phase[r] \in {"seed", "serving", "draining"} => Versions \subseteq recorded
          /\ phase[r] \in {"serving", "draining"} => Tracks \subseteq seeded

\* A replica that serves finds every table and column of its migrations and
\* every track its foreign keys refer to, whichever replica applied them and
\* wherever another start of Migrate or SeedTrackReferenceCatalog was cut off.
ServingHasSchema ==
    \A r \in Replicas :
        phase[r] \in {"serving", "draining"} => schema = Versions /\ seeded = Tracks

\* finishSessionHandler: whatever replicas, repetitions and closed pools did in
\* between, one UPDATE at most ended the session; 200 goes only to the client
\* whose UPDATE it was, 409 is only said of a session that has ended and 400 of an
\* endedAt before the start; the look after a failed UPDATE always finds which.
FinishedOnce ==
    /\ Cardinality(ended) <= 1
    /\ \A c \in Clients :
          /\ call[c] \in {"frames", "events", "200"} => c \in ended
          /\ call[c] = "409" => ended # {}
          /\ call[c] = "classify" => ended # {} \/ c \in early
          /\ c \in early => c \notin ended
          /\ call[c] = "400" => c \in early

\* The end of a session is never undone and never taken over by another
\* client's finish: End updates only where ended_at IS NULL.
EndIsFinal == [][ended # {} => ended' = ended]_vars

\* A client that repeats the finish after 500 or a lost answer (the finish may
\* be committed: the reads of sessionDTO come after it) learns that the session
\* has ended, whatever was interrupted on the way; one whose endedAt lies before
\* the start learns that, or that another client's finish came first.
FinishLearned ==
    \A c \in Clients : <>(\/ call[c] \in {"200", "409"} /\ ended # {}
                          \/ call[c] = "400" /\ c \in early)
=============================================================================
