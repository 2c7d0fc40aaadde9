------------------------- MODULE PostgresFrameStore -------------------------
(***************************************************************************)
(* telemetry.PostgresStore.Append against concurrent appends, finishes and *)
(* failures, at the granularity of SQL statements under READ COMMITTED.    *)
(*                                                                         *)
(* An append opens a transaction, locks the session row (SELECT ... FOR    *)
(* UPDATE), runs one INSERT per lap of the request and commits.  The       *)
(* INSERT reads MAX(batch_index) and the session's ended_at in the         *)
(* snapshot taken when the statement STARTS, and only then waits for the   *)
(* advisory lock: the two are separate steps here, because whatever        *)
(* commits in between is invisible to the statement.                       *)
(*                                                                         *)
(* A row becomes visible to other transactions when its transaction        *)
(* commits; an error, a cancelled context, the 5 s statement timeout or a  *)
(* lost connection rolls the transaction back and drops its locks.         *)
(***************************************************************************)
EXTENDS Integers, Sequences

CONSTANTS
    Sessions,       \* session IDs
    Requests,       \* concurrent calls of Append, one transaction each
    Batches,        \* contents of frame batches (the frames of one lap)
    Inputs,         \* what splitFramesByLap can hand to Append
    LockKeys,       \* advisory lock keys
    Hash,           \* hashtextextended: session ID to advisory lock key
    NoRequest       \* "nobody holds the lock"

ASSUME InputsAssumption == \A parts \in Inputs : parts \in Seq(Batches) /\ Len(parts) > 0
ASSUME HashAssumption == Hash \in [Sessions -> LockKeys]
ASSUME NoRequestAssumption == NoRequest \notin Requests

VARIABLES
    status,         \* sessions: "absent", "active" (ended_at IS NULL), "finished"
    frameBatches,   \* committed rows of frame_batches: session -> batch_index -> batch
    rowLock,        \* holder of the row lock on the session
    advLock,        \* holder of pg_advisory_xact_lock
    pc,             \* where each request is
    sid,            \* its session
    parts,          \* the batches it appends
    done,           \* how many of them its transaction has inserted
    written,        \* the uncommitted rows: batch_index -> batch
    next,           \* next_batch.batch_index in the running statement's snapshot
    live,           \* EXISTS (active session) in that snapshot
    outcome         \* what Append returned

tables == <<status, frameBatches>>
locks == <<rowLock, advLock>>
request == <<pc, sid, parts, done, written, next, live, outcome>>
vars == <<status, frameBatches, rowLock, advLock,
          pc, sid, parts, done, written, next, live, outcome>>

Holders == Requests \cup {NoRequest}
NoRows == [i \in {} |-> i]

\* A partial function from batch_index to batch: a table under the unique
\* index (session_id, batch_index).
IsRows(f) ==
    /\ f = [i \in DOMAIN f |-> f[i]]
    /\ DOMAIN f \subseteq Nat
    /\ \A i \in DOMAIN f : f[i] \in Batches

\* The rows of both tables; f's where both have one.
Rows(f, g) ==
    [i \in DOMAIN f \cup DOMAIN g |-> IF i \in DOMAIN f THEN f[i] ELSE g[i]]

-----------------------------------------------------------------------------
Init ==
    /\ status = [s \in Sessions |-> "absent"]
    /\ frameBatches = [s \in Sessions |-> NoRows]
    /\ rowLock = [s \in Sessions |-> NoRequest]
    /\ advLock = [k \in LockKeys |-> NoRequest]
    /\ pc = [r \in Requests |-> "idle"]
    /\ sid \in [Requests -> Sessions]
    /\ parts \in [Requests -> Inputs]
    /\ done = [r \in Requests |-> 0]
    /\ written = [r \in Requests |-> NoRows]
    /\ next = [r \in Requests |-> 0]
    /\ live = [r \in Requests |-> FALSE]
    /\ outcome = [r \in Requests |-> "none"]

-----------------------------------------------------------------------------
(* The sessions table.  Both statements are transactions of their own.     *)

\* INSERT INTO sessions.
Create(s) ==
    /\ status[s] = "absent"
    /\ status' = [status EXCEPT ![s] = "active"]
    /\ UNCHANGED <<frameBatches, locks, request>>

\* UPDATE sessions SET ended_at ... WHERE ended_at IS NULL waits for the row
\* lock and then evaluates its condition on the row as it is.
End(s) ==
    /\ rowLock[s] = NoRequest
    /\ status[s] = "active"
    /\ status' = [status EXCEPT ![s] = "finished"]
    /\ UNCHANGED <<frameBatches, locks, request>>

-----------------------------------------------------------------------------
(* Append.                                                                 *)

\* Faulty: one index is skipped.
NextIndexSkipping(indices) ==
    IF indices = {} THEN 0
    ELSE (CHOOSE i \in indices : \A j \in indices : j <= i) + 2

\* COALESCE(MAX(batch_index), -1) + 1 over the given indices.
NextIndex(indices) ==
    IF indices = {} THEN 0
    ELSE (CHOOSE i \in indices : \A j \in indices : j <= i) + 1

\* Faulty: pg_advisory_lock, which outlives the transaction.
ReleaseRowOnly(r) ==
    /\ rowLock' = [s \in Sessions |-> IF rowLock[s] = r THEN NoRequest ELSE rowLock[s]]
    /\ UNCHANGED advLock

\* The transaction ends, by COMMIT or by ROLLBACK: both release every lock.
Release(r) ==
    /\ rowLock' = [s \in Sessions |-> IF rowLock[s] = r THEN NoRequest ELSE rowLock[s]]
    /\ advLock' = [k \in LockKeys |-> IF advLock[k] = r THEN NoRequest ELSE advLock[k]]

Return(r, result) ==
    /\ pc' = [pc EXCEPT ![r] = "done"]
    /\ outcome' = [outcome EXCEPT ![r] = result]
    /\ written' = [written EXCEPT ![r] = NoRows]
    /\ Release(r)
    /\ UNCHANGED <<sid, parts, done, next, live>>

Rollback(r, result) ==
    /\ Return(r, result)
    /\ UNCHANGED tables

\* s.begin(ctx)
Begin(r) ==
    /\ pc[r] = "idle"
    /\ pc' = [pc EXCEPT ![r] = "begun"]
    /\ UNCHANGED <<tables, locks, sid, parts, done, written, next, live, outcome>>

\* Faulty: SELECT without FOR UPDATE.
CheckSessionUnlocked(r) ==
    /\ pc[r] = "begun"
    /\ status[sid[r]] = "active"
    /\ pc' = [pc EXCEPT ![r] = "locked"]
    /\ UNCHANGED <<tables, locks, sid, parts, done, written, next, live, outcome>>

\* SELECT ended_at FROM sessions WHERE id = $1 FOR UPDATE: waits for the row
\* lock, then reads the row as it is.
CheckSession(r) ==
    /\ pc[r] = "begun"
    /\ rowLock[sid[r]] = NoRequest
    /\ \/ /\ status[sid[r]] = "absent"
          /\ Rollback(r, "session_not_found")
       \/ /\ status[sid[r]] = "finished"
          /\ Rollback(r, "session_finished")
       \/ /\ status[sid[r]] = "active"
          /\ rowLock' = [rowLock EXCEPT ![sid[r]] = r]
          /\ pc' = [pc EXCEPT ![r] = "locked"]
          /\ UNCHANGED <<tables, advLock, sid, parts, done, written, next, live, outcome>>

\* appendBatch, first half: the INSERT starts and takes its snapshot, which
\* holds the committed rows and the transaction's own.
StartInsert(r) ==
    /\ pc[r] = "locked"
    /\ done[r] < Len(parts[r])
    /\ next' = [next EXCEPT ![r] =
                  NextIndex(DOMAIN frameBatches[sid[r]] \cup DOMAIN written[r])]
    /\ live' = [live EXCEPT ![r] = status[sid[r]] = "active"]
    /\ pc' = [pc EXCEPT ![r] = "waiting"]
    /\ UNCHANGED <<tables, locks, sid, parts, done, written, outcome>>

\* Another transaction's uncommitted row with the same key makes the INSERT wait.
UniqueIndexFree(r) ==
    \A q \in Requests \ {r} : sid[q] = sid[r] => next[r] \notin DOMAIN written[q]

\* appendBatch, second half: the advisory lock is granted and the row goes in,
\* unless the snapshot had no active session (no row affected) or the unique
\* index already holds the batch_index that the snapshot suggested.
Insert(r) ==
    /\ pc[r] = "waiting"
    /\ advLock[Hash[sid[r]]] \in {NoRequest, r}
    /\ UniqueIndexFree(r)
    /\ \/ /\ ~live[r]
          /\ Rollback(r, "session_finished")
       \/ /\ live[r]
          /\ next[r] \in DOMAIN frameBatches[sid[r]]
          /\ Rollback(r, "unique_violation")
       \/ /\ live[r]
          /\ next[r] \notin DOMAIN frameBatches[sid[r]]
          /\ advLock' = [advLock EXCEPT ![Hash[sid[r]]] = r]
          /\ written' = [written EXCEPT ![r] =
                            Rows(@, [i \in {next[r]} |-> parts[r][done[r] + 1]])]
          /\ done' = [done EXCEPT ![r] = @ + 1]
          /\ pc' = [pc EXCEPT ![r] = "locked"]
          /\ UNCHANGED <<tables, rowLock, sid, parts, next, live, outcome>>

\* Faulty: a commit after any batch.
CommitEarly(r) ==
    /\ pc[r] = "locked"
    /\ done[r] > 0
    /\ frameBatches' = [frameBatches EXCEPT ![sid[r]] = Rows(@, written[r])]
    /\ Return(r, "ok")
    /\ UNCHANGED status

\* tx.Commit: the rows become visible and every lock is dropped.  The answer
\* may be lost on its way back, and Append then returns an error.
Commit(r) ==
    /\ pc[r] = "locked"
    /\ done[r] = Len(parts[r])
    /\ frameBatches' = [frameBatches EXCEPT ![sid[r]] = Rows(@, written[r])]
    /\ \/ Return(r, "ok")
       \/ Return(r, "error")
    /\ UNCHANGED status

\* Any other error of a statement, a cancelled request, the statement timeout
\* or a lost connection.
Fail(r) ==
    /\ pc[r] \in {"begun", "locked", "waiting"}
    /\ Rollback(r, "error")

-----------------------------------------------------------------------------
Step(r) == Begin(r) \/ CheckSession(r) \/ StartInsert(r) \/ Insert(r) \/ Commit(r)

Next ==
    \/ \E s \in Sessions : Create(s) \/ End(s)
    \/ \E r \in Requests : Step(r) \/ Fail(r)

Spec == Init /\ [][Next]_vars

\* Each goroutine keeps running and PostgreSQL grants a lock that stays free;
\* nothing makes a client call or a statement fail.
Fairness == \A r \in Requests : WF_vars(CheckSession(r) \/ StartInsert(r) \/ Insert(r) \/ Commit(r))

FairSpec == Spec /\ Fairness

-----------------------------------------------------------------------------
(* Properties.                                                             *)

InTransaction(r) == pc[r] \in {"locked", "waiting"}

TypeOK ==
    /\ status \in [Sessions -> {"absent", "active", "finished"}]
    /\ DOMAIN frameBatches = Sessions
    /\ \A s \in Sessions : IsRows(frameBatches[s])
    /\ rowLock \in [Sessions -> Holders]
    /\ advLock \in [LockKeys -> Holders]
    /\ pc \in [Requests -> {"idle", "begun", "locked", "waiting", "done"}]
    /\ sid \in [Requests -> Sessions]
    /\ parts \in [Requests -> Inputs]
    /\ done \in [Requests -> Nat]
    /\ DOMAIN written = Requests
    /\ \A r \in Requests : IsRows(written[r])
    /\ next \in [Requests -> Nat]
    /\ live \in [Requests -> BOOLEAN]
    /\ outcome \in [Requests -> {"none", "ok", "session_not_found", "session_finished",
                                 "unique_violation", "error"}]

\* batch_index numbers the committed batches of a session 0, 1, 2, ... without
\* a hole, although it is computed from a snapshot that may predate the
\* advisory lock and although transactions roll back at every point.
DenseBatchIndex ==
    \A s \in Sessions :
        LET count == NextIndex(DOMAIN frameBatches[s])
        IN  count \in Nat /\ DOMAIN frameBatches[s] = 0 .. count - 1

\* The snapshot of an INSERT is never stale: no append loses the race for a
\* batch_index, and none that found its session active is told midway that the
\* session is finished.
NoLostRace ==
    \A r \in Requests :
        /\ outcome[r] # "unique_violation"
        /\ outcome[r] = "session_finished" => done[r] = 0

\* Once a session is finished its stored frames never change: a finish that has
\* been answered cannot be overtaken by an append that had checked the session.
FinishedIsFrozen ==
    [][\A s \in Sessions :
          status[s] = "finished" => frameBatches'[s] = frameBatches[s]]_vars

\* The advisory lock is only taken under the row lock of a session with that
\* key, so a request waits for it only if two session IDs hash alike.
AdvisoryUnderRowLock ==
    \A k \in LockKeys :
        advLock[k] # NoRequest =>
            /\ Hash[sid[advLock[k]]] = k
            /\ rowLock[sid[advLock[k]]] = advLock[k]

\* The row lock belongs to a transaction that is under way on that session.
RowLockHeld ==
    \A s \in Sessions :
        rowLock[s] # NoRequest => sid[rowLock[s]] = s /\ InTransaction(rowLock[s])

\* First free batch_index of the request's session.
Base(r) == NextIndex(DOMAIN frameBatches[sid[r]])

\* A transaction past its check holds the row lock of an active session, and
\* its rows are the first done[r] of its batches, numbered from Base(r) on.
Transaction(r) ==
    /\ rowLock[sid[r]] = r
    /\ status[sid[r]] = "active"
    /\ outcome[r] = "none"
    /\ done[r] <= Len(parts[r])
    /\ written[r] = [i \in Base(r) .. Base(r) + done[r] - 1 |-> parts[r][i - Base(r) + 1]]
    /\ pc[r] = "waiting" =>
         /\ done[r] < Len(parts[r])
         /\ next[r] = Base(r) + done[r]
         /\ live[r]

NoTransaction(r) ==
    /\ written[r] = NoRows
    /\ pc[r] # "done" => done[r] = 0 /\ outcome[r] = "none"

RequestInv(r) == IF InTransaction(r) THEN Transaction(r) ELSE NoTransaction(r)

\* Why the store is correct, as one inductive invariant: whoever is past its
\* check owns the session's row, so nothing its snapshots read can move before
\* it commits or rolls back.
IndInv ==
    /\ TypeOK
    /\ DenseBatchIndex
    /\ NoLostRace
    /\ AdvisoryUnderRowLock
    /\ RowLockHeld
    /\ \A r \in Requests : RequestInv(r)

\* What Frames() returns: the batches ORDER BY batch_index.
StoredBatches(s) ==
    [i \in 1 .. NextIndex(DOMAIN frameBatches[s]) |-> frameBatches[s][i - 1]]

Log == INSTANCE FrameLog WITH log <- [s \in Sessions |-> StoredBatches(s)]

\* The store implements the abstract log: a request's laps enter together, in
\* their order, at the end and only while the session is active; a failed
\* request leaves nothing behind unless only its answer was lost.
ImplementsFrameLog == Log!Spec

\* Every append that has begun returns: no cycle of row and advisory locks,
\* even when the keys of two sessions collide.
AppendReturns ==
    \A r \in Requests : pc[r] = "begun" ~> pc[r] = "done"
=============================================================================
