---------------------- MODULE PostgresFrameStoreProofs ----------------------
(***************************************************************************)
(* Proofs about PostgresFrameStore for any sets of sessions, requests and  *)
(* batches and any hash function.                                          *)
(***************************************************************************)
EXTENDS PostgresFrameStore, SequenceTheorems, TLAPS

\* MAX(batch_index) + 1 over a table numbered without holes is its size.
LEMMA NextIndexOfInterval == \A n \in Nat : NextIndex(0 .. n - 1) = n
<1> SUFFICES ASSUME NEW n \in Nat PROVE NextIndex(0 .. n - 1) = n
  OBVIOUS
<1>1. CASE n = 0
  <2>1. 0 .. n - 1 = {}
    BY <1>1
  <2> QED BY <1>1, <2>1 DEF NextIndex
<1>2. CASE n # 0
  <2> DEFINE S == 0 .. n - 1
  <2>1. n - 1 \in S /\ \A j \in S : j <= n - 1
    BY <1>2
  <2>2. \A i \in S : (\A j \in S : j <= i) => i = n - 1
    BY <2>1
  <2>3. (CHOOSE i \in S : \A j \in S : j <= i) = n - 1
    BY <2>1, <2>2
  <2>4. S # {}
    BY <2>1
  <2>5. NextIndex(S) = (n - 1) + 1
    BY <2>3, <2>4, Zenon DEF NextIndex
  <2> QED BY <2>5
<1> QED BY <1>1, <1>2


\* The empty store satisfies the invariant.
LEMMA InitIndInv == Init => IndInv
<1> SUFFICES ASSUME Init PROVE IndInv
  OBVIOUS
<1> USE DEF Init
<1>1. IsRows(NoRows) /\ DOMAIN NoRows = {}
  BY DEF IsRows, NoRows
<1>2. TypeOK
  BY <1>1 DEF TypeOK, Holders
<1>3. NextIndex({}) = 0 /\ {} = 0 .. 0 - 1
  BY DEF NextIndex
<1>4. DenseBatchIndex
  <2> SUFFICES ASSUME NEW s \in Sessions
               PROVE  /\ NextIndex(DOMAIN frameBatches[s]) \in Nat
                      /\ DOMAIN frameBatches[s] = 0 .. NextIndex(DOMAIN frameBatches[s]) - 1
    BY DEF DenseBatchIndex
  <2>1. DOMAIN frameBatches[s] = {}
    BY <1>1
  <2> QED BY <1>3, <2>1, SMT
<1>5. NoLostRace
  BY DEF NoLostRace
<1>6. AdvisoryUnderRowLock /\ RowLockHeld
  BY DEF AdvisoryUnderRowLock, RowLockHeld
<1>7. \A r \in Requests : RequestInv(r)
  BY DEF RequestInv, InTransaction, NoTransaction
<1> QED BY <1>2, <1>4, <1>5, <1>6, <1>7 DEF IndInv

\* Giving up: whatever a request has done, a rollback restores the invariant.
LEMMA RollbackKeepsIndInv ==
  ASSUME IndInv, NEW r \in Requests, NEW result,
         pc[r] \in {"begun", "locked", "waiting"},
         result \in {"session_not_found", "session_finished", "error"},
         result = "session_finished" => done[r] = 0,
         Rollback(r, result)
  PROVE  IndInv'
<1> USE DEF Rollback, Return, Release, tables
<1>1. r # NoRequest
  BY NoRequestAssumption
<1>2. IsRows(NoRows)
  BY DEF IsRows, NoRows
<1>3. TypeOK'
  BY <1>2 DEF IndInv, TypeOK, Holders, IsRows
<1>4. DenseBatchIndex'
  BY DEF IndInv, DenseBatchIndex
<1>5. NoLostRace'
  BY DEF IndInv, NoLostRace, TypeOK
<1>6. RowLockHeld'
  BY <1>1 DEF IndInv, RowLockHeld, TypeOK, InTransaction, Holders
<1>7. AdvisoryUnderRowLock'
  BY <1>1 DEF IndInv, AdvisoryUnderRowLock, TypeOK, Holders
<1>8. ASSUME NEW q \in Requests PROVE RequestInv(q)'
  <2>1. CASE q = r
    BY <2>1 DEF IndInv, TypeOK, RequestInv, InTransaction, NoTransaction
  <2>2. CASE q # r
    <3>1. RequestInv(q)
      BY DEF IndInv
    <3>2. /\ pc'[q] = pc[q] /\ written'[q] = written[q] /\ outcome'[q] = outcome[q]
          /\ UNCHANGED <<sid, parts, done, next, live, status, frameBatches>>
      BY <2>2 DEF IndInv, TypeOK
    <3>3. InTransaction(q) => rowLock'[sid[q]] = rowLock[sid[q]]
      BY <3>1, <2>2 DEF IndInv, TypeOK, RequestInv, Transaction
    <3> QED BY <3>1, <3>2, <3>3 DEF RequestInv, InTransaction, Transaction, NoTransaction, Base
  <2> QED BY <2>1, <2>2
<1> QED BY <1>3, <1>4, <1>5, <1>6, <1>7, <1>8 DEF IndInv

\* Creating and finishing a session keep the invariant: a finish needs the row
\* lock free, so it cannot pull a session away under a transaction.
LEMMA CreateEndKeepIndInv ==
  ASSUME IndInv, NEW s \in Sessions, Create(s) \/ End(s)
  PROVE  IndInv'
<1>0. /\ UNCHANGED <<frameBatches, rowLock, advLock, pc, sid, parts, done, written, next, live, outcome>>
      /\ \E x \in {"active", "finished"} : status' = [status EXCEPT ![s] = x]
      /\ End(s) => rowLock[s] = NoRequest
      /\ Create(s) => status[s] = "absent"
  BY DEF Create, End, locks, request
<1>1. TypeOK'
  <2>1. status' \in [Sessions -> {"absent", "active", "finished"}]
    BY <1>0 DEF IndInv, TypeOK
  <2> QED BY <1>0, <2>1 DEF IndInv, TypeOK
<1>2. DenseBatchIndex' /\ NoLostRace'
  BY <1>0 DEF IndInv, DenseBatchIndex, NoLostRace
<1>3. AdvisoryUnderRowLock' /\ RowLockHeld'
  BY <1>0 DEF IndInv, AdvisoryUnderRowLock, RowLockHeld, InTransaction
<1>4. ASSUME NEW q \in Requests PROVE RequestInv(q)'
  <2>1. RequestInv(q)
    BY DEF IndInv
  <2>2. InTransaction(q) => status'[sid[q]] = status[sid[q]]
    <3> SUFFICES ASSUME InTransaction(q) PROVE status'[sid[q]] = status[sid[q]]
      OBVIOUS
    <3>1. rowLock[sid[q]] = q /\ status[sid[q]] = "active"
      BY <2>1 DEF RequestInv, Transaction
    <3>2. sid[q] # s
      BY <1>0, <3>1, NoRequestAssumption
    <3>3. status \in [Sessions -> {"absent", "active", "finished"}] /\ sid[q] \in Sessions
      BY DEF IndInv, TypeOK
    <3> QED BY <1>0, <3>2, <3>3
  <2>3. CASE InTransaction(q)
    <3>1. Transaction(q)'
      BY <1>0, <2>1, <2>2, <2>3 DEF RequestInv, Transaction, Base
    <3> QED BY <1>0, <2>3, <3>1 DEF RequestInv, InTransaction
  <2>4. CASE ~InTransaction(q)
    BY <1>0, <2>1, <2>4 DEF RequestInv, InTransaction, NoTransaction
  <2> QED BY <2>3, <2>4
<1> QED BY <1>1, <1>2, <1>3, <1>4 DEF IndInv

\* Opening a transaction keeps the invariant.
LEMMA BeginKeepsIndInv ==
  ASSUME IndInv, NEW r \in Requests, Begin(r)
  PROVE  IndInv'
<1> USE DEF Begin, locks, tables
<1>1. TypeOK'
  BY DEF IndInv, TypeOK, IsRows
<1>2. DenseBatchIndex' /\ NoLostRace'
  BY DEF IndInv, DenseBatchIndex, NoLostRace
<1>3. AdvisoryUnderRowLock' /\ RowLockHeld'
  BY DEF IndInv, TypeOK, AdvisoryUnderRowLock, RowLockHeld, InTransaction
<1>4. ASSUME NEW q \in Requests PROVE RequestInv(q)'
  BY DEF IndInv, TypeOK, RequestInv, InTransaction, Transaction, NoTransaction, Base
<1> QED BY <1>1, <1>2, <1>3, <1>4 DEF IndInv

\* The locking SELECT keeps the invariant, and starts a transaction with the row
\* lock it needs.
LEMMA CheckSessionKeepsIndInv ==
  ASSUME IndInv, NEW r \in Requests, CheckSession(r)
  PROVE  IndInv'
<1>1. pc[r] = "begun" /\ rowLock[sid[r]] = NoRequest
  BY DEF CheckSession
<1>2. done[r] = 0 /\ written[r] = NoRows /\ outcome[r] = "none"
  BY <1>1 DEF IndInv, RequestInv, InTransaction, NoTransaction
<1>3. CASE Rollback(r, "session_not_found")
  BY <1>1, <1>3, RollbackKeepsIndInv
<1>4. CASE Rollback(r, "session_finished")
  BY <1>1, <1>2, <1>4, RollbackKeepsIndInv
<1>5. CASE /\ status[sid[r]] = "active"
           /\ rowLock' = [rowLock EXCEPT ![sid[r]] = r]
           /\ pc' = [pc EXCEPT ![r] = "locked"]
           /\ UNCHANGED <<tables, advLock, sid, parts, done, written, next, live, outcome>>
  <2> USE <1>5 DEF tables
  <2>1. TypeOK'
    BY DEF IndInv, TypeOK, IsRows, Holders
  <2>2. DenseBatchIndex' /\ NoLostRace'
    BY DEF IndInv, DenseBatchIndex, NoLostRace
  <2>3. RowLockHeld'
    BY DEF IndInv, TypeOK, RowLockHeld, InTransaction
  <2>4. AdvisoryUnderRowLock'
    BY <1>1 DEF IndInv, TypeOK, AdvisoryUnderRowLock, Holders
  <2>5. ASSUME NEW q \in Requests PROVE RequestInv(q)'
    <3>1. CASE q = r
      <4>1. /\ pc'[r] = "locked" /\ rowLock'[sid'[r]] = r /\ status'[sid'[r]] = "active"
            /\ done'[r] = 0 /\ parts'[r] = parts[r] /\ parts[r] \in Inputs
        BY <1>2 DEF IndInv, TypeOK
      <4>2. Len(parts[r]) > 0 /\ parts[r] \in Seq(Batches)
        BY <4>1, InputsAssumption
      <4>3. Base(r) \in Nat /\ Base(r)' = Base(r)
        BY DEF IndInv, TypeOK, DenseBatchIndex, Base
      <4>4. Base(r) .. Base(r) + 0 - 1 = {}
        BY <4>3
      <4>5. NoRows = [i \in Base(r) .. Base(r) + 0 - 1 |-> parts[r][i - Base(r) + 1]]
        BY <4>4 DEF NoRows
      <4>6. Transaction(r)'
        BY <4>1, <4>2, <4>3, <4>5, <1>2 DEF Transaction
      <4> QED BY <4>1, <4>6, <3>1 DEF RequestInv, InTransaction
    <3>2. CASE q # r
      <4>1. RequestInv(q)
        BY DEF IndInv
      <4>2. InTransaction(q) => rowLock'[sid[q]] = rowLock[sid[q]]
        BY <4>1, <1>1, NoRequestAssumption DEF IndInv, TypeOK, RequestInv, Transaction
      <4>3. pc'[q] = pc[q]
        BY <3>2 DEF IndInv, TypeOK
      <4> QED BY <4>1, <4>2, <4>3 DEF RequestInv, InTransaction, Transaction, NoTransaction, Base
    <3> QED BY <3>1, <3>2
  <2> QED BY <2>1, <2>2, <2>3, <2>4, <2>5 DEF IndInv
<1> QED BY <1>3, <1>4, <1>5 DEF CheckSession

\* The rows of a transaction continue the committed ones without a hole.
LEMMA IndicesOfTransaction ==
  ASSUME IndInv, NEW r \in Requests, InTransaction(r)
  PROVE  /\ Base(r) \in Nat /\ done[r] \in Nat
         /\ DOMAIN frameBatches[sid[r]] = 0 .. Base(r) - 1
         /\ DOMAIN written[r] = Base(r) .. Base(r) + done[r] - 1
         /\ DOMAIN frameBatches[sid[r]] \cup DOMAIN written[r] = 0 .. (Base(r) + done[r]) - 1
         /\ NextIndex(DOMAIN frameBatches[sid[r]] \cup DOMAIN written[r]) = Base(r) + done[r]
<1>1. Base(r) \in Nat /\ DOMAIN frameBatches[sid[r]] = 0 .. Base(r) - 1
  BY DEF IndInv, TypeOK, DenseBatchIndex, Base
<1>2. done[r] \in Nat
  BY DEF IndInv, TypeOK
<1>3. DOMAIN written[r] = Base(r) .. Base(r) + done[r] - 1
  BY DEF IndInv, RequestInv, Transaction
<1>4. (0 .. Base(r) - 1) \cup (Base(r) .. Base(r) + done[r] - 1) = 0 .. (Base(r) + done[r]) - 1
  BY <1>1, <1>2
<1>5. NextIndex(0 .. (Base(r) + done[r]) - 1) = Base(r) + done[r]
  <2>1. Base(r) + done[r] \in Nat
    BY <1>1, <1>2
  <2> QED BY <2>1, NextIndexOfInterval
<1> QED BY <1>1, <1>2, <1>3, <1>4, <1>5

\* The INSERT's snapshot suggests the index right after the transaction's rows.
LEMMA StartInsertKeepsIndInv ==
  ASSUME IndInv, NEW r \in Requests, StartInsert(r)
  PROVE  IndInv'
<1> USE DEF StartInsert, tables, locks
<1>1. InTransaction(r)
  BY DEF InTransaction
<1>2. Transaction(r)
  BY <1>1 DEF IndInv, RequestInv
<1>3. next'[r] = Base(r) + done[r] /\ next'[r] \in Nat
  BY <1>1, IndicesOfTransaction DEF IndInv, TypeOK
<1>4. live'[r]
  BY <1>2 DEF IndInv, TypeOK, Transaction
<1>5. TypeOK'
  <2>1. next' \in [Requests -> Nat]
    BY <1>3 DEF IndInv, TypeOK
  <2>2. live' \in [Requests -> BOOLEAN]
    BY DEF IndInv, TypeOK
  <2> QED BY <2>1, <2>2 DEF IndInv, TypeOK, IsRows
<1>6. DenseBatchIndex' /\ NoLostRace'
  BY DEF IndInv, DenseBatchIndex, NoLostRace
<1>7. AdvisoryUnderRowLock' /\ RowLockHeld'
  BY DEF IndInv, TypeOK, AdvisoryUnderRowLock, RowLockHeld, InTransaction
<1>8. ASSUME NEW q \in Requests PROVE RequestInv(q)'
  <2>1. CASE q = r
    <3>1. Transaction(r)'
      BY <1>2, <1>3, <1>4 DEF Transaction, Base
    <3>2. InTransaction(r)'
      BY DEF IndInv, TypeOK, InTransaction
    <3> QED BY <2>1, <3>1, <3>2 DEF RequestInv
  <2>2. CASE q # r
    <3>1. RequestInv(q)
      BY DEF IndInv
    <3>2. pc'[q] = pc[q] /\ next'[q] = next[q] /\ live'[q] = live[q]
      BY <2>2 DEF IndInv, TypeOK
    <3> QED BY <3>1, <3>2 DEF RequestInv, InTransaction, Transaction, NoTransaction, Base
  <2> QED BY <2>1, <2>2
<1> QED BY <1>5, <1>6, <1>7, <1>8 DEF IndInv

\* The INSERT adds the next batch at the next index, and neither of its two
\* error branches can be taken.
LEMMA InsertKeepsIndInv ==
  ASSUME IndInv, NEW r \in Requests, Insert(r)
  PROVE  IndInv'
<1>1. pc[r] = "waiting" /\ InTransaction(r)
  BY DEF Insert, InTransaction
<1>2. Transaction(r) /\ live[r] /\ next[r] = Base(r) + done[r] /\ done[r] < Len(parts[r])
  BY <1>1 DEF IndInv, RequestInv, Transaction
<1>3. next[r] \notin DOMAIN frameBatches[sid[r]]
  <2>1. /\ Base(r) \in Nat /\ done[r] \in Nat
        /\ DOMAIN frameBatches[sid[r]] = 0 .. Base(r) - 1
    BY <1>1, IndicesOfTransaction
  <2> QED BY <1>2, <2>1
<1>4. /\ advLock[Hash[sid[r]]] \in {NoRequest, r}
      /\ advLock' = [advLock EXCEPT ![Hash[sid[r]]] = r]
      /\ written' = [written EXCEPT ![r] =
                        Rows(written[r], [i \in {next[r]} |-> parts[r][done[r] + 1]])]
      /\ done' = [done EXCEPT ![r] = done[r] + 1]
      /\ pc' = [pc EXCEPT ![r] = "locked"]
      /\ UNCHANGED <<status, frameBatches, rowLock, sid, parts, next, live, outcome>>
  BY <1>2, <1>3 DEF Insert, tables
<1>5. parts[r] \in Seq(Batches) /\ Len(parts[r]) \in Nat
  BY InputsAssumption DEF IndInv, TypeOK
<1>6. parts[r][done[r] + 1] \in Batches
  <2>1. done[r] \in Nat /\ done[r] + 1 \in 1 .. Len(parts[r])
    BY <1>2, <1>5 DEF IndInv, TypeOK
  <2> QED BY <1>5, <2>1
<1> DEFINE row == [i \in {next[r]} |-> parts[r][done[r] + 1]]
<1> DEFINE b == Base(r)
<1>7. Rows(written[r], row) = [i \in b .. b + (done[r] + 1) - 1 |-> parts[r][i - b + 1]]
  <2>1. b \in Nat /\ done[r] \in Nat /\ DOMAIN written[r] = b .. b + done[r] - 1
    BY <1>1, IndicesOfTransaction
  <2>2. (b .. b + done[r] - 1) \cup {next[r]} = b .. b + (done[r] + 1) - 1
    BY <1>2, <2>1
  <2>3. \A i \in b .. b + done[r] - 1 : written[r][i] = parts[r][i - b + 1]
    BY <1>2 DEF Transaction
  <2>4. next[r] - b + 1 = done[r] + 1
    BY <1>2, <2>1
  <2>5. next[r] \notin b .. b + done[r] - 1
    BY <1>2, <2>1
  <2> QED BY <2>1, <2>2, <2>3, <2>4, <2>5 DEF Rows
<1>8. IsRows(Rows(written[r], row))
  <2>1. IsRows(written[r]) /\ next[r] \in Nat
    BY DEF IndInv, TypeOK
  <2> QED BY <2>1, <1>6 DEF IsRows, Rows
<1>9. TypeOK'
  <2>1. \A q \in Requests : IsRows(written'[q])
    BY <1>4, <1>8 DEF IndInv, TypeOK
  <2>2. done' \in [Requests -> Nat]
    BY <1>4 DEF IndInv, TypeOK
  <2>3. advLock' \in [LockKeys -> Holders] /\ pc' \in [Requests -> {"idle", "begun", "locked", "waiting", "done"}]
    BY <1>4 DEF IndInv, TypeOK, Holders
  <2> QED BY <1>4, <2>1, <2>2, <2>3 DEF IndInv, TypeOK, IsRows
<1>10. DenseBatchIndex' /\ RowLockHeld'
  BY <1>1, <1>4 DEF IndInv, TypeOK, DenseBatchIndex, RowLockHeld, InTransaction
<1>11. NoLostRace'
  <2>1. outcome[r] = "none"
    BY <1>2 DEF Transaction
  <2> QED BY <1>4, <2>1 DEF IndInv, TypeOK, NoLostRace
<1>12. AdvisoryUnderRowLock'
  BY <1>2, <1>4 DEF IndInv, TypeOK, AdvisoryUnderRowLock, Transaction
<1>13. ASSUME NEW q \in Requests PROVE RequestInv(q)'
  <2>1. CASE q = r
    <3>1. /\ pc'[r] = "locked" /\ done'[r] = done[r] + 1 /\ Base(r)' = b
          /\ written'[r] = Rows(written[r], row)
      BY <1>4 DEF IndInv, TypeOK, Base
    <3>2. done'[r] <= Len(parts[r])
      BY <1>2, <1>5, <3>1 DEF IndInv, TypeOK
    <3>3. written'[r] = [i \in Base(r)' .. Base(r)' + done'[r] - 1 |-> parts'[r][i - Base(r)' + 1]]
      BY <1>4, <1>7, <3>1
    <3>4. rowLock'[sid'[r]] = r /\ status'[sid'[r]] = "active" /\ outcome'[r] = "none"
      BY <1>2, <1>4 DEF Transaction
    <3>5. Transaction(r)'
      BY <1>4, <3>1, <3>2, <3>3, <3>4 DEF Transaction
    <3> QED BY <2>1, <3>1, <3>5 DEF RequestInv, InTransaction
  <2>2. CASE q # r
    <3>1. RequestInv(q)
      BY DEF IndInv
    <3>2. pc'[q] = pc[q] /\ done'[q] = done[q] /\ written'[q] = written[q]
      BY <1>4, <2>2 DEF IndInv, TypeOK
    <3>3. Base(q)' = Base(q)
      BY <1>4 DEF Base
    <3>4. UNCHANGED <<status, rowLock, sid, parts, next, live, outcome>>
      BY <1>4
    <3> QED BY <3>1, <3>2, <3>3, <3>4 DEF RequestInv, InTransaction, Transaction, NoTransaction
  <2> QED BY <2>1, <2>2
<1> QED BY <1>9, <1>10, <1>11, <1>12, <1>13 DEF IndInv

\* A commit appends the request's batches behind the committed ones.
LEMMA CommitAppends ==
  ASSUME IndInv, NEW r \in Requests, Commit(r)
  PROVE  /\ Transaction(r) /\ Base(r) \in Nat /\ Len(parts[r]) \in Nat
         /\ parts[r] \in Seq(Batches)
         /\ frameBatches' = [frameBatches EXCEPT ![sid[r]] = Rows(frameBatches[sid[r]], written[r])]
         /\ DOMAIN frameBatches'[sid[r]] = 0 .. (Base(r) + Len(parts[r])) - 1
         /\ NextIndex(DOMAIN frameBatches'[sid[r]]) = Base(r) + Len(parts[r])
         /\ \A i \in 0 .. Base(r) - 1 : frameBatches'[sid[r]][i] = frameBatches[sid[r]][i]
         /\ \A i \in Base(r) .. (Base(r) + Len(parts[r])) - 1 :
                frameBatches'[sid[r]][i] = parts[r][i - Base(r) + 1]
<1> DEFINE b == Base(r)
<1> DEFINE n == Len(parts[r])
<1> DEFINE old == frameBatches[sid[r]]
<1>1. InTransaction(r) /\ done[r] = n
  BY DEF Commit, InTransaction
<1>2. Transaction(r)
  BY <1>1 DEF IndInv, RequestInv
<1>3. parts[r] \in Seq(Batches) /\ n \in Nat
  BY InputsAssumption DEF IndInv, TypeOK
<1>4. /\ b \in Nat /\ DOMAIN old = 0 .. b - 1
      /\ DOMAIN written[r] = b .. b + n - 1
      /\ DOMAIN old \cup DOMAIN written[r] = 0 .. (b + n) - 1
      /\ NextIndex(0 .. (b + n) - 1) = b + n
  BY <1>1, IndicesOfTransaction
<1>5. frameBatches' = [frameBatches EXCEPT ![sid[r]] = Rows(old, written[r])]
  BY DEF Commit
<1>6. frameBatches'[sid[r]] = Rows(old, written[r])
  BY <1>5 DEF IndInv, TypeOK
<1>7. DOMAIN Rows(old, written[r]) = 0 .. (b + n) - 1
  BY <1>4 DEF Rows
<1>8. \A i \in 0 .. b - 1 : Rows(old, written[r])[i] = old[i]
  BY <1>4 DEF Rows
<1>9. \A i \in b .. b + n - 1 : Rows(old, written[r])[i] = written[r][i]
  BY <1>4 DEF Rows
<1>10. \A i \in b .. b + n - 1 : written[r][i] = parts[r][i - b + 1]
  BY <1>1, <1>2 DEF Transaction
<1> QED BY <1>2, <1>3, <1>4, <1>5, <1>6, <1>7, <1>8, <1>9, <1>10

\* COMMIT keeps the batches of the session numbered without a hole.
LEMMA CommitKeepsIndInv ==
  ASSUME IndInv, NEW r \in Requests, Commit(r)
  PROVE  IndInv'
<1> DEFINE s == sid[r]
<1>1. PICK result \in {"ok", "error"} : Return(r, result)
  BY DEF Commit
<1> USE DEF Return, Release
<1>2. status' = status /\ s \in Sessions /\ r # NoRequest
  BY NoRequestAssumption DEF Commit, IndInv, TypeOK
<1>3. \A t \in Sessions : t # s => frameBatches'[t] = frameBatches[t]
  BY CommitAppends DEF IndInv, TypeOK
<1>4. IsRows(frameBatches'[s])
  <2>1. frameBatches'[s] = Rows(frameBatches[s], written[r])
    BY CommitAppends, <1>2 DEF IndInv, TypeOK
  <2>2. IsRows(frameBatches[s]) /\ IsRows(written[r])
    BY <1>2 DEF IndInv, TypeOK
  <2> QED BY <2>1, <2>2 DEF IsRows, Rows
<1>5. TypeOK'
  <2>1. DOMAIN frameBatches' = Sessions
    BY CommitAppends DEF IndInv, TypeOK
  <2>2. \A t \in Sessions : IsRows(frameBatches'[t])
    BY <1>3, <1>4 DEF IndInv, TypeOK
  <2>3. IsRows(NoRows)
    BY DEF IsRows, NoRows
  <2>4. \A q \in Requests : IsRows(written'[q])
    BY <1>1, <2>3 DEF IndInv, TypeOK
  <2> QED BY <1>1, <1>2, <2>1, <2>2, <2>4 DEF IndInv, TypeOK, Holders
<1>6. DenseBatchIndex'
  <2> SUFFICES ASSUME NEW t \in Sessions
               PROVE  /\ NextIndex(DOMAIN frameBatches'[t]) \in Nat
                      /\ DOMAIN frameBatches'[t] = 0 .. NextIndex(DOMAIN frameBatches'[t]) - 1
    BY DEF DenseBatchIndex
  <2>1. CASE t = s
    BY <2>1, CommitAppends
  <2>2. CASE t # s
    BY <2>2, <1>3 DEF IndInv, DenseBatchIndex
  <2> QED BY <2>1, <2>2
<1>7. NoLostRace'
  BY <1>1 DEF IndInv, TypeOK, NoLostRace
<1>8. RowLockHeld'
  BY <1>1, <1>2 DEF IndInv, RowLockHeld, TypeOK, InTransaction, Holders
<1>9. AdvisoryUnderRowLock'
  BY <1>1, <1>2 DEF IndInv, AdvisoryUnderRowLock, TypeOK, Holders
<1>10. ASSUME NEW q \in Requests PROVE RequestInv(q)'
  <2>1. CASE q = r
    BY <1>1, <2>1 DEF IndInv, TypeOK, RequestInv, InTransaction, NoTransaction
  <2>2. CASE q # r
    <3>1. RequestInv(q)
      BY DEF IndInv
    <3>2. /\ pc'[q] = pc[q] /\ written'[q] = written[q] /\ outcome'[q] = outcome[q]
          /\ UNCHANGED <<sid, parts, done, next, live, status>>
      BY <1>1, <1>2, <2>2 DEF IndInv, TypeOK
    <3>3. CASE InTransaction(q)
      <4>1. rowLock[sid[q]] = q /\ rowLock[s] = r /\ sid[q] \in Sessions
        BY <3>1, <3>3, CommitAppends DEF RequestInv, Transaction, IndInv, TypeOK
      <4>2. rowLock'[sid[q]] = rowLock[sid[q]]
        BY <1>1, <4>1, <2>2
      <4>3. Base(q)' = Base(q)
        BY <1>3, <3>2, <4>1, <2>2 DEF Base
      <4> QED BY <3>1, <3>2, <3>3, <4>2, <4>3 DEF RequestInv, InTransaction, Transaction
    <3>4. CASE ~InTransaction(q)
      BY <3>1, <3>2, <3>4 DEF RequestInv, InTransaction, NoTransaction
    <3> QED BY <3>3, <3>4
  <2> QED BY <2>1, <2>2
<1> QED BY <1>5, <1>6, <1>7, <1>8, <1>9, <1>10 DEF IndInv

\* One step of anybody keeps the invariant.
LEMMA NextKeepsIndInv == IndInv /\ [Next]_vars => IndInv'
<1> SUFFICES ASSUME IndInv, [Next]_vars PROVE IndInv'
  OBVIOUS
<1>1. ASSUME NEW s \in Sessions, Create(s) \/ End(s) PROVE IndInv'
  BY <1>1, CreateEndKeepIndInv
<1>2. ASSUME NEW r \in Requests, Step(r) PROVE IndInv'
  BY <1>2, BeginKeepsIndInv, CheckSessionKeepsIndInv, StartInsertKeepsIndInv,
     InsertKeepsIndInv, CommitKeepsIndInv DEF Step
<1>3. ASSUME NEW r \in Requests, Fail(r) PROVE IndInv'
  <2>1. pc[r] \in {"begun", "locked", "waiting"} /\ Rollback(r, "error")
    BY <1>3 DEF Fail
  <2> QED BY <2>1, RollbackKeepsIndInv
<1>4. CASE UNCHANGED vars
  BY <1>4 DEF vars, IndInv, TypeOK, IsRows, DenseBatchIndex, NoLostRace, AdvisoryUnderRowLock,
     RowLockHeld, RequestInv, InTransaction, Transaction, NoTransaction, Base
<1> QED BY <1>1, <1>2, <1>3, <1>4 DEF Next

-----------------------------------------------------------------------------
\* The inductive invariant holds in every reachable state.
THEOREM StoreInvariant == Spec => []IndInv
<1> QED BY InitIndInv, NextKeepsIndInv, PTL DEF Spec

\* TypeOK for every instance: all tables, locks and requests keep their types.
THEOREM TypeCorrect == Spec => []TypeOK
<1>1. IndInv => TypeOK
  BY DEF IndInv
<1> QED BY <1>1, StoreInvariant, PTL

\* appendBatch numbers the committed batches of every session without holes.
THEOREM BatchIndexIsDense == Spec => []DenseBatchIndex
<1>1. IndInv => DenseBatchIndex
  BY DEF IndInv
<1> QED BY <1>1, StoreInvariant, PTL

\* No append that passed its session check can be beaten to a batch_index or to
\* the finish of the session.
THEOREM SnapshotNeverStale == Spec => []NoLostRace
<1>1. IndInv => NoLostRace
  BY DEF IndInv
<1> QED BY <1>1, StoreInvariant, PTL

\* What a step may do to the committed batches: only a commit changes them.
LEMMA OnlyCommitWrites ==
  ASSUME [Next]_vars, ~\E r \in Requests : Commit(r)
  PROVE  frameBatches' = frameBatches
<1> USE DEF Rollback, tables
<1>1. ASSUME NEW s \in Sessions, Create(s) \/ End(s) PROVE frameBatches' = frameBatches
  BY <1>1 DEF Create, End
<1>2. ASSUME NEW r \in Requests, Step(r) \/ Fail(r) PROVE frameBatches' = frameBatches
  BY <1>2 DEF Step, Fail, Begin, CheckSession, StartInsert, Insert
<1>3. CASE UNCHANGED vars
  BY <1>3 DEF vars
<1> QED BY <1>1, <1>2, <1>3 DEF Next

\* The frames of a finished session are final, whoever was in the middle of an
\* append when the finish was answered.
THEOREM FramesFinalAfterFinish == Spec => FinishedIsFrozen
<1>1. IndInv /\ [Next]_vars =>
        [\A s \in Sessions : status[s] = "finished" => frameBatches'[s] = frameBatches[s]]_vars
  <2> SUFFICES ASSUME IndInv, [Next]_vars, NEW s \in Sessions, status[s] = "finished"
               PROVE  frameBatches'[s] = frameBatches[s]
    OBVIOUS
  <2>1. CASE \E r \in Requests : Commit(r)
    <3>1. PICK r \in Requests : Commit(r)
      BY <2>1
    <3>2. /\ status[sid[r]] = "active"
          /\ frameBatches' = [frameBatches EXCEPT ![sid[r]] = Rows(frameBatches[sid[r]], written[r])]
      BY <3>1, CommitAppends DEF Transaction
    <3> QED BY <3>2 DEF IndInv, TypeOK
  <2>2. CASE ~\E r \in Requests : Commit(r)
    BY <2>2, OnlyCommitWrites
  <2> QED BY <2>1, <2>2
<1> QED BY <1>1, StoreInvariant, PTL DEF Spec, FinishedIsFrozen

-----------------------------------------------------------------------------
(* Refinement.                                                             *)

\* The empty store is the empty log.
LEMMA InitRefines == Init => Log!Init
<1> SUFFICES ASSUME Init, NEW s \in Sessions PROVE StoredBatches(s) = <<>>
  BY DEF Init, Log!Init
<1>1. DOMAIN frameBatches[s] = {}
  BY DEF Init, NoRows
<1>2. NextIndex(DOMAIN frameBatches[s]) = 0
  BY <1>1 DEF NextIndex
<1> QED BY <1>2 DEF StoredBatches

\* A sequence extended element by element is a concatenation.
LEMMA Concatenation ==
  ASSUME NEW S, NEW f \in Seq(S), NEW g \in Seq(S)
  PROVE  f \o g = [i \in 1 .. Len(f) + Len(g) |-> IF i <= Len(f) THEN f[i] ELSE g[i - Len(f)]]
<1>1. f \o g \in Seq(S) /\ Len(f) \in Nat /\ Len(g) \in Nat
  BY ConcatProperties, LenProperties
<1>2. DOMAIN (f \o g) = 1 .. Len(f) + Len(g)
  BY <1>1, ConcatProperties, LenProperties
<1>3. f \o g = [i \in 1 .. Len(f) + Len(g) |-> (f \o g)[i]]
  <2> DEFINE h == f \o g
  <2>1. h \in [1 .. Len(h) -> S] /\ Len(h) = Len(f) + Len(g)
    BY <1>1, ConcatProperties, LenProperties
  <2> HIDE DEF h
  <2>2. h = [i \in 1 .. Len(f) + Len(g) |-> h[i]]
    BY <2>1
  <2> QED BY <2>2 DEF h
<1>4. \A i \in 1 .. Len(f) + Len(g) : (f \o g)[i] = IF i <= Len(f) THEN f[i] ELSE g[i - Len(f)]
  BY ConcatProperties
<1> QED BY <1>3, <1>4

\* COMMIT appends the request's batches to the log in one step.
LEMMA CommitRefines ==
  ASSUME IndInv, NEW r \in Requests, Commit(r), NEW s \in Sessions, s = sid[r]
  PROVE  Log!AppendBatches(s, parts[r])
<1> DEFINE b == Base(r)
<1> DEFINE n == Len(parts[r])
<1>1. status[s] = "active" /\ status' = status /\ s \in Sessions
  BY CommitAppends DEF Transaction, Commit, IndInv, TypeOK
<1>2. b \in Nat /\ n \in Nat /\ parts[r] \in Seq(Batches)
  BY CommitAppends
<1>3. StoredBatches(s) = [i \in 1 .. b |-> frameBatches[s][i - 1]]
  BY DEF StoredBatches, Base
<1>4. StoredBatches(s)' = [i \in 1 .. b + n |-> frameBatches'[s][i - 1]]
  <2>1. NextIndex(DOMAIN frameBatches'[s]) = b + n
    BY CommitAppends
  <2>2. StoredBatches(s)' = [i \in 1 .. NextIndex(DOMAIN frameBatches'[s]) |-> frameBatches'[s][i - 1]]
    BY DEF StoredBatches, Commit, Return
  <2> QED BY <2>1, <2>2
<1>5. StoredBatches(s) \in Seq(Batches) /\ Len(StoredBatches(s)) = b
  <2>1. DOMAIN frameBatches[s] = 0 .. b - 1 /\ \A i \in 0 .. b - 1 : frameBatches[s][i] \in Batches
    BY <1>1 DEF IndInv, TypeOK, IsRows, DenseBatchIndex, Base
  <2>2. \A i \in 1 .. b : i - 1 \in 0 .. b - 1
    BY <1>2
  <2>3. StoredBatches(s) \in [1 .. b -> Batches]
    BY <1>3, <2>1, <2>2
  <2>4. DOMAIN StoredBatches(s) = 1 .. b
    BY <1>3
  <2>5. StoredBatches(s) \in Seq(Batches)
    BY <1>2, <2>3, IsASeq
  <2> QED BY <1>2, <2>4, <2>5, LenProperties
<1>6. \A i \in 1 .. b : frameBatches'[s][i - 1] = StoredBatches(s)[i]
  <2>1. \A i \in 0 .. b - 1 : frameBatches'[s][i] = frameBatches[s][i]
    BY CommitAppends
  <2>2. \A i \in 1 .. b : i - 1 \in 0 .. b - 1
    BY <1>2
  <2> QED BY <1>3, <2>1, <2>2
<1>7. \A i \in b + 1 .. b + n : frameBatches'[s][i - 1] = parts[r][i - b]
  <2>1. \A i \in b .. (b + n) - 1 : frameBatches'[s][i] = parts[r][i - b + 1]
    BY CommitAppends
  <2>2. \A i \in b + 1 .. b + n : i - 1 \in b .. (b + n) - 1 /\ (i - 1) - b + 1 = i - b
    BY <1>2
  <2> QED BY <2>1, <2>2
<1>8. StoredBatches(s)' = StoredBatches(s) \o parts[r]
  <2> DEFINE old == StoredBatches(s)
  <2>1. old \o parts[r] = [i \in 1 .. b + n |-> IF i <= b THEN old[i] ELSE parts[r][i - b]]
    <3> HIDE DEF old
    <3>1. old \in Seq(Batches) /\ Len(old) = b
      BY <1>5 DEF old
    <3>2. old \o parts[r] = [i \in 1 .. Len(old) + Len(parts[r]) |->
                               IF i <= Len(old) THEN old[i] ELSE parts[r][i - Len(old)]]
      BY <1>2, <3>1, Concatenation
    <3> QED BY <3>1, <3>2
  <2>2. \A i \in 1 .. b + n : frameBatches'[s][i - 1] = IF i <= b THEN old[i] ELSE parts[r][i - b]
    BY <1>2, <1>6, <1>7
  <2> QED BY <1>4, <2>1, <2>2
<1>9. \A t \in Sessions : t # s => StoredBatches(t)' = StoredBatches(t)
  <2>1. \A t \in Sessions : t # s => frameBatches'[t] = frameBatches[t]
    BY CommitAppends DEF IndInv, TypeOK
  <2> QED BY <2>1 DEF StoredBatches
<1>10. [t \in Sessions |-> StoredBatches(t)]' =
         [[t \in Sessions |-> StoredBatches(t)] EXCEPT ![s] = StoredBatches(s) \o parts[r]]
  BY <1>1, <1>8, <1>9
<1> QED BY <1>1, <1>10 DEF Log!AppendBatches

\* Every step of the store is a step of the log or leaves it alone.
LEMMA NextRefines == IndInv /\ [Next]_vars => [Log!Next]_(Log!vars)
<1> SUFFICES ASSUME IndInv, [Next]_vars PROVE [Log!Next]_(Log!vars)
  OBVIOUS
<1> USE DEF Log!Next, Log!vars
<1>1. CASE \E r \in Requests : Commit(r)
  <2>1. PICK r \in Requests : Commit(r)
    BY <1>1
  <2>2. sid[r] \in Sessions /\ parts[r] \in Inputs
    BY DEF IndInv, TypeOK
  <2> QED BY <2>1, <2>2, CommitRefines
<1>2. CASE ~\E r \in Requests : Commit(r)
  <2>1. [s \in Sessions |-> StoredBatches(s)]' = [s \in Sessions |-> StoredBatches(s)]
    BY <1>2, OnlyCommitWrites DEF StoredBatches
  <2>2. ASSUME NEW s \in Sessions, Create(s) PROVE Log!Create(s)
    BY <2>1, <2>2 DEF Create, Log!Create
  <2>3. ASSUME NEW s \in Sessions, End(s) PROVE Log!End(s)
    BY <2>1, <2>3 DEF End, Log!End
  <2>4. ASSUME NEW r \in Requests, Step(r) \/ Fail(r) PROVE status' = status
    BY <2>4, <1>2 DEF Step, Fail, Begin, CheckSession, StartInsert, Insert, Rollback, tables
  <2>5. CASE UNCHANGED vars
    BY <2>1, <2>5 DEF vars
  <2> QED BY <2>1, <2>2, <2>3, <2>4, <2>5 DEF Next
<1> QED BY <1>1, <1>2

\* PostgresStore.Append implements the atomic log that the handler relies on.
THEOREM StoreImplementsLog == Spec => ImplementsFrameLog
<1> QED BY InitRefines, NextRefines, StoreInvariant, PTL DEF Spec, ImplementsFrameLog, Log!Spec
=============================================================================
