---------------------------- MODULE ServerProofs ----------------------------
(***************************************************************************)
(* Proofs about Server, for any number of replicas, migrations, tracks,    *)
(* clients and faults.  TypeOK is not inductive without StartupInv: that   *)
(* the migration a replica applies is one of the files follows from how    *)
(* far the replica has come.                                               *)
(***************************************************************************)
EXTENDS Server, FiniteSetTheorems, TLAPS

ServerInv == TypeOK /\ StartupInv

\* The disjuncts of a step.
LEMMA NextCases ==
    ASSUME Next
    PROVE  \/ \E r \in Replicas :
                 \/ Start(r) \/ CheckMigration(r) \/ ApplyMigration(r) \/ RecordMigration(r)
                 \/ Seed(r) \/ ClosePool(r) \/ Exit(r) \/ Crash(r) \/ Signal(r)
           \/ \E c \in Clients : StatementFails(c) \/ End(c) \/ Statement(c)
           \/ \E c \in Clients, r \in Replicas : Send(c, r)
BY Zenon DEF Next, Step, Handle

\* Every step of a replica keeps types and what its start has established.
LEMMA ReplicaStep ==
    ASSUME ServerInv, NEW r \in Replicas,
           \/ Start(r) \/ CheckMigration(r) \/ ApplyMigration(r) \/ RecordMigration(r)
           \/ Seed(r) \/ ClosePool(r) \/ Exit(r) \/ Crash(r) \/ Signal(r)
    PROVE  ServerInv'
<1> USE CountsAssumption DEF ServerInv, TypeOK, StartupInv, Versions, Starting, Handling, Answers
<1>1. CASE Start(r)
  BY <1>1 DEF Start, Goto, database, requests
<1>2. CASE CheckMigration(r)
  <2>1. TypeOK'
    BY <1>2 DEF CheckMigration, Goto, database, requests
  <2>2. StartupInv'
    BY <1>2 DEF CheckMigration, Goto, database, requests
  <2> QED
    BY <2>1, <2>2
<1>3. CASE ApplyMigration(r)
  BY <1>3 DEF ApplyMigration, Goto, requests
<1>4. CASE RecordMigration(r)
  <2>1. CASE next[r] \in recorded
    BY <1>4, <2>1 DEF RecordMigration, Goto, Exits, InFlight
  <2>2. CASE next[r] \notin recorded
    <3>0. /\ next[r] \in Versions /\ next[r] \in schema /\ 1 .. next[r] - 1 \subseteq recorded
          /\ recorded' = recorded \union {next[r]}
          /\ next' = [next EXCEPT ![r] = next[r] + 1]
          /\ phase' = [phase EXCEPT ![r] = "check"]
          /\ UNCHANGED <<schema, seeded, ended, pool, call, on, early, faults>>
      BY <1>4, <2>2 DEF RecordMigration, Goto
    <3>1. TypeOK'
      <4>1. next' \in [Replicas -> 1 .. MigrationCount + 1]
        <5>1. next[r] + 1 \in 1 .. MigrationCount + 1
          BY <3>0
        <5> QED
          BY <3>0, <5>1
      <4>2. recorded' \subseteq Versions
        BY <3>0
      <4>3. phase' \in [Replicas -> {"down", "serving", "draining"} \union Starting]
        BY <3>0
      <4> QED
        BY <3>0, <4>1, <4>2, <4>3
    <3>2. StartupInv'
      <4>1. recorded' \subseteq schema'
        BY <3>0
      <4>2. 1 .. next'[r] - 1 \subseteq recorded'
        BY <3>0
      <4>3. \A q \in Replicas : q # r => next'[q] = next[q] /\ phase'[q] = phase[q]
        BY <3>0
      <4>4. phase'[r] = "check"
        BY <3>0
      <4> QED
        BY <3>0, <4>1, <4>2, <4>3, <4>4
    <3> QED
      BY <3>1, <3>2
  <2> QED
    BY <2>1, <2>2
<1>5. CASE Seed(r)
  BY <1>5 DEF Seed, Goto, requests
<1>6. CASE ClosePool(r)
  BY <1>6 DEF ClosePool, database, requests
<1>7. CASE Exit(r)
  BY <1>7 DEF Exit, Exits, Goto, InFlight, Fault, database
<1>8. CASE Crash(r)
  BY <1>8 DEF Crash, Exits, Goto, InFlight, Fault, database
<1>9. CASE Signal(r)
  BY <1>9 DEF Signal, Goto, Fault, database, requests
<1> QED
  BY <1>1, <1>2, <1>3, <1>4, <1>5, <1>6, <1>7, <1>8, <1>9

\* Every step of a client's request does so too.
LEMMA ClientStep ==
    ASSUME ServerInv, NEW c \in Clients,
           \/ StatementFails(c) \/ End(c) \/ Statement(c)
           \/ \E r \in Replicas : Send(c, r)
    PROVE  ServerInv'
<1> USE CountsAssumption DEF ServerInv, TypeOK, StartupInv, Versions, Starting, Handling, Answers
<1>1. CASE StatementFails(c)
  BY <1>1 DEF StatementFails, Answer, Fault, database
<1>2. CASE End(c)
  BY <1>2 DEF End, Answer, database
<1>3. CASE Statement(c)
  BY <1>3 DEF Statement, classifyEndNoRows, Answer, database
<1>4. ASSUME NEW r \in Replicas, Send(c, r) PROVE ServerInv'
  BY <1>4 DEF Send, Answer, database
<1> QED
  BY <1>1, <1>2, <1>3, <1>4

\* The inductive invariant of the start: whatever a replica has passed is in
\* the database, under every interleaving of replicas, crashes and requests.
THEOREM StartupInvariant == Spec => []ServerInv
<1>1. Init => ServerInv
  BY CountsAssumption DEF Init, ServerInv, TypeOK, StartupInv, Versions, Starting, Handling, Answers
<1>2. ServerInv /\ [Next]_vars => ServerInv'
  <2> SUFFICES ASSUME ServerInv, [Next]_vars PROVE ServerInv'
    OBVIOUS
  <2>1. CASE UNCHANGED vars
    BY <2>1 DEF vars, ServerInv, TypeOK, StartupInv
  <2>2. CASE Next
    BY <2>2, NextCases, ReplicaStep, ClientStep, Zenon
  <2> QED
    BY <2>1, <2>2
<1> QED
  BY <1>1, <1>2, PTL DEF Spec

\* Type correctness of the server.
THEOREM ServerTypeCorrect == Spec => []TypeOK
BY StartupInvariant, PTL DEF ServerInv

\* A replica that serves has all migrations and all tracks behind it, however
\* starts were cut off and whichever replica did the work.
THEOREM SchemaBeforeServing == Spec => []ServingHasSchema
<1>1. ServerInv => ServingHasSchema
  BY DEF ServerInv, TypeOK, StartupInv, ServingHasSchema
<1> QED
  BY <1>1, StartupInvariant, PTL

-----------------------------------------------------------------------------
\* FinishedOnce without Cardinality.
EndInv ==
    /\ \A c, d \in ended : c = d
    /\ \A c \in Clients :
          /\ call[c] \in {"frames", "events", "200"} => c \in ended
          /\ call[c] = "409" => ended # {}
          /\ call[c] = "classify" => ended # {} \/ c \in early
          /\ c \in early => c \notin ended
          /\ call[c] = "400" => c \in early

\* No step of a replica writes the session or advances a request.
LEMMA ReplicaLeavesRequests ==
    ASSUME TypeOK, EndInv, NEW r \in Replicas,
           \/ Start(r) \/ CheckMigration(r) \/ ApplyMigration(r) \/ RecordMigration(r)
           \/ Seed(r) \/ ClosePool(r) \/ Exit(r) \/ Crash(r) \/ Signal(r)
    PROVE  EndInv' /\ ended' = ended
<1>1. ended' = ended /\ early' = early
  BY DEF Start, CheckMigration, ApplyMigration, RecordMigration, Seed, ClosePool, Exit, Crash, Signal,
         requests
<1>2. \/ call' = call
      \/ call' = [c \in Clients |-> IF c \in InFlight(r) THEN "lost" ELSE call[c]]
  BY DEF Start, CheckMigration, ApplyMigration, RecordMigration, Seed, ClosePool, Exit, Crash, Signal,
         requests, Exits
<1> QED
  BY <1>1, <1>2 DEF EndInv, TypeOK

\* The UPDATE of End takes effect once; the statements after it say nothing
\* that it has not established.
LEMMA ClientKeepsEnd ==
    ASSUME TypeOK, EndInv, NEW c \in Clients,
           \/ StatementFails(c) \/ End(c) \/ Statement(c)
           \/ \E r \in Replicas : Send(c, r)
    PROVE  EndInv' /\ (ended # {} => ended' = ended)
<1> USE DEF EndInv, TypeOK, Answer, Handling
<1>1. CASE StatementFails(c)
  BY <1>1 DEF StatementFails
<1>2. CASE End(c)
  BY <1>2 DEF End
<1>3. CASE Statement(c)
  BY <1>3 DEF Statement, classifyEndNoRows
<1>4. CASE \E r \in Replicas : Send(c, r)
  BY <1>4 DEF Send
<1> QED
  BY <1>1, <1>2, <1>3, <1>4

\* Both facts about a step.
LEMMA StepKeepsEnd ==
    ASSUME TypeOK, EndInv, [Next]_vars
    PROVE  EndInv' /\ (ended # {} => ended' = ended)
<1>1. CASE UNCHANGED vars
  BY <1>1 DEF vars, EndInv
<1>2. CASE Next
  BY <1>2, NextCases, ReplicaLeavesRequests, ClientKeepsEnd, Zenon
<1> QED
  BY <1>1, <1>2

\* The finish is committed at most once and answers are true of it, for any
\* number of clients, repetitions, replicas and faults.
THEOREM SessionEndsOnce == Spec => []FinishedOnce
<1>1. Init => EndInv
  BY DEF Init, EndInv
<1>2. TypeOK /\ EndInv /\ [Next]_vars => EndInv'
  BY StepKeepsEnd
<1>3. TypeOK /\ EndInv => FinishedOnce
  <2> SUFFICES ASSUME TypeOK, EndInv PROVE Cardinality(ended) <= 1
    BY DEF EndInv, FinishedOnce
  <2>1. CASE ended = {}
    BY <2>1, FS_EmptySet
  <2>2. CASE ended # {}
    <3>1. PICK c \in ended : TRUE
      BY <2>2
    <3>2. ended = {c}
      BY <3>1 DEF EndInv
    <3> QED
      BY <3>2, FS_Singleton
  <2> QED
    BY <2>1, <2>2
<1> QED
  BY <1>1, <1>2, <1>3, ServerTypeCorrect, PTL DEF Spec

\* Once committed, the end of the session is never undone nor taken over.
THEOREM SessionEndIsFinal == Spec => EndIsFinal
<1>1. Init => EndInv
  BY DEF Init, EndInv
<1>2. TypeOK /\ EndInv /\ [Next]_vars => EndInv' /\ [ended # {} => ended' = ended]_vars
  BY StepKeepsEnd
<1> QED
  BY <1>1, <1>2, ServerTypeCorrect, PTL DEF Spec, EndIsFinal
=============================================================================
