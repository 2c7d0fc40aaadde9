-------------------------- MODULE AiGatewayProofs --------------------------
(***************************************************************************)
(* The rate limiter keeps its bound for any number of sessions, requests   *)
(* and tokens, whatever the rest of the pipeline does; and what the        *)
(* pipeline behind it promises, for any number of attempts and any         *)
(* backoff: the provider is called by admitted requests only, no retry     *)
(* comes early, a session pays once per answer, and the audit log tells    *)
(* what was answered.                                                      *)
(***************************************************************************)
EXTENDS AiGateway, FiniteSetTheorems, SequenceTheorems, TLAPS

-----------------------------------------------------------------------------
(* The limiter.                                                            *)

Full == Burst * TokenUnits

\* The type of the limiter's state.
LimiterType ==
    /\ clock \in Nat
    /\ bucket \in [Sessions -> [known : BOOLEAN, tokens : 0 .. Full, last : Nat]]
    /\ grants \in [Sessions -> Seq(Nat)]

\* The inductive invariant.
LimiterIndInv == LimiterType /\ LimiterInv /\ RateBound

\* A full bucket holds at least one token.
LEMMA FullHoldsToken == Full \in Nat /\ TokenUnits \in Nat /\ Full >= TokenUnits
<1>1. TokenUnits \in Nat /\ TokenUnits >= 1 /\ Burst \in Nat /\ Burst >= 1
  BY LimitAssumption
<1>2. PICK b \in Nat : Burst = b + 1
  <2>1. Burst - 1 \in Nat /\ Burst = (Burst - 1) + 1
    BY <1>1
  <2> QED BY <2>1
<1>3. b * TokenUnits \in Nat
  BY <1>1, <1>2
<1>4. Burst * TokenUnits = b * TokenUnits + TokenUnits
  BY <1>1, <1>2
<1> QED BY <1>1, <1>3, <1>4 DEF Full

\* (k + 1) tokens are k tokens and one more.
LEMMA OneMoreToken ==
    ASSUME NEW k \in Nat
    PROVE  /\ k * TokenUnits \in Nat
           /\ (k + 1) * TokenUnits = k * TokenUnits + TokenUnits
<1>1. TokenUnits \in Nat
  BY LimitAssumption
<1> QED BY <1>1

\* Waiting longer allows for more.
LEMMA LaterAllowsMore ==
    ASSUME NEW x \in Int, NEW t \in Int, NEW c \in Int, NEW f \in Int,
           NEW now \in Int, NEW last \in Int, NEW g \in Int,
           x <= t + (now - last), t + c <= f + last - g
    PROVE  x + c <= f + now - g
OBVIOUS

\* What fits beside some tokens fits without them.
LEMMA FitsAlone ==
    ASSUME NEW x \in Nat, NEW d \in Int, NEW y \in Int, x + d <= y
    PROVE  d <= y
OBVIOUS

\* Apart from Tick and Allow no step touches the clock or the limiter.
LEMMA OthersLeaveLimiter ==
    ASSUME [Next]_vars
    PROVE  \/ Tick
           \/ \E r \in Requests : Allow(r)
           \/ UNCHANGED <<clock, bucket, grants>>
<1>1. ASSUME NEW r \in Requests, NEW body \in {"invalid", "large", "valid"}, Analyze(r, body)
      PROVE  UNCHANGED <<clock, bucket, grants>>
  BY <1>1 DEF Analyze, limiter
<1>2. ASSUME NEW r \in Requests, Cancel(r)
      PROVE  UNCHANGED <<clock, bucket, grants>>
  BY <1>2 DEF Cancel, limiter
<1>3. ASSUME NEW r \in Requests, Step(r)
      PROVE  Allow(r) \/ UNCHANGED <<clock, bucket, grants>>
  BY <1>3 DEF Step, Call, Succeed, CallFails, Sleep, Wake, RecordResult, Audit, limiter
<1>4. CASE UNCHANGED vars
  BY <1>4 DEF vars, limiter
<1>5. CASE Next
  BY <1>1, <1>2, <1>3, <1>5 DEF Next
<1> QED BY <1>4, <1>5

\* What Allow finds in the bucket is bounded by a full burst and, for every
\* earlier grant, by what has not been spent since.
LEMMA AvailableBound ==
    ASSUME LimiterIndInv, NEW s \in Sessions
    PROVE  /\ Available(bucket[s]) \in 0 .. Full
           /\ \A i \in 1 .. Len(grants[s]) :
                 Available(bucket[s]) + (Len(grants[s]) - i + 1) * TokenUnits
                    <= Full + clock - grants[s][i]
<1> DEFINE b == bucket[s]
           n == Len(grants[s])
<1>1. /\ b.known \in BOOLEAN /\ b.tokens \in 0 .. Full /\ b.last \in Nat
      /\ clock \in Nat /\ grants[s] \in Seq(Nat) /\ n \in Nat
  BY DEF LimiterIndInv, LimiterType
<1>2. /\ b.last <= clock
      /\ ~b.known => grants[s] = <<>>
      /\ \A i \in 1 .. n : b.tokens + (n - i + 1) * TokenUnits <= Full + b.last - grants[s][i]
  BY DEF LimiterIndInv, LimiterInv, Full
<1>3. CASE ~b.known
  <2>1. n = 0
    BY <1>2, <1>3
  <2> QED BY <1>3, <2>1, FullHoldsToken DEF Available, Full
<1>4. CASE b.known
  <2>1. Available(b) = IF Full <= b.tokens + (clock - b.last) THEN Full
                       ELSE b.tokens + (clock - b.last)
    BY <1>4 DEF Available, Refilled, Smaller, Full
  <2>2. Available(b) \in 0 .. Full /\ Available(b) <= b.tokens + (clock - b.last)
    BY <1>1, <1>2, <2>1, FullHoldsToken
  <2>3. ASSUME NEW i \in 1 .. n
        PROVE  Available(b) + (n - i + 1) * TokenUnits <= Full + clock - grants[s][i]
    <3> DEFINE c == (n - i + 1) * TokenUnits
    <3>1. c \in Nat
      <4>1. n - i \in Nat
        BY <1>1
      <4>2. n - i + 1 \in Nat
        BY <4>1
      <4> QED BY <4>2, OneMoreToken
    <3>2. grants[s][i] \in Nat
      BY <1>1
    <3>3. b.tokens + c <= Full + b.last - grants[s][i]
      BY <1>2
    <3>4. Available(b) + c <= Full + clock - grants[s][i]
      <4>1. /\ Available(b) \in Int /\ b.tokens \in Int /\ c \in Int /\ Full \in Int
            /\ clock \in Int /\ b.last \in Int /\ grants[s][i] \in Int
        <5>1. Available(b) \in Int
          BY <2>2, FullHoldsToken
        <5>2. b.tokens \in Int
          BY <1>1, FullHoldsToken
        <5> HIDE DEF b, c, n
        <5> QED BY <1>1, <3>1, <3>2, <5>1, <5>2, FullHoldsToken
      <4>2. Available(b) <= b.tokens + (clock - b.last)
        BY <2>2
      <4> HIDE DEF b, c, n
      <4> QED BY <3>3, <4>1, <4>2, LaterAllowsMore
    <3> QED BY <3>4
  <2> QED BY <2>2, <2>3
<1> QED BY <1>1, <1>3, <1>4

\* A step of Allow keeps the invariant: a grant takes a whole token out of the
\* bucket, and the new grant's own span is covered by the full burst.
LEMMA AllowKeeps ==
    ASSUME LimiterIndInv, NEW r \in Requests, Allow(r)
    PROVE  LimiterIndInv'
<1> DEFINE s == Owner[r]
           n == Len(grants[s])
           a == Available(bucket[s])
<1>0. s \in Sessions
  BY OwnerAssumption
<1>1. /\ clock' = clock /\ clock \in Nat
      /\ grants[s] \in Seq(Nat) /\ n \in Nat
      /\ \A i \in 1 .. n : grants[s][i] \in Nat
  BY <1>0 DEF LimiterIndInv, LimiterType, Allow
<1>2. /\ a \in 0 .. Full
      /\ \A i \in 1 .. n : a + (n - i + 1) * TokenUnits <= Full + clock - grants[s][i]
  BY <1>0, AvailableBound
<1>3. CASE /\ a >= TokenUnits
           /\ bucket' = [bucket EXCEPT ![s] =
                  [known |-> TRUE, tokens |-> a - TokenUnits, last |-> clock]]
           /\ grants' = [grants EXCEPT ![s] = Append(@, clock)]
  <2>1. /\ bucket'[s] = [known |-> TRUE, tokens |-> a - TokenUnits, last |-> clock]
        /\ grants'[s] = Append(grants[s], clock)
        /\ \A q \in Sessions \ {s} : bucket'[q] = bucket[q] /\ grants'[q] = grants[q]
    BY <1>0, <1>3 DEF LimiterIndInv, LimiterType
  <2>2. /\ Len(grants'[s]) = n + 1
        /\ grants'[s][n + 1] = clock
        /\ \A i \in 1 .. n : grants'[s][i] = grants[s][i]
    BY <1>1, <2>1
  <2>3. a - TokenUnits \in 0 .. Full
    BY <1>2, <1>3, FullHoldsToken
  <2>4. LimiterType'
    <3>1. bucket' \in [Sessions -> [known : BOOLEAN, tokens : 0 .. Full, last : Nat]]
      <4>1. [known |-> TRUE, tokens |-> a - TokenUnits, last |-> clock]
                \in [known : BOOLEAN, tokens : 0 .. Full, last : Nat]
        BY <1>1, <2>3
      <4> QED BY <1>0, <1>3, <4>1 DEF LimiterIndInv, LimiterType
    <3>2. grants' \in [Sessions -> Seq(Nat)]
      <4>1. Append(grants[s], clock) \in Seq(Nat)
        BY <1>1
      <4> QED BY <1>0, <1>3, <4>1 DEF LimiterIndInv, LimiterType
    <3> QED BY <1>1, <3>1, <3>2 DEF LimiterType, Full
  <2>5. ASSUME NEW i \in 1 .. n + 1
        PROVE  (a - TokenUnits) + (n + 1 - i + 1) * TokenUnits
                  <= Full + clock - grants'[s][i]
    <3>1. CASE i = n + 1
      <4>1. (n + 1 - i + 1) * TokenUnits = TokenUnits
        BY <1>1, <3>1, FullHoldsToken
      <4> QED BY <1>1, <1>2, <2>2, <3>1, <4>1, FullHoldsToken
    <3>2. CASE i \in 1 .. n
      <4>1. n - i + 1 \in Nat
        <5>1. n \in Nat
          BY <1>1
        <5> HIDE DEF n
        <5> QED BY <3>2, <5>1
      <4> DEFINE c == (n - i + 1) * TokenUnits
      <4>2. c \in Nat /\ (n - i + 1 + 1) * TokenUnits = c + TokenUnits
        BY <4>1, OneMoreToken
      <4>3. n + 1 - i + 1 = n - i + 1 + 1
        BY <1>1, <3>2
      <4>4. a + c <= Full + clock - grants[s][i]
        BY <1>2, <3>2
      <4>5. (n + 1 - i + 1) * TokenUnits = c + TokenUnits
        BY <4>2, <4>3
      <4>6. grants'[s][i] = grants[s][i] /\ grants[s][i] \in Nat
        BY <1>1, <2>2, <3>2
      <4> HIDE DEF c, a
      <4> QED BY <1>1, <1>2, <4>2, <4>4, <4>5, <4>6, FullHoldsToken
    <3> QED BY <1>1, <3>1, <3>2
  <2>6. LimiterInv'
    <3> SUFFICES ASSUME NEW q \in Sessions
                 PROVE  /\ bucket'[q].last <= clock'
                        /\ ~bucket'[q].known => grants'[q] = <<>>
                        /\ \A i \in 1 .. Len(grants'[q]) :
                              bucket'[q].tokens + (Len(grants'[q]) - i + 1) * TokenUnits
                                 <= Full + bucket'[q].last - grants'[q][i]
      BY DEF LimiterInv, Full
    <3>1. CASE q = s
      <4>1. bucket'[q].last = clock /\ bucket'[q].known /\ bucket'[q].tokens = a - TokenUnits
        BY <2>1, <3>1
      <4>2. Len(grants'[q]) = n + 1
        BY <2>2, <3>1
      <4> HIDE DEF a, n, s
      <4> QED BY <1>1, <2>5, <3>1, <4>1, <4>2
    <3>2. CASE q # s
      BY <1>1, <2>1, <3>2 DEF LimiterIndInv, LimiterInv, Full
    <3> QED BY <3>1, <3>2
  <2>7. RateBound'
    <3> SUFFICES ASSUME NEW q \in Sessions,
                        NEW i \in 1 .. Len(grants'[q]), NEW j \in 1 .. Len(grants'[q]), i <= j
                 PROVE  (j - i + 1) * TokenUnits <= Full + grants'[q][j] - grants'[q][i]
      BY DEF RateBound, Full
    <3>1. CASE q # s
      BY <2>1, <3>1 DEF LimiterIndInv, RateBound, Full
    <3>2. CASE q = s /\ j <= n
      <4>1. i \in 1 .. n /\ j \in 1 .. n
        BY <1>1, <2>2, <3>2
      <4>2. (j - i + 1) * TokenUnits <= Full + grants[s][j] - grants[s][i]
        BY <1>0, <4>1 DEF LimiterIndInv, RateBound, Full
      <4> QED BY <2>2, <3>2, <4>1, <4>2
    <3>3. CASE q = s /\ j = n + 1
      <4>1. i \in 1 .. n + 1 /\ j - i + 1 = n + 1 - i + 1 /\ n + 1 - i \in Nat
        BY <1>1, <2>2, <3>3
      <4> DEFINE d == (n + 1 - i + 1) * TokenUnits
      <4>2. (a - TokenUnits) + d <= Full + clock - grants'[s][i]
        BY <2>5, <4>1
      <4>3. d \in Nat
        <5>1. n + 1 - i + 1 \in Nat
          BY <4>1
        <5> QED BY <5>1, OneMoreToken
      <4>4. (j - i + 1) * TokenUnits = d
        BY <4>1
      <4>5. grants'[s][i] \in Nat
        <5>1. CASE i = n + 1
          BY <1>1, <2>2, <5>1
        <5>2. CASE i \in 1 .. n
          BY <1>1, <2>2, <5>2
        <5>3. i = n + 1 \/ i \in 1 .. n
          <6> HIDE DEF n, s
          <6> QED BY <1>1, <4>1
        <5> QED BY <5>1, <5>2, <5>3
      <4>6. grants'[q][j] = clock /\ grants'[q][i] = grants'[s][i]
        BY <2>2, <3>3
      <4>7. a - TokenUnits \in Nat
        BY <2>3, FullHoldsToken
      <4>8. Full + clock - grants'[s][i] \in Int
        <5> HIDE DEF s, n
        <5> QED BY <1>1, <4>5, FullHoldsToken
      <4> HIDE DEF d, a, s, n
      <4>9. d <= Full + clock - grants'[s][i]
        BY <4>2, <4>3, <4>7, <4>8, FitsAlone
      <4> QED BY <4>4, <4>6, <4>9
    <3> QED BY <1>1, <2>2, <3>1, <3>2, <3>3
  <2> QED BY <2>4, <2>6, <2>7 DEF LimiterIndInv
<1>4. CASE /\ bucket' = [bucket EXCEPT ![s] = [known |-> TRUE, tokens |-> a, last |-> clock]]
           /\ UNCHANGED grants
  <2>1. /\ bucket'[s] = [known |-> TRUE, tokens |-> a, last |-> clock]
        /\ \A q \in Sessions \ {s} : bucket'[q] = bucket[q]
    BY <1>0, <1>4 DEF LimiterIndInv, LimiterType
  <2>2. LimiterType'
    <3>1. [known |-> TRUE, tokens |-> a, last |-> clock]
              \in [known : BOOLEAN, tokens : 0 .. Full, last : Nat]
      BY <1>1, <1>2
    <3> QED BY <1>0, <1>1, <1>4, <3>1 DEF LimiterIndInv, LimiterType, Full
  <2>3. LimiterInv'
    <3> SUFFICES ASSUME NEW q \in Sessions
                 PROVE  /\ bucket'[q].last <= clock'
                        /\ ~bucket'[q].known => grants'[q] = <<>>
                        /\ \A i \in 1 .. Len(grants'[q]) :
                              bucket'[q].tokens + (Len(grants'[q]) - i + 1) * TokenUnits
                                 <= Full + bucket'[q].last - grants'[q][i]
      BY DEF LimiterInv, Full
    <3>1. CASE q = s
      <4>1. bucket'[q].last = clock /\ bucket'[q].known /\ bucket'[q].tokens = a
        BY <2>1, <3>1
      <4>2. grants'[q] = grants[s]
        BY <1>4, <3>1
      <4> HIDE DEF a
      <4> QED BY <1>1, <1>2, <4>1, <4>2
    <3>2. CASE q # s
      BY <1>1, <1>4, <2>1, <3>2 DEF LimiterIndInv, LimiterInv, Full
    <3> QED BY <3>1, <3>2
  <2>4. RateBound'
    BY <1>4 DEF LimiterIndInv, RateBound
  <2> QED BY <2>2, <2>3, <2>4 DEF LimiterIndInv
<1> QED BY <1>3, <1>4 DEF Allow, Enough

\* The strengthened bound is an invariant of the pipeline.
THEOREM LimiterInvariant == Spec => []LimiterIndInv
<1>1. Init => LimiterIndInv
  BY FullHoldsToken DEF Init, LimiterIndInv, LimiterType, LimiterInv, RateBound
<1>2. LimiterIndInv /\ [Next]_vars => LimiterIndInv'
  <2> SUFFICES ASSUME LimiterIndInv, [Next]_vars PROVE LimiterIndInv'
    OBVIOUS
  <2>1. CASE Tick
    <3>1. clock' = clock + 1 /\ bucket' = bucket /\ grants' = grants
      BY <2>1 DEF Tick, limiter
    <3>2. LimiterType'
      BY <3>1 DEF LimiterIndInv, LimiterType
    <3>3. LimiterInv'
      BY <3>1 DEF LimiterIndInv, LimiterType, LimiterInv
    <3>4. RateBound'
      BY <3>1 DEF LimiterIndInv, RateBound
    <3> QED BY <3>2, <3>3, <3>4 DEF LimiterIndInv
  <2>2. CASE \E r \in Requests : Allow(r)
    BY <2>2, AllowKeeps
  <2>3. CASE UNCHANGED <<clock, bucket, grants>>
    BY <2>3 DEF LimiterIndInv, LimiterType, LimiterInv, RateBound
  <2> QED BY <2>1, <2>2, <2>3, OthersLeaveLimiter
<1> QED BY <1>1, <1>2, PTL DEF Spec

\* In any span of time, RateLimiter.Allow lets through at most a full burst plus
\* what is refilled in that span.
THEOREM RateIsBounded == Spec => []RateBound
<1>1. LimiterIndInv => RateBound
  BY DEF LimiterIndInv
<1> QED BY <1>1, LimiterInvariant, PTL

-----------------------------------------------------------------------------
(* The pipeline.                                                           *)


\* A request that the limiter let through and that is not answered yet.
Underway == {"call", "calling", "retry", "sleep"}

AuditRecords == [request : Requests, status : Statuses]

PipelineType ==
    /\ mode \in Modes
    /\ usage \in [Sessions -> Nat]
    /\ audit \in Seq(AuditRecords)
    /\ pc \in [Requests -> Labels]
    /\ cancelled \in [Requests -> BOOLEAN]
    /\ calls \in [Requests -> Nat]
    /\ loop \in [Requests -> Locals]
    /\ status \in [Requests -> Statuses]
    /\ served \subseteq Requests

\* The attempts of a request: none before the limiter, and always one left when
\* the loop goes round again.
AttemptsInv ==
    \A r \in Requests :
        /\ pc[r] \in {"idle", "limit"} => calls[r] = 0
        /\ pc[r] \in {"call", "retry", "sleep"} => calls[r] < MaxAttempts
        /\ pc[r] \in {"calling", "retry", "sleep"} => calls[r] > 0
        /\ calls[r] <= MaxAttempts

\* The timer of a sleeping request does not fire before what it owes since its last
\* error is over, and a request about to call again has waited.
WaitInv ==
    \A r \in Requests :
        LET due == loop[r].failed + Owed(calls[r], loop[r].err) IN
        /\ loop[r].failed <= clock
        /\ pc[r] = "sleep" => due <= loop[r].wake
        /\ pc[r] = "call" /\ calls[r] > 0 => due <= clock

\* The requests that took a token, as far as the state still shows it.
TookToken(s) == {r \in Requests : Owner[r] = s /\ (pc[r] \in Underway \/ calls[r] > 0)}

\* Every one of them is a grant.
AdmittedInv ==
    \A s \in Sessions :
        IsFiniteSet(TookToken(s)) /\ Cardinality(TookToken(s)) <= Len(grants[s])

Charged(s) == {r \in served : Owner[r] = s /\ pc[r] # "record"}

\* An answer is charged in the step after it came, and a request gets one answer.
UsageInv ==
    /\ \A s \in Sessions : IsFiniteSet(Charged(s)) /\ usage[s] = Cardinality(Charged(s))
    /\ \A r \in Requests :
          /\ pc[r] = "record" => r \in served
          /\ r \in served => pc[r] \in {"record", "audit", "answered"}
          /\ status[r] = "success" => r \in served

\* Only answered requests are in the log, each of them once.
AuditInv ==
    /\ \A i \in 1 .. Len(audit) :
          /\ pc[audit[i].request] = "answered"
          /\ audit[i].status = status[audit[i].request]
    /\ \A i, j \in 1 .. Len(audit) : audit[i].request = audit[j].request => i = j
    /\ \A r \in Requests : mode = "memory" /\ pc[r] = "answered" => Recorded(r) # {}

PipelineInv ==
    /\ LimiterIndInv /\ PipelineType /\ AttemptsInv /\ WaitInv /\ AdmittedInv
    /\ UsageInv /\ AuditInv

-----------------------------------------------------------------------------
(* Delays.                                                                 *)

\* A set with n elements has 2 ^ n subsets: the power of a natural number.
LEMMA PowerIsNat ==
    ASSUME NEW n \in Nat
    PROVE  2 ^ n \in Nat
<1>1. IsFiniteSet(1 .. n) /\ Cardinality(1 .. n) = n
  BY FS_Interval
<1>2. IsFiniteSet(SUBSET (1 .. n)) /\ Cardinality(SUBSET (1 .. n)) = 2 ^ n
  BY <1>1, FS_SUBSET
<1> QED BY <1>2, FS_CardinalityType

\* A duration that wrapped around is still a whole number, of either sign.
LEMMA WrappedIsInt ==
    ASSUME NEW n \in Nat
    PROVE  Wrapped(n) \in Int /\ (n <= MaxDuration => Wrapped(n) = n)
<1> DEFINE half == MaxDuration + 1
           m == 2 * half
           x == n + MaxDuration + 1
<1>1. half \in Nat /\ m \in Nat \ {0} /\ x \in Nat
  BY DurationAssumption
<1>2. Wrapped(n) = IF n <= MaxDuration THEN n ELSE (x % m) - half
  BY DEF Wrapped
<1> HIDE DEF half, m, x
<1>3. x % m \in Int
  BY <1>1
<1>4. (x % m) - half \in Int
  BY <1>1, <1>3
<1> QED BY <1>2, <1>4

\* What an error calls for is a time, and the delay after an attempt is at least as
\* long; only where nothing is owed may the delay be negative.
LEMMA DelayCoversOwed ==
    ASSUME NEW n \in Nat \ {0}, NEW e \in Errors \cup {NoError}
    PROVE  /\ Owed(n, e) \in Nat /\ retryDelay(n, e) \in Int
           /\ Owed(n, e) = 0 \/ Owed(n, e) <= retryDelay(n, e)
<1>1. n - 1 \in Nat
  OBVIOUS
<1>2. 2 ^ (n - 1) \in Nat
  BY <1>1, PowerIsNat
<1>3. ASSUME NEW p \in Nat
      PROVE  Smaller(MaxBackoff, BaseBackoff * p) \in Nat
  BY BackoffAssumption DEF Smaller
<1>4. Backoff(n) \in Nat
  BY <1>2, <1>3 DEF Backoff
<1>5. e.after \in Nat
  <2>1. CASE e \in [kind : {"not_available", "timeout", "rejected", "no_choices"}, after : {0}]
    BY <2>1
  <2>2. CASE e \in [kind : {"rate_limit"}, after : RetryAfters]
    BY <2>2, BackoffAssumption
  <2>3. CASE e = NoError
    BY <2>3 DEF NoError
  <2> QED BY <2>1, <2>2, <2>3 DEF Errors
<1> DEFINE asks == e.kind = "rate_limit" /\ e.after > 0
           exact == e.after * Second
<1>6. exact \in Nat
  BY <1>5, DurationAssumption
<1>7. Wrapped(exact) \in Int /\ (exact <= MaxDuration => Wrapped(exact) = exact)
  BY <1>6, WrappedIsInt
<1>8. MaxDuration \in Nat
  BY DurationAssumption
<1>9. /\ retryDelay(n, e) = IF asks THEN Wrapped(exact) ELSE Backoff(n)
      /\ Owed(n, e) = IF asks THEN (IF exact <= MaxDuration THEN exact ELSE 0) ELSE Backoff(n)
  <2>1. exact > MaxDuration <=> ~(exact <= MaxDuration)
    BY <1>6, <1>8
  <2>2. retryDelay(n, e) = IF asks THEN Wrapped(exact) ELSE Backoff(n)
    BY DEF retryDelay
  <2>3. Owed(n, e) = IF asks THEN (IF exact <= MaxDuration THEN exact ELSE 0) ELSE Backoff(n)
    BY <2>1 DEF Owed
  <2> QED BY <2>2, <2>3
<1> HIDE DEF asks, exact
<1> QED BY <1>4, <1>6, <1>7, <1>9

-----------------------------------------------------------------------------
(* Types.                                                                  *)

\* The locals start within their type, and every error has a status.
LEMMA ErrorLocals ==
    /\ NoLocals \in Locals
    /\ \A e \in Errors : statusFromError(e) \in Statuses
<1>1. NoLocals \in Locals
  BY DEF NoLocals, Locals, NoError
<1>2. ASSUME NEW e \in Errors
      PROVE  statusFromError(e) \in Statuses
  BY DEF statusFromError, Statuses
<1> QED BY <1>1, <1>2

\* The inner service returns.
LEMMA ReturnTyped ==
    ASSUME PipelineType, NEW r \in Requests, NEW label \in Labels, NEW outcome \in Statuses,
           Return(r, label, outcome)
    PROVE  /\ pc' \in [Requests -> Labels]
           /\ loop' \in [Requests -> Locals]
           /\ status' \in [Requests -> Statuses]
BY ErrorLocals DEF PipelineType, Return, Goto

\* Every step of a request keeps the types.
LEMMA StepTyped ==
    ASSUME PipelineType, LimiterType, AttemptsInv, NEW r \in Requests, Step(r)
    PROVE  PipelineType'
<1>0. clock \in Nat /\ Owner[r] \in Sessions
  BY OwnerAssumption DEF LimiterType
<1>1. CASE Allow(r)
  <2>1. UNCHANGED <<mode, usage, audit, cancelled, calls, served>>
    BY <1>1 DEF Allow, records
  <2>2. CASE Goto(r, "call") /\ UNCHANGED <<loop, status>>
    BY <2>1, <2>2 DEF PipelineType, Goto, Labels
  <2>3. CASE Finish(r, "rate_limited")
    <3>1. "audit" \in Labels /\ "rate_limited" \in Statuses
      BY DEF Labels, Statuses
    <3>2. Return(r, "audit", "rate_limited")
      BY <2>3 DEF Finish
    <3> QED BY <2>1, <3>1, <3>2, ReturnTyped DEF PipelineType
  <2> QED BY <1>1, <2>2, <2>3 DEF Allow
<1>2. CASE Call(r)
  <2>1. UNCHANGED <<mode, usage, audit, cancelled, status, served>>
    BY <1>2 DEF Call, records
  <2>2. calls' \in [Requests -> Nat] /\ pc' \in [Requests -> Labels]
    BY <1>2 DEF Call, Goto, PipelineType, Labels
  <2>3. loop' \in [Requests -> Locals]
    <3>0. (~cancelled[r]) \in BOOLEAN
      BY Zenon
    <3>1. loop' = [loop EXCEPT ![r] = [loop[r] EXCEPT !.reached = ~cancelled[r]]]
      BY <1>2 DEF Call, PipelineType
    <3>2. ASSUME NEW b \in BOOLEAN
          PROVE  [loop[r] EXCEPT !.reached = b] \in Locals
      <4>1. loop[r] \in Locals
        BY DEF PipelineType
      <4> QED BY <4>1 DEF Locals
    <3>3. [loop[r] EXCEPT !.reached = ~cancelled[r]] \in Locals
      BY <3>0, <3>2, Zenon
    <3> QED BY <3>1, <3>3 DEF PipelineType
  <2> QED BY <2>1, <2>2, <2>3 DEF PipelineType
<1>3. ASSUME NEW outcome \in {"success", "invalid_response"}, Succeed(r, outcome)
      PROVE  PipelineType'
  <2>1. UNCHANGED <<mode, usage, audit, cancelled, calls>> /\ served' \subseteq Requests
    BY <1>3 DEF Succeed, records, PipelineType
  <2>2. "record" \in Labels /\ outcome \in Statuses /\ Return(r, "record", outcome)
    BY <1>3 DEF Labels, Statuses, Succeed
  <2> QED BY <2>1, <2>2, ReturnTyped DEF PipelineType
<1>4. ASSUME NEW e \in Errors, CallFails(r, e)
      PROVE  PipelineType'
  <2>1. UNCHANGED <<mode, usage, audit, cancelled, calls, served>>
    BY <1>4 DEF CallFails, records
  <2>2. CASE /\ Goto(r, "retry") /\ UNCHANGED status
             /\ loop' = [loop EXCEPT ![r].err = e, ![r].failed = clock, ![r].reached = FALSE]
    <3>1. loop' = [loop EXCEPT ![r] = [loop[r] EXCEPT !.err = e, !.failed = clock, !.reached = FALSE]]
      BY <2>2 DEF PipelineType
    <3>2. [loop[r] EXCEPT !.err = e, !.failed = clock, !.reached = FALSE] \in Locals
      <4>1. loop[r] \in Locals
        BY DEF PipelineType
      <4> QED BY <1>0, <4>1 DEF Locals
    <3>3. loop' \in [Requests -> Locals]
      BY <3>1, <3>2 DEF PipelineType
    <3> QED BY <2>1, <2>2, <3>3 DEF PipelineType, Goto, Labels
  <2>3. CASE Finish(r, statusFromError(e))
    <3>1. "audit" \in Labels /\ statusFromError(e) \in Statuses
      BY ErrorLocals DEF Labels
    <3>2. Return(r, "audit", statusFromError(e))
      BY <2>3 DEF Finish
    <3> QED BY <2>1, <3>1, <3>2, ReturnTyped DEF PipelineType
  <2> QED BY <1>4, <2>2, <2>3 DEF CallFails
<1>5. CASE Sleep(r)
  <2> DEFINE delay == retryDelay(calls[r], loop[r].err)
  <2>1. UNCHANGED <<mode, usage, audit, cancelled, calls, served>>
    BY <1>5 DEF Sleep, records
  <2>2. CASE Finish(r, "provider_error")
    <3>1. "audit" \in Labels /\ "provider_error" \in Statuses
      BY DEF Labels, Statuses
    <3>2. Return(r, "audit", "provider_error")
      BY <2>2 DEF Finish
    <3> QED BY <2>1, <3>1, <3>2, ReturnTyped DEF PipelineType
  <2>3. CASE /\ loop' = [loop EXCEPT ![r].wake = IF delay > 0 THEN clock + delay ELSE clock]
             /\ Goto(r, IF delay > 0 THEN "sleep" ELSE "call")
             /\ UNCHANGED status
    <3>1. delay \in Int
      <4>1. pc[r] = "retry" /\ calls[r] \in Nat \ {0} /\ loop[r].err \in Errors \cup {NoError}
        BY <1>5 DEF Sleep, PipelineType, AttemptsInv, Locals
      <4> QED BY <4>1, DelayCoversOwed
    <3> HIDE DEF delay
    <3>2. loop' \in [Requests -> Locals]
      <4> DEFINE wake == IF delay > 0 THEN clock + delay ELSE clock
      <4>1. loop' = [loop EXCEPT ![r] = [loop[r] EXCEPT !.wake = wake]]
        BY <2>3 DEF PipelineType
      <4>2. wake \in Nat /\ loop[r] \in Locals
        BY <1>0, <3>1 DEF PipelineType
      <4> HIDE DEF wake
      <4>3. [loop[r] EXCEPT !.wake = wake] \in Locals
        BY <4>2 DEF Locals
      <4> QED BY <4>1, <4>3 DEF PipelineType
    <3>3. pc' \in [Requests -> Labels]
      BY <2>3 DEF PipelineType, Goto, Labels
    <3> QED BY <2>1, <2>3, <3>2, <3>3 DEF PipelineType
  <2> QED BY <1>5, <2>2, <2>3 DEF Sleep
<1>6. CASE Wake(r)
  <2>1. UNCHANGED <<mode, usage, audit, cancelled, calls, served>>
    BY <1>6 DEF Wake, records
  <2>2. CASE Goto(r, "call") /\ UNCHANGED <<loop, status>>
    BY <2>1, <2>2 DEF PipelineType, Goto, Labels
  <2>3. CASE Finish(r, "provider_error")
    <3>1. "audit" \in Labels /\ "provider_error" \in Statuses
      BY DEF Labels, Statuses
    <3>2. Return(r, "audit", "provider_error")
      BY <2>3 DEF Finish
    <3> QED BY <2>1, <3>1, <3>2, ReturnTyped DEF PipelineType
  <2> QED BY <1>6, <2>2, <2>3 DEF Wake
<1>7. CASE RecordResult(r)
  BY <1>0, <1>7 DEF RecordResult, PipelineType, Goto, Labels
<1>8. CASE Audit(r)
  <2>1. /\ UNCHANGED <<mode, usage, cancelled, calls, loop, status, served>>
        /\ pc' \in [Requests -> Labels]
    BY <1>8 DEF Audit, Goto, PipelineType, Labels
  <2>2. [request |-> r, status |-> status[r]] \in AuditRecords
    BY DEF AuditRecords, PipelineType
  <2>3. audit' \in Seq(AuditRecords)
    <3>1. audit \in Seq(AuditRecords)
      BY DEF PipelineType
    <3>2. Append(audit, [request |-> r, status |-> status[r]]) \in Seq(AuditRecords)
      BY <2>2, <3>1, AppendProperties
    <3>3. audit' = audit \/ audit' = Append(audit, [request |-> r, status |-> status[r]])
      BY <1>8 DEF Audit
    <3> QED BY <3>1, <3>2, <3>3
  <2> QED BY <2>1, <2>3 DEF PipelineType
<1> QED BY <1>1, <1>2, <1>3, <1>4, <1>5, <1>6, <1>7, <1>8 DEF Step

\* So does its arrival.
LEMMA AnalyzeTyped ==
    ASSUME PipelineType, NEW r \in Requests, NEW body \in {"invalid", "large", "valid"},
           Analyze(r, body)
    PROVE  PipelineType'
<1>1. UNCHANGED <<mode, usage, audit, cancelled, calls, served>>
  BY DEF Analyze, records
<1>2. ASSUME NEW outcome \in {"error", "budget_limited"}, Finish(r, outcome)
      PROVE  PipelineType'
  <2>1. "audit" \in Labels /\ outcome \in Statuses
    BY DEF Labels, Statuses
  <2>2. Return(r, "audit", outcome)
    BY <1>2 DEF Finish
  <2> QED BY <1>1, <2>1, <2>2, ReturnTyped DEF PipelineType
<1>3. CASE Goto(r, "limit") /\ UNCHANGED <<loop, status>>
  BY <1>1, <1>3 DEF PipelineType, Goto, Labels
<1> QED BY <1>2, <1>3 DEF Analyze

-----------------------------------------------------------------------------
(* A step of the pipeline concerns one request.                            *)

\* The requests that do not move keep their state.
LEMMA OthersStay ==
    ASSUME PipelineType, NEW r \in Requests,
           Step(r) \/ (\E body \in {"invalid", "large", "valid"} : Analyze(r, body)),
           NEW q \in Requests, q # r
    PROVE  /\ pc'[q] = pc[q] /\ calls'[q] = calls[q]
           /\ loop'[q] = loop[q] /\ status'[q] = status[q]
<1>1. ASSUME NEW label, NEW outcome, Return(r, label, outcome)
      PROVE  pc'[q] = pc[q] /\ loop'[q] = loop[q] /\ status'[q] = status[q]
  BY <1>1 DEF Return, Goto, PipelineType
<1>2. ASSUME NEW label, Goto(r, label)
      PROVE  pc'[q] = pc[q]
  BY <1>2 DEF Goto, PipelineType
<1>3. ASSUME NEW body \in {"invalid", "large", "valid"}, Analyze(r, body)
      PROVE  /\ pc'[q] = pc[q] /\ calls'[q] = calls[q]
             /\ loop'[q] = loop[q] /\ status'[q] = status[q]
  BY <1>1, <1>2, <1>3 DEF Analyze, Finish
<1>4. CASE Allow(r)
  BY <1>1, <1>2, <1>4 DEF Allow, Finish
<1>5. CASE Call(r)
  BY <1>2, <1>5 DEF Call, PipelineType
<1>6. ASSUME NEW outcome, Succeed(r, outcome)
      PROVE  /\ pc'[q] = pc[q] /\ calls'[q] = calls[q]
             /\ loop'[q] = loop[q] /\ status'[q] = status[q]
  BY <1>1, <1>6 DEF Succeed
<1>7. ASSUME NEW e, CallFails(r, e)
      PROVE  /\ pc'[q] = pc[q] /\ calls'[q] = calls[q]
             /\ loop'[q] = loop[q] /\ status'[q] = status[q]
  <2>1. calls'[q] = calls[q]
    BY <1>7 DEF CallFails
  <2>2. CASE /\ Goto(r, "retry") /\ UNCHANGED status
             /\ loop' = [loop EXCEPT ![r].err = e, ![r].failed = clock, ![r].reached = FALSE]
    BY <1>2, <2>1, <2>2 DEF PipelineType
  <2>3. CASE Return(r, "audit", statusFromError(e))
    BY <1>1, <2>1, <2>3
  <2> QED BY <1>7, <2>2, <2>3 DEF CallFails, Finish
<1>8. CASE Sleep(r)
  <2> DEFINE delay == retryDelay(calls[r], loop[r].err)
  <2>1. calls'[q] = calls[q]
    BY <1>8 DEF Sleep
  <2>2. CASE /\ loop' = [loop EXCEPT ![r].wake = IF delay > 0 THEN clock + delay ELSE clock]
             /\ Goto(r, IF delay > 0 THEN "sleep" ELSE "call")
             /\ UNCHANGED status
    <3> HIDE DEF delay
    <3> QED BY <1>2, <2>1, <2>2 DEF PipelineType
  <2>3. CASE Return(r, "audit", "provider_error")
    BY <1>1, <2>1, <2>3
  <2> QED BY <1>8, <2>2, <2>3 DEF Sleep, Finish
<1>9. CASE Wake(r)
  BY <1>1, <1>2, <1>9 DEF Wake, Finish
<1>10. CASE RecordResult(r)
  BY <1>2, <1>10 DEF RecordResult
<1>11. CASE Audit(r)
  BY <1>2, <1>11 DEF Audit
<1> QED BY <1>3, <1>4, <1>5, <1>6, <1>7, <1>8, <1>9, <1>10, <1>11 DEF Step

\* What a step does to the request it concerns.
LEMMA OwnMove ==
    ASSUME PipelineType, NEW r \in Requests,
           Step(r) \/ (\E body \in {"invalid", "large", "valid"} : Analyze(r, body))
    PROVE  \/ /\ pc[r] \in {"idle", "limit", "calling", "retry", "sleep"} /\ pc'[r] = "audit"
              /\ calls'[r] = calls[r] /\ status'[r] # "success" /\ served' = served
              /\ loop'[r] = NoLocals
           \/ /\ pc[r] = "idle" /\ pc'[r] = "limit"
              /\ calls'[r] = calls[r] /\ status'[r] = status[r] /\ served' = served
              /\ loop'[r] = loop[r]
           \/ /\ pc[r] = "limit" /\ pc'[r] = "call"
              /\ calls'[r] = calls[r] /\ status'[r] = status[r] /\ served' = served
              /\ loop'[r] = loop[r]
           \/ /\ pc[r] = "call" /\ pc'[r] = "calling"
              /\ calls'[r] = calls[r] + 1 /\ status'[r] = status[r] /\ served' = served
              /\ loop'[r].failed = loop[r].failed
           \/ /\ pc[r] = "calling" /\ pc'[r] = "record"
              /\ calls'[r] = calls[r] /\ served' = served \cup {r}
              /\ loop'[r] = NoLocals
           \/ /\ pc[r] = "calling" /\ pc'[r] = "retry" /\ calls[r] < MaxAttempts
              /\ calls'[r] = calls[r] /\ status'[r] = status[r] /\ served' = served
              /\ loop'[r].failed = clock
           \/ /\ pc[r] = "retry" /\ pc'[r] \in {"sleep", "call"}
              /\ calls'[r] = calls[r] /\ status'[r] = status[r] /\ served' = served
              /\ loop'[r].failed = loop[r].failed /\ loop'[r].err = loop[r].err
              /\ LET delay == retryDelay(calls[r], loop[r].err) IN
                 IF delay > 0 THEN pc'[r] = "sleep" /\ loop'[r].wake = clock + delay
                              ELSE pc'[r] = "call"
           \/ /\ pc[r] = "sleep" /\ pc'[r] = "call" /\ clock >= loop[r].wake
              /\ calls'[r] = calls[r] /\ status'[r] = status[r] /\ served' = served
              /\ loop'[r] = loop[r]
           \/ /\ pc[r] = "record" /\ pc'[r] = "audit"
              /\ calls'[r] = calls[r] /\ status'[r] = status[r] /\ served' = served
              /\ loop'[r] = loop[r]
           \/ /\ pc[r] = "audit" /\ pc'[r] = "answered"
              /\ calls'[r] = calls[r] /\ status'[r] = status[r] /\ served' = served
              /\ loop'[r] = loop[r]
<1>1. ASSUME NEW label, NEW outcome, Return(r, label, outcome)
      PROVE  pc'[r] = label /\ status'[r] = outcome /\ loop'[r] = NoLocals
  BY <1>1 DEF Return, Goto, PipelineType
<1>2. ASSUME NEW label, Goto(r, label)
      PROVE  pc'[r] = label
  BY <1>2 DEF Goto, PipelineType
<1>3. ASSUME NEW body \in {"invalid", "large", "valid"}, Analyze(r, body)
      PROVE  \/ /\ pc[r] = "idle" /\ pc'[r] = "audit"
                /\ calls'[r] = calls[r] /\ status'[r] # "success" /\ served' = served
                /\ loop'[r] = NoLocals
             \/ /\ pc[r] = "idle" /\ pc'[r] = "limit"
                /\ calls'[r] = calls[r] /\ status'[r] = status[r] /\ served' = served
                /\ loop'[r] = loop[r]
  BY <1>1, <1>2, <1>3 DEF Analyze, Finish
<1>4. CASE Allow(r)
  <2>1. \/ Goto(r, "call") /\ UNCHANGED <<loop, status>>
        \/ Finish(r, "rate_limited")
    BY <1>4 DEF Allow
  <2>2. pc[r] = "limit" /\ UNCHANGED <<calls, served>>
    BY <1>4 DEF Allow
  <2> QED BY <1>1, <1>2, <2>1, <2>2 DEF Finish
<1>5. CASE Call(r)
  <2>1. pc[r] = "call" /\ pc'[r] = "calling" /\ UNCHANGED <<status, served>>
    BY <1>2, <1>5 DEF Call
  <2>2. calls'[r] = calls[r] + 1
    BY <1>5 DEF Call, PipelineType
  <2>3. loop'[r].failed = loop[r].failed
    <3>1. loop[r] \in Locals
      BY DEF PipelineType
    <3>2. loop'[r] = [loop[r] EXCEPT !.reached = ~cancelled[r]]
      BY <1>5 DEF Call, PipelineType
    <3> QED BY <3>1, <3>2 DEF Locals
  <2> QED BY <2>1, <2>2, <2>3
<1>6. ASSUME NEW outcome, Succeed(r, outcome)
      PROVE  /\ pc[r] = "calling" /\ pc'[r] = "record"
             /\ calls'[r] = calls[r] /\ served' = served \cup {r}
             /\ loop'[r] = NoLocals
  BY <1>1, <1>6 DEF Succeed
<1>7. ASSUME NEW e \in Errors, CallFails(r, e)
      PROVE  \/ /\ pc[r] = "calling" /\ pc'[r] = "audit"
                /\ calls'[r] = calls[r] /\ status'[r] # "success" /\ served' = served
                /\ loop'[r] = NoLocals
             \/ /\ pc[r] = "calling" /\ pc'[r] = "retry" /\ calls[r] < MaxAttempts
                /\ calls'[r] = calls[r] /\ status'[r] = status[r] /\ served' = served
                /\ loop'[r].failed = clock
  <2>1. pc[r] = "calling" /\ UNCHANGED <<calls, served>>
    BY <1>7 DEF CallFails
  <2>2. CASE /\ RetriesLeft(r) /\ Goto(r, "retry") /\ UNCHANGED status
             /\ loop' = [loop EXCEPT ![r].err = e, ![r].failed = clock, ![r].reached = FALSE]
    <3>1. loop[r] \in Locals
      BY DEF PipelineType
    <3>2. loop'[r] = [loop[r] EXCEPT !.err = e, !.failed = clock, !.reached = FALSE]
      BY <2>2 DEF PipelineType
    <3>3. loop'[r].failed = clock
      BY <3>1, <3>2 DEF Locals
    <3> QED BY <1>2, <2>1, <2>2, <3>3 DEF RetriesLeft
  <2>3. CASE Return(r, "audit", statusFromError(e))
    <3>1. statusFromError(e) # "success"
      BY DEF statusFromError
    <3> QED BY <1>1, <2>1, <2>3, <3>1
  <2> QED BY <1>7, <2>2, <2>3 DEF CallFails, Finish
<1>8. CASE Sleep(r)
  <2> DEFINE delay == retryDelay(calls[r], loop[r].err)
  <2>1. pc[r] = "retry" /\ UNCHANGED <<calls, served>>
    BY <1>8 DEF Sleep
  <2>2. CASE /\ loop' = [loop EXCEPT ![r].wake = IF delay > 0 THEN clock + delay ELSE clock]
             /\ Goto(r, IF delay > 0 THEN "sleep" ELSE "call")
             /\ UNCHANGED status
    <3> HIDE DEF delay
    <3>1. loop[r] \in Locals
      BY DEF PipelineType
    <3>2. loop'[r] = [loop[r] EXCEPT !.wake = IF delay > 0 THEN clock + delay ELSE clock]
      BY <2>2 DEF PipelineType
    <3>3. /\ loop'[r].failed = loop[r].failed /\ loop'[r].err = loop[r].err
          /\ delay > 0 => loop'[r].wake = clock + delay
      BY <3>1, <3>2 DEF Locals
    <3>4. pc'[r] = IF delay > 0 THEN "sleep" ELSE "call"
      BY <1>2, <2>2
    <3> QED BY <2>1, <2>2, <3>3, <3>4 DEF delay
  <2>3. CASE Return(r, "audit", "provider_error")
    BY <1>1, <2>1, <2>3
  <2> QED BY <1>8, <2>2, <2>3 DEF Sleep, Finish
<1>9. CASE Wake(r)
  <2>1. pc[r] = "sleep" /\ UNCHANGED <<calls, served>>
    BY <1>9 DEF Wake
  <2>2. CASE clock >= loop[r].wake /\ Goto(r, "call") /\ UNCHANGED <<loop, status>>
    BY <1>2, <2>1, <2>2
  <2>3. CASE Return(r, "audit", "provider_error")
    BY <1>1, <2>1, <2>3
  <2> QED BY <1>9, <2>2, <2>3 DEF Wake, Finish
<1>10. CASE RecordResult(r)
  BY <1>2, <1>10 DEF RecordResult
<1>11. CASE Audit(r)
  BY <1>2, <1>11 DEF Audit
<1> QED BY <1>3, <1>4, <1>5, <1>6, <1>7, <1>8, <1>9, <1>10, <1>11, Zenon DEF Step

\* Time and clients leave the requests where they are.
LEMMA Surroundings ==
    ASSUME PipelineType, [Next]_vars
    PROVE  \/ \E r \in Requests :
                 Step(r) \/ (\E body \in {"invalid", "large", "valid"} : Analyze(r, body))
           \/ /\ UNCHANGED <<mode, grants, usage, audit, pc, calls, loop, status, served>>
              /\ cancelled' \in [Requests -> BOOLEAN]
              /\ clock' = clock \/ clock' = clock + 1
<1>1. ASSUME NEW r \in Requests, Cancel(r)
      PROVE  /\ UNCHANGED <<mode, grants, usage, audit, pc, calls, loop, status, served>>
             /\ cancelled' \in [Requests -> BOOLEAN]
             /\ clock' = clock
  BY <1>1 DEF Cancel, limiter, records, PipelineType
<1>2. CASE Tick
  BY <1>2 DEF Tick, limiter, records, PipelineType
<1>3. CASE UNCHANGED vars
  BY <1>3 DEF vars, limiter, records, PipelineType
<1> QED BY <1>1, <1>2, <1>3 DEF Next

-----------------------------------------------------------------------------
(* One conjunct after the other.                                           *)

\* Every step keeps the types.
LEMMA TypeKept ==
    ASSUME PipelineType, LimiterType, AttemptsInv, [Next]_vars
    PROVE  PipelineType'
<1>1. CASE UNCHANGED <<mode, grants, usage, audit, pc, calls, loop, status, served>>
           /\ cancelled' \in [Requests -> BOOLEAN]
  BY <1>1 DEF PipelineType
<1> QED BY <1>1, Surroundings, StepTyped, AnalyzeTyped

\* Every step keeps the attempts counted and bounded.
LEMMA AttemptsKept ==
    ASSUME PipelineType, AttemptsInv, [Next]_vars
    PROVE  AttemptsInv'
<1>1. CASE UNCHANGED <<pc, calls>>
  BY <1>1 DEF AttemptsInv
<1>2. ASSUME NEW r \in Requests,
             Step(r) \/ (\E body \in {"invalid", "large", "valid"} : Analyze(r, body))
      PROVE  AttemptsInv'
  <2> SUFFICES ASSUME NEW q \in Requests
               PROVE  /\ pc'[q] \in {"idle", "limit"} => calls'[q] = 0
                      /\ pc'[q] \in {"call", "retry", "sleep"} => calls'[q] < MaxAttempts
                      /\ pc'[q] \in {"calling", "retry", "sleep"} => calls'[q] > 0
                      /\ calls'[q] <= MaxAttempts
    BY DEF AttemptsInv
  <2>1. calls[q] \in Nat /\ MaxAttempts \in Nat /\ MaxAttempts > 0
    BY LimitAssumption DEF PipelineType
  <2>2. /\ pc[q] \in {"idle", "limit"} => calls[q] = 0
        /\ pc[q] \in {"call", "retry", "sleep"} => calls[q] < MaxAttempts
        /\ pc[q] \in {"calling", "retry", "sleep"} => calls[q] > 0
        /\ calls[q] <= MaxAttempts
    BY DEF AttemptsInv
  <2>3. CASE q # r
    BY <1>2, <2>2, <2>3, OthersStay
  <2>4. CASE q = r
    <3>1. \/ pc'[q] \in {"audit", "answered", "record"} /\ calls'[q] = calls[q]
          \/ pc[q] = "idle" /\ pc'[q] = "limit" /\ calls'[q] = calls[q]
          \/ pc[q] = "limit" /\ pc'[q] = "call" /\ calls'[q] = calls[q]
          \/ pc[q] = "call" /\ pc'[q] = "calling" /\ calls'[q] = calls[q] + 1
          \/ pc[q] = "calling" /\ pc'[q] = "retry" /\ calls[q] < MaxAttempts
                /\ calls'[q] = calls[q]
          \/ pc[q] = "retry" /\ pc'[q] \in {"sleep", "call"} /\ calls'[q] = calls[q]
          \/ pc[q] = "sleep" /\ pc'[q] = "call" /\ calls'[q] = calls[q]
      BY <1>2, <2>4, OwnMove
    <3> QED BY <2>1, <2>2, <3>1
  <2> QED BY <2>3, <2>4
<1> QED BY <1>1, <1>2, Surroundings

\* Every step keeps timers and calls behind the delays.
LEMMA WaitKept ==
    ASSUME PipelineType, LimiterType, AttemptsInv, WaitInv, [Next]_vars
    PROVE  WaitInv'
<1>0. clock \in Nat
  BY DEF LimiterType
<1>1. \A q \in Requests :
         /\ loop[q].failed \in Nat /\ loop[q].wake \in Nat
         /\ calls[q] > 0 => Owed(calls[q], loop[q].err) \in Nat
  <2> TAKE q \in Requests
  <2>1. /\ loop[q].failed \in Nat /\ loop[q].wake \in Nat /\ calls[q] \in Nat
        /\ loop[q].err \in Errors \cup {NoError}
    BY DEF PipelineType, Locals
  <2>2. CASE calls[q] > 0
    <3>1. calls[q] \in Nat \ {0}
      BY <2>1, <2>2
    <3> QED BY <2>1, <3>1, DelayCoversOwed
  <2> QED BY <2>1, <2>2
<1>2. CASE UNCHANGED <<pc, calls, loop>> /\ (clock' = clock \/ clock' = clock + 1)
  <2> SUFFICES ASSUME NEW q \in Requests
               PROVE  /\ loop[q].failed <= clock'
                      /\ pc[q] = "sleep" =>
                            loop[q].failed + Owed(calls[q], loop[q].err) <= loop[q].wake
                      /\ pc[q] = "call" /\ calls[q] > 0 =>
                            loop[q].failed + Owed(calls[q], loop[q].err) <= clock'
    BY <1>2 DEF WaitInv
  <2>1. /\ loop[q].failed <= clock
        /\ pc[q] = "sleep" =>
              loop[q].failed + Owed(calls[q], loop[q].err) <= loop[q].wake
        /\ pc[q] = "call" /\ calls[q] > 0 =>
              loop[q].failed + Owed(calls[q], loop[q].err) <= clock
    BY DEF WaitInv
  <2> QED BY <1>0, <1>1, <1>2, <2>1
<1>3. ASSUME NEW r \in Requests,
             Step(r) \/ (\E body \in {"invalid", "large", "valid"} : Analyze(r, body))
      PROVE  WaitInv'
  <2> DEFINE Due(q) == loop[q].failed + Owed(calls[q], loop[q].err)
  <2>0. clock' = clock
    BY <1>3 DEF Step, Analyze, Allow, Call, Succeed, CallFails, Sleep, Wake, RecordResult, Audit
  <2>1. SUFFICES ASSUME NEW q \in Requests
                 PROVE  /\ loop'[q].failed <= clock
                        /\ pc'[q] = "sleep" =>
                              loop'[q].failed + Owed(calls'[q], loop'[q].err)
                                 <= loop'[q].wake
                        /\ pc'[q] = "call" /\ calls'[q] > 0 =>
                              loop'[q].failed + Owed(calls'[q], loop'[q].err) <= clock
    BY <2>0 DEF WaitInv
  <2>2. /\ loop[q].failed <= clock
        /\ pc[q] = "sleep" => Due(q) <= loop[q].wake
        /\ pc[q] = "call" /\ calls[q] > 0 => Due(q) <= clock
    BY DEF WaitInv
  <2>3. /\ pc[q] \in {"idle", "limit"} => calls[q] = 0
        /\ pc[q] \in {"calling", "retry", "sleep"} => calls[q] > 0
    BY DEF AttemptsInv
  <2>4. CASE q # r
    BY <1>3, <2>2, <2>4, OthersStay
  <2>5. CASE q = r
    <3>1. \/ pc'[q] \notin {"sleep", "call"} /\ loop'[q] = NoLocals
          \/ pc'[q] \notin {"sleep", "call"} /\ loop'[q].failed \in {clock, loop[q].failed}
          \/ pc[q] = "limit" /\ loop'[q] = loop[q] /\ calls'[q] = calls[q] /\ pc'[q] = "call"
          \/ /\ pc[q] = "retry"
             /\ calls'[q] = calls[q] /\ loop'[q].failed = loop[q].failed
             /\ loop'[q].err = loop[q].err
             /\ IF retryDelay(calls[q], loop[q].err) > 0
                THEN /\ pc'[q] = "sleep"
                     /\ loop'[q].wake = clock + retryDelay(calls[q], loop[q].err)
                ELSE pc'[q] = "call"
          \/ /\ pc[q] = "sleep" /\ pc'[q] = "call" /\ clock >= loop[q].wake
             /\ calls'[q] = calls[q] /\ loop'[q] = loop[q]
      BY <1>3, <2>5, OwnMove
    <3>2. CASE pc'[q] \notin {"sleep", "call"} /\ loop'[q] = NoLocals
      BY <1>0, <3>2 DEF NoLocals
    <3>3. CASE pc'[q] \notin {"sleep", "call"} /\ loop'[q].failed \in {clock, loop[q].failed}
      BY <1>0, <2>2, <3>3
    <3>4. CASE pc[q] = "limit" /\ loop'[q] = loop[q] /\ calls'[q] = calls[q] /\ pc'[q] = "call"
      BY <2>2, <2>3, <3>4
    <3>5. CASE /\ pc[q] = "retry"
               /\ calls'[q] = calls[q] /\ loop'[q].failed = loop[q].failed
               /\ loop'[q].err = loop[q].err
               /\ IF retryDelay(calls[q], loop[q].err) > 0
                  THEN /\ pc'[q] = "sleep"
                       /\ loop'[q].wake = clock + retryDelay(calls[q], loop[q].err)
                  ELSE pc'[q] = "call"
      <4> DEFINE delay == retryDelay(calls[q], loop[q].err)
                 owed == Owed(calls[q], loop[q].err)
      <4>1. loop[q].failed \in Nat /\ loop[q].failed <= clock
        BY <1>1, <2>2
      <4>2. /\ owed \in Nat /\ delay \in Int
            /\ owed = 0 \/ owed <= delay
        <5>1. calls[q] \in Nat \ {0} /\ loop[q].err \in Errors \cup {NoError}
          BY <2>3, <3>5 DEF PipelineType, Locals
        <5> QED BY <5>1, DelayCoversOwed
      <4>3. owed = Owed(calls'[q], loop'[q].err)
        BY <3>5
      <4>4. /\ loop'[q].failed = loop[q].failed
            /\ IF delay > 0 THEN pc'[q] = "sleep" /\ loop'[q].wake = clock + delay
                            ELSE pc'[q] = "call"
        BY <3>5
      <4> HIDE DEF delay, owed
      <4>5. CASE delay > 0
        <5>1. loop[q].failed + owed <= clock + delay
          BY <1>0, <4>1, <4>2, <4>5
        <5> QED BY <4>1, <4>3, <4>4, <4>5, <5>1
      <4>6. CASE ~(delay > 0)
        <5>1. owed = 0
          BY <4>2, <4>6
        <5>2. loop[q].failed + owed <= clock
          BY <4>1, <5>1
        <5> QED BY <4>1, <4>3, <4>4, <4>6, <5>2
      <4> QED BY <4>5, <4>6
    <3>6. CASE /\ pc[q] = "sleep" /\ pc'[q] = "call" /\ clock >= loop[q].wake
               /\ calls'[q] = calls[q] /\ loop'[q] = loop[q]
      <4> DEFINE owed == Owed(calls[q], loop[q].err)
      <4>1. owed \in Nat /\ loop[q].failed \in Nat /\ loop[q].wake \in Nat
        BY <1>1, <2>3, <3>6
      <4>2. loop[q].failed + owed <= loop[q].wake
        BY <2>2, <3>6
      <4> HIDE DEF owed
      <4>3. loop[q].failed + owed <= clock
        BY <1>0, <3>6, <4>1, <4>2
      <4> QED BY <2>2, <3>6, <4>3 DEF owed
    <3> QED BY <3>1, <3>2, <3>3, <3>4, <3>5, <3>6
  <2> QED BY <2>4, <2>5
<1> QED BY <1>2, <1>3, Surroundings

\* Who writes the limiter's grants, the usage and the audit log.
LEMMA LedgerMoves ==
    ASSUME PipelineType, NEW r \in Requests,
           Step(r) \/ (\E body \in {"invalid", "large", "valid"} : Analyze(r, body))
    PROVE  /\ mode' = mode
           /\ \/ /\ pc[r] = "limit" /\ pc'[r] = "call"
                 /\ grants' = [grants EXCEPT ![Owner[r]] = Append(@, clock)]
              \/ ~(pc[r] = "limit" /\ pc'[r] = "call") /\ grants' = grants
           /\ \/ pc[r] = "record" /\ usage' = [usage EXCEPT ![Owner[r]] = @ + 1]
              \/ pc[r] # "record" /\ usage' = usage
           /\ \/ /\ pc[r] = "audit"
                 /\ audit' = Append(audit, [request |-> r, status |-> status[r]])
              \/ pc[r] = "audit" /\ mode = "postgres" /\ audit' = audit
              \/ pc[r] # "audit" /\ audit' = audit
<1>1. ASSUME NEW body \in {"invalid", "large", "valid"}, Analyze(r, body)
      PROVE  pc[r] = "idle" /\ UNCHANGED <<mode, grants, usage, audit>>
  BY <1>1 DEF Analyze, limiter, records
<1>2. CASE Allow(r)
  <2>1. pc[r] = "limit" /\ UNCHANGED <<mode, usage, audit>>
    BY <1>2 DEF Allow, records
  <2>2. CASE Goto(r, "call") /\ grants' = [grants EXCEPT ![Owner[r]] = Append(@, clock)]
    BY <2>1, <2>2 DEF Goto, PipelineType
  <2>3. CASE Finish(r, "rate_limited") /\ UNCHANGED grants
    BY <2>1, <2>3 DEF Finish, Return, Goto, PipelineType
  <2> QED BY <1>2, <2>2, <2>3 DEF Allow
<1>3. CASE Call(r)
  BY <1>3 DEF Call, limiter, records
<1>4. ASSUME NEW outcome, Succeed(r, outcome)
      PROVE  pc[r] = "calling" /\ UNCHANGED <<mode, grants, usage, audit>>
  BY <1>4 DEF Succeed, limiter, records
<1>5. ASSUME NEW e, CallFails(r, e)
      PROVE  pc[r] = "calling" /\ UNCHANGED <<mode, grants, usage, audit>>
  BY <1>5 DEF CallFails, limiter, records
<1>6. CASE Sleep(r)
  BY <1>6 DEF Sleep, limiter, records
<1>7. CASE Wake(r)
  BY <1>7 DEF Wake, limiter, records
<1>8. CASE RecordResult(r)
  BY <1>8 DEF RecordResult, limiter
<1>9. CASE Audit(r)
  <2>1. \/ audit' = Append(audit, [request |-> r, status |-> status[r]])
        \/ mode = "postgres" /\ audit' = audit
    BY <1>9 DEF Audit
  <2>2. pc[r] = "audit" /\ UNCHANGED <<mode, grants, usage>>
    BY <1>9 DEF Audit, limiter
  <2> QED BY <2>1, <2>2
<1> QED BY <1>1, <1>2, <1>3, <1>4, <1>5, <1>6, <1>7, <1>8, <1>9 DEF Step

\* One more grant for one more request.
LEMMA AdmittedKept ==
    ASSUME PipelineType, LimiterType, AttemptsInv, AdmittedInv, [Next]_vars
    PROVE  AdmittedInv'
<1>1. CASE UNCHANGED <<pc, calls, grants>>
  BY <1>1 DEF AdmittedInv, TookToken
<1>2. ASSUME NEW r \in Requests,
             Step(r) \/ (\E body \in {"invalid", "large", "valid"} : Analyze(r, body))
      PROVE  AdmittedInv'
  <2> SUFFICES ASSUME NEW s \in Sessions
               PROVE  IsFiniteSet(TookToken(s)') /\ Cardinality(TookToken(s)') <= Len(grants'[s])
    BY DEF AdmittedInv
  <2>1. /\ IsFiniteSet(TookToken(s)) /\ Cardinality(TookToken(s)) \in Nat
        /\ Cardinality(TookToken(s)) <= Len(grants[s])
    BY FS_CardinalityType DEF AdmittedInv
  <2>2. grants[s] \in Seq(Nat) /\ Len(grants[s]) \in Nat /\ clock \in Nat
    BY LenProperties DEF LimiterType
  <2>3. \A q \in Requests : q # r => pc'[q] = pc[q] /\ calls'[q] = calls[q]
    BY <1>2, OthersStay
  <2>4. CASE /\ pc[r] = "limit" /\ pc'[r] = "call"
             /\ grants' = [grants EXCEPT ![Owner[r]] = Append(@, clock)]
    <3>1. calls'[r] = calls[r] /\ calls[r] = 0
      BY <1>2, <2>4, OwnMove DEF AttemptsInv
    <3>2. CASE Owner[r] = s
      <4>1. grants'[s] = Append(grants[s], clock)
        BY <2>4, <3>2 DEF LimiterType
      <4>2. Len(grants'[s]) = Len(grants[s]) + 1
        BY <2>2, <4>1, AppendProperties
      <4>3. TookToken(s)' = TookToken(s) \cup {r} /\ r \notin TookToken(s)
        BY <2>3, <2>4, <3>1, <3>2 DEF TookToken, Underway
      <4>4. /\ IsFiniteSet(TookToken(s) \cup {r})
            /\ Cardinality(TookToken(s) \cup {r}) = Cardinality(TookToken(s)) + 1
        BY <2>1, <4>3, FS_AddElement
      <4> QED BY <2>1, <2>2, <4>2, <4>3, <4>4
    <3>3. CASE Owner[r] # s
      <4>1. grants'[s] = grants[s]
        BY <2>4, <3>3 DEF LimiterType
      <4>2. TookToken(s)' = TookToken(s)
        BY <2>3, <3>3 DEF TookToken
      <4> QED BY <2>1, <4>1, <4>2
    <3> QED BY <3>2, <3>3
  <2>5. CASE ~(pc[r] = "limit" /\ pc'[r] = "call") /\ grants' = grants
    <3>1. pc'[r] \in Underway \/ calls'[r] > 0 => pc[r] \in Underway \/ calls[r] > 0
      <4>1. \/ pc'[r] \notin Underway /\ calls'[r] = calls[r]
            \/ pc[r] \in Underway
        BY <1>2, <2>5, OwnMove DEF Underway
      <4> QED BY <4>1
    <3>2. TookToken(s)' \in SUBSET TookToken(s)
      BY <2>3, <3>1 DEF TookToken
    <3>3. /\ IsFiniteSet(TookToken(s)')
          /\ Cardinality(TookToken(s)') <= Cardinality(TookToken(s))
      BY <2>1, <3>2, FS_Subset
    <3>4. Cardinality(TookToken(s)') \in Nat
      BY <3>3, FS_CardinalityType
    <3> QED BY <2>1, <2>2, <2>5, <3>3, <3>4
  <2> QED BY <1>2, <2>4, <2>5, LedgerMoves
<1> QED BY <1>1, <1>2, Surroundings

\* An answer is charged by RecordResult, and by nothing else.
LEMMA UsageKept ==
    ASSUME PipelineType, UsageInv, [Next]_vars
    PROVE  UsageInv'
<1>1. CASE UNCHANGED <<pc, usage, status, served>>
  BY <1>1 DEF UsageInv, Charged
<1>2. ASSUME NEW r \in Requests,
             Step(r) \/ (\E body \in {"invalid", "large", "valid"} : Analyze(r, body))
      PROVE  UsageInv'
  <2>1. \A q \in Requests : q # r => pc'[q] = pc[q] /\ status'[q] = status[q]
    BY <1>2, OthersStay
  <2>2. served \subseteq Requests
    BY DEF PipelineType
  <2>3. \A q \in Requests :
          /\ pc[q] = "record" => q \in served
          /\ q \in served => pc[q] \in {"record", "audit", "answered"}
          /\ status[q] = "success" => q \in served
    BY DEF UsageInv
  <2>4. ASSUME NEW q \in Requests
        PROVE  /\ pc'[q] = "record" => q \in served'
               /\ q \in served' => pc'[q] \in {"record", "audit", "answered"}
               /\ status'[q] = "success" => q \in served'
    <3>1. CASE q # r
      <4>1. served' = served \/ served' = served \cup {r}
        BY <1>2, OwnMove
      <4> QED BY <2>1, <2>3, <3>1, <4>1
    <3>2. CASE q = r
      <4>1. \/ /\ pc'[r] \notin {"record", "audit", "answered"}
               /\ pc[r] \notin {"record", "audit", "answered"}
               /\ status'[r] = status[r] /\ served' = served
            \/ pc'[r] = "audit" /\ status'[r] # "success" /\ served' = served
            \/ pc'[r] = "record" /\ served' = served \cup {r}
            \/ /\ pc[r] \in {"record", "audit"} /\ pc'[r] \in {"audit", "answered"}
               /\ status'[r] = status[r] /\ served' = served
        BY <1>2, OwnMove
      <4> QED BY <2>3, <3>2, <4>1
    <3> QED BY <3>1, <3>2
  <2>5. ASSUME NEW s \in Sessions
        PROVE  IsFiniteSet(Charged(s)') /\ usage'[s] = Cardinality(Charged(s)')
    <3>1. /\ IsFiniteSet(Charged(s)) /\ usage[s] = Cardinality(Charged(s))
          /\ Owner[r] \in Sessions
      BY OwnerAssumption DEF UsageInv
    <3>2. CASE pc[r] = "record" /\ usage' = [usage EXCEPT ![Owner[r]] = @ + 1]
      <4>1. served' = served /\ pc'[r] = "audit" /\ r \in served
        BY <1>2, <2>3, <3>2, OwnMove
      <4>2. CASE Owner[r] = s
        <5>1. Charged(s)' = Charged(s) \cup {r} /\ r \notin Charged(s)
          BY <2>1, <2>2, <3>2, <4>1, <4>2 DEF Charged
        <5>2. usage'[s] = usage[s] + 1
          BY <3>2, <4>2 DEF PipelineType
        <5>3. /\ IsFiniteSet(Charged(s) \cup {r})
              /\ Cardinality(Charged(s) \cup {r}) = Cardinality(Charged(s)) + 1
          BY <3>1, <5>1, FS_AddElement
        <5> QED BY <3>1, <5>1, <5>2, <5>3
      <4>3. CASE Owner[r] # s
        <5>1. Charged(s)' = Charged(s)
          BY <2>1, <2>2, <4>1, <4>3 DEF Charged
        <5>2. usage'[s] = usage[s]
          BY <3>2, <4>3 DEF PipelineType
        <5> QED BY <3>1, <5>1, <5>2
      <4> QED BY <4>2, <4>3
    <3>3. CASE pc[r] # "record" /\ usage' = usage
      <4>1. \/ served' = served /\ pc'[r] # "record"
            \/ served' = served \cup {r} /\ pc[r] = "calling" /\ pc'[r] = "record"
        BY <1>2, <3>3, OwnMove
      <4>2. Charged(s)' = Charged(s)
        <5>1. CASE served' = served /\ pc'[r] # "record"
          BY <2>1, <2>2, <3>3, <5>1 DEF Charged
        <5>2. CASE served' = served \cup {r} /\ pc[r] = "calling" /\ pc'[r] = "record"
          <6>1. r \notin served
            BY <2>3, <5>2
          <6> QED BY <2>1, <2>2, <5>2, <6>1 DEF Charged
        <5> QED BY <4>1, <5>1, <5>2
      <4> QED BY <3>1, <3>3, <4>2
    <3> QED BY <1>2, <3>2, <3>3, LedgerMoves
  <2> QED BY <2>4, <2>5 DEF UsageInv
<1> QED BY <1>1, <1>2, Surroundings

\* A request is recorded in the step that answers it.
LEMMA AuditKept ==
    ASSUME PipelineType, AuditInv, [Next]_vars
    PROVE  AuditInv'
<1>0. audit \in Seq(AuditRecords) /\ Len(audit) \in Nat
  BY LenProperties DEF PipelineType
<1>1. CASE UNCHANGED <<mode, pc, audit, status>>
  BY <1>1 DEF AuditInv, Recorded
<1>2. ASSUME NEW r \in Requests,
             Step(r) \/ (\E body \in {"invalid", "large", "valid"} : Analyze(r, body))
      PROVE  AuditInv'
  <2>1. \A q \in Requests : q # r => pc'[q] = pc[q] /\ status'[q] = status[q]
    BY <1>2, OthersStay
  <2>2. /\ pc[r] # "answered"
        /\ pc'[r] = "answered" <=> pc[r] = "audit"
        /\ pc[r] = "audit" => status'[r] = status[r]
    BY <1>2, OwnMove
  <2>3. \A i \in 1 .. Len(audit) : audit[i] \in AuditRecords
    BY <1>0, ElementOfSeq
  <2>4. \A i \in 1 .. Len(audit) :
          /\ audit[i].request \in Requests /\ audit[i].request # r
          /\ pc'[audit[i].request] = "answered"
          /\ audit[i].status = status'[audit[i].request]
    BY <1>2, <2>1, <2>2, <2>3, OwnMove DEF AuditInv, AuditRecords
  <2>5. CASE audit' = audit /\ (pc[r] # "audit" \/ mode = "postgres")
    <3>1. mode' = mode
      BY <1>2, LedgerMoves
    <3>2. \A q \in Requests : mode = "memory" /\ pc'[q] = "answered" => pc[q] = "answered"
      BY <2>1, <2>2, <2>5
    <3>3. \A q \in Requests : mode' = "memory" /\ pc'[q] = "answered" => Recorded(q)' # {}
      BY <2>5, <3>1, <3>2 DEF AuditInv, Recorded
    <3>4. \A i \in 1 .. Len(audit') :
            /\ pc'[audit'[i].request] = "answered"
            /\ audit'[i].status = status'[audit'[i].request]
      BY <2>4, <2>5
    <3>5. \A i, j \in 1 .. Len(audit') : audit'[i].request = audit'[j].request => i = j
      BY <2>5 DEF AuditInv
    <3> QED BY <3>3, <3>4, <3>5 DEF AuditInv
  <2>6. CASE pc[r] = "audit" /\ audit' = Append(audit, [request |-> r, status |-> status[r]])
    <3> DEFINE n == Len(audit)
               rec == [request |-> r, status |-> status[r]]
    <3>1. rec \in AuditRecords
      BY DEF AuditRecords, PipelineType
    <3>2. /\ Len(audit') = n + 1 /\ audit'[n + 1] = rec
          /\ \A i \in 1 .. n : audit'[i] = audit[i]
      BY <1>0, <2>6, <3>1, AppendProperties
    <3>3. rec.request = r /\ rec.status = status[r]
      OBVIOUS
    <3> HIDE DEF rec, n
    <3>4. n \in Nat /\ \A i \in 1 .. n + 1 : i \in 1 .. n \/ i = n + 1
      BY <1>0 DEF n
    <3>5. ASSUME NEW i \in 1 .. Len(audit')
          PROVE  /\ pc'[audit'[i].request] = "answered"
                 /\ audit'[i].status = status'[audit'[i].request]
      <4>1. CASE i \in 1 .. n
        BY <2>4, <3>2, <4>1 DEF n
      <4>2. CASE i = n + 1
        BY <2>2, <2>6, <3>2, <3>3, <4>2
      <4> QED BY <3>2, <3>4, <4>1, <4>2
    <3>6. ASSUME NEW i \in 1 .. Len(audit'), NEW j \in 1 .. Len(audit'),
                 audit'[i].request = audit'[j].request
          PROVE  i = j
      <4>1. \A k \in 1 .. n : audit'[k].request # r
        BY <2>4, <3>2 DEF n
      <4>2. audit'[n + 1].request = r
        BY <3>2, <3>3
      <4>3. CASE i \in 1 .. n /\ j \in 1 .. n
        BY <3>2, <3>6, <4>3 DEF AuditInv, n
      <4> QED BY <3>2, <3>4, <3>6, <4>1, <4>2, <4>3
    <3>7. ASSUME NEW q \in Requests, mode' = "memory", pc'[q] = "answered"
          PROVE  Recorded(q)' # {}
      <4>1. CASE q = r
        <5>1. n + 1 \in 1 .. Len(audit') /\ audit'[n + 1].request = q
          BY <3>2, <3>3, <3>4, <4>1
        <5> QED BY <5>1 DEF Recorded
      <4>2. CASE q # r
        <5>1. Recorded(q) # {}
          <6>1. mode = "memory" /\ pc[q] = "answered"
            BY <1>2, <2>1, <3>7, <4>2, LedgerMoves
          <6> QED BY <6>1 DEF AuditInv
        <5>2. PICK i \in 1 .. n : audit[i].request = q
          BY <5>1 DEF Recorded, n
        <5>3. i \in 1 .. Len(audit') /\ audit'[i].request = q
          BY <3>2, <3>4, <5>2
        <5> QED BY <5>3 DEF Recorded
      <4> QED BY <4>1, <4>2
    <3> QED BY <3>5, <3>6, <3>7 DEF AuditInv
  <2> QED BY <1>2, <2>5, <2>6, LedgerMoves
<1> QED BY <1>1, <1>2, Surroundings

-----------------------------------------------------------------------------
(* The invariant and what follows from it.                                 *)

\* The pipeline starts in order.
LEMMA InitPipeline == Init => PipelineInv
<1> SUFFICES ASSUME Init PROVE PipelineInv
  OBVIOUS
<1>1. LimiterIndInv
  BY FullHoldsToken DEF Init, LimiterIndInv, LimiterType, LimiterInv, RateBound
<1>2. PipelineType
  <2>1. audit \in Seq(AuditRecords) /\ served \subseteq Requests
    BY EmptySeq DEF Init
  <2> QED BY <2>1, ErrorLocals DEF Init, PipelineType, Labels, Statuses
<1>3. AttemptsInv
  BY LimitAssumption DEF Init, AttemptsInv
<1>4. WaitInv
  BY DEF Init, WaitInv, NoLocals
<1>5. AdmittedInv
  <2> SUFFICES ASSUME NEW s \in Sessions
               PROVE  IsFiniteSet(TookToken(s)) /\ Cardinality(TookToken(s)) <= Len(grants[s])
    BY DEF AdmittedInv
  <2>1. TookToken(s) = {} /\ Len(grants[s]) = 0
    BY DEF Init, TookToken, Underway
  <2> QED BY <2>1, FS_EmptySet
<1>6. UsageInv
  <2>1. \A s \in Sessions : Charged(s) = {} /\ usage[s] = 0
    BY DEF Init, Charged
  <2>2. \A r \in Requests : pc[r] = "idle" /\ status[r] = "none" /\ r \notin served
    BY DEF Init
  <2> QED BY <2>1, <2>2, FS_EmptySet DEF UsageInv
<1>7. AuditInv
  <2>1. Len(audit) = 0 /\ \A r \in Requests : pc[r] = "idle"
    BY DEF Init
  <2> QED BY <2>1 DEF AuditInv
<1> QED BY <1>1, <1>2, <1>3, <1>4, <1>5, <1>6, <1>7 DEF PipelineInv

\* Every step of the pipeline, of time and of the clients keeps the invariant.
THEOREM PipelineInvariant == Spec => []PipelineInv
<1>1. ASSUME PipelineInv, [Next]_vars, LimiterIndInv' PROVE PipelineInv'
  <2>1. LimiterType
    BY <1>1 DEF PipelineInv, LimiterIndInv
  <2> QED BY <1>1, <2>1, TypeKept, AttemptsKept, WaitKept, AdmittedKept, UsageKept, AuditKept
          DEF PipelineInv
<1> QED BY <1>1, InitPipeline, LimiterInvariant, PTL DEF Spec

\* All state of the gateway keeps its type: buckets stay between empty and full, and
\* every computed delay is a time.
THEOREM GatewayTyped == Spec => []TypeOK
<1>1. PipelineInv => TypeOK
  BY DEF PipelineInv, LimiterIndInv, LimiterType, Full, PipelineType, TypeOK
<1> QED BY <1>1, PipelineInvariant, PTL

\* The provider is called only for requests that took a token from their session's
\* bucket, one grant each, and for none of them more than MaxAttempts times.
THEOREM OnlyAdmittedCall == Spec => []CallsAreAdmitted
<1>1. ASSUME PipelineInv PROVE CallsAreAdmitted
  <2>1. \A r \in Requests : calls[r] <= MaxAttempts
    BY <1>1 DEF PipelineInv, AttemptsInv
  <2>2. ASSUME NEW s \in Sessions
        PROVE  Cardinality({r \in Requests : Owner[r] = s /\ calls[r] > 0}) <= Len(grants[s])
    <3> DEFINE callers == {r \in Requests : Owner[r] = s /\ calls[r] > 0}
    <3>1. IsFiniteSet(TookToken(s)) /\ Cardinality(TookToken(s)) <= Len(grants[s])
      BY <1>1 DEF PipelineInv, AdmittedInv
    <3>2. callers \in SUBSET TookToken(s)
      BY DEF TookToken
    <3> HIDE DEF callers
    <3>3. IsFiniteSet(callers) /\ Cardinality(callers) <= Cardinality(TookToken(s))
      BY <3>1, <3>2, FS_Subset
    <3>4. /\ Cardinality(callers) \in Nat /\ Cardinality(TookToken(s)) \in Nat
          /\ Len(grants[s]) \in Nat
      <4>1. grants[s] \in Seq(Nat)
        BY <1>1 DEF PipelineInv, LimiterIndInv, LimiterType
      <4> QED BY <3>1, <3>3, <4>1, FS_CardinalityType, LenProperties
    <3> QED BY <3>1, <3>3, <3>4 DEF callers
  <2> QED BY <2>1, <2>2 DEF CallsAreAdmitted
<1> QED BY <1>1, PipelineInvariant, PTL

\* A session's usage is the number of its requests that the provider answered.
THEOREM UsageIsExact == Spec => []UsageCountsAnswers
<1>1. PipelineInv => UsageCountsAnswers
  BY DEF PipelineInv, UsageInv, Charged, UsageCountsAnswers
<1> QED BY <1>1, PipelineInvariant, PTL

\* The audit log has no request twice, never a status other than the answer's, and
\* in memory no answered request is missing.
THEOREM AuditIsTrue == Spec => []AuditTellsOutcome
<1>1. ASSUME PipelineInv PROVE AuditTellsOutcome
  <2>1. AuditInv
    BY <1>1 DEF PipelineInv
  <2>2. ASSUME NEW r \in Requests
        PROVE  Cardinality(Recorded(r)) <= 1
    <3>1. CASE Recorded(r) = {}
      BY <3>1, FS_EmptySet
    <3>2. CASE Recorded(r) # {}
      <4>1. PICK i : i \in Recorded(r)
        BY <3>2
      <4>2. Recorded(r) = {i}
        BY <2>1, <4>1 DEF AuditInv, Recorded
      <4> QED BY <4>2, FS_Singleton
    <3> QED BY <3>1, <3>2
  <2> QED BY <2>1, <2>2 DEF AuditInv, AuditTellsOutcome
<1> QED BY <1>1, PipelineInvariant, PTL

\* No attempt begins before all that the last error calls for, the provider's seconds
\* or the backoff, has passed since ExecuteWithRetries got that error, however long
\* the call took and however the clock and other requests interleave.
THEOREM RetriesWait == Spec => RetryWaits
<1>1. ASSUME PipelineInv, [Next]_vars
      PROVE  [\A r \in Requests : calls[r] > 0 /\ calls'[r] > calls[r] =>
                 clock >= loop[r].failed + Owed(calls[r], loop[r].err)]_vars
  <2>1. PipelineType /\ LimiterType /\ WaitInv
    BY <1>1 DEF PipelineInv, LimiterIndInv
  <2> SUFFICES ASSUME NEW r \in Requests, calls[r] > 0, calls'[r] > calls[r]
               PROVE  clock >= loop[r].failed + Owed(calls[r], loop[r].err)
    OBVIOUS
  <2>2. calls[r] \in Nat /\ clock \in Nat /\ loop[r] \in Locals
    BY <2>1 DEF PipelineType, LimiterType
  <2>3. PICK q \in Requests :
          Step(q) \/ (\E body \in {"invalid", "large", "valid"} : Analyze(q, body))
    BY <1>1, <2>1, <2>2, Surroundings
  <2>4. q = r
    BY <2>1, <2>2, <2>3, OthersStay
  <2>5. pc[r] = "call"
    BY <2>1, <2>2, <2>3, <2>4, OwnMove
  <2>6. loop[r].failed + Owed(calls[r], loop[r].err) <= clock
    BY <2>1, <2>5 DEF WaitInv
  <2>7. loop[r].failed \in Nat /\ Owed(calls[r], loop[r].err) \in Nat
    <3>1. calls[r] \in Nat \ {0} /\ loop[r].err \in Errors \cup {NoError}
      BY <2>2 DEF Locals
    <3> QED BY <2>2, <3>1, DelayCoversOwed DEF Locals
  <2> QED BY <2>2, <2>6, <2>7
<1> QED BY <1>1, PipelineInvariant, PTL DEF Spec, RetryWaits
=============================================================================
