----------------------------- MODULE AiGateway -----------------------------
(***************************************************************************)
(* AuditedService(FallbackService(Service)) with its Controller: the       *)
(* pipeline that ComposePipelineWithAudit builds and that concurrent       *)
(* analyze and advice requests share.                                      *)
(*                                                                         *)
(* A request is validated, checked against the budget and the session's    *)
(* token bucket, sent to the provider up to MaxAttempts times, accounted,  *)
(* audited and answered.  Its client may go away at any time, which        *)
(* cancels its context.                                                    *)
(*                                                                         *)
(* Tokens are counted in units, TokenUnits to a token, and the clock ticks *)
(* once per unit of refill: rate = 1 / TokenUnits tokens per tick.         *)
(***************************************************************************)
EXTENDS Integers, Sequences, FiniteSets

CONSTANTS
    Modes,          \* audit stores to consider: "memory", "postgres"
    Sessions,
    Requests,
    Owner,          \* [Requests -> Sessions]
    TokenUnits,
    Burst,
    MaxAttempts,
    BaseBackoff, MaxBackoff,    \* in ticks
    Second,         \* in ticks, the unit of a time.Duration
    MaxDuration,    \* the largest time.Duration: 2^63 - 1 ns
    RetryAfters,    \* what a 429 may ask for, in seconds; 0 when it says nothing
    MaxTime         \* bound: the clock goes further only for a sleeping request

ASSUME ModeAssumption == Modes \subseteq {"memory", "postgres"}
ASSUME OwnerAssumption == Owner \in [Requests -> Sessions]
ASSUME LimitAssumption ==
    /\ TokenUnits \in Nat \ {0} /\ Burst \in Nat \ {0} /\ MaxAttempts \in Nat \ {0}
ASSUME BackoffAssumption ==
    /\ BaseBackoff \in Nat /\ MaxBackoff \in Nat
    /\ RetryAfters \subseteq Nat /\ MaxTime \in Nat
ASSUME DurationAssumption == Second \in Nat \ {0} /\ MaxDuration \in Nat \ {0}

VARIABLES
    mode,       \* the audit store this process was started with
    clock,
    bucket,     \* per session: known, tokens in units, time of the last refill
    grants,     \* history: per session, when the limiter let a request through
    usage,      \* per session: TotalRequests
    audit,      \* the audit records, in order
    pc,
    cancelled,  \* is the request's context done?
    calls,      \* per request, how many provider calls it has begun: attempt + 1
    loop,       \* the locals of ExecuteWithRetries, see Locals
    served,     \* history: the requests that the provider answered
    status      \* GatewayResponse.Status, or "error" for a refused request

limiter == <<bucket, grants>>
records == <<usage, audit>>
vars == <<mode, clock, limiter, records, pc, cancelled, calls, loop, status, served>>

\* How a provider call can fail: not available (also the client's own timeout, an
\* unreadable body, a 5xx), the context done, a 429, a 4xx, no choices at all.
Errors ==
    [kind : {"not_available", "timeout", "rejected", "no_choices"}, after : {0}]
        \cup [kind : {"rate_limit"}, after : RetryAfters]

NoError == [kind |-> "none", after |-> 0]

\* reached: the call in progress began before the context was done; err: lastErr;
\* failed: when it was returned (history); wake: when the retry timer fires.
Locals == [reached : BOOLEAN, err : Errors \cup {NoError}, failed : Nat, wake : Nat]

NoLocals == [reached |-> FALSE, err |-> NoError, failed |-> 0, wake |-> 0]

Init ==
    /\ mode \in Modes
    /\ clock = 0
    /\ bucket = [s \in Sessions |-> [known |-> FALSE, tokens |-> 0, last |-> 0]]
    /\ grants = [s \in Sessions |-> <<>>]
    /\ usage = [s \in Sessions |-> 0]
    /\ audit = <<>>
    /\ pc = [r \in Requests |-> "idle"]
    /\ cancelled = [r \in Requests |-> FALSE]
    /\ calls = [r \in Requests |-> 0]
    /\ loop = [r \in Requests |-> NoLocals]
    /\ served = {}
    /\ status = [r \in Requests |-> "none"]

-----------------------------------------------------------------------------
(* Surroundings: time and clients.                                         *)

Sleeping(r) == pc[r] = "sleep" /\ loop[r].wake > clock

Tick ==
    /\ clock < MaxTime \/ \E r \in Requests : Sleeping(r)
    /\ clock' = clock + 1
    /\ UNCHANGED <<mode, limiter, records, pc, cancelled, calls, loop, status, served>>

\* The client closes its connection.
Cancel(r) ==
    /\ pc[r] \notin {"idle", "answered"} /\ ~cancelled[r]
    /\ cancelled' = [cancelled EXCEPT ![r] = TRUE]
    /\ UNCHANGED <<mode, clock, limiter, records, pc, calls, loop, status, served>>

-----------------------------------------------------------------------------
(* The pipeline.                                                           *)

Goto(r, label) == pc' = [pc EXCEPT ![r] = label]

\* The inner service returns with this status; what remains is label.
Return(r, label, outcome) ==
    /\ Goto(r, label)
    /\ loop' = [loop EXCEPT ![r] = NoLocals]
    /\ status' = [status EXCEPT ![r] = outcome]

Finish(r, outcome) == Return(r, "audit", outcome)

\* Analyze up to the budget: a request that does not validate is an error, one
\* with too long a prompt or too many events a fallback.
Analyze(r, body) ==
    /\ pc[r] = "idle"
    /\ \/ body = "invalid" /\ Finish(r, "error")
       \/ body = "large" /\ Finish(r, "budget_limited")
       \/ body = "valid" /\ Goto(r, "limit") /\ UNCHANGED <<loop, status>>
    /\ UNCHANGED <<mode, clock, limiter, records, cancelled, calls, served>>

Smaller(a, b) == IF a <= b THEN a ELSE b

\* Faulty: the rate is applied twice.
RefilledTwice(b) == Smaller(Burst * TokenUnits, b.tokens + 2 * (clock - b.last))

\* The tokens of a known bucket now.
Refilled(b) == Smaller(Burst * TokenUnits, b.tokens + (clock - b.last))

\* The tokens that Allow finds; a new session has a full bucket.
Available(b) == IF b.known THEN Refilled(b) ELSE Burst * TokenUnits

\* Faulty: any part of a token will do.
EnoughForAny(tokens) == tokens > 0

\* A whole token is there.
Enough(tokens) == tokens >= TokenUnits

\* RateLimiter.Allow, one critical section.
Allow(r) ==
    LET s == Owner[r]
        tokens == Available(bucket[s])
        Left(n) == [bucket EXCEPT ![s] = [known |-> TRUE, tokens |-> n, last |-> clock]]
    IN
    /\ pc[r] = "limit"
    /\ \/ /\ Enough(tokens)
          /\ bucket' = Left(tokens - TokenUnits)
          /\ grants' = [grants EXCEPT ![s] = Append(@, clock)]
          /\ Goto(r, "call")
          /\ UNCHANGED <<loop, status>>
       \/ /\ ~Enough(tokens)
          /\ bucket' = Left(tokens)
          /\ Finish(r, "rate_limited")
          /\ UNCHANGED grants
    /\ UNCHANGED <<mode, clock, records, cancelled, calls, served>>

\* adapter.Analyze begins: with a context that is done nothing is sent.
Call(r) ==
    /\ pc[r] = "call"
    /\ calls' = [calls EXCEPT ![r] = @ + 1]
    /\ loop' = [loop EXCEPT ![r].reached = ~cancelled[r]]
    /\ Goto(r, "calling")
    /\ UNCHANGED <<mode, clock, limiter, records, cancelled, status, served>>

Possible(r, e) ==
    /\ e.kind = "timeout" => cancelled[r]
    /\ ~loop[r].reached => e.kind = "timeout"

IsRetryable(e) == e.kind \in {"not_available", "timeout", "rate_limit"}

statusFromError(e) ==
    CASE e.kind = "rate_limit" -> "rate_limited"
      [] e.kind = "no_choices" -> "invalid_response"
      [] OTHER -> "provider_error"

\* The provider answered; an empty answer becomes a fallback, but only after it
\* has been accounted as a success.
Succeed(r, outcome) ==
    /\ pc[r] = "calling" /\ loop[r].reached
    /\ Return(r, "record", outcome)
    /\ served' = served \cup {r}
    /\ UNCHANGED <<mode, clock, limiter, records, cancelled, calls>>

\* Faulty: one attempt too many.
RetriesLeftTooMany(r) == calls[r] <= MaxAttempts

\* Does the loop go round again?
RetriesLeft(r) == calls[r] < MaxAttempts

\* An error that may be tried again, or the last word.
CallFails(r, e) ==
    /\ pc[r] = "calling" /\ Possible(r, e)
    /\ IF IsRetryable(e) /\ RetriesLeft(r)
       THEN /\ Goto(r, "retry")
            /\ loop' = [loop EXCEPT ![r].err = e, ![r].failed = clock, ![r].reached = FALSE]
            /\ UNCHANGED status
       ELSE Finish(r, statusFromError(e))
    /\ UNCHANGED <<mode, clock, limiter, records, cancelled, calls, served>>

Backoff(attempt) == Smaller(MaxBackoff, BaseBackoff * 2 ^ (attempt - 1))

\* The value of a time.Duration after an operation with the exact result n >= 0:
\* too large a product wraps around, and may become negative.
Wrapped(n) ==
    IF n <= MaxDuration THEN n
    ELSE ((n + MaxDuration + 1) % (2 * (MaxDuration + 1))) - (MaxDuration + 1)

\* The wait before the given attempt, the first being number 0.
retryDelay(attempt, e) ==
    IF e.kind = "rate_limit" /\ e.after > 0 THEN Wrapped(e.after * Second) ELSE Backoff(attempt)

\* Faulty: the provider's wish is ignored.
SleepBackoffOnly(r) ==
    /\ pc[r] = "retry"
    /\ loop' = [loop EXCEPT ![r].wake = clock + Backoff(calls[r])]
    /\ Goto(r, "sleep")
    /\ UNCHANGED <<mode, clock, limiter, records, cancelled, calls, status, served>>

\* The head of the loop for attempt > 0, up to the timer; without a positive delay
\* there is no timer.
Sleep(r) ==
    LET delay == retryDelay(calls[r], loop[r].err) IN
    /\ pc[r] = "retry"
    /\ \/ cancelled[r] /\ Finish(r, "provider_error")
       \/ /\ ~cancelled[r]
          /\ loop' = [loop EXCEPT ![r].wake = IF delay > 0 THEN clock + delay ELSE clock]
          /\ Goto(r, IF delay > 0 THEN "sleep" ELSE "call")
          /\ UNCHANGED status
    /\ UNCHANGED <<mode, clock, limiter, records, cancelled, calls, served>>

\* Faulty: a timer that is missed when nobody looks in time.
WakeExactly(r) ==
    /\ pc[r] = "sleep"
    /\ \/ clock = loop[r].wake /\ Goto(r, "call") /\ UNCHANGED <<loop, status>>
       \/ cancelled[r] /\ Finish(r, "provider_error")
    /\ UNCHANGED <<mode, clock, limiter, records, cancelled, calls, served>>

\* select: the timer has fired or the context is done; if both, either.
Wake(r) ==
    /\ pc[r] = "sleep"
    /\ \/ clock >= loop[r].wake /\ Goto(r, "call") /\ UNCHANGED <<loop, status>>
       \/ cancelled[r] /\ Finish(r, "provider_error")
    /\ UNCHANGED <<mode, clock, limiter, records, cancelled, calls, served>>

\* Faulty: every call of the provider is accounted.
RecordEveryCall(r) ==
    /\ pc[r] = "record"
    /\ usage' = [usage EXCEPT ![Owner[r]] = @ + calls[r]]
    /\ Goto(r, "audit")
    /\ UNCHANGED <<mode, clock, limiter, audit, cancelled, calls, loop, status, served>>

\* RecordResult after a success.
RecordResult(r) ==
    /\ pc[r] = "record"
    /\ usage' = [usage EXCEPT ![Owner[r]] = @ + 1]
    /\ Goto(r, "audit")
    /\ UNCHANGED <<mode, clock, limiter, audit, cancelled, calls, loop, status, served>>

\* Faulty: no store records for a client that is gone.
AuditWhileConnected(r) ==
    /\ pc[r] = "audit"
    /\ audit' = IF cancelled[r] THEN audit
                ELSE Append(audit, [request |-> r, status |-> status[r]])
    /\ Goto(r, "answered")
    /\ UNCHANGED <<mode, clock, limiter, usage, cancelled, calls, loop, status, served>>

\* logger.Record and the answer.  The INSERT runs under the request's context: it
\* may fail, and does when the context is done; nobody is told.
Audit(r) ==
    /\ pc[r] = "audit"
    /\ \/ /\ mode = "memory" \/ ~cancelled[r]
          /\ audit' = Append(audit, [request |-> r, status |-> status[r]])
       \/ mode = "postgres" /\ UNCHANGED audit
    /\ Goto(r, "answered")
    /\ UNCHANGED <<mode, clock, limiter, usage, cancelled, calls, loop, status, served>>

Step(r) ==
    \/ Allow(r)
    \/ Call(r)
    \/ \E outcome \in {"success", "invalid_response"} : Succeed(r, outcome)
    \/ \E e \in Errors : CallFails(r, e)
    \/ Sleep(r)
    \/ Wake(r)
    \/ RecordResult(r)
    \/ Audit(r)

Next ==
    \/ Tick
    \/ \E r \in Requests :
          \/ \E body \in {"invalid", "large", "valid"} : Analyze(r, body)
          \/ Step(r)
          \/ Cancel(r)

Spec == Init /\ [][Next]_vars

\* Go runs every goroutine that can run, timers fire, and a provider call ends at
\* the latest with the timeout of its HTTP client.  No client has to call or to
\* go away.
Fairness == WF_vars(Tick) /\ \A r \in Requests : WF_vars(Step(r))

FairSpec == Spec /\ Fairness

-----------------------------------------------------------------------------
(* Properties.                                                             *)

Labels == {"idle", "limit", "call", "calling", "retry", "sleep", "record", "audit", "answered"}
Statuses == {"none", "success", "error", "budget_limited", "rate_limited",
             "provider_error", "invalid_response"}

\* All state keeps its type; a bucket holds between nothing and a full burst.
TypeOK ==
    /\ mode \in Modes
    /\ clock \in Nat
    /\ bucket \in [Sessions -> [known : BOOLEAN, tokens : 0 .. Burst * TokenUnits, last : Nat]]
    /\ grants \in [Sessions -> Seq(Nat)]
    /\ usage \in [Sessions -> Nat]
    /\ pc \in [Requests -> Labels]
    /\ status \in [Requests -> Statuses]
    /\ calls \in [Requests -> Nat]
    /\ loop \in [Requests -> Locals]

\* However concurrent requests interleave with the passing of time, within any
\* span of time the limiter lets through no more requests of a session than a
\* full burst and what is refilled in that span.
RateBound ==
    \A s \in Sessions : \A i, j \in 1 .. Len(grants[s]) :
        i <= j => (j - i + 1) * TokenUnits
                     <= Burst * TokenUnits + grants[s][j] - grants[s][i]

\* What makes RateBound inductive: what is left in the bucket has not been spent
\* in any span that ends with the last refill.
LimiterInv ==
    \A s \in Sessions : LET b == bucket[s]
                           n == Len(grants[s]) IN
        /\ b.last <= clock
        /\ ~b.known => grants[s] = <<>>
        /\ \A i \in 1 .. n : b.tokens + (n - i + 1) * TokenUnits
                                 <= Burst * TokenUnits + b.last - grants[s][i]

\* Only requests that the limiter let through reach the provider, each of them at
\* most MaxAttempts times.
CallsAreAdmitted ==
    /\ \A r \in Requests : calls[r] <= MaxAttempts
    /\ \A s \in Sessions :
          Cardinality({r \in Requests : Owner[r] = s /\ calls[r] > 0}) <= Len(grants[s])

\* The wait that an error before the given attempt calls for: the seconds of the
\* provider's Retry-After, or else the exponential backoff.  Nothing is asked of
\* seconds that no Duration holds: their product wraps around (controls.go:337).
Owed(attempt, e) ==
    CASE e.kind = "rate_limit" /\ e.after > 0 /\ e.after * Second <= MaxDuration -> e.after * Second
      [] e.kind = "rate_limit" /\ e.after > 0 /\ e.after * Second > MaxDuration -> 0
      [] OTHER -> Backoff(attempt)

\* ExecuteWithRetries never begins the next attempt before all of the wait that the
\* last error calls for has passed since that error was returned, however long the
\* failed call itself took and whatever else went on meanwhile.
RetryWaits ==
    [][\A r \in Requests : calls[r] > 0 /\ calls'[r] > calls[r] =>
          clock >= loop[r].failed + Owed(calls[r], loop[r].err)]_vars

Recorded(r) == {i \in 1 .. Len(audit) : audit[i].request = r}

\* A session is charged once for each request that the provider answered, however
\* many attempts it took and whether or not its client is still there.
UsageCountsAnswers ==
    /\ \A s \in Sessions : usage[s] =
          Cardinality({r \in served : Owner[r] = s /\ pc[r] # "record"})
    /\ \A r \in Requests : status[r] = "success" => r \in served

\* A request is audited at most once, with the status it is answered with, and in
\* memory every answered request is, cancelled ones too.
AuditTellsOutcome ==
    /\ \A i \in 1 .. Len(audit) : audit[i].status = status[audit[i].request]
    /\ \A r \in Requests :
          /\ Cardinality(Recorded(r)) <= 1
          /\ mode = "memory" /\ pc[r] = "answered" => Recorded(r) # {}

\* Every request that entered the pipeline is answered: retries end, sleeps end,
\* and neither a slow provider nor a lost audit insert keeps it.
RequestAnswered == \A r \in Requests : pc[r] = "limit" ~> pc[r] = "answered"

=============================================================================
