---------------------------- MODULE OllamaClient ----------------------------
(***************************************************************************)
(* OllamaClient._request_with_retry (app/agent/ollama_client.py) as run by *)
(* several tasks over the one global circuit breaker: every call makes up  *)
(* to max_attempts requests and asks the breaker before the first.         *)
(***************************************************************************)
EXTENDS CircuitBreaker

CONSTANTS
  Callers,      \* tasks that call Ollama
  MaxAttempts,  \* RetryPolicy.max_attempts
  Calls,        \* bound: calls each task makes
  Resets        \* bound: uses of reset and force_open

ASSUME ClientAssumption ==
  MaxAttempts \in Nat \ {0} /\ Calls \in Nat /\ Resets \in Nat

VARIABLES
  pc,       \* "idle", "sent" (awaiting the response) or "backoff" (asleep)
  attempt,  \* requests made in the current call
  calls,    \* calls begun by each task
  manual,   \* uses of reset and force_open so far
  sentIn,   \* state of the breaker when the request in flight was sent (ghost)
  streak    \* failures recorded since the last success or reset (ghost)

clientVars == <<pc, attempt, calls>>
vars == <<breakerVars, clientVars, manual, sentIn, streak>>

Init ==
  /\ BreakerInit
  /\ pc = [c \in Callers |-> "idle"]
  /\ attempt = [c \in Callers |-> 0]
  /\ calls = [c \in Callers |-> 0]
  /\ manual = 0
  /\ sentIn = [c \in Callers |-> "closed"]
  /\ streak = 0

CountFailure == streak' = IF streak < FailureThreshold THEN streak + 1 ELSE streak
ClearStreak == streak' = 0

Leave(c) ==
  /\ pc' = [pc EXCEPT ![c] = "idle"]
  /\ attempt' = [attempt EXCEPT ![c] = 0]
  /\ UNCHANGED <<calls, sentIn>>

\* Mutant of Send: the loop counter does not advance.
SendUncounted(c) ==
  /\ pc' = [pc EXCEPT ![c] = "sent"]
  /\ attempt' = [attempt EXCEPT ![c] = 1]
  /\ sentIn' = [sentIn EXCEPT ![c] = state']

\* The state a request is sent in is the one can_execute leaves behind.
Send(c) ==
  /\ pc' = [pc EXCEPT ![c] = "sent"]
  /\ attempt' = [attempt EXCEPT ![c] = @ + 1]
  /\ sentIn' = [sentIn EXCEPT ![c] = state']

\* The first round of the loop: the breaker is asked and the request sent.
Call(c) ==
  /\ pc[c] = "idle"
  /\ calls[c] < Calls
  /\ Admits
  /\ calls' = [calls EXCEPT ![c] = @ + 1]
  /\ CanExecute
  /\ Send(c)
  /\ UNCHANGED <<manual, streak>>

\* CircuitBreakerOpenError: nothing changes but the count of calls.
CallBlocked(c) ==
  /\ pc[c] = "idle"
  /\ calls[c] < Calls
  /\ ~Admits
  /\ calls' = [calls EXCEPT ![c] = @ + 1]
  /\ UNCHANGED <<breakerVars, pc, attempt, manual, sentIn, streak>>

\* A response that parses.
Answered(c) ==
  /\ pc[c] = "sent"
  /\ RecordSuccess
  /\ ClearStreak
  /\ Leave(c)
  /\ UNCHANGED manual

CanSleep(c) == attempt[c] < MaxAttempts

\* 5xx, timeout or network error: recorded, and retried while attempts last.
Unavailable(c) ==
  /\ pc[c] = "sent"
  /\ RecordFailure
  /\ CountFailure
  /\ IF CanSleep(c)
       THEN pc' = [pc EXCEPT ![c] = "backoff"] /\ UNCHANGED <<attempt, calls, sentIn>>
       ELSE Leave(c)
  /\ UNCHANGED manual

\* 404, 4xx or an unreadable body: recorded, never retried.
Rejected(c) ==
  /\ pc[c] = "sent"
  /\ RecordFailure
  /\ CountFailure
  /\ Leave(c)
  /\ UNCHANGED manual

\* Any other exception (httpx.ProtocolError, cancellation) passes the breaker
\* by; cancellation also interrupts the sleep.
Escaped(c) ==
  /\ pc[c] \in {"sent", "backoff"}
  /\ Leave(c)
  /\ UNCHANGED <<breakerVars, manual, streak>>

\* The sleep ends and the next round sends without asking the breaker.
Retry(c) ==
  /\ pc[c] = "backoff"
  /\ UNCHANGED breakerVars
  /\ Send(c)
  /\ UNCHANGED <<calls, manual, streak>>

Manual ==
  /\ manual < Resets
  /\ manual' = manual + 1
  /\ \/ ResetBreaker /\ ClearStreak
     \/ ForceOpen /\ UNCHANGED streak
  /\ UNCHANGED <<clientVars, sentIn>>

Timer == Elapse /\ UNCHANGED <<clientVars, manual, sentIn, streak>>

CallerStep(c) ==
  \/ Call(c) \/ CallBlocked(c) \/ Answered(c) \/ Unavailable(c)
  \/ Rejected(c) \/ Escaped(c) \/ Retry(c)

Next == Timer \/ Manual \/ \E c \in Callers : CallerStep(c)

Spec == Init /\ [][Next]_vars

\* Responses arrive or time out and sleeps end; nobody has to call.  The
\* timeout is sure to pass only once no request can restart it.
FairSpec ==
  /\ Spec
  /\ WF_vars(Timer /\ \A c \in Callers : pc[c] = "idle")
  /\ \A c \in Callers :
       /\ WF_vars(Answered(c) \/ Unavailable(c) \/ Rejected(c) \/ Escaped(c))
       /\ WF_vars(Retry(c))

-----------------------------------------------------------------------------
\* The type invariant; a call is in flight while it has made a request.
TypeOK ==
  /\ BreakerType
  /\ pc \in [Callers -> {"idle", "sent", "backoff"}]
  /\ attempt \in [Callers -> Nat]
  /\ calls \in [Callers -> Nat]
  /\ manual \in Nat
  /\ sentIn \in [Callers -> {"closed", "open", "half_open"}]
  /\ streak \in Nat
  /\ \A c \in Callers : pc[c] = "idle" <=> attempt[c] = 0

\* circuit_breaker_open fails fast: a call that meets an open breaker sends
\* nothing, so what goes out while it is open are retries of calls admitted
\* earlier.
OpenAdmitsNoCall ==
  \A c \in Callers : pc[c] = "sent" /\ sentIn[c] = "open" => attempt[c] > 1

\* Whatever mixture of errors a call meets, it makes at most MaxAttempts
\* requests.
RequestsBounded == \A c \in Callers : attempt[c] <= MaxAttempts

\* "CLOSED -> OPEN: After failure_threshold consecutive failures": the
\* results of concurrent calls never open it earlier.
OpensOnStreak ==
  [][state = "closed" /\ state' = "open" /\ manual' = manual
       => streak' >= FailureThreshold]_vars

\* Late results of requests sent before the breaker opened do not close it:
\* short of a reset it leaves OPEN only for HALF_OPEN, after the timeout.
ReopensThroughProbe ==
  [][state = "open" /\ state' # "open" /\ manual' = manual
       => state' = "half_open" /\ waited]_vars

\* An open breaker becomes ready for a probe, however many late failures
\* restart its timeout.
ProbeComes == [](state = "open" => <>(waited \/ state # "open"))
=============================================================================
