--------------------------- MODULE CircuitBreaker ---------------------------
(***************************************************************************)
(* CircuitBreaker (app/agent/circuit_breaker.py): the state of one breaker *)
(* and its operations, each of which runs under the breaker's own lock.    *)
(* OllamaClient composes it with the callers.                              *)
(***************************************************************************)
EXTENDS Integers

CONSTANTS
  FailureThreshold,  \* failures that open a closed breaker
  SuccessThreshold   \* successes that close a half-open one

ASSUME BreakerAssumption ==
  /\ FailureThreshold \in Nat \ {0}
  /\ SuccessThreshold \in Nat \ {0}

VARIABLES
  state,      \* CircuitState
  failures,   \* failure_count, capped by the threshold of interest
  successes,  \* success_count
  waited      \* timeout_sec has passed since last_failure_time, or it is None

breakerVars == <<state, failures, successes, waited>>

BreakerType ==
  /\ state \in {"closed", "open", "half_open"}
  /\ failures \in Nat
  /\ successes \in Nat
  /\ waited \in BOOLEAN

BreakerInit ==
  /\ state = "closed"
  /\ failures = 0
  /\ successes = 0
  /\ waited = TRUE

\* can_execute: what it answers ...
Admits == state # "open" \/ waited

\* ... and its effect: an open breaker whose timeout is over turns half-open.
CanExecute ==
  IF state = "open" /\ waited
    THEN state' = "half_open" /\ successes' = 0 /\ UNCHANGED <<failures, waited>>
    ELSE UNCHANGED breakerVars

\* Mutant of RecordSuccess: failures need not be consecutive.
RecordSuccessNotResetting ==
  /\ UNCHANGED <<successes, waited>>
  /\ IF state = "half_open" THEN state' = "closed" /\ failures' = 0
     ELSE UNCHANGED <<state, failures>>

\* record_success: a success reported to an open breaker is only logged.
RecordSuccess ==
  /\ UNCHANGED waited
  /\ \/ state = "closed" /\ failures' = 0 /\ UNCHANGED <<state, successes>>
     \/ /\ state = "half_open"
        /\ IF successes + 1 >= SuccessThreshold
             THEN state' = "closed" /\ failures' = 0 /\ successes' = 0
             ELSE successes' = successes + 1 /\ UNCHANGED <<state, failures>>
     \/ state = "open" /\ UNCHANGED <<state, failures, successes>>

\* record_failure restarts the timeout in every state.
RecordFailure ==
  /\ waited' = FALSE
  /\ failures' = IF state = "closed" THEN failures + 1 ELSE failures
  /\ IF state = "half_open" \/ (state = "closed" /\ failures + 1 >= FailureThreshold)
       THEN state' = "open" /\ successes' = 0
       ELSE UNCHANGED <<state, successes>>

\* timeout_sec passes after the last failure.
Elapse ==
  /\ ~waited
  /\ waited' = TRUE
  /\ UNCHANGED <<state, failures, successes>>

\* reset
ResetBreaker ==
  /\ state' = "closed"
  /\ failures' = 0
  /\ successes' = 0
  /\ waited' = TRUE

\* force_open
ForceOpen ==
  /\ state' = "open"
  /\ waited' = FALSE
  /\ UNCHANGED <<failures, successes>>

\* A closed breaker is short of its threshold, a half-open one of its own.
BelowThresholds ==
  /\ state = "closed" => failures < FailureThreshold
  /\ state = "half_open" => successes < SuccessThreshold
=============================================================================
