----------------------------- MODULE Dispatcher -----------------------------
(***************************************************************************)
(* JobDispatcher (app/queue/dispatcher.py) and the Job model it stores     *)
(* (app/queue/jobs.py): an in-memory priority queue, the set of jobs being *)
(* processed, the idempotency-key cache and the shutdown flag.             *)
(*                                                                         *)
(* The dispatcher runs on one asyncio event loop.  enqueue never really    *)
(* suspends (it checks for room before it puts), so each operation below   *)
(* is one step.  The module holds the dispatcher's state and operations;   *)
(* WorkerPool composes them with their callers.                            *)
(***************************************************************************)
EXTENDS Integers, FiniteSets

CONSTANTS
  Jobs,         \* Job objects created during the life of the process
  Keys,         \* idempotency keys
  NoKey,        \* Job.idempotency_key is None
  KeyOf,        \* KeyOf[j]: the idempotency key of job j, or NoKey
  Prio,         \* Prio[j]: JobPriority, smaller is more urgent
  MaxAttempts,  \* Job.max_attempts
  MaxSize,      \* JobDispatcher.max_size
  Cutoffs       \* clock values the TTL cutoff may have when keys are cleaned

ASSUME DispatcherAssumption ==
  /\ IsFiniteSet(Jobs)
  /\ NoKey \notin Keys
  /\ KeyOf \in [Jobs -> Keys \cup {NoKey}]
  /\ Prio \in [Jobs -> Int]
  /\ MaxAttempts \in Nat \ {0}
  /\ MaxSize \in Nat \ {0}
  /\ Cutoffs \subseteq Nat

VARIABLES
  queue,    \* _queue: the items waiting, each [job, att, at]
  pending,  \* _pending_jobs: ids of the jobs being processed
  seen,     \* _idempotency_keys: creation clock of each key, 0 if absent
  down,     \* _shutdown
  clock,    \* the next created_at; a job is created as it is enqueued
  outcome   \* what enqueue answered to the creator of each job

dispatcherVars == <<queue, pending, seen, down, clock, outcome>>

\* A queue item: the job, Job.attempts and Job.created_at.
Items == [job : Jobs, att : Nat, at : Nat]

Outcomes == {"queued", "refused", "duplicate", "full"}

\* Job.__lt__: more urgent first, then older first.
Before(x, y) ==
  \/ Prio[x.job] < Prio[y.job]
  \/ Prio[x.job] = Prio[y.job] /\ x.at < y.at

\* Job.increment_attempts: the same job, created_at included.
IncrementAttempts(it) == [it EXCEPT !.att = @ + 1]

CanRetry(it) == it.att < MaxAttempts

DispatcherInit ==
  /\ queue = {}
  /\ pending = {}
  /\ seen = [k \in Keys |-> 0]
  /\ down = FALSE
  /\ clock = 1
  /\ outcome = [j \in Jobs |-> "new"]

\* _cleanup_idempotency_keys: forget the keys recorded before the cutoff.
Unexpired(cut) == [k \in Keys |-> IF seen[k] < cut THEN 0 ELSE seen[k]]

IsDuplicate(it, cut) ==
  KeyOf[it.job] # NoKey /\ Unexpired(cut)[KeyOf[it.job]] # 0

\* The key is recorded before the capacity check.
Marked(it, cut) ==
  [k \in Keys |-> IF k = KeyOf[it.job] THEN clock ELSE Unexpired(cut)[k]]

IsFull == Cardinality(queue) >= MaxSize

\* What enqueue returns ("queued", "refused" for False) or raises.
EnqueueResult(it, cut) ==
  IF down THEN "refused"
  ELSE IF IsDuplicate(it, cut) THEN "duplicate"
  ELSE IF IsFull THEN "full"
  ELSE "queued"

\* enqueue, whatever its result.
Enqueue(it, cut) ==
  LET r == EnqueueResult(it, cut) IN
  /\ queue' = IF r = "queued" THEN queue \cup {it} ELSE queue
  /\ seen' = IF r = "refused" THEN seen
             ELSE IF r = "duplicate" THEN Unexpired(cut)
             ELSE Marked(it, cut)

\* dequeue: the PriorityQueue yields a least item, and its id is pending.
Take(it) ==
  /\ it \in queue
  /\ \A x \in queue : ~Before(x, it)
  /\ queue' = queue \ {it}
  /\ pending' = pending \cup {it.job}

\* Mutant of MarkComplete: the id stays pending.
MarkCompleteForgotten(it) == UNCHANGED pending

\* mark_complete
MarkComplete(it) == pending' = pending \ {it.job}

\* Mutant of FailVerdict: a retry that finds the queue full is not caught.
FailVerdictIgnoringFull(it, cut) ==
  LET r == EnqueueResult(IncrementAttempts(it), cut) IN
  IF ~CanRetry(IncrementAttempts(it)) \/ r = "duplicate" THEN "dead"
  ELSE IF r = "refused" THEN "dropped"
  ELSE "retry"

\* mark_failed: what becomes of the item; "dead" sends it to the
\* dead-letter queue, "dropped" is enqueue's False, which nobody reads.
FailVerdict(it, cut) ==
  LET r == EnqueueResult(IncrementAttempts(it), cut) IN
  IF ~CanRetry(IncrementAttempts(it)) \/ r \in {"duplicate", "full"} THEN "dead"
  ELSE IF r = "refused" THEN "dropped"
  ELSE "retry"

\* mark_failed, up to the await of dead_letter_queue.add.
MarkFailed(it, cut) ==
  /\ pending' = pending \ {it.job}
  /\ IF CanRetry(IncrementAttempts(it))
       THEN Enqueue(IncrementAttempts(it), cut)
       ELSE UNCHANGED <<queue, seen>>
=============================================================================
