----------------------------- MODULE WorkerPool -----------------------------
(***************************************************************************)
(* The job queue at work: WorkerPool (app/queue/workers.py) over the       *)
(* dispatcher, the per-chat locks (app/queue/locks.py), the Ollama         *)
(* semaphore and the dead-letter table, with the callers that enqueue jobs *)
(* and the shutdown sequence of app/main.py (_stop_queue_workers).         *)
(*                                                                         *)
(* A step is what a task does between two awaits that really suspend it.   *)
(* LockManager's manager lock is never held across a suspension, so it is  *)
(* not visible here.                                                       *)
(***************************************************************************)
EXTENDS Dispatcher

CONSTANTS
  Workers,      \* the tasks spawned by WorkerPool.start
  NoWorker,     \* an unlocked chat lock has no holder
  Chats,        \* chat ids
  NoChat,       \* Job.chat_id is None
  ChatOf,       \* ChatOf[j]: the chat of job j, or NoChat
  Handled,      \* jobs whose type has a registered handler
  NeedsOllama,  \* handled jobs whose type runs under the Ollama semaphore
  Permits,      \* ollama_concurrency
  NoItem        \* a worker between two jobs holds no item

ASSUME WorkerPoolAssumption ==
  /\ IsFiniteSet(Workers) /\ Workers # {}
  /\ NoWorker \notin Workers
  /\ NoChat \notin Chats
  /\ NoItem \notin Items
  /\ ChatOf \in [Jobs -> Chats \cup {NoChat}]
  /\ NeedsOllama \subseteq Handled
  /\ Permits \in Nat \ {0}

VARIABLES
  pc,         \* where each worker task is suspended
  cur,        \* the item a worker is processing, or NoItem
  holder,     \* the worker holding each chat lock, or NoWorker
  ahead,      \* per waiting worker, the waiters of its lock that asked before
  permits,    \* value of the Ollama semaphore
  pool,       \* progress of main's shutdown sequence
  dlq,        \* rows of job_dead_letters, each [job, att, row]
  nextRow,    \* autoincrement id of the next row
  done,       \* jobs marked complete by a worker (ghost)
  abandoned   \* jobs a cancelled worker or a failed insert left behind (ghost)

workerVars == <<pc, cur, holder, ahead, permits>>
fateVars == <<dlq, nextRow, done, abandoned>>
vars == <<dispatcherVars, workerVars, pool, fateVars>>

Locations == {"loop", "dequeue", "lockwait", "semwait", "running", "dlqadd", "stopped"}

JobOf(w) == cur[w].job
HasChat(w) == ChatOf[JobOf(w)] # NoChat

\* Mutant of Waiters: the lock is granted in any order.
NoWaiters(c) == {}
Waiters(c) == {w \in Workers : pc[w] = "lockwait" /\ ChatOf[JobOf(w)] = c}
InHandler == {w \in Workers : pc[w] = "running"}
HoldsPermit == {w \in InHandler : JobOf(w) \in NeedsOllama}

Init ==
  /\ DispatcherInit
  /\ pc = [w \in Workers |-> "loop"]
  /\ cur = [w \in Workers |-> NoItem]
  /\ holder = [c \in Chats |-> NoWorker]
  /\ ahead = [w \in Workers |-> {}]
  /\ permits = Permits
  /\ pool = "running"
  /\ dlq = {}
  /\ nextRow = 1
  /\ done = {}
  /\ abandoned = {}

-----------------------------------------------------------------------------
(* The creators of jobs, Telegram and the CLI among them, build a Job and  *)
(* enqueue it at once.                                                     *)

Submit(j) ==
  /\ outcome[j] = "new"
  /\ \E cut \in Cutoffs :
       LET it == [job |-> j, att |-> 0, at |-> clock] IN
       /\ Enqueue(it, cut)
       /\ outcome' = [outcome EXCEPT ![j] = EnqueueResult(it, cut)]
  /\ clock' = clock + 1
  /\ UNCHANGED <<pending, down, workerVars, pool, fateVars>>

-----------------------------------------------------------------------------
(* One worker task.  Once the pool cancels the tasks, the next thing each  *)
(* of them sees is CancelledError.                                         *)

Scheduled(w, at) == pc[w] = at /\ pool # "cancelling"

Goto(w, at) == pc' = [pc EXCEPT ![w] = at]

Finish(w, at) == Goto(w, at) /\ cur' = [cur EXCEPT ![w] = NoItem]

\* The test of the while loop, then the checks before dequeue.
LoopCheck(w) ==
  /\ Scheduled(w, "loop")
  /\ Goto(w, IF pool # "running" \/ (down /\ queue = {}) THEN "stopped"
             ELSE "dequeue")
  /\ UNCHANGED <<dispatcherVars, cur, holder, ahead, permits, pool, fateVars>>

\* After the chat lock: a handler of an Ollama job type waits for a permit.
Entry(j) == IF j \in NeedsOllama THEN "semwait" ELSE "running"

\* dequeue returns a job; a job of a chat joins the line for its lock.
Dequeue(w) ==
  /\ Scheduled(w, "dequeue")
  /\ \E it \in queue :
       /\ Take(it)
       /\ cur' = [cur EXCEPT ![w] = it]
       /\ IF ChatOf[it.job] = NoChat
            THEN Goto(w, Entry(it.job)) /\ UNCHANGED ahead
            ELSE /\ Goto(w, "lockwait")
                 /\ ahead' = [ahead EXCEPT ![w] = Waiters(ChatOf[it.job])]
  /\ UNCHANGED <<seen, down, clock, outcome, holder, permits, pool, fateVars>>

\* dequeue(timeout=1.0) returns None.
DequeueTimeout(w) ==
  /\ Scheduled(w, "dequeue")
  /\ queue = {}
  /\ Goto(w, "loop")
  /\ UNCHANGED <<dispatcherVars, cur, holder, ahead, permits, pool, fateVars>>

\* Mutant of LeaveLine: the waiters behind are not told.
LeaveLineSilently(w) == ahead' = [ahead EXCEPT ![w] = {}]
LeaveLine(w) == ahead' = [v \in Workers |-> IF v = w THEN {} ELSE ahead[v] \ {w}]

\* Mutant of LockFree: every caller gets a lock of its own, as when the
\* dictionary entry is replaced instead of looked up.
LockAlwaysFree(c) == TRUE
LockFree(c) == holder[c] = NoWorker

\* asyncio.Lock is granted in the order it was asked for.
LockGranted(w) ==
  /\ Scheduled(w, "lockwait")
  /\ ahead[w] = {}
  /\ LockFree(ChatOf[JobOf(w)])
  /\ holder' = [holder EXCEPT ![ChatOf[JobOf(w)]] = w]
  /\ LeaveLine(w)
  /\ Goto(w, Entry(JobOf(w)))
  /\ UNCHANGED <<dispatcherVars, cur, permits, pool, fateVars>>

\* The exits of acquire_chat_lock and of the semaphore, taken together.
Unlock(w) ==
  holder' = [c \in Chats |-> IF holder[c] = w THEN NoWorker ELSE holder[c]]

Unpermit(w) == permits' = IF w \in HoldsPermit THEN permits + 1 ELSE permits

\* mark_failed, and the worker's return to its loop unless the job goes to
\* the dead-letter queue.  (A "dropped" job would vanish here.)
Fail(w) ==
  \E cut \in Cutoffs :
    /\ MarkFailed(cur[w], cut)
    /\ IF FailVerdict(cur[w], cut) = "dead"
         THEN Goto(w, "dlqadd") /\ UNCHANGED cur
         ELSE Finish(w, "loop")

\* LockTimeoutError: the wait for the chat lock exceeded lock_timeout.
LockTimeout(w) ==
  /\ Scheduled(w, "lockwait")
  /\ LeaveLine(w)
  /\ Fail(w)
  /\ UNCHANGED <<down, clock, outcome, holder, permits, pool, fateVars>>

\* async with self._ollama_semaphore
PermitGranted(w) ==
  /\ Scheduled(w, "semwait")
  /\ permits > 0
  /\ permits' = permits - 1
  /\ Goto(w, "running")
  /\ UNCHANGED <<dispatcherVars, cur, holder, ahead, pool, fateVars>>

\* The handler returns (a job without a handler is only logged), the permit
\* and the lock are released and the job is marked complete.
HandlerReturns(w) ==
  /\ Scheduled(w, "running")
  /\ Unlock(w)
  /\ Unpermit(w)
  /\ MarkComplete(cur[w])
  /\ done' = done \cup {JobOf(w)}
  /\ Finish(w, "loop")
  /\ UNCHANGED <<queue, seen, down, clock, outcome, ahead, pool,
                 dlq, nextRow, abandoned>>

\* The handler raises.
HandlerRaises(w) ==
  /\ Scheduled(w, "running")
  /\ JobOf(w) \in Handled
  /\ Unlock(w)
  /\ Unpermit(w)
  /\ Fail(w)
  /\ UNCHANGED <<down, clock, outcome, ahead, pool, fateVars>>

\* DeadLetterQueue.add commits; the row holds the job as it was dequeued.
\* An insert in flight may still commit as the worker is cancelled.
DeadLetterAdded(w) ==
  /\ pc[w] = "dlqadd"
  /\ dlq' = dlq \cup {[job |-> JobOf(w), att |-> cur[w].att, row |-> nextRow]}
  /\ nextRow' = nextRow + 1
  /\ Finish(w, "loop")
  /\ UNCHANGED <<dispatcherVars, holder, ahead, permits, pool, done, abandoned>>

\* The insert raises: the worker loop logs the error and goes on.
DeadLetterLost(w) ==
  /\ Scheduled(w, "dlqadd")
  /\ abandoned' = abandoned \cup {JobOf(w)}
  /\ Finish(w, "loop")
  /\ UNCHANGED <<dispatcherVars, holder, ahead, permits, pool, dlq, nextRow, done>>

-----------------------------------------------------------------------------
(* _stop_queue_workers: WorkerPool.stop, then JobDispatcher.shutdown.      *)

\* stop sets the shutdown event.
StopPool ==
  /\ pool = "running"
  /\ pool' = "stopping"
  /\ UNCHANGED <<dispatcherVars, workerVars, fateVars>>

\* The workers did not finish within stop's timeout.
StopTimeout ==
  /\ pool = "stopping"
  /\ \E w \in Workers : pc[w] # "stopped"
  /\ pool' = "cancelling"
  /\ UNCHANGED <<dispatcherVars, workerVars, fateVars>>

HasJob(w) == pc[w] \in {"lockwait", "semwait", "running", "dlqadd"}

\* CancelledError leaves the worker: the context managers release the lock
\* and the permit, but it is no Exception and the job is not marked at all.
Cancelled(w) ==
  /\ pool = "cancelling"
  /\ pc[w] # "stopped"
  /\ Unlock(w)
  /\ Unpermit(w)
  /\ LeaveLine(w)
  /\ Finish(w, "stopped")
  /\ abandoned' = IF HasJob(w) THEN abandoned \cup {JobOf(w)} ELSE abandoned
  /\ UNCHANGED <<dispatcherVars, pool, dlq, nextRow, done>>

\* stop returns when every worker task has ended.
PoolStopped ==
  /\ pool \in {"stopping", "cancelling"}
  /\ \A w \in Workers : pc[w] = "stopped"
  /\ pool' = "stopped"
  /\ UNCHANGED <<dispatcherVars, workerVars, fateVars>>

\* Mutant of ShutdownDispatcher: the dispatcher is shut down first.
ShutdownDispatcherEarly ==
  /\ ~down
  /\ down' = TRUE
  /\ UNCHANGED <<queue, pending, seen, clock, outcome, workerVars, pool, fateVars>>

\* shutdown(wait=True) raises the flag ...
ShutdownDispatcher ==
  /\ pool = "stopped"
  /\ ~down
  /\ down' = TRUE
  /\ UNCHANGED <<queue, pending, seen, clock, outcome, workerVars, pool, fateVars>>

\* ... and returns when no job is pending.
ShutdownReturns ==
  /\ pool = "stopped"
  /\ down
  /\ pending = {}
  /\ pool' = "exited"
  /\ UNCHANGED <<dispatcherVars, workerVars, fateVars>>

-----------------------------------------------------------------------------

WorkerStep(w) ==
  \/ LoopCheck(w) \/ Dequeue(w) \/ DequeueTimeout(w)
  \/ LockGranted(w) \/ LockTimeout(w) \/ PermitGranted(w)
  \/ HandlerReturns(w) \/ HandlerRaises(w)
  \/ DeadLetterAdded(w) \/ DeadLetterLost(w) \/ Cancelled(w)

StopStep == StopPool \/ StopTimeout \/ PoolStopped \/ ShutdownDispatcher \/ ShutdownReturns

Next ==
  \/ \E j \in Jobs : Submit(j)
  \/ \E w \in Workers : WorkerStep(w)
  \/ StopStep

Spec == Init /\ [][Next]_vars

\* The event loop runs every ready task, handlers and database calls return
\* or raise, and main carries its shutdown through; nobody has to submit a
\* job, to stop the process or to let a timeout expire.
Fairness ==
  /\ \A w \in Workers :
       /\ WF_vars(LoopCheck(w)) /\ WF_vars(Dequeue(w)) /\ WF_vars(DequeueTimeout(w))
       /\ WF_vars(LockGranted(w)) /\ SF_vars(PermitGranted(w))
       /\ WF_vars(HandlerReturns(w) \/ HandlerRaises(w))
       /\ WF_vars(DeadLetterAdded(w) \/ DeadLetterLost(w))
       /\ WF_vars(Cancelled(w))
  /\ WF_vars(PoolStopped) /\ WF_vars(ShutdownDispatcher) /\ WF_vars(ShutdownReturns)

FairSpec == Spec /\ Fairness

-----------------------------------------------------------------------------
(* What the queue promises.                                                *)

HoldsChat(w) == pc[w] \in {"semwait", "running"} /\ HasChat(w)

\* The type invariant.
TypeOK ==
  /\ queue \subseteq Items
  /\ pending \subseteq Jobs
  /\ seen \in [Keys -> Nat]
  /\ down \in BOOLEAN
  /\ clock \in Nat \ {0}
  /\ outcome \in [Jobs -> Outcomes \cup {"new"}]
  /\ pc \in [Workers -> Locations]
  /\ cur \in [Workers -> Items \cup {NoItem}]
  /\ \A w \in Workers : HasJob(w) <=> cur[w] # NoItem
  /\ holder \in [Chats -> Workers \cup {NoWorker}]
  /\ ahead \in [Workers -> SUBSET Workers]
  /\ permits \in Int
  /\ pool \in {"running", "stopping", "cancelling", "stopped", "exited"}
  /\ dlq \subseteq [job : Jobs, att : Nat, row : Nat]
  /\ nextRow \in Nat
  /\ done \subseteq Jobs
  /\ abandoned \subseteq Jobs

\* "Only one job processes a chat at a time" (locks.py): through timeouts,
\* failures and cancellation, two workers are never inside the same chat.
ChatMutex ==
  \A v, w \in Workers :
    v # w /\ HoldsChat(v) /\ HoldsChat(w) => ChatOf[JobOf(v)] # ChatOf[JobOf(w)]

\* No permit of the Ollama semaphore leaks and none is released twice, on
\* any way out of a handler, so at most Permits calls run at once.
PermitsConserved == permits >= 0 /\ permits + Cardinality(HoldsPermit) = Permits

\* Backpressure: retries of failed jobs included, the queue never outgrows
\* max_size.
QueueBounded == Cardinality(queue) <= MaxSize

\* Until the pool cancels its tasks, _pending_jobs is exactly what the
\* workers are processing: shutdown(wait=True) waits for these.
PendingExact ==
  pool \in {"running", "stopping"} =>
    pending = {JobOf(w) : w \in {v \in Workers : HasJob(v) /\ pc[v] # "dlqadd"}}

\* The places a job may be found in.
QueuedAs(j) == {it \in queue : it.job = j}
HeldBy(j) == {w \in Workers : HasJob(w) /\ JobOf(w) = j}
DeadAs(j) == {r \in dlq : r.job = j}
Among(j, S) == S \cap {j}

\* An accepted job is in exactly one place - queued, in the hands of one
\* worker, done, dead-lettered, or left behind by a cancelled worker or a
\* failed insert - and a job that was not accepted is nowhere: retries
\* neither lose nor double a job.
OnePlace ==
  \A j \in Jobs :
    Cardinality(QueuedAs(j)) + Cardinality(HeldBy(j)) + Cardinality(DeadAs(j))
      + Cardinality(Among(j, done)) + Cardinality(Among(j, abandoned))
    = IF outcome[j] = "queued" THEN 1 ELSE 0

\* Jobs of one chat and priority start in the order they were created: while
\* one is inside the chat, none created before it is still waiting for its
\* first attempt, in the queue or at the lock.
ChatOrder ==
  \A w \in Workers :
    HoldsChat(w) =>
      \A it \in queue \cup {cur[v] : v \in {u \in Workers : pc[u] = "lockwait"}} :
        /\ ChatOf[it.job] = ChatOf[JobOf(w)]
        /\ Prio[it.job] = Prio[JobOf(w)]
        /\ it.att = 0
        => it.at > cur[w].at

\* A job is attempted at most MaxAttempts times: what is queued or held has
\* an attempt left, whatever mixture of failures and lock timeouts it met.
AttemptsLeft ==
  /\ \A it \in queue : it.att < MaxAttempts
  /\ \A w \in Workers : HasJob(w) => cur[w].att < MaxAttempts

\* While a worker still has a job to fail, the dispatcher accepts retries:
\* the False that enqueue returns after shutdown, which mark_failed does not
\* look at, never swallows a job.  It is the order of _stop_queue_workers
\* that makes it so.
NoSilentDrop ==
  \A w \in Workers, cut \in Cutoffs :
    HasJob(w) => FailVerdict(cur[w], cut) # "dropped"

Settled(j) == j \in done \/ j \in abandoned \/ DeadAs(j) # {}

\* While the process runs, every accepted job comes to an end.
JobsSettle ==
  \A j \in Jobs : outcome[j] = "queued" ~> Settled(j) \/ pool # "running"

\* The whole shutdown completes if no worker had to be cancelled with a job.
CleanShutdown ==
  pool = "stopping" ~> pool = "exited" \/ pending \cap abandoned # {}

\* The places a job is found in, as the lifecycle counts them.
Places(j) ==
  LET In(at, att) == [at |-> at, att |-> att]
      Held(w) == IF pc[w] = "dlqadd" THEN "dying" ELSE "working"
  IN {In("waiting", it.att) : it \in QueuedAs(j)}
     \cup {In(Held(w), cur[w].att) : w \in HeldBy(j)}
     \cup {In("dead", 0) : r \in DeadAs(j)}
     \cup {In("done", 0) : d \in Among(j, done)}
     \cup {In("lost", 0) : a \in Among(j, abandoned)}

Life == INSTANCE JobLifecycle WITH places <- [j \in Jobs |-> Places(j)]

\* The pool with its dispatcher, locks and shutdown implements the lifecycle of
\* a job: no interleaving of workers, retries, timeouts and cancellation moves a
\* job along another arrow, twice, or beyond its attempts.
ImplementsLifecycle == Life!Spec

-----------------------------------------------------------------------------
(* What the comments of the code say and the code does not do.             *)

\* main.py:604, "Stop the queue workers and outbound sender gracefully", with
\* a timeout for the workers: the sequence comes to its end.
ShutdownCompletes == pool = "stopping" ~> pool = "exited"
=============================================================================
