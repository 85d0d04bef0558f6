-------------------------- MODULE WorkerPoolProofs --------------------------
(***************************************************************************)
(* Theorems about WorkerPool for every number of jobs, workers, chats,     *)
(* keys and permits.  Each invariant is proved from the type invariant and *)
(* at most one strengthening.                                              *)
(***************************************************************************)
EXTENDS WorkerPool, FiniteSetTheorems, TLAPS

-----------------------------------------------------------------------------
(* Lemmas about the dispatcher's operators.                                *)

\* One more attempt leaves the job and its creation time alone.
LEMMA IncrementItem ==
  ASSUME NEW it \in Items
  PROVE  /\ IncrementAttempts(it) \in Items
         /\ IncrementAttempts(it).job = it.job
         /\ IncrementAttempts(it).att = it.att + 1
BY DEF IncrementAttempts, Items

\* The key cache stays a clock value per key.
LEMMA CacheTyped ==
  ASSUME seen \in [Keys -> Nat], clock \in Nat, NEW it, NEW cut
  PROVE  Unexpired(cut) \in [Keys -> Nat] /\ Marked(it, cut) \in [Keys -> Nat]
<1>1. Unexpired(cut) \in [Keys -> Nat]
  BY DEF Unexpired
<1>2. Marked(it, cut) \in [Keys -> Nat]
  BY <1>1 DEF Marked
<1>3. QED
  BY <1>1, <1>2

\* enqueue answers in one of four ways.
LEMMA EnqueueAnswers ==
  ASSUME NEW it, NEW cut
  PROVE  EnqueueResult(it, cut) \in Outcomes
BY DEF EnqueueResult, Outcomes

\* enqueue adds nothing but its argument.
LEMMA EnqueueTyped ==
  ASSUME queue \subseteq Items, seen \in [Keys -> Nat], clock \in Nat,
         NEW it \in Items, NEW cut, Enqueue(it, cut)
  PROVE  /\ queue' \subseteq Items
         /\ queue' \subseteq queue \cup {it}
         /\ seen' \in [Keys -> Nat]
BY CacheTyped DEF Enqueue

\* mark_failed requeues at most the job with one more attempt, and only if
\* it may be retried.
LEMMA MarkFailedTyped ==
  ASSUME queue \subseteq Items, pending \subseteq Jobs, seen \in [Keys -> Nat],
         clock \in Nat, NEW it \in Items, NEW cut, MarkFailed(it, cut)
  PROVE  /\ queue' \subseteq Items
         /\ pending' \subseteq Jobs
         /\ seen' \in [Keys -> Nat]
         /\ \A x \in queue' \ queue : x = IncrementAttempts(it) /\ CanRetry(x)
<1>1. IncrementAttempts(it) \in Items
  BY IncrementItem
<1>2. CASE CanRetry(IncrementAttempts(it))
  BY <1>1, <1>2, EnqueueTyped DEF MarkFailed
<1>3. CASE ~CanRetry(IncrementAttempts(it))
  BY <1>3 DEF MarkFailed
<1>4. QED
  BY <1>2, <1>3

-----------------------------------------------------------------------------
(* The type invariant.                                                     *)

LEMMA TypeInit == Init => TypeOK
<1> SUFFICES ASSUME Init PROVE TypeOK
  OBVIOUS
<1>1. \A w \in Workers : ~HasJob(w) /\ cur[w] = NoItem
  BY DEF Init, HasJob
<1>2. permits \in Int /\ holder \in [Chats -> Workers \cup {NoWorker}]
  BY WorkerPoolAssumption DEF Init
<1>3. pc \in [Workers -> Locations] /\ ahead \in [Workers -> SUBSET Workers]
  BY DEF Init, Locations
<1>4. cur \in [Workers -> Items \cup {NoItem}]
  BY DEF Init
<1>5. queue \subseteq Items /\ pending \subseteq Jobs /\ down \in BOOLEAN
  BY Zenon DEF Init, DispatcherInit
<1>6. /\ clock \in Nat \ {0} /\ seen \in [Keys -> Nat]
      /\ outcome \in [Jobs -> Outcomes \cup {"new"}]
  BY DEF Init, DispatcherInit
<1>7. QED
  BY <1>1, <1>2, <1>3, <1>4, <1>5, <1>6 DEF Init, TypeOK

\* The way out of mark_failed, shared by a lock timeout and a failing
\* handler, keeps the types it touches.
LEMMA FailTyped ==
  ASSUME TypeOK, NEW w \in Workers, HasJob(w), Fail(w)
  PROVE  /\ queue' \subseteq Items /\ pending' \subseteq Jobs
         /\ seen' \in [Keys -> Nat]
         /\ pc' \in [Workers -> Locations]
         /\ cur' \in [Workers -> Items \cup {NoItem}]
         /\ \A v \in Workers : HasJob(v)' <=> cur'[v] # NoItem
<1>1. cur[w] \in Items
  BY DEF TypeOK
<1>2. PICK cut \in Cutoffs :
        /\ MarkFailed(cur[w], cut)
        /\ IF FailVerdict(cur[w], cut) = "dead"
             THEN Goto(w, "dlqadd") /\ UNCHANGED cur
             ELSE Finish(w, "loop")
  BY DEF Fail
<1>3. queue' \subseteq Items /\ pending' \subseteq Jobs /\ seen' \in [Keys -> Nat]
  BY <1>1, <1>2, MarkFailedTyped DEF TypeOK
<1>4. /\ pc' \in [Workers -> Locations]
      /\ cur' \in [Workers -> Items \cup {NoItem}]
      /\ \A v \in Workers : HasJob(v)' <=> cur'[v] # NoItem
  BY <1>1, <1>2, WorkerPoolAssumption DEF TypeOK, Goto, Finish, HasJob, Locations
<1>5. QED
  BY <1>3, <1>4

LEMMA TypeNext == TypeOK /\ [Next]_vars => TypeOK'
<1> SUFFICES ASSUME TypeOK, [Next]_vars PROVE TypeOK'
  OBVIOUS
<1> USE WorkerPoolAssumption, DispatcherAssumption
<1>1. ASSUME NEW j \in Jobs, Submit(j) PROVE TypeOK'
  <2>1. PICK cut \in Cutoffs :
          /\ Enqueue([job |-> j, att |-> 0, at |-> clock], cut)
          /\ outcome' = [outcome EXCEPT ![j] =
               EnqueueResult([job |-> j, att |-> 0, at |-> clock], cut)]
    BY <1>1 DEF Submit
  <2>2. [job |-> j, att |-> 0, at |-> clock] \in Items
    BY DEF TypeOK, Items
  <2>3. queue' \subseteq Items /\ seen' \in [Keys -> Nat]
    BY <2>1, <2>2, EnqueueTyped DEF TypeOK
  <2>4. outcome' \in [Jobs -> Outcomes \cup {"new"}]
    BY <2>1, EnqueueAnswers DEF TypeOK
  <2>5. QED
    BY <1>1, <2>3, <2>4 DEF TypeOK, Submit, workerVars, fateVars, HasJob
<1>2. ASSUME NEW w \in Workers, LoopCheck(w) PROVE TypeOK'
  BY <1>2 DEF TypeOK, LoopCheck, Scheduled, Goto, Locations, HasJob,
              dispatcherVars, fateVars
<1>3. ASSUME NEW w \in Workers, Dequeue(w) PROVE TypeOK'
  <2>1. PICK it \in queue :
          /\ Take(it)
          /\ cur' = [cur EXCEPT ![w] = it]
          /\ IF ChatOf[it.job] = NoChat
               THEN Goto(w, Entry(it.job)) /\ UNCHANGED ahead
               ELSE /\ Goto(w, "lockwait")
                    /\ ahead' = [ahead EXCEPT ![w] = Waiters(ChatOf[it.job])]
    BY <1>3 DEF Dequeue
  <2>2. it \in Items /\ it.job \in Jobs
    BY <2>1 DEF TypeOK, Items
  <2>3. queue' \subseteq Items /\ pending' \subseteq Jobs
    BY <2>1, <2>2 DEF TypeOK, Take
  <2>4. ahead' \in [Workers -> SUBSET Workers]
    BY <2>1 DEF TypeOK, Waiters
  <2>5. /\ pc' \in [Workers -> Locations]
        /\ cur' \in [Workers -> Items \cup {NoItem}]
        /\ \A v \in Workers : HasJob(v)' <=> cur'[v] # NoItem
    BY <2>1, <2>2 DEF TypeOK, Goto, Entry, HasJob, Locations
  <2>6. QED
    BY <1>3, <2>3, <2>4, <2>5 DEF TypeOK, Dequeue, fateVars
<1>4. ASSUME NEW w \in Workers, DequeueTimeout(w) PROVE TypeOK'
  BY <1>4 DEF TypeOK, DequeueTimeout, Scheduled, Goto, Locations, HasJob,
              dispatcherVars, fateVars
<1>5. ASSUME NEW w \in Workers, LockGranted(w) PROVE TypeOK'
  <2>1. /\ pc' \in [Workers -> Locations]
        /\ \A v \in Workers : HasJob(v)' <=> cur'[v] # NoItem
    BY <1>5 DEF TypeOK, LockGranted, Scheduled, Goto, Entry, Locations, HasJob
  <2>2. ahead' \in [Workers -> SUBSET Workers]
    BY <1>5 DEF TypeOK, LockGranted, LeaveLine
  <2>3. QED
    BY <1>5, <2>1, <2>2 DEF TypeOK, LockGranted, dispatcherVars, fateVars
<1>6. ASSUME NEW w \in Workers, LockTimeout(w) PROVE TypeOK'
  <2>1. HasJob(w)
    BY <1>6 DEF LockTimeout, Scheduled, HasJob
  <2>2. ahead' \in [Workers -> SUBSET Workers]
    BY <1>6 DEF TypeOK, LockTimeout, LeaveLine
  <2>3. QED
    BY <1>6, <2>1, <2>2, FailTyped DEF TypeOK, LockTimeout, fateVars
<1>7. ASSUME NEW w \in Workers, PermitGranted(w) PROVE TypeOK'
  BY <1>7 DEF TypeOK, PermitGranted, Scheduled, Goto, Locations, HasJob,
              dispatcherVars, fateVars
<1>8. ASSUME NEW w \in Workers, HandlerReturns(w) PROVE TypeOK'
  <2>1. cur[w] \in Items /\ JobOf(w) \in Jobs
    BY <1>8 DEF TypeOK, HandlerReturns, Scheduled, HasJob, JobOf, Items
  <2>2. holder' \in [Chats -> Workers \cup {NoWorker}] /\ permits' \in Int
    BY <1>8 DEF TypeOK, HandlerReturns, Unlock, Unpermit
  <2>3. /\ pc' \in [Workers -> Locations]
        /\ cur' \in [Workers -> Items \cup {NoItem}]
        /\ \A v \in Workers : HasJob(v)' <=> cur'[v] # NoItem
    BY <1>8 DEF TypeOK, HandlerReturns, Finish, Goto, Locations, HasJob
  <2>4. QED
    BY <1>8, <2>1, <2>2, <2>3 DEF TypeOK, HandlerReturns, MarkComplete
<1>9. ASSUME NEW w \in Workers, HandlerRaises(w) PROVE TypeOK'
  <2>1. HasJob(w)
    BY <1>9 DEF HandlerRaises, Scheduled, HasJob
  <2>2. holder' \in [Chats -> Workers \cup {NoWorker}] /\ permits' \in Int
    BY <1>9 DEF TypeOK, HandlerRaises, Unlock, Unpermit
  <2>3. QED
    BY <1>9, <2>1, <2>2, FailTyped DEF TypeOK, HandlerRaises, fateVars
<1>10. ASSUME NEW w \in Workers, DeadLetterAdded(w) PROVE TypeOK'
  <2>1. cur[w] \in Items
    BY <1>10 DEF TypeOK, DeadLetterAdded, HasJob
  <2>2. dlq' \subseteq [job : Jobs, att : Nat, row : Nat] /\ nextRow' \in Nat
    BY <1>10, <2>1 DEF TypeOK, DeadLetterAdded, JobOf, Items
  <2>3. QED
    BY <1>10, <2>2 DEF TypeOK, DeadLetterAdded, Finish, Goto, Locations, HasJob,
                       dispatcherVars
<1>11. ASSUME NEW w \in Workers, DeadLetterLost(w) PROVE TypeOK'
  <2>1. JobOf(w) \in Jobs
    BY <1>11 DEF TypeOK, DeadLetterLost, Scheduled, HasJob, JobOf, Items
  <2>2. QED
    BY <1>11, <2>1 DEF TypeOK, DeadLetterLost, Scheduled, Finish, Goto, Locations,
                       HasJob, dispatcherVars
<1>12. ASSUME NEW w \in Workers, Cancelled(w) PROVE TypeOK'
  <2>1. HasJob(w) => JobOf(w) \in Jobs
    BY DEF TypeOK, JobOf, Items
  <2>2. /\ holder' \in [Chats -> Workers \cup {NoWorker}]
        /\ permits' \in Int
        /\ ahead' \in [Workers -> SUBSET Workers]
        /\ abandoned' \subseteq Jobs
    BY <1>12, <2>1 DEF TypeOK, Cancelled, Unlock, Unpermit, LeaveLine
  <2>3. QED
    BY <1>12, <2>2 DEF TypeOK, Cancelled, Finish, Goto, Locations, HasJob,
                       dispatcherVars
<1>13. CASE StopStep
  BY <1>13 DEF TypeOK, StopStep, StopPool, StopTimeout, PoolStopped,
               ShutdownDispatcher, ShutdownReturns, dispatcherVars, workerVars,
               fateVars, HasJob
<1>14. CASE UNCHANGED vars
  BY <1>14 DEF TypeOK, vars, dispatcherVars, workerVars, fateVars, HasJob
<1>15. QED
  BY <1>1, <1>2, <1>3, <1>4, <1>5, <1>6, <1>7, <1>8, <1>9, <1>10, <1>11, <1>12,
     <1>13, <1>14 DEF Next, WorkerStep

\* Type correctness: in particular a worker holds an item exactly while it is
\* working on a job (workers.py, _worker_loop), and the counters stay numbers.
THEOREM TypeCorrect == Spec => []TypeOK
BY TypeInit, TypeNext, PTL DEF Spec

-----------------------------------------------------------------------------
(* Who moves: a step of one worker leaves the others where they are.       *)

LEMMA Solo ==
  ASSUME TypeOK, NEW w \in Workers, WorkerStep(w), NEW v \in Workers \ {w}
  PROVE  pc'[v] = pc[v] /\ cur'[v] = cur[v]
<1>1. CASE LoopCheck(w) \/ DequeueTimeout(w) \/ PermitGranted(w)
  BY <1>1 DEF LoopCheck, DequeueTimeout, PermitGranted, Goto, TypeOK
<1>2. CASE Dequeue(w)
  BY <1>2 DEF Dequeue, Goto, TypeOK
<1>3. CASE LockGranted(w)
  BY <1>3 DEF LockGranted, Goto, TypeOK
<1>4. CASE LockTimeout(w) \/ HandlerRaises(w)
  BY <1>4 DEF LockTimeout, HandlerRaises, Fail, Finish, Goto, TypeOK
<1>5. CASE HandlerReturns(w) \/ DeadLetterAdded(w) \/ DeadLetterLost(w)
  BY <1>5 DEF HandlerReturns, DeadLetterAdded, DeadLetterLost, Finish, Goto, TypeOK
<1>6. CASE Cancelled(w)
  BY <1>6 DEF Cancelled, Finish, Goto, TypeOK
<1>7. QED
  BY <1>1, <1>2, <1>3, <1>4, <1>5, <1>6 DEF WorkerStep

\* Submissions and the shutdown sequence move no worker.
LEMMA Bystanders ==
  ASSUME (\E j \in Jobs : Submit(j)) \/ StopStep \/ UNCHANGED vars
  PROVE  UNCHANGED workerVars
BY DEF Submit, StopStep, StopPool, StopTimeout, PoolStopped, ShutdownDispatcher,
       ShutdownReturns, vars

-----------------------------------------------------------------------------
(* Mutual exclusion.  ChatMutex alone is not inductive: the next worker is *)
(* let in by what the lock says.  What carries it is that the lock of a    *)
(* chat names whoever is inside.                                           *)

LockHeld == \A w \in Workers : HoldsChat(w) => holder[ChatOf[JobOf(w)]] = w

\* Every way out of a chat hands back the locks of that worker alone, and
\* the worker is no longer inside.
LEMMA LeavingKeepsLocks ==
  ASSUME TypeOK, LockHeld, NEW w \in Workers, Unlock(w), ~HoldsChat(w)',
         \A v \in Workers \ {w} : pc'[v] = pc[v] /\ cur'[v] = cur[v]
  PROVE  LockHeld'
<1>1. SUFFICES ASSUME NEW v \in Workers, HoldsChat(v)'
               PROVE  holder'[ChatOf[JobOf(v)']] = v
  BY DEF LockHeld
<1>2. v # w
  BY <1>1
<1>3. HoldsChat(v) /\ JobOf(v)' = JobOf(v)
  BY <1>1, <1>2 DEF HoldsChat, HasChat, JobOf
<1>4. ChatOf[JobOf(v)] \in Chats
  BY <1>3, WorkerPoolAssumption DEF HoldsChat, HasChat, JobOf, TypeOK, HasJob, Items
<1>5. QED
  BY <1>2, <1>3, <1>4 DEF LockHeld, Unlock

LEMMA LockHeldNext == TypeOK /\ LockHeld /\ [Next]_vars => LockHeld'
<1> SUFFICES ASSUME TypeOK, LockHeld, [Next]_vars PROVE LockHeld'
  OBVIOUS
<1>1. ASSUME NEW w \in Workers, WorkerStep(w) PROVE LockHeld'
  <2>1. \A v \in Workers \ {w} : pc'[v] = pc[v] /\ cur'[v] = cur[v]
    BY <1>1, Solo
  <2>2. ASSUME UNCHANGED holder, ~HoldsChat(w)' PROVE LockHeld'
    BY <2>1, <2>2 DEF LockHeld, HoldsChat, HasChat, JobOf
  <2>3. CASE LoopCheck(w) \/ DequeueTimeout(w)
    BY <2>2, <2>3 DEF LoopCheck, DequeueTimeout, Goto, HoldsChat, TypeOK
  <2>4. CASE Dequeue(w)
    BY <2>2, <2>4 DEF Dequeue, Goto, Entry, HoldsChat, HasChat, JobOf, TypeOK
  <2>5. CASE LockGranted(w)
    <3>1. HasJob(w) /\ JobOf(w) \in Jobs /\ cur' = cur
      BY <2>5 DEF LockGranted, Scheduled, HasJob, JobOf, TypeOK, Items
    <3>2. SUFFICES ASSUME NEW v \in Workers, HoldsChat(v)'
                   PROVE  holder'[ChatOf[JobOf(v)]] = v
      BY <3>1 DEF LockHeld, JobOf
    <3>3. ChatOf[JobOf(v)] \in Chats
      BY <3>1, <3>2, WorkerPoolAssumption, TypeNext
         DEF HoldsChat, HasChat, JobOf, HasJob, TypeOK, Items
    <3>4. CASE v = w
      BY <2>5, <3>3, <3>4 DEF LockGranted, TypeOK
    <3>5. CASE v # w
      <4>1. HoldsChat(v) /\ holder[ChatOf[JobOf(v)]] = v
        BY <2>1, <3>1, <3>2, <3>5 DEF HoldsChat, HasChat, JobOf, LockHeld
      <4>2. ChatOf[JobOf(v)] # ChatOf[JobOf(w)]
        BY <2>5, <4>1, WorkerPoolAssumption DEF LockGranted, LockFree
      <4>3. QED
        BY <2>5, <4>1, <4>2 DEF LockGranted, TypeOK
    <3>6. QED
      BY <3>4, <3>5
  <2>6. CASE LockTimeout(w)
    <3>1. ~HoldsChat(w)'
      BY <2>6 DEF LockTimeout, Fail, Finish, Goto, HoldsChat, TypeOK
    <3>2. QED
      BY <2>2, <2>6, <3>1 DEF LockTimeout
  <2>7. CASE PermitGranted(w)
    <3>1. UNCHANGED <<cur, holder>> /\ (HoldsChat(w)' => HoldsChat(w))
      BY <2>7 DEF PermitGranted, Scheduled, HoldsChat, HasChat, JobOf
    <3>2. QED
      BY <2>1, <3>1 DEF LockHeld, HoldsChat, HasChat, JobOf
  <2>8. CASE HandlerReturns(w)
    <3>1. Unlock(w) /\ ~HoldsChat(w)'
      BY <2>8 DEF HandlerReturns, Finish, Goto, HoldsChat, TypeOK
    <3>2. QED
      BY <2>1, <3>1, LeavingKeepsLocks
  <2>9. CASE HandlerRaises(w)
    <3>1. Unlock(w) /\ ~HoldsChat(w)'
      BY <2>9 DEF HandlerRaises, Fail, Finish, Goto, HoldsChat, TypeOK
    <3>2. QED
      BY <2>1, <3>1, LeavingKeepsLocks
  <2>10. CASE DeadLetterAdded(w) \/ DeadLetterLost(w)
    BY <2>2, <2>10 DEF DeadLetterAdded, DeadLetterLost, Finish, Goto, HoldsChat, TypeOK
  <2>11. CASE Cancelled(w)
    <3>1. Unlock(w) /\ ~HoldsChat(w)'
      BY <2>11 DEF Cancelled, Finish, Goto, HoldsChat, TypeOK
    <3>2. QED
      BY <2>1, <3>1, LeavingKeepsLocks
  <2>12. QED
    BY <1>1, <2>3, <2>4, <2>5, <2>6, <2>7, <2>8, <2>9, <2>10, <2>11 DEF WorkerStep
<1>2. CASE UNCHANGED workerVars
  BY <1>2 DEF LockHeld, HoldsChat, HasChat, JobOf, workerVars
<1>3. QED
  BY <1>1, <1>2, Bystanders DEF Next

LEMMA LockHeldMutex == LockHeld => ChatMutex
BY DEF LockHeld, ChatMutex

\* "Only one job processes a chat at a time" (locks.py), whatever fails,
\* times out or is cancelled, for any number of workers and chats.
THEOREM Exclusive == Spec => []ChatMutex
<1>1. Init => LockHeld
  BY DEF Init, LockHeld, HoldsChat
<1>2. QED
  BY <1>1, TypeCorrect, LockHeldNext, LockHeldMutex, PTL DEF Spec

-----------------------------------------------------------------------------
(* Attempts.  The guard is in mark_failed, several steps before the next   *)
(* attempt; what it leaves in the queue is what a worker takes later.      *)

\* Out of mark_failed a job has an attempt left or goes no further.
LEMMA FailKeepsAttempts ==
  ASSUME TypeOK, AttemptsLeft, NEW w \in Workers, HasJob(w), Fail(w)
  PROVE  /\ \A it \in queue' : it.att < MaxAttempts
         /\ cur'[w] # NoItem => cur'[w] = cur[w]
<1>1. cur[w] \in Items
  BY DEF TypeOK
<1>2. PICK cut \in Cutoffs : MarkFailed(cur[w], cut)
  BY DEF Fail
<1>3. \A x \in queue' \ queue : CanRetry(x)
  BY <1>1, <1>2, MarkFailedTyped DEF TypeOK
<1>4. \A it \in queue' : it.att < MaxAttempts
  BY <1>3 DEF CanRetry, AttemptsLeft
<1>5. cur'[w] # NoItem => cur'[w] = cur[w]
  BY DEF Fail, Finish, TypeOK
<1>6. QED
  BY <1>4, <1>5

LEMMA AttemptsNext == TypeOK /\ AttemptsLeft /\ [Next]_vars => AttemptsLeft'
<1> SUFFICES ASSUME TypeOK, AttemptsLeft, [Next]_vars PROVE AttemptsLeft'
  OBVIOUS
<1> USE DispatcherAssumption
<1>1. ASSUME NEW j \in Jobs, Submit(j) PROVE AttemptsLeft'
  <2>1. \A it \in queue' : it \in queue \/ it.att = 0
    BY <1>1 DEF Submit, Enqueue
  <2>2. UNCHANGED workerVars
    BY <1>1, Bystanders
  <2>3. QED
    BY <2>1, <2>2 DEF AttemptsLeft, HasJob, workerVars
<1>2. ASSUME NEW w \in Workers, WorkerStep(w) PROVE AttemptsLeft'
  <2>1. \A v \in Workers \ {w} : pc'[v] = pc[v] /\ cur'[v] = cur[v]
    BY <1>2, Solo
  <2>2. SUFFICES /\ \A it \in queue' : it.att < MaxAttempts
                 /\ HasJob(w)' => cur'[w].att < MaxAttempts
    BY <2>1 DEF AttemptsLeft, HasJob
  <2>3. CASE LoopCheck(w) \/ DequeueTimeout(w)
    BY <2>3 DEF LoopCheck, DequeueTimeout, Goto, HasJob, AttemptsLeft, TypeOK,
                dispatcherVars
  <2>4. CASE Dequeue(w)
    BY <2>4 DEF Dequeue, Take, AttemptsLeft, TypeOK
  <2>5. CASE LockGranted(w) \/ PermitGranted(w)
    BY <2>5 DEF LockGranted, PermitGranted, Scheduled, HasJob, AttemptsLeft,
                dispatcherVars
  <2>6. CASE LockTimeout(w) \/ HandlerRaises(w)
    <3>1. HasJob(w) /\ Fail(w)
      BY <2>6 DEF LockTimeout, HandlerRaises, Scheduled, HasJob
    <3>2. HasJob(w)' => cur'[w] # NoItem
      BY <1>2, TypeNext DEF TypeOK, Next
    <3>3. QED
      BY <3>1, <3>2, FailKeepsAttempts DEF AttemptsLeft
  <2>7. CASE HandlerReturns(w) \/ DeadLetterAdded(w) \/ DeadLetterLost(w)
    BY <2>7 DEF HandlerReturns, DeadLetterAdded, DeadLetterLost, Finish, Goto,
                HasJob, AttemptsLeft, TypeOK, dispatcherVars
  <2>8. CASE Cancelled(w)
    BY <2>8 DEF Cancelled, Finish, Goto, HasJob, AttemptsLeft, TypeOK, dispatcherVars
  <2>9. QED
    BY <1>2, <2>3, <2>4, <2>5, <2>6, <2>7, <2>8 DEF WorkerStep
<1>3. CASE StopStep \/ UNCHANGED vars
  BY <1>3 DEF StopStep, StopPool, StopTimeout, PoolStopped, ShutdownDispatcher,
              ShutdownReturns, vars, dispatcherVars, workerVars, AttemptsLeft, HasJob
<1>4. QED
  BY <1>1, <1>2, <1>3 DEF Next

\* No job is attempted more than max_attempts times (jobs.py, can_retry).
THEOREM AttemptsBounded == Spec => []AttemptsLeft
<1>1. Init => AttemptsLeft
  BY DEF Init, DispatcherInit, AttemptsLeft, HasJob
<1>2. QED
  BY <1>1, TypeCorrect, AttemptsNext, PTL DEF Spec

-----------------------------------------------------------------------------
(* The order of the shutdown sequence.  The dispatcher is shut down only   *)
(* after the pool, and a stopped pool has no worker left that could fail a *)
(* job.                                                                    *)

Ended == pool \in {"stopped", "exited"}

StopsInOrder ==
  /\ down => Ended
  /\ Ended => \A w \in Workers : pc[w] = "stopped"

LEMMA StopsInOrderNext == TypeOK /\ StopsInOrder /\ [Next]_vars => StopsInOrder'
<1> SUFFICES ASSUME TypeOK, StopsInOrder, [Next]_vars PROVE StopsInOrder'
  OBVIOUS
<1>1. ASSUME NEW w \in Workers, WorkerStep(w) PROVE StopsInOrder'
  <2>1. pc[w] # "stopped" /\ UNCHANGED <<pool, down>>
    BY <1>1 DEF WorkerStep, LoopCheck, Dequeue, DequeueTimeout, LockGranted,
                LockTimeout, PermitGranted, HandlerReturns, HandlerRaises,
                DeadLetterAdded, DeadLetterLost, Cancelled, Scheduled,
                dispatcherVars
  <2>2. QED
    BY <2>1 DEF StopsInOrder, Ended
<1>2. ASSUME NEW j \in Jobs, Submit(j) PROVE StopsInOrder'
  BY <1>2 DEF Submit, StopsInOrder, Ended, workerVars
<1>3. CASE StopStep \/ UNCHANGED vars
  BY <1>3 DEF StopStep, StopPool, StopTimeout, PoolStopped, ShutdownDispatcher,
              ShutdownReturns, vars, dispatcherVars, workerVars, StopsInOrder, Ended
<1>4. QED
  BY <1>1, <1>2, <1>3 DEF Next

LEMMA NoWorkerFailsLate == StopsInOrder => NoSilentDrop
<1> SUFFICES ASSUME StopsInOrder, NEW w \in Workers, NEW cut \in Cutoffs, HasJob(w)
             PROVE  FailVerdict(cur[w], cut) # "dropped"
  BY DEF NoSilentDrop
<1>1. ~down
  BY DEF StopsInOrder, HasJob
<1>2. EnqueueResult(IncrementAttempts(cur[w]), cut) # "refused"
  BY <1>1 DEF EnqueueResult
<1>3. QED
  BY <1>2 DEF FailVerdict

\* mark_failed does not look at the False of a shut-down dispatcher; because
\* _stop_queue_workers stops the pool first, it never gets one.
THEOREM NothingDropped == Spec => []NoSilentDrop
<1>1. Init => StopsInOrder
  BY DEF Init, DispatcherInit, StopsInOrder, Ended
<1>2. QED
  BY <1>1, TypeCorrect, StopsInOrderNext, NoWorkerFailsLate, PTL DEF Spec

-----------------------------------------------------------------------------
(* Backpressure.                                                           *)

QueueFits == IsFiniteSet(queue) /\ Cardinality(queue) <= MaxSize

\* enqueue, new jobs and retries alike, leaves room for what it adds.
LEMMA EnqueueFits ==
  ASSUME QueueFits, NEW it, NEW cut, Enqueue(it, cut)
  PROVE  QueueFits'
<1>1. Cardinality(queue) \in Nat
  BY FS_CardinalityType DEF QueueFits
<1>2. CASE EnqueueResult(it, cut) = "queued"
  <2>1. Cardinality(queue) < MaxSize
    BY <1>1, <1>2, DispatcherAssumption DEF EnqueueResult, IsFull
  <2>2. IsFiniteSet(queue \cup {it}) /\ Cardinality(queue \cup {it}) <= Cardinality(queue) + 1
    BY <1>1, FS_AddElement DEF QueueFits
  <2>3. Cardinality(queue \cup {it}) \in Nat
    BY <2>2, FS_CardinalityType
  <2>4. Cardinality(queue \cup {it}) <= MaxSize
    BY <1>1, <2>1, <2>2, <2>3, DispatcherAssumption
  <2>5. QED
    BY <1>2, <2>2, <2>4 DEF Enqueue, QueueFits
<1>3. CASE EnqueueResult(it, cut) # "queued"
  BY <1>3 DEF Enqueue, QueueFits
<1>4. QED
  BY <1>2, <1>3

LEMMA QueueFitsNext == QueueFits /\ [Next]_vars => QueueFits'
<1> SUFFICES ASSUME QueueFits, [Next]_vars PROVE QueueFits'
  OBVIOUS
<1>1. ASSUME NEW j \in Jobs, Submit(j) PROVE QueueFits'
  BY <1>1, EnqueueFits DEF Submit
<1>2. ASSUME NEW w \in Workers, Dequeue(w) PROVE QueueFits'
  <2>1. PICK it \in queue : queue' = queue \ {it}
    BY <1>2 DEF Dequeue, Take
  <2>2. IsFiniteSet(queue') /\ Cardinality(queue') <= Cardinality(queue)
    BY <2>1, FS_Subset DEF QueueFits
  <2>3. Cardinality(queue) \in Nat /\ Cardinality(queue') \in Nat
    BY <2>2, FS_CardinalityType DEF QueueFits
  <2>4. QED
    BY <2>2, <2>3, DispatcherAssumption DEF QueueFits
<1>3. ASSUME NEW w \in Workers, LockTimeout(w) \/ HandlerRaises(w) PROVE QueueFits'
  <2>1. PICK cut \in Cutoffs : MarkFailed(cur[w], cut)
    BY <1>3 DEF LockTimeout, HandlerRaises, Fail
  <2>2. QED
    BY <2>1, EnqueueFits DEF MarkFailed, QueueFits
<1>4. ASSUME UNCHANGED queue PROVE QueueFits'
  BY <1>4 DEF QueueFits
<1>5. ASSUME NEW w \in Workers, WorkerStep(w) PROVE QueueFits'
  BY <1>2, <1>3, <1>4, <1>5
     DEF WorkerStep, LoopCheck, DequeueTimeout, LockGranted, PermitGranted,
         HandlerReturns, DeadLetterAdded, DeadLetterLost, Cancelled, dispatcherVars
<1>6. CASE StopStep \/ UNCHANGED vars
  BY <1>4, <1>6 DEF StopStep, StopPool, StopTimeout, PoolStopped,
     ShutdownDispatcher, ShutdownReturns, vars, dispatcherVars
<1>7. QED
  BY <1>1, <1>5, <1>6 DEF Next

\* Retries included, the queue never outgrows max_size (dispatcher.py,
\* enqueue and is_full).
THEOREM Backpressure == Spec => []QueueBounded
<1>1. Init => QueueFits
  BY FS_EmptySet, DispatcherAssumption DEF Init, DispatcherInit, QueueFits
<1>2. QueueFits => QueueBounded
  BY DEF QueueFits, QueueBounded
<1>3. QED
  BY <1>1, <1>2, QueueFitsNext, PTL DEF Spec

-----------------------------------------------------------------------------
(* The permits of the Ollama semaphore.                                    *)

LEMMA PermitsTake ==
  ASSUME TypeOK, PermitsConserved, NEW w \in Workers, w \notin HoldsPermit,
         permits > 0, permits' = permits - 1, HoldsPermit' = HoldsPermit \cup {w}
  PROVE  PermitsConserved'
<1>1. IsFiniteSet(HoldsPermit)
  BY WorkerPoolAssumption, FS_Subset DEF HoldsPermit, InHandler
<1>2. Cardinality(HoldsPermit) \in Nat /\ Cardinality(HoldsPermit') = Cardinality(HoldsPermit) + 1
  BY <1>1, FS_CardinalityType, FS_AddElement
<1>3. QED
  BY <1>2 DEF PermitsConserved, TypeOK

\* A worker that leaves its handler gives back exactly what it took.
LEMMA PermitsLeave ==
  ASSUME TypeOK, PermitsConserved, NEW w \in Workers, Unpermit(w),
         HoldsPermit' = HoldsPermit \ {w}
  PROVE  PermitsConserved'
<1>1. IsFiniteSet(HoldsPermit)
  BY WorkerPoolAssumption, FS_Subset DEF HoldsPermit, InHandler
<1>2. /\ Cardinality(HoldsPermit) \in Nat
      /\ Cardinality(HoldsPermit') = IF w \in HoldsPermit THEN Cardinality(HoldsPermit) - 1
                                     ELSE Cardinality(HoldsPermit)
  BY <1>1, FS_CardinalityType, FS_RemoveElement
<1>3. QED
  BY <1>2 DEF PermitsConserved, Unpermit, TypeOK

\* Only jobs that need Ollama queue for a permit; PermitsConserved needs it
\* to know that a permit taken is a permit held.
WaitersNeed == \A w \in Workers : pc[w] = "semwait" => JobOf(w) \in NeedsOllama

LEMMA WaitersNeedNext == TypeOK /\ WaitersNeed /\ [Next]_vars => WaitersNeed'
<1> SUFFICES ASSUME TypeOK, WaitersNeed, [Next]_vars PROVE WaitersNeed'
  OBVIOUS
<1>1. ASSUME NEW w \in Workers, WorkerStep(w) PROVE WaitersNeed'
  <2>1. \A v \in Workers \ {w} : pc'[v] = pc[v] /\ cur'[v] = cur[v]
    BY <1>1, Solo
  <2>2. SUFFICES pc'[w] = "semwait" => cur'[w].job \in NeedsOllama
    BY <2>1 DEF WaitersNeed, JobOf
  <2>3. CASE Dequeue(w) \/ LockGranted(w)
    BY <2>3 DEF Dequeue, LockGranted, Goto, Entry, JobOf, TypeOK
  <2>4. CASE LockTimeout(w) \/ HandlerRaises(w)
    BY <2>4 DEF LockTimeout, HandlerRaises, Fail, Finish, Goto, TypeOK
  <2>5. CASE ~(Dequeue(w) \/ LockGranted(w) \/ LockTimeout(w) \/ HandlerRaises(w))
    BY <1>1, <2>5 DEF WorkerStep, LoopCheck, DequeueTimeout, PermitGranted,
       HandlerReturns, DeadLetterAdded, DeadLetterLost, Cancelled, Finish, Goto, TypeOK
  <2>6. QED
    BY <2>3, <2>4, <2>5
<1>2. CASE UNCHANGED workerVars
  BY <1>2 DEF WaitersNeed, JobOf, workerVars
<1>3. QED
  BY <1>1, <1>2, Bystanders DEF Next

LEMMA PermitsNext ==
  TypeOK /\ WaitersNeed /\ PermitsConserved /\ [Next]_vars => PermitsConserved'
<1> SUFFICES ASSUME TypeOK, WaitersNeed, PermitsConserved, [Next]_vars PROVE PermitsConserved'
  OBVIOUS
<1>1. ASSUME NEW w \in Workers, WorkerStep(w) PROVE PermitsConserved'
  <2>1. \A v \in Workers \ {w} : v \in HoldsPermit' <=> v \in HoldsPermit
    BY <1>1, Solo DEF HoldsPermit, InHandler, JobOf
  <2>2. ASSUME ~(w \in HoldsPermit)' PROVE HoldsPermit' = HoldsPermit \ {w}
    BY <2>1, <2>2 DEF HoldsPermit, InHandler
  <2>3. ASSUME w \in HoldsPermit' <=> w \in HoldsPermit, UNCHANGED permits
        PROVE  PermitsConserved'
    <3>1. HoldsPermit' = HoldsPermit
      BY <2>1, <2>3 DEF HoldsPermit, InHandler
    <3>2. QED
      BY <2>3, <3>1 DEF PermitsConserved
  <2>4. CASE LoopCheck(w) \/ DequeueTimeout(w) \/ LockTimeout(w)
    <3>1. pc[w] # "running" /\ pc'[w] # "running" /\ UNCHANGED permits
      BY <2>4 DEF LoopCheck, DequeueTimeout, LockTimeout, Fail, Scheduled, Finish,
                  Goto, TypeOK
    <3>2. QED
      BY <2>3, <3>1 DEF HoldsPermit, InHandler
  <2>5. CASE Dequeue(w) \/ LockGranted(w)
    <3>1. ~(w \in HoldsPermit) /\ ~(w \in HoldsPermit)' /\ UNCHANGED permits
      BY <2>5 DEF Dequeue, LockGranted, Scheduled, Goto, Entry, HoldsPermit,
                  InHandler, JobOf, TypeOK
    <3>2. QED
      BY <2>3, <3>1
  <2>6. CASE PermitGranted(w)
    <3>1. w \notin HoldsPermit /\ w \in HoldsPermit'
      BY <2>6 DEF PermitGranted, Scheduled, Goto, HoldsPermit, InHandler, JobOf,
                  TypeOK, WaitersNeed
    <3>2. HoldsPermit' = HoldsPermit \cup {w}
      BY <2>1, <3>1 DEF HoldsPermit, InHandler
    <3>3. QED
      BY <2>6, <3>1, <3>2, PermitsTake DEF PermitGranted
  <2>7. CASE HandlerReturns(w) \/ HandlerRaises(w) \/ Cancelled(w)
    <3>1. Unpermit(w) /\ pc'[w] # "running"
      BY <2>7 DEF HandlerReturns, HandlerRaises, Cancelled, Fail, Finish, Goto, TypeOK
    <3>2. HoldsPermit' = HoldsPermit \ {w}
      BY <2>2, <3>1 DEF HoldsPermit, InHandler
    <3>3. QED
      BY <3>1, <3>2, PermitsLeave
  <2>8. CASE DeadLetterAdded(w) \/ DeadLetterLost(w)
    <3>1. pc[w] # "running" /\ pc'[w] # "running" /\ UNCHANGED permits
      BY <2>8 DEF DeadLetterAdded, DeadLetterLost, Scheduled, Finish, Goto, TypeOK
    <3>2. QED
      BY <2>3, <3>1 DEF HoldsPermit, InHandler
  <2>9. QED
    BY <1>1, <2>4, <2>5, <2>6, <2>7, <2>8 DEF WorkerStep
<1>2. CASE UNCHANGED workerVars
  BY <1>2 DEF PermitsConserved, HoldsPermit, InHandler, JobOf, workerVars
<1>3. QED
  BY <1>1, <1>2, Bystanders DEF Next

\* The semaphore of _execute_job neither leaks nor is over-released, so at
\* most ollama_concurrency handlers use it at once.
THEOREM PermitsSafe == Spec => []PermitsConserved
<1>1. Init => PermitsConserved
  <2>1. Init => HoldsPermit = {}
    BY DEF Init, HoldsPermit, InHandler
  <2>2. QED
    BY <2>1, FS_EmptySet, WorkerPoolAssumption DEF Init, PermitsConserved
<1>2. Init => WaitersNeed
  BY DEF Init, WaitersNeed
<1>3. QED
  BY <1>1, <1>2, TypeCorrect, WaitersNeedNext, PermitsNext, PTL DEF Spec
=============================================================================
