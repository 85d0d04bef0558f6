-------------------------- MODULE LifecycleProofs --------------------------
(***************************************************************************)
(* WorkerPool implements JobLifecycle, for every number of jobs, workers,  *)
(* chats, keys and permits.  The refinement mapping collects the places a  *)
(* job is found in; the invariant Placed says that these are one at most,  *)
(* which the abstract steps take for granted.  From the same moves follow  *)
(* OnePlace, PendingExact and, at the end, ChatOrder.                      *)
(***************************************************************************)
EXTENDS WorkerPoolProofs

DeadJobs == {r.job : r \in dlq}

\* Queued, held and settled jobs: all different, and all accepted.
Waiting == \A x, y \in queue : x.job = y.job => x = y

Worked ==
  \A v, w \in Workers : HasJob(v) /\ HasJob(w) /\ JobOf(v) = JobOf(w) => v = w

Apart == \A x \in queue, w \in Workers : HasJob(w) => JobOf(w) # x.job

Over(j) == j \in done \cup abandoned \cup DeadJobs

Open ==
  /\ \A x \in queue : ~Over(x.job)
  /\ \A w \in Workers : HasJob(w) => ~Over(JobOf(w))

OverOnce ==
  /\ done \cap abandoned = {}
  /\ DeadJobs \cap (done \cup abandoned) = {}

Accepted ==
  /\ \A x \in queue : outcome[x.job] = "queued"
  /\ \A w \in Workers : HasJob(w) => outcome[JobOf(w)] = "queued"
  /\ \A j \in Jobs : Over(j) => outcome[j] = "queued"

Placed == Waiting /\ Worked /\ Apart /\ Open /\ OverOnce /\ Accepted

-----------------------------------------------------------------------------
(* What the steps do to the places: nothing, or one of the moves below.    *)

Fates == <<dlq, done, abandoned, outcome>>

\* Worker w keeps its item, if it has one, and all others theirs.
KeepsJobs ==
  /\ UNCHANGED cur
  /\ \A w \in Workers : HasJob(w)' = HasJob(w)

Others(w) == \A v \in Workers \ {w} : pc'[v] = pc[v] /\ cur'[v] = cur[v]

LEMMA PlacedInit == Init => Placed
BY DEF Init, DispatcherInit, Placed, Waiting, Worked, Apart, Open, OverOnce,
       Accepted, Over, DeadJobs, HasJob

\* Nothing moves.
LEMMA PlacedKeep ==
  ASSUME Placed, UNCHANGED <<queue, Fates>>, KeepsJobs
  PROVE  Placed'
BY DEF Placed, Waiting, Worked, Apart, Open, OverOnce, Accepted, Over, DeadJobs,
       Fates, KeepsJobs, JobOf

\* A new job is accepted, or is not.
LEMMA PlacedSubmit ==
  ASSUME TypeOK, Placed, NEW j \in Jobs, Submit(j)
  PROVE  Placed'
<1>1. PICK it \in Items, r \in Outcomes :
        /\ it.job = j
        /\ queue' = IF r = "queued" THEN queue \cup {it} ELSE queue
        /\ outcome' = [outcome EXCEPT ![j] = r]
  <2>1. PICK cut \in Cutoffs :
          /\ Enqueue([job |-> j, att |-> 0, at |-> clock], cut)
          /\ outcome' = [outcome EXCEPT ![j] =
               EnqueueResult([job |-> j, att |-> 0, at |-> clock], cut)]
    BY DEF Submit
  <2>2. [job |-> j, att |-> 0, at |-> clock] \in Items
    BY DEF TypeOK, Items
  <2>3. EnqueueResult([job |-> j, att |-> 0, at |-> clock], cut) \in Outcomes
    BY EnqueueAnswers
  <2>4. QED
    BY <2>1, <2>2, <2>3 DEF Enqueue
<1>2. outcome[j] = "new" /\ UNCHANGED <<dlq, done, abandoned, pc, cur>>
  BY DEF Submit, workerVars, fateVars
<1>3. /\ \A x \in queue : x.job # j
      /\ \A w \in Workers : HasJob(w) => JobOf(w) # j
      /\ ~Over(j)
  BY <1>2 DEF Placed, Accepted
<1>4. \A k \in Jobs : k # j => outcome'[k] = outcome[k]
  BY <1>1 DEF TypeOK
<1>5. outcome'[j] = r
  BY <1>1 DEF TypeOK
<1>6. \A x \in queue : x.job \in Jobs
  BY DEF TypeOK, Items
<1>7. \A w \in Workers : HasJob(w) => JobOf(w) \in Jobs
  BY DEF TypeOK, JobOf, Items
<1>8. Waiting' /\ Worked' /\ Apart' /\ Open' /\ OverOnce'
  BY <1>1, <1>2, <1>3 DEF Placed, Waiting, Worked, Apart, Open, OverOnce, Over,
     DeadJobs, HasJob, JobOf
<1>9. Accepted'
  BY <1>1, <1>2, <1>3, <1>4, <1>5, <1>6, <1>7 DEF Placed, Accepted, Over, DeadJobs,
     HasJob, JobOf
<1>10. QED
  BY <1>8, <1>9 DEF Placed

\* A worker takes a job from the queue.
LEMMA PlacedDequeue ==
  ASSUME TypeOK, Placed, NEW w \in Workers, NEW it \in queue, ~HasJob(w),
         queue' = queue \ {it}, UNCHANGED Fates, Others(w), cur'[w] = it, HasJob(w)'
  PROVE  Placed'
<1>1. \A v \in Workers \ {w} : HasJob(v)' = HasJob(v) /\ JobOf(v)' = JobOf(v)
  BY DEF Others, HasJob, JobOf
<1>2. JobOf(w)' = it.job
  BY DEF JobOf
<1>3. \A x \in queue' : x.job # it.job
  BY DEF Placed, Waiting
<1>4. \A v \in Workers \ {w} : HasJob(v) => JobOf(v) # it.job
  BY DEF Placed, Apart
<1>5. Waiting' /\ Worked' /\ Apart'
  BY <1>1, <1>2, <1>3, <1>4 DEF Placed, Waiting, Worked, Apart
<1>6. \A j : Over(j)' = Over(j)
  BY DEF Over, DeadJobs, Fates
<1>7. Open' /\ OverOnce' /\ Accepted'
  BY <1>1, <1>2, <1>6 DEF Placed, Open, OverOnce, Accepted, DeadJobs, Fates
<1>8. QED
  BY <1>5, <1>7 DEF Placed

\* A worker hands its job back to the queue.
LEMMA PlacedRetry ==
  ASSUME TypeOK, Placed, NEW w \in Workers, NEW it, HasJob(w), it.job = JobOf(w),
         queue' = queue \cup {it}, UNCHANGED Fates, Others(w), ~HasJob(w)'
  PROVE  Placed'
<1>1. \A v \in Workers \ {w} : HasJob(v)' = HasJob(v) /\ JobOf(v)' = JobOf(v)
  BY DEF Others, HasJob, JobOf
<1>2. \A x \in queue : x.job # it.job
  BY DEF Placed, Apart
<1>3. \A v \in Workers \ {w} : HasJob(v) => JobOf(v) # it.job
  BY DEF Placed, Worked
<1>4. Waiting' /\ Worked' /\ Apart'
  BY <1>1, <1>2, <1>3 DEF Placed, Waiting, Worked, Apart
<1>5. \A j : Over(j)' = Over(j)
  BY DEF Over, DeadJobs, Fates
<1>6. Open' /\ OverOnce' /\ Accepted'
  BY <1>1, <1>5 DEF Placed, Open, OverOnce, Accepted, DeadJobs, Fates
<1>7. QED
  BY <1>4, <1>6 DEF Placed

\* A worker's job comes to one of its ends.
LEMMA PlacedEnd ==
  ASSUME TypeOK, Placed, NEW w \in Workers, HasJob(w), UNCHANGED <<queue, outcome>>,
         Others(w), ~HasJob(w)',
         \/ /\ done' = done \cup {JobOf(w)}
            /\ UNCHANGED <<abandoned, DeadJobs>>
         \/ /\ abandoned' = abandoned \cup {JobOf(w)}
            /\ UNCHANGED <<done, DeadJobs>>
         \/ /\ DeadJobs' = DeadJobs \cup {JobOf(w)}
            /\ UNCHANGED <<done, abandoned>>
  PROVE  Placed'
<1>1. \A v \in Workers \ {w} : HasJob(v)' = HasJob(v) /\ JobOf(v)' = JobOf(v)
  BY DEF Others, HasJob, JobOf
<1>2. \A x \in queue : x.job # JobOf(w)
  BY DEF Placed, Apart
<1>3. \A v \in Workers \ {w} : HasJob(v) => JobOf(v) # JobOf(w)
  BY DEF Placed, Worked
<1>4. Waiting' /\ Worked' /\ Apart'
  BY <1>1 DEF Placed, Waiting, Worked, Apart
<1>5. ~Over(JobOf(w)) /\ outcome[JobOf(w)] = "queued"
  BY DEF Placed, Open, Accepted
<1>6. \A j : Over(j)' <=> Over(j) \/ j = JobOf(w)
  BY DEF Over
<1>7. Open' /\ Accepted'
  BY <1>1, <1>2, <1>3, <1>5, <1>6 DEF Placed, Open, Accepted
<1>8. OverOnce'
  BY <1>5 DEF Placed, OverOnce, Over
<1>9. QED
  BY <1>4, <1>7, <1>8 DEF Placed

-----------------------------------------------------------------------------
(* Which action makes which move.                                          *)

\* A worker that fails a job keeps it for the dead letters or hands it back:
\* a job is never dropped, by the order of the shutdown.
LEMMA FailMoves ==
  ASSUME TypeOK, NoSilentDrop, NEW w \in Workers, HasJob(w), Fail(w)
  PROVE  \/ /\ UNCHANGED queue
            /\ pc'[w] = "dlqadd" /\ cur'[w] = cur[w]
         \/ /\ queue' = queue \cup {IncrementAttempts(cur[w])}
            /\ CanRetry(IncrementAttempts(cur[w]))
            /\ pc'[w] = "loop"
<1>1. PICK cut \in Cutoffs :
        /\ MarkFailed(cur[w], cut)
        /\ IF FailVerdict(cur[w], cut) = "dead"
             THEN Goto(w, "dlqadd") /\ UNCHANGED cur
             ELSE Finish(w, "loop")
  BY DEF Fail
<1>2. CASE FailVerdict(cur[w], cut) = "dead"
  <2>1. UNCHANGED queue
    BY <1>1, <1>2 DEF FailVerdict, MarkFailed, Enqueue
  <2>2. QED
    BY <1>1, <1>2, <2>1 DEF TypeOK, Goto
<1>3. CASE FailVerdict(cur[w], cut) # "dead"
  <2>1. FailVerdict(cur[w], cut) # "dropped"
    BY DEF NoSilentDrop
  <2>2. /\ CanRetry(IncrementAttempts(cur[w]))
        /\ EnqueueResult(IncrementAttempts(cur[w]), cut) = "queued"
    BY <1>3, <2>1 DEF FailVerdict, EnqueueResult
  <2>3. queue' = queue \cup {IncrementAttempts(cur[w])}
    BY <1>1, <2>2 DEF MarkFailed, Enqueue
  <2>4. pc'[w] = "loop"
    BY <1>1, <1>3 DEF TypeOK, Finish, Goto
  <2>5. QED
    BY <2>2, <2>3, <2>4
<1>4. QED
  BY <1>2, <1>3

\* The steps of a worker that keeps what it has, or has nothing.
Idling(w) ==
  /\ UNCHANGED <<queue, Fates>>
  /\ Others(w)
  /\ cur'[w] = cur[w]
  /\ HasJob(w)' = HasJob(w)
  /\ pc'[w] = "dlqadd" <=> pc[w] = "dlqadd"

Taking(w) ==
  /\ ~HasJob(w)
  /\ UNCHANGED Fates
  /\ Others(w)
  /\ cur'[w] \in queue
  /\ queue' = queue \ {cur'[w]}
  /\ HasJob(w)' /\ pc'[w] # "dlqadd"

Retrying(w) ==
  /\ HasJob(w) /\ pc[w] # "dlqadd"
  /\ UNCHANGED Fates
  /\ Others(w)
  /\ queue' = queue \cup {IncrementAttempts(cur[w])}
  /\ CanRetry(IncrementAttempts(cur[w]))
  /\ ~HasJob(w)'

GivingUp(w) ==
  /\ HasJob(w) /\ pc[w] # "dlqadd"
  /\ UNCHANGED <<queue, Fates>>
  /\ Others(w)
  /\ cur'[w] = cur[w] /\ pc'[w] = "dlqadd"

Ending(w, at) ==
  /\ HasJob(w)
  /\ UNCHANGED <<queue, outcome>>
  /\ Others(w)
  /\ ~HasJob(w)'
  /\ CASE at = "done" ->
             /\ pc[w] # "dlqadd"
             /\ done' = done \cup {JobOf(w)}
             /\ UNCHANGED <<abandoned, DeadJobs>>
       [] at = "lost" ->
             /\ abandoned' = abandoned \cup {JobOf(w)}
             /\ UNCHANGED <<done, DeadJobs>>
       [] at = "dead" ->
             /\ pc[w] = "dlqadd"
             /\ DeadJobs' = DeadJobs \cup {JobOf(w)}
             /\ UNCHANGED <<done, abandoned>>

Moving(w) ==
  \/ Idling(w) \/ Taking(w) \/ Retrying(w) \/ GivingUp(w)
  \/ Ending(w, "done") \/ Ending(w, "lost") \/ Ending(w, "dead")

LEMMA WorkersMove ==
  ASSUME TypeOK, NoSilentDrop, NEW w \in Workers, WorkerStep(w)
  PROVE  Moving(w)
<1>1. Others(w)
  BY Solo DEF Others
<1>2. CASE LoopCheck(w) \/ DequeueTimeout(w) \/ PermitGranted(w)
  <2>1. Idling(w)
    BY <1>1, <1>2 DEF LoopCheck, DequeueTimeout, PermitGranted, Scheduled, Goto, TypeOK,
       Idling, Fates, HasJob, dispatcherVars, fateVars
  <2>2. QED
    BY <2>1 DEF Moving
<1>3. CASE LockGranted(w)
  <2>1. Idling(w)
    BY <1>1, <1>3 DEF LockGranted, Scheduled, Goto, Entry, TypeOK, Idling, Fates,
       HasJob, dispatcherVars, fateVars
  <2>2. QED
    BY <2>1 DEF Moving
<1>4. CASE Dequeue(w)
  <2>1. PICK it \in queue :
          /\ Take(it)
          /\ cur' = [cur EXCEPT ![w] = it]
          /\ pc' = [pc EXCEPT ![w] = IF ChatOf[it.job] = NoChat THEN Entry(it.job)
                                     ELSE "lockwait"]
    BY <1>4 DEF Dequeue, Goto
  <2>2. pc[w] = "dequeue" /\ UNCHANGED Fates
    BY <1>4 DEF Dequeue, Scheduled, Fates, fateVars
  <2>3. Taking(w)
    BY <1>1, <2>1, <2>2 DEF Take, Entry, TypeOK, Taking, HasJob
  <2>4. QED
    BY <2>3 DEF Moving
<1>5. CASE LockTimeout(w) \/ HandlerRaises(w)
  <2>1. HasJob(w) /\ pc[w] # "dlqadd" /\ Fail(w) /\ UNCHANGED Fates
    BY <1>5 DEF LockTimeout, HandlerRaises, Scheduled, HasJob, Fates, fateVars
  <2>2. GivingUp(w) \/ Retrying(w)
    BY <1>1, <2>1, FailMoves DEF GivingUp, Retrying, HasJob, Fates
  <2>3. QED
    BY <2>2 DEF Moving
<1>6. CASE HandlerReturns(w)
  <2>1. Ending(w, "done")
    BY <1>1, <1>6 DEF HandlerReturns, Scheduled, Finish, Goto, TypeOK, Ending, HasJob,
       DeadJobs
  <2>2. QED
    BY <2>1 DEF Moving
<1>7. CASE DeadLetterAdded(w)
  <2>1. DeadJobs' = DeadJobs \cup {JobOf(w)}
    <3> DEFINE row == [job |-> JobOf(w), att |-> cur[w].att, row |-> nextRow]
    <3>1. dlq' = dlq \cup {row} /\ row.job = JobOf(w)
      BY <1>7 DEF DeadLetterAdded
    <3> HIDE DEF row
    <3>2. QED
      BY <3>1 DEF DeadJobs
  <2>2. Ending(w, "dead")
    BY <1>1, <1>7, <2>1 DEF DeadLetterAdded, Finish, Goto, TypeOK, Ending, HasJob,
       dispatcherVars
  <2>3. QED
    BY <2>2 DEF Moving
<1>8. CASE DeadLetterLost(w)
  <2>1. Ending(w, "lost")
    BY <1>1, <1>8 DEF DeadLetterLost, Scheduled, Finish, Goto, TypeOK, Ending, HasJob,
       DeadJobs, dispatcherVars
  <2>2. QED
    BY <2>1 DEF Moving
<1>9. CASE Cancelled(w)
  <2>1. CASE HasJob(w)
    <3>1. Ending(w, "lost")
      BY <1>1, <1>9, <2>1 DEF Cancelled, Finish, Goto, TypeOK, Ending, HasJob,
         DeadJobs, dispatcherVars
    <3>2. QED
      BY <3>1 DEF Moving
  <2>2. CASE ~HasJob(w)
    <3>1. Idling(w)
      BY <1>1, <1>9, <2>2 DEF Cancelled, Finish, Goto, TypeOK, Idling, HasJob, Fates,
         dispatcherVars
    <3>2. QED
      BY <3>1 DEF Moving
  <2>3. QED
    BY <2>1, <2>2
<1>10. QED
  BY <1>2, <1>3, <1>4, <1>5, <1>6, <1>7, <1>8, <1>9 DEF WorkerStep

\* The shutdown sequence moves nothing.
LEMMA StopsMoveNothing ==
  ASSUME StopStep \/ UNCHANGED vars
  PROVE  UNCHANGED <<queue, Fates, pc, cur>>
BY DEF StopStep, StopPool, StopTimeout, PoolStopped, ShutdownDispatcher,
       ShutdownReturns, vars, dispatcherVars, workerVars, fateVars, Fates

LEMMA PlacedNext == TypeOK /\ NoSilentDrop /\ Placed /\ [Next]_vars => Placed'
<1> SUFFICES ASSUME TypeOK, NoSilentDrop, Placed, [Next]_vars PROVE Placed'
  OBVIOUS
<1>1. ASSUME NEW j \in Jobs, Submit(j) PROVE Placed'
  BY <1>1, PlacedSubmit
<1>2. ASSUME NEW w \in Workers, WorkerStep(w) PROVE Placed'
  <2>1. Moving(w)
    BY <1>2, WorkersMove
  <2>2. CASE Idling(w)
    <3>1. KeepsJobs
      BY <1>2, <2>2, TypeNext DEF Idling, Others, HasJob, KeepsJobs, TypeOK
    <3>2. QED
      BY <2>2, <3>1, PlacedKeep DEF Idling
  <2>3. CASE Taking(w)
    BY <2>3, PlacedDequeue DEF Taking
  <2>4. CASE Retrying(w)
    <3>1. IncrementAttempts(cur[w]).job = JobOf(w)
      BY <2>4, IncrementItem DEF Retrying, TypeOK, JobOf
    <3>2. QED
      BY <2>4, <3>1, PlacedRetry DEF Retrying
  <2>5. CASE GivingUp(w)
    <3>1. KeepsJobs
      BY <1>2, <2>5, TypeNext DEF GivingUp, Others, HasJob, KeepsJobs, TypeOK
    <3>2. QED
      BY <2>5, <3>1, PlacedKeep DEF GivingUp
  <2>6. CASE Ending(w, "done") \/ Ending(w, "lost") \/ Ending(w, "dead")
    BY <2>6, PlacedEnd DEF Ending
  <2>7. QED
    BY <2>1, <2>2, <2>3, <2>4, <2>5, <2>6 DEF Moving
<1>3. CASE StopStep \/ UNCHANGED vars
  BY <1>3, StopsMoveNothing, PlacedKeep DEF KeepsJobs, HasJob
<1>4. QED
  BY <1>1, <1>2, <1>3 DEF Next

-----------------------------------------------------------------------------
(* The mapping: under Placed, the places of a job are one or none.         *)

Where(w) == IF pc[w] = "dlqadd" THEN "dying" ELSE "working"

\* A place of a job in the lifecycle.
In(at, att) == [at |-> at, att |-> att]

LEMMA PlacesUnfold ==
  ASSUME NEW j
  PROVE  Places(j) = {In("waiting", it.att) : it \in QueuedAs(j)}
                     \cup {In(Where(w), cur[w].att) : w \in HeldBy(j)}
                     \cup {In("dead", 0) : r \in DeadAs(j)}
                     \cup {In("done", 0) : d \in Among(j, done)}
                     \cup {In("lost", 0) : a \in Among(j, abandoned)}
BY DEF Places, In, Where

LEMMA SettledPlaces ==
  ASSUME NEW j
  PROVE  /\ DeadAs(j) # {} <=> j \in DeadJobs
         /\ Among(j, done) = IF j \in done THEN {j} ELSE {}
         /\ Among(j, abandoned) = IF j \in abandoned THEN {j} ELSE {}
BY DEF DeadAs, DeadJobs, Among

LEMMA PlaceQueued ==
  ASSUME TypeOK, Placed, NEW it \in queue
  PROVE  Places(it.job) = {In("waiting", it.att)}
<1>1. QueuedAs(it.job) = {it} /\ HeldBy(it.job) = {} /\ ~Over(it.job)
  BY DEF Placed, Waiting, Apart, Open, QueuedAs, HeldBy
<1>2. QED
  BY <1>1, PlacesUnfold, SettledPlaces DEF Over

LEMMA PlaceHeld ==
  ASSUME TypeOK, Placed, NEW w \in Workers, HasJob(w)
  PROVE  Places(JobOf(w)) = {In(Where(w), cur[w].att)}
<1>1. QueuedAs(JobOf(w)) = {} /\ HeldBy(JobOf(w)) = {w} /\ ~Over(JobOf(w))
  BY DEF Placed, Worked, Apart, Open, QueuedAs, HeldBy
<1>2. QED
  BY <1>1, PlacesUnfold, SettledPlaces DEF Over

LEMMA PlaceOver ==
  ASSUME TypeOK, Placed, NEW j, Over(j)
  PROVE  Places(j) = {In(IF j \in done THEN "done"
                         ELSE IF j \in abandoned THEN "lost" ELSE "dead", 0)}
<1>1. QueuedAs(j) = {} /\ HeldBy(j) = {}
  BY DEF Placed, Open, QueuedAs, HeldBy
<1>2. CASE j \in done
  BY <1>1, <1>2, PlacesUnfold, SettledPlaces DEF Placed, OverOnce
<1>3. CASE j \in abandoned
  BY <1>1, <1>3, PlacesUnfold, SettledPlaces DEF Placed, OverOnce
<1>4. CASE j \in DeadJobs
  BY <1>1, <1>4, PlacesUnfold, SettledPlaces DEF Placed, OverOnce
<1>5. QED
  BY <1>2, <1>3, <1>4 DEF Over

LEMMA PlaceNone ==
  ASSUME TypeOK, Placed, NEW j \in Jobs, outcome[j] # "queued"
  PROVE  Places(j) = {}
<1>1. QueuedAs(j) = {} /\ HeldBy(j) = {} /\ ~Over(j)
  BY DEF Placed, Accepted, QueuedAs, HeldBy
<1>2. QED
  BY <1>1, PlacesUnfold, SettledPlaces DEF Over

\* A job that no move touches stays where it is.
LEMMA PlaceSame ==
  ASSUME NEW j,
         QueuedAs(j)' = QueuedAs(j), HeldBy(j)' = HeldBy(j),
         \A w \in HeldBy(j) : cur'[w] = cur[w] /\ Where(w)' = Where(w),
         j \in done' <=> j \in done, j \in abandoned' <=> j \in abandoned,
         j \in DeadJobs' <=> j \in DeadJobs
  PROVE  Places(j)' = Places(j)
<1>1. {In("waiting", it.att) : it \in QueuedAs(j)}' =
      {In("waiting", it.att) : it \in QueuedAs(j)}
  BY DEF In
<1>2. {In(Where(w), cur[w].att) : w \in HeldBy(j)}' =
      {In(Where(w), cur[w].att) : w \in HeldBy(j)}
  <2>1. \A w \in HeldBy(j) : In(Where(w), cur[w].att)' = In(Where(w), cur[w].att)
    BY DEF In
  <2>2. QED
    BY <2>1
<1>3. {In("dead", 0) : r \in DeadAs(j)}' = {In("dead", 0) : r \in DeadAs(j)}
  BY SettledPlaces DEF DeadAs, DeadJobs, In
<1>4. Among(j, done)' = Among(j, done) /\ Among(j, abandoned)' = Among(j, abandoned)
  BY DEF Among
<1>5. QED
  BY <1>1, <1>2, <1>3, <1>4 DEF Places, In, Where

PlacesAre ==
  /\ \A it \in queue : Places(it.job) = {In("waiting", it.att)}
  /\ \A w \in Workers : HasJob(w) => Places(JobOf(w)) = {In(Where(w), cur[w].att)}
  /\ \A j \in done : Places(j) = {In("done", 0)}
  /\ \A j \in abandoned : Places(j) = {In("lost", 0)}
  /\ \A j \in DeadJobs : Places(j) = {In("dead", 0)}
  /\ \A j \in Jobs : outcome[j] # "queued" => Places(j) = {}

LEMMA PlacesFollow == TypeOK /\ Placed => PlacesAre
<1> SUFFICES ASSUME TypeOK, Placed PROVE PlacesAre
  OBVIOUS
<1>1. \A j : Over(j) =>
        Places(j) = {In(IF j \in done THEN "done"
                        ELSE IF j \in abandoned THEN "lost" ELSE "dead", 0)}
  BY PlaceOver
<1>2. /\ \A j \in done : Places(j) = {In("done", 0)}
      /\ \A j \in abandoned : Places(j) = {In("lost", 0)}
      /\ \A j \in DeadJobs : Places(j) = {In("dead", 0)}
  BY <1>1 DEF Over, Placed, OverOnce
<1>3. QED
  BY <1>2, PlaceQueued, PlaceHeld, PlaceNone DEF PlacesAre

-----------------------------------------------------------------------------
(* Every step is a step of the lifecycle, of one job, or none.             *)

LEMMA LifeMove ==
  ASSUME NEW j \in Jobs, NEW from, NEW to,
         Places(j) = {from}, Places(j)' = {to},
         \A k \in Jobs \ {j} : Places(k)' = Places(k)
  PROVE  Life!Move(j, from, to)
BY DEF Life!Move

LEMMA LifeStutter ==
  ASSUME \A k \in Jobs : Places(k)' = Places(k)
  PROVE  UNCHANGED [j \in Jobs |-> Places(j)]
OBVIOUS

LEMMA LifeSubmit ==
  ASSUME TypeOK, Placed, PlacesAre, PlacesAre', NEW j \in Jobs, Submit(j)
  PROVE  Life!Accept(j) \/ UNCHANGED [k \in Jobs |-> Places(k)]
<1> DEFINE it == [job |-> j, att |-> 0, at |-> clock]
<1>1. PICK cut \in Cutoffs :
        /\ Enqueue(it, cut)
        /\ outcome' = [outcome EXCEPT ![j] = EnqueueResult(it, cut)]
  BY DEF Submit
<1>2. outcome[j] = "new" /\ UNCHANGED <<dlq, done, abandoned, pc, cur>>
  BY DEF Submit, workerVars, fateVars
<1>3. it.job = j /\ it.att = 0
  OBVIOUS
<1> HIDE DEF it
<1>4. Places(j) = {}
  BY <1>2 DEF PlacesAre
<1>5. \A k \in Jobs \ {j} : Places(k)' = Places(k)
  <2>1. TAKE k \in Jobs \ {j}
  <2>2. QueuedAs(k)' = QueuedAs(k)
    BY <1>1, <1>3 DEF Enqueue, QueuedAs
  <2>3. HeldBy(k)' = HeldBy(k)
    BY <1>2 DEF HeldBy, HasJob, JobOf
  <2>4. QED
    BY <1>2, <2>2, <2>3, PlaceSame DEF Where, DeadJobs
<1>6. CASE EnqueueResult(it, cut) = "queued"
  <2>1. Places(j)' = {In("waiting", 0)}
    BY <1>1, <1>3, <1>6 DEF Enqueue, PlacesAre
  <2>2. QED
    BY <1>4, <1>5, <2>1 DEF Life!Accept, Life!Place, In
<1>7. CASE EnqueueResult(it, cut) # "queued"
  <2>1. outcome'[j] # "queued"
    BY <1>1, <1>7 DEF TypeOK
  <2>2. Places(j)' = {}
    BY <2>1 DEF PlacesAre
  <2>3. QED
    BY <1>4, <1>5, <2>2, LifeStutter
<1>8. QED
  BY <1>6, <1>7

\* A worker's move concerns its own job alone.
LEMMA LifeOthers ==
  ASSUME TypeOK, TypeOK', Placed, NEW w \in Workers, Moving(w), ~Idling(w), NEW j \in Jobs,
         HasJob(w) => j # JobOf(w), HasJob(w)' => j # JobOf(w)'
  PROVE  Places(j)' = Places(j)
<1>1. \A v \in Workers \ {w} : pc'[v] = pc[v] /\ cur'[v] = cur[v]
  BY DEF Moving, Idling, Taking, Retrying, GivingUp, Ending, Others
<1>2. HeldBy(j)' = HeldBy(j)
  BY <1>1 DEF HeldBy, HasJob, JobOf
<1>3. \A v \in HeldBy(j) : cur'[v] = cur[v] /\ Where(v)' = Where(v)
  BY <1>1 DEF HeldBy, Where
<1>4. QueuedAs(j)' = QueuedAs(j)
  BY IncrementItem DEF Moving, Taking, Retrying, GivingUp, Ending, QueuedAs, TypeOK, JobOf
<1>5. /\ j \in done' <=> j \in done
      /\ j \in abandoned' <=> j \in abandoned
      /\ j \in DeadJobs' <=> j \in DeadJobs
  BY DEF Moving, Taking, Retrying, GivingUp, Ending, Fates, DeadJobs
<1>6. QED
  BY <1>2, <1>3, <1>4, <1>5, PlaceSame

LEMMA LifeWorker ==
  ASSUME TypeOK, TypeOK', AttemptsLeft, Placed, PlacesAre, PlacesAre',
         NEW w \in Workers, Moving(w)
  PROVE  \/ \E j \in Jobs, n \in 0 .. MaxAttempts - 1 : Life!Attempt(j, n)
         \/ UNCHANGED [k \in Jobs |-> Places(k)]
<1>1. CASE Idling(w)
  <2>1. ASSUME NEW k \in Jobs PROVE Places(k)' = Places(k)
    <3>1. \A v \in Workers : cur'[v] = cur[v] /\ HasJob(v)' = HasJob(v) /\ Where(v)' = Where(v)
      BY <1>1 DEF Idling, Others, HasJob, Where
    <3>2. HeldBy(k)' = HeldBy(k) /\ QueuedAs(k)' = QueuedAs(k)
      BY <1>1, <3>1 DEF HeldBy, QueuedAs, JobOf, Idling
    <3>3. QED
      BY <1>1, <3>1, <3>2, PlaceSame DEF Idling, Fates, DeadJobs, HeldBy
  <2>2. QED
    BY <2>1, LifeStutter
<1>2. CASE Taking(w)
  <2>1. PICK it \in queue : it = cur'[w]
    BY <1>2 DEF Taking
  <2>2. PICK j \in Jobs : j = it.job
    BY DEF TypeOK, Items
  <2>3. it \in Items /\ ~HasJob(w) /\ HasJob(w)' /\ j = JobOf(w)'
    BY <1>2, <2>1, <2>2 DEF Taking, TypeOK, JobOf
  <2>4. j \in Jobs /\ it.att \in 0 .. MaxAttempts - 1
    BY <2>3, DispatcherAssumption DEF Items, AttemptsLeft
  <2>5. Places(j) = {In("waiting", it.att)}
    BY <2>2 DEF PlacesAre
  <2>6. Places(j)' = {In("working", it.att)}
    <3>1. Places(JobOf(w))' = {In(Where(w), cur[w].att)}'
      BY <2>3 DEF PlacesAre
    <3>2. Where(w)' = "working"
      BY <1>2 DEF Taking, Where
    <3>3. QED
      BY <2>1, <2>3, <3>1, <3>2
  <2>7. \A k \in Jobs \ {j} : Places(k)' = Places(k)
    BY <1>2, <2>3, LifeOthers DEF Moving, Taking, Idling
  <2>8. Life!Start(j, it.att)
    BY <2>4, <2>5, <2>6, <2>7, LifeMove DEF Life!Start, Life!Place, In
  <2>9. QED
    BY <2>4, <2>8 DEF Life!Attempt
<1>3. ASSUME HasJob(w), ~Idling(w), ~Taking(w)
      PROVE  \E j \in Jobs, n \in 0 .. MaxAttempts - 1 : Life!Attempt(j, n)
  <2>1. PICK j \in Jobs, n \in 0 .. MaxAttempts - 1 : j = JobOf(w) /\ n = cur[w].att
    BY <1>3, DispatcherAssumption DEF TypeOK, Items, JobOf, AttemptsLeft
  <2>2. cur[w] \in Items
    BY <1>3 DEF TypeOK
  <2>3. Places(j) = {In(Where(w), n)}
    BY <1>3, <2>1 DEF PlacesAre
  <2>4. HasJob(w)' => JobOf(w)' = j
    BY <1>3, <2>1 DEF Moving, Retrying, GivingUp, Ending, JobOf
  <2>5. \A k \in Jobs \ {j} : Places(k)' = Places(k)
    BY <1>3, <2>1, <2>4, LifeOthers
  <2>6. CASE Retrying(w)
    <3>1. IncrementAttempts(cur[w]).job = j /\ IncrementAttempts(cur[w]).att = n + 1
      BY <2>1, <2>2, IncrementItem DEF JobOf
    <3>2. Places(j)' = {In("waiting", n + 1)} /\ n + 1 < MaxAttempts
      BY <2>6, <3>1 DEF Retrying, PlacesAre, CanRetry
    <3>3. Life!Retry(j, n)
      BY <2>2, <2>3, <2>5, <2>6, <3>2, LifeMove DEF Life!Retry, Life!Place, In, Where, Retrying
    <3>4. QED
      BY <2>2, <3>3 DEF Life!Attempt
  <2>7. CASE GivingUp(w)
    <3>1. Places(j)' = {In("dying", n)}
      BY <2>1, <2>7 DEF GivingUp, PlacesAre, Where, HasJob, JobOf
    <3>2. Life!GiveUp(j, n)
      BY <2>2, <2>3, <2>5, <2>7, <3>1, LifeMove DEF Life!GiveUp, Life!Place, In, Where, GivingUp
    <3>3. QED
      BY <2>2, <3>2 DEF Life!Attempt
  <2>8. CASE Ending(w, "done")
    <3>1. Places(j)' = {In("done", 0)}
      BY <2>1, <2>8 DEF Ending, PlacesAre
    <3>2. Life!Succeed(j, n)
      BY <2>2, <2>3, <2>5, <2>8, <3>1, LifeMove DEF Life!Succeed, Life!Place, In, Where, Ending
    <3>3. QED
      BY <2>2, <3>2 DEF Life!Attempt
  <2>9. CASE Ending(w, "lost")
    <3>1. Places(j)' = {In("lost", 0)}
      BY <2>1, <2>9 DEF Ending, PlacesAre
    <3>2. Life!Lose(j, n)
      BY <2>2, <2>3, <2>5, <3>1, LifeMove DEF Life!Lose, Life!Place, In, Where
    <3>3. QED
      BY <2>2, <3>2 DEF Life!Attempt
  <2>10. CASE Ending(w, "dead")
    <3>1. Places(j)' = {In("dead", 0)}
      BY <2>1, <2>10 DEF Ending, PlacesAre
    <3>2. Life!Bury(j, n)
      BY <2>2, <2>3, <2>5, <2>10, <3>1, LifeMove DEF Life!Bury, Life!Place, In, Where, Ending
    <3>3. QED
      BY <2>2, <3>2 DEF Life!Attempt
  <2>11. QED
    BY <1>3, <2>6, <2>7, <2>8, <2>9, <2>10 DEF Moving
<1>4. QED
  BY <1>1, <1>2, <1>3 DEF Moving, Retrying, GivingUp, Ending

LEMMA LifeNext ==
  /\ TypeOK /\ TypeOK' /\ NoSilentDrop /\ AttemptsLeft
  /\ Placed /\ PlacesAre /\ PlacesAre' /\ [Next]_vars
  => [Life!Next]_([j \in Jobs |-> Places(j)])
<1> SUFFICES ASSUME TypeOK, TypeOK', NoSilentDrop, AttemptsLeft,
                    Placed, PlacesAre, PlacesAre', [Next]_vars
             PROVE  Life!Next \/ UNCHANGED [j \in Jobs |-> Places(j)]
  OBVIOUS
<1>1. ASSUME NEW j \in Jobs, Submit(j)
      PROVE  Life!Next \/ UNCHANGED [k \in Jobs |-> Places(k)]
  BY <1>1, LifeSubmit DEF Life!Next
<1>2. ASSUME NEW w \in Workers, WorkerStep(w)
      PROVE  Life!Next \/ UNCHANGED [k \in Jobs |-> Places(k)]
  BY <1>2, WorkersMove, LifeWorker DEF Life!Next
<1>3. CASE StopStep \/ UNCHANGED vars
  <2>1. UNCHANGED <<queue, Fates, pc, cur>>
    BY <1>3, StopsMoveNothing
  <2>2. \A k \in Jobs : Places(k)' = Places(k)
    BY <2>1, PlaceSame DEF Fates, QueuedAs, HeldBy, HasJob, JobOf, Where, DeadJobs
  <2>3. QED
    BY <2>2, LifeStutter
<1>4. QED
  BY <1>1, <1>2, <1>3 DEF Next

\* The job queue implements the lifecycle of a job (dispatcher.py, workers.py):
\* whatever the workers, timeouts, failures and the shutdown do, a job is in one
\* place at a time and moves along the arrows of JobLifecycle only.
THEOREM Implements == Spec => ImplementsLifecycle
<1>1. Init => Life!Init
  <2>1. SUFFICES ASSUME Init PROVE Life!Init
    OBVIOUS
  <2>2. TypeOK /\ Placed
    BY <2>1, TypeInit, PlacedInit
  <2>3. \A j \in Jobs : Places(j) = {}
    BY <2>1, <2>2, PlaceNone DEF Init, DispatcherInit
  <2>4. QED
    BY <2>3 DEF Life!Init
<1>2. QED
  BY <1>1, PlacedInit, PlacedNext, PlacesFollow, LifeNext, TypeCorrect, NothingDropped,
     AttemptsBounded, PTL DEF Spec, ImplementsLifecycle, Life!Spec

-----------------------------------------------------------------------------
(* One place exactly.  The lifecycle lets a job have no place; that an     *)
(* accepted one always has one, and one dead-letter row at most, is added. *)

Somewhere ==
  \A j \in Jobs : outcome[j] = "queued" =>
    QueuedAs(j) # {} \/ HeldBy(j) # {} \/ Over(j)

RowsOnce == \A r, s \in dlq : r.job = s.job => r = s

LEMMA SomewhereNext ==
  TypeOK /\ NoSilentDrop /\ Somewhere /\ [Next]_vars => Somewhere'
<1> SUFFICES ASSUME TypeOK, NoSilentDrop, Somewhere, [Next]_vars,
                    NEW j \in Jobs, outcome'[j] = "queued"
             PROVE  (QueuedAs(j) # {} \/ HeldBy(j) # {} \/ Over(j))'
  BY DEF Somewhere
<1>1. ASSUME NEW i \in Jobs, Submit(i)
      PROVE  (QueuedAs(j) # {} \/ HeldBy(j) # {} \/ Over(j))'
  <2> DEFINE it == [job |-> i, att |-> 0, at |-> clock]
  <2>1. PICK cut \in Cutoffs :
          /\ Enqueue(it, cut)
          /\ outcome' = [outcome EXCEPT ![i] = EnqueueResult(it, cut)]
    BY <1>1 DEF Submit
  <2>2. it.job = i
    OBVIOUS
  <2>3. UNCHANGED <<dlq, done, abandoned, pc, cur>>
    BY <1>1 DEF Submit, workerVars, fateVars
  <2> HIDE DEF it
  <2>4. CASE i = j
    <3>1. queue' = queue \cup {it}
      BY <2>1, <2>4 DEF Enqueue, TypeOK
    <3>2. QED
      BY <2>2, <2>4, <3>1 DEF QueuedAs
  <2>5. CASE i # j
    <3>1. outcome[j] = "queued"
      BY <2>1, <2>5 DEF TypeOK
    <3>2. queue \subseteq queue'
      BY <2>1 DEF Enqueue
    <3>3. QED
      BY <2>3, <3>1, <3>2 DEF Somewhere, QueuedAs, HeldBy, HasJob, JobOf, Over, DeadJobs
  <2>6. QED
    BY <2>4, <2>5
<1>2. ASSUME NEW w \in Workers, WorkerStep(w)
      PROVE  (QueuedAs(j) # {} \/ HeldBy(j) # {} \/ Over(j))'
  <2>1. Moving(w)
    BY <1>2, WorkersMove
  <2>2. outcome[j] = "queued"
    BY <2>1 DEF Moving, Idling, Taking, Retrying, GivingUp, Ending, Fates
  <2>3. \A v \in Workers \ {w} : HasJob(v)' = HasJob(v) /\ JobOf(v)' = JobOf(v)
    BY <2>1 DEF Moving, Idling, Taking, Retrying, GivingUp, Ending, Others, HasJob, JobOf
  <2>4. CASE QueuedAs(j) # {}
    BY <2>1, <2>4 DEF Moving, Idling, Taking, Retrying, GivingUp, Ending, QueuedAs,
       HeldBy, JobOf
  <2>5. CASE HeldBy(j) # {}
    <3>1. PICK v \in HeldBy(j) : TRUE
      BY <2>5
    <3>2. CASE v # w
      BY <2>3, <3>2 DEF HeldBy
    <3>3. CASE v = w
      <4>1. HasJob(w) /\ JobOf(w) = j /\ cur[w] \in Items
        BY <3>1, <3>3 DEF HeldBy, TypeOK
      <4>2. CASE Idling(w) \/ GivingUp(w)
        BY <4>1, <4>2 DEF Idling, GivingUp, HeldBy, HasJob, JobOf
      <4>3. CASE Retrying(w)
        BY <4>1, <4>3, IncrementItem DEF Retrying, QueuedAs, JobOf
      <4>4. CASE Ending(w, "done") \/ Ending(w, "lost") \/ Ending(w, "dead")
        BY <4>1, <4>4 DEF Ending, Over
      <4>5. QED
        BY <2>1, <4>1, <4>2, <4>3, <4>4 DEF Moving, Taking
    <3>4. QED
      BY <3>2, <3>3
  <2>6. CASE Over(j)
    BY <2>1, <2>6 DEF Moving, Idling, Taking, Retrying, GivingUp, Ending, Over, Fates,
       DeadJobs
  <2>7. QED
    BY <2>2, <2>4, <2>5, <2>6 DEF Somewhere
<1>3. CASE StopStep \/ UNCHANGED vars
  BY <1>3, StopsMoveNothing DEF Somewhere, QueuedAs, HeldBy, HasJob, JobOf, Over,
     DeadJobs, Fates
<1>4. QED
  BY <1>1, <1>2, <1>3 DEF Next

LEMMA RowsOnceNext == TypeOK /\ Placed /\ RowsOnce /\ [Next]_vars => RowsOnce'
<1> SUFFICES ASSUME TypeOK, Placed, RowsOnce, [Next]_vars PROVE RowsOnce'
  OBVIOUS
<1>1. ASSUME NEW w \in Workers, DeadLetterAdded(w) PROVE RowsOnce'
  <2> DEFINE row == [job |-> JobOf(w), att |-> cur[w].att, row |-> nextRow]
  <2>1. dlq' = dlq \cup {row} /\ row.job = JobOf(w) /\ HasJob(w)
    BY <1>1 DEF DeadLetterAdded, HasJob
  <2> HIDE DEF row
  <2>2. \A r \in dlq : r.job # JobOf(w)
    BY <2>1 DEF Placed, Open, Over, DeadJobs
  <2>3. QED
    BY <2>1, <2>2 DEF RowsOnce
<1>2. CASE UNCHANGED dlq
  BY <1>2 DEF RowsOnce
<1>3. QED
  BY <1>1, <1>2 DEF Next, WorkerStep, StopStep, Submit, LoopCheck, Dequeue,
     DequeueTimeout, LockGranted, LockTimeout, PermitGranted, HandlerReturns,
     HandlerRaises, DeadLetterLost, Cancelled, StopPool, StopTimeout, PoolStopped,
     ShutdownDispatcher, ShutdownReturns, vars, fateVars

\* The cardinality of a set of no or one element.
LEMMA OneOrNone ==
  /\ Cardinality({}) = 0
  /\ \A x : Cardinality({x}) = 1
BY FS_EmptySet, FS_Singleton

LEMMA OnePlaceFollows == TypeOK /\ Placed /\ Somewhere /\ RowsOnce => OnePlace
<1> SUFFICES ASSUME TypeOK, Placed, Somewhere, RowsOnce, NEW j \in Jobs
             PROVE  Cardinality(QueuedAs(j)) + Cardinality(HeldBy(j))
                      + Cardinality(DeadAs(j)) + Cardinality(Among(j, done))
                      + Cardinality(Among(j, abandoned))
                    = IF outcome[j] = "queued" THEN 1 ELSE 0
  BY DEF OnePlace
<1>1. CASE outcome[j] # "queued"
  <2>1. /\ QueuedAs(j) = {} /\ HeldBy(j) = {} /\ DeadAs(j) = {}
        /\ Among(j, done) = {} /\ Among(j, abandoned) = {}
    BY <1>1, SettledPlaces DEF Placed, Accepted, QueuedAs, HeldBy, Over
  <2>2. QED
    BY <1>1, <2>1, OneOrNone
<1>2. CASE outcome[j] = "queued"
  <2>1. CASE QueuedAs(j) # {}
    <3>1. PICK it \in queue : it.job = j
      BY <2>1 DEF QueuedAs
    <3>2. /\ QueuedAs(j) = {it} /\ HeldBy(j) = {} /\ DeadAs(j) = {}
          /\ Among(j, done) = {} /\ Among(j, abandoned) = {}
      BY <3>1, SettledPlaces DEF Placed, Waiting, Apart, Open, QueuedAs, HeldBy, Over
    <3>3. /\ Cardinality(QueuedAs(j)) = 1
          /\ Cardinality(HeldBy(j)) = 0
          /\ Cardinality(DeadAs(j)) = 0
          /\ Cardinality(Among(j, done)) = 0
          /\ Cardinality(Among(j, abandoned)) = 0
      BY <3>2, OneOrNone
    <3>4. QED
      BY <1>2, <3>3
  <2>2. CASE HeldBy(j) # {}
    <3>1. PICK w \in Workers : HasJob(w) /\ JobOf(w) = j
      BY <2>2 DEF HeldBy
    <3>2. /\ QueuedAs(j) = {} /\ HeldBy(j) = {w} /\ DeadAs(j) = {}
          /\ Among(j, done) = {} /\ Among(j, abandoned) = {}
      BY <3>1, SettledPlaces DEF Placed, Worked, Apart, Open, QueuedAs, HeldBy, Over
    <3>3. /\ Cardinality(QueuedAs(j)) = 0
          /\ Cardinality(HeldBy(j)) = 1
          /\ Cardinality(DeadAs(j)) = 0
          /\ Cardinality(Among(j, done)) = 0
          /\ Cardinality(Among(j, abandoned)) = 0
      BY <3>2, OneOrNone
    <3>4. QED
      BY <1>2, <3>3
  <2>3. CASE Over(j)
    <3>1. QueuedAs(j) = {} /\ HeldBy(j) = {}
      BY <2>3 DEF Placed, Open, QueuedAs, HeldBy
    <3>2. CASE j \in DeadJobs
      <4>1. PICK r \in dlq : r.job = j
        BY <3>2 DEF DeadJobs
      <4>2. /\ DeadAs(j) = {r}
            /\ Among(j, done) = {} /\ Among(j, abandoned) = {}
        BY <3>2, <4>1, SettledPlaces DEF RowsOnce, DeadAs, Placed, OverOnce
      <4>3. /\ Cardinality(QueuedAs(j)) = 0
            /\ Cardinality(HeldBy(j)) = 0
            /\ Cardinality(DeadAs(j)) = 1
            /\ Cardinality(Among(j, done)) = 0
            /\ Cardinality(Among(j, abandoned)) = 0
        BY <3>1, <4>2, OneOrNone
      <4>4. QED
        BY <1>2, <4>3
    <3>3. CASE j \in done
      <4>1. DeadAs(j) = {} /\ Among(j, done) = {j} /\ Among(j, abandoned) = {}
        BY <3>3, SettledPlaces DEF Placed, OverOnce
      <4>2. /\ Cardinality(QueuedAs(j)) = 0
            /\ Cardinality(HeldBy(j)) = 0
            /\ Cardinality(DeadAs(j)) = 0
            /\ Cardinality(Among(j, done)) = 1
            /\ Cardinality(Among(j, abandoned)) = 0
        BY <3>1, <4>1, OneOrNone
      <4>3. QED
        BY <1>2, <4>2
    <3>4. CASE j \in abandoned
      <4>1. DeadAs(j) = {} /\ Among(j, done) = {} /\ Among(j, abandoned) = {j}
        BY <3>4, SettledPlaces DEF Placed, OverOnce
      <4>2. /\ Cardinality(QueuedAs(j)) = 0
            /\ Cardinality(HeldBy(j)) = 0
            /\ Cardinality(DeadAs(j)) = 0
            /\ Cardinality(Among(j, done)) = 0
            /\ Cardinality(Among(j, abandoned)) = 1
        BY <3>1, <4>1, OneOrNone
      <4>3. QED
        BY <1>2, <4>2
    <3>5. QED
      BY <2>3, <3>2, <3>3, <3>4 DEF Over
  <2>4. QED
    BY <1>2, <2>1, <2>2, <2>3 DEF Somewhere
<1>3. QED
  BY <1>1, <1>2

\* An accepted job is never lost and never doubled, refused ones leave nothing
\* behind: mark_failed, the retries and the dead letters (dispatcher.py) keep each
\* job in one place, whatever fails, expires or is cancelled.
THEOREM NeitherLostNorDoubled == Spec => []OnePlace
<1>1. Init => Somewhere /\ RowsOnce
  BY DEF Init, DispatcherInit, Somewhere, RowsOnce
<1>2. QED
  BY <1>1, PlacedInit, PlacedNext, SomewhereNext, RowsOnceNext, OnePlaceFollows,
     TypeCorrect, NothingDropped, PTL DEF Spec

-----------------------------------------------------------------------------
(* The pending ids.                                                        *)

Busy(w) == HasJob(w) /\ pc[w] # "dlqadd"

Exact == pending = {JobOf(w) : w \in {v \in Workers : Busy(v)}}

\* A worker that becomes busy adds its job, one that stops being busy takes its
\* own out and nobody else's, since no two have the same.
LEMMA ExactChange ==
  ASSUME TypeOK, Placed, Exact, NEW w \in Workers, Others(w), NEW j,
         \/ ~Busy(w) /\ Busy(w)' /\ j = JobOf(w)' /\ pending' = pending \cup {j}
         \/ Busy(w) /\ ~Busy(w)' /\ j = JobOf(w) /\ pending' = pending \ {j}
         \/ Busy(w)' = Busy(w) /\ cur'[w] = cur[w] /\ UNCHANGED pending
  PROVE  Exact'
<1>1. \A v \in Workers \ {w} : Busy(v)' = Busy(v) /\ JobOf(v)' = JobOf(v)
  BY DEF Others, Busy, HasJob, JobOf
<1>2. \A v \in Workers \ {w} : Busy(v) /\ Busy(w) => JobOf(v) # JobOf(w)
  BY DEF Placed, Worked, Busy
<1>3. Busy(w)' = Busy(w) /\ cur'[w] = cur[w] => JobOf(w)' = JobOf(w)
  BY DEF JobOf
<1>4. QED
  BY <1>1, <1>2, <1>3 DEF Exact

LEMMA PendingNext ==
  TypeOK /\ Placed /\ PendingExact /\ [Next]_vars => PendingExact'
<1> SUFFICES ASSUME TypeOK, Placed, Exact, [Next]_vars, pool \in {"running", "stopping"}
             PROVE  Exact'
  BY DEF PendingExact, Exact, Busy, Next, StopStep, StopPool, StopTimeout, PoolStopped,
         ShutdownDispatcher, ShutdownReturns, Submit, WorkerStep, LoopCheck, Dequeue,
         DequeueTimeout, LockGranted, LockTimeout, PermitGranted, HandlerReturns,
         HandlerRaises, DeadLetterAdded, DeadLetterLost, Cancelled, vars
<1>1. ASSUME NEW w \in Workers, WorkerStep(w) PROVE Exact'
  <2>1. Others(w)
    BY <1>1, Solo DEF Others
  <2>2. CASE LoopCheck(w) \/ DequeueTimeout(w) \/ PermitGranted(w) \/ LockGranted(w)
    <3>1. Busy(w)' = Busy(w) /\ cur'[w] = cur[w] /\ UNCHANGED pending
      BY <2>2 DEF LoopCheck, DequeueTimeout, PermitGranted, LockGranted, Scheduled, Goto,
         Entry, TypeOK, Busy, HasJob, dispatcherVars
    <3>2. QED
      BY <2>1, <3>1, ExactChange
  <2>3. CASE Dequeue(w)
    <3>1. PICK it \in queue :
            /\ pending' = pending \cup {it.job}
            /\ cur' = [cur EXCEPT ![w] = it]
            /\ pc' = [pc EXCEPT ![w] = IF ChatOf[it.job] = NoChat THEN Entry(it.job)
                                       ELSE "lockwait"]
      BY <2>3 DEF Dequeue, Goto, Take
    <3>2. ~Busy(w) /\ Busy(w)' /\ it.job = JobOf(w)'
      BY <2>3, <3>1 DEF Dequeue, Scheduled, Entry, TypeOK, Busy, HasJob, JobOf
    <3>3. QED
      BY <2>1, <3>1, <3>2, ExactChange
  <2>4. CASE LockTimeout(w) \/ HandlerRaises(w) \/ HandlerReturns(w)
    <3>1. PICK j : j = JobOf(w)
      OBVIOUS
    <3>2. Busy(w) /\ pending' = pending \ {j}
      BY <2>4, <3>1 DEF LockTimeout, HandlerRaises, HandlerReturns, Scheduled, Fail,
         MarkFailed, MarkComplete, Busy, HasJob, JobOf
    <3>3. ~Busy(w)'
      BY <2>4 DEF LockTimeout, HandlerRaises, HandlerReturns, Fail, Finish, Goto, TypeOK,
         Busy, HasJob
    <3>4. QED
      BY <2>1, <3>1, <3>2, <3>3, ExactChange
  <2>5. CASE DeadLetterAdded(w) \/ DeadLetterLost(w)
    <3>1. /\ UNCHANGED pending /\ \A v \in Workers \ {w} : cur'[v] = cur[v]
          /\ ~Busy(w) /\ ~Busy(w)'
      BY <2>1, <2>5 DEF DeadLetterAdded, DeadLetterLost, Scheduled, Finish, Goto, TypeOK,
         Busy, HasJob, dispatcherVars, Others
    <3>2. QED
      BY <2>1, <3>1 DEF Exact, Others, Busy, HasJob, JobOf
  <2>6. CASE Cancelled(w)
    BY <2>6 DEF Cancelled
  <2>7. QED
    BY <1>1, <2>2, <2>3, <2>4, <2>5, <2>6 DEF WorkerStep
<1>2. ASSUME UNCHANGED <<pending, pc, cur>> PROVE Exact'
  BY <1>2 DEF Exact, Busy, HasJob, JobOf
<1>3. QED
  BY <1>1, <1>2, StopsMoveNothing DEF Next, StopStep, StopPool, StopTimeout, PoolStopped,
     ShutdownDispatcher, ShutdownReturns, Submit, vars, dispatcherVars, workerVars

\* _pending_jobs is what the workers are working on, until the pool cancels them:
\* shutdown(wait=True) (dispatcher.py) waits for exactly these.
THEOREM PendingTold == Spec => []PendingExact
<1>1. Init => PendingExact
  BY DEF Init, DispatcherInit, PendingExact, HasJob
<1>2. QED
  BY <1>1, PlacedInit, PlacedNext, PendingNext, TypeCorrect, NothingDropped, PTL DEF Spec

-----------------------------------------------------------------------------
(* The order of a chat.  ChatOrder compares who is inside a chat with who  *)
(* waits; what decides it is what everyone met on the way in: the queue    *)
(* hands out the oldest first, the lock keeps those in line in the order   *)
(* they were handed out, and no two jobs have the same stamp.              *)

Stamped ==
  /\ \A x \in queue : x.at < clock
  /\ \A w \in Workers : HasJob(w) => cur[w].at < clock
  /\ \A x, y \in queue : x.at = y.at => x = y
  /\ \A x \in queue, w \in Workers : HasJob(w) => x.at # cur[w].at
  /\ \A v, w \in Workers : HasJob(v) /\ HasJob(w) /\ cur[v].at = cur[w].at => v = w

Behind(it, w) == Prio[it.job] = Prio[JobOf(w)] /\ it.att = 0 => it.at > cur[w].at
InLine(w) == pc[w] = "lockwait"
SameChat(v, w) == ChatOf[JobOf(v)] = ChatOf[JobOf(w)]

QueueBehind == \A w \in Workers : HasJob(w) => \A x \in queue : Behind(x, w)
LineBehind ==
  \A u, v \in Workers :
    u # v /\ InLine(u) /\ InLine(v) /\ SameChat(u, v) /\ v \notin ahead[u] => Behind(cur[v], u)
InsideBehind ==
  \A v, w \in Workers : HoldsChat(w) /\ InLine(v) /\ SameChat(v, w) => Behind(cur[v], w)

OrderInv == Stamped /\ QueueBehind /\ LineBehind /\ InsideBehind

\* A retry has the stamp of the job and is no first attempt.
LEMMA RetryItem ==
  ASSUME TypeOK, NEW w \in Workers, HasJob(w)
  PROVE  /\ IncrementAttempts(cur[w]).at = cur[w].at
         /\ IncrementAttempts(cur[w]).att # 0
BY DEF TypeOK, IncrementAttempts, Items

LEMMA StampedNext == TypeOK /\ NoSilentDrop /\ Stamped /\ [Next]_vars => Stamped'
<1> SUFFICES ASSUME TypeOK, NoSilentDrop, Stamped, [Next]_vars PROVE Stamped'
  OBVIOUS
<1>1. clock \in Nat /\ (\A x \in queue : x.at \in Nat)
      /\ \A w \in Workers : HasJob(w) => cur[w].at \in Nat
  BY DEF TypeOK, Items
<1>2. ASSUME NEW j \in Jobs, Submit(j) PROVE Stamped'
  <2>1. UNCHANGED workerVars /\ clock' = clock + 1
    BY <1>2, Bystanders DEF Submit
  <2>2. \A x \in queue' : x \in queue \/ x = [job |-> j, att |-> 0, at |-> clock]
    BY <1>2 DEF Submit, Enqueue
  <2>3. \A x \in queue' : \/ x \in queue /\ x.at < clock
                          \/ x = [job |-> j, att |-> 0, at |-> clock] /\ x.at = clock
    BY <2>2 DEF Stamped
  <2>4. QED
    BY <1>1, <2>1, <2>3 DEF Stamped, workerVars, HasJob
<1>3. ASSUME NEW w \in Workers, WorkerStep(w) PROVE Stamped'
  <2>1. clock' = clock
    BY <1>3 DEF WorkerStep, LoopCheck, Dequeue, DequeueTimeout, LockGranted, LockTimeout,
       PermitGranted, HandlerReturns, HandlerRaises, DeadLetterAdded, DeadLetterLost,
       Cancelled, dispatcherVars
  <2>2. Moving(w)
    BY <1>3, WorkersMove
  <2>3. \A v \in Workers \ {w} : (HasJob(v)' <=> HasJob(v)) /\ cur'[v] = cur[v]
    BY <1>3, Solo DEF HasJob
  <2>4. CASE Idling(w) \/ GivingUp(w) \/ Ending(w, "done") \/ Ending(w, "lost") \/ Ending(w, "dead")
    <3>1. UNCHANGED queue /\ (HasJob(w)' => HasJob(w) /\ cur'[w] = cur[w])
      BY <2>4 DEF Idling, GivingUp, Ending
    <3>2. QED
      BY <2>1, <2>3, <3>1 DEF Stamped
  <2>5. CASE Taking(w)
    BY <1>1, <2>1, <2>3, <2>5 DEF Taking, Stamped
  <2>6. CASE Retrying(w)
    <3>1. IncrementAttempts(cur[w]).at = cur[w].at /\ HasJob(w) /\ ~HasJob(w)'
          /\ queue' = queue \cup {IncrementAttempts(cur[w])}
      BY <2>6, RetryItem DEF Retrying
    <3>2. QED
      BY <2>1, <2>3, <3>1 DEF Stamped
  <2>7. QED
    BY <2>2, <2>4, <2>5, <2>6 DEF Moving
<1>4. CASE StopStep \/ UNCHANGED vars
  <2>1. UNCHANGED <<queue, pc, cur>>
    BY <1>4, StopsMoveNothing
  <2>2. UNCHANGED clock
    BY <1>4 DEF StopStep, StopPool, StopTimeout, PoolStopped, ShutdownDispatcher,
       ShutdownReturns, vars, dispatcherVars
  <2>3. QED
    BY <2>1, <2>2 DEF Stamped, HasJob
<1>5. QED
  BY <1>2, <1>3, <1>4 DEF Next

\* What dequeue hands out leaves only younger ones of its priority behind.
LEMMA OldestFirst ==
  ASSUME TypeOK, Stamped, NEW it \in queue, Take(it), NEW w \in Workers, cur'[w] = it,
         NEW x \in queue'
  PROVE  Behind(x, w)'
<1>1. x \in queue /\ x # it /\ ~Before(x, it)
  BY DEF Take
<1>2. x.at # it.at /\ x.at \in Nat /\ it.at \in Nat
  BY <1>1 DEF Stamped, TypeOK, Items
<1>3. QED
  BY <1>1, <1>2 DEF Before, Behind, JobOf

LEMMA QueueBehindNext ==
  TypeOK /\ NoSilentDrop /\ Stamped /\ QueueBehind /\ [Next]_vars => QueueBehind'
<1> SUFFICES ASSUME TypeOK, NoSilentDrop, Stamped, QueueBehind, [Next]_vars
             PROVE  QueueBehind'
  OBVIOUS
<1>1. ASSUME NEW j \in Jobs, Submit(j) PROVE QueueBehind'
  <2>1. UNCHANGED workerVars
    BY <1>1, Bystanders
  <2>2. \A x \in queue' : x \in queue \/ x.at = clock
    BY <1>1 DEF Submit, Enqueue
  <2>3. \A w \in Workers : HasJob(w) => cur[w].at < clock /\ cur[w].at \in Nat
    BY DEF Stamped, TypeOK, Items
  <2>4. clock \in Nat
    BY DEF TypeOK
  <2>5. QED
    BY <2>1, <2>2, <2>3, <2>4 DEF QueueBehind, Behind, HasJob, JobOf, workerVars
<1>2. ASSUME NEW w \in Workers, WorkerStep(w) PROVE QueueBehind'
  <2>1. \A v \in Workers \ {w} : (HasJob(v)' <=> HasJob(v)) /\ cur'[v] = cur[v]
    BY <1>2, Solo DEF HasJob
  <2>2. Moving(w)
    BY <1>2, WorkersMove
  <2>3. CASE Dequeue(w)
    <3>1. PICK it \in queue : Take(it) /\ cur'[w] = it
      BY <2>3 DEF Dequeue, TypeOK
    <3>2. \A x \in queue' : Behind(x, w)'
      BY <3>1, OldestFirst
    <3>3. queue' \subseteq queue
      BY <3>1 DEF Take
    <3>4. QED
      BY <2>1, <3>2, <3>3 DEF QueueBehind, Behind, JobOf
  <2>4. CASE ~Dequeue(w) /\ ~Retrying(w)
    <3>1. UNCHANGED queue /\ (HasJob(w)' => HasJob(w) /\ cur'[w] = cur[w])
      <4>1. CASE Taking(w)
        <5>1. ~HasJob(w) /\ HasJob(w)'
          BY <4>1 DEF Taking
        <5>2. QED
          BY <1>2, <2>4, <5>1
             DEF WorkerStep, LoopCheck, DequeueTimeout, LockGranted, LockTimeout,
                 PermitGranted, HandlerReturns, HandlerRaises, DeadLetterAdded,
                 DeadLetterLost, Cancelled, Scheduled, Finish, Goto, HasJob, TypeOK
      <4>2. CASE ~Taking(w)
        BY <2>2, <2>4, <4>2 DEF Moving, Idling, GivingUp, Ending
      <4>3. QED
        BY <4>1, <4>2
    <3>2. QED
      BY <2>1, <3>1 DEF QueueBehind, Behind, JobOf
  <2>5. CASE Retrying(w)
    <3>1. /\ IncrementAttempts(cur[w]).att # 0 /\ ~HasJob(w)'
          /\ queue' = queue \cup {IncrementAttempts(cur[w])}
      BY <2>5, RetryItem DEF Retrying
    <3>2. QED
      BY <2>1, <3>1 DEF QueueBehind, Behind, JobOf
  <2>6. QED
    BY <2>3, <2>4, <2>5
<1>3. CASE StopStep \/ UNCHANGED vars
  BY <1>3, StopsMoveNothing DEF QueueBehind, Behind, HasJob, JobOf
<1>4. QED
  BY <1>1, <1>2, <1>3 DEF Next

\* A worker that is neither in line nor inside after its step, and that those in
\* line no longer wait for, disturbs no order.
LEMMA OrderWithout ==
  ASSUME LineBehind, InsideBehind, NEW w \in Workers, Others(w),
         ~InLine(w)', ~HoldsChat(w)',
         \A v \in Workers : ahead[v] \ {w} \subseteq ahead'[v] \/ ~InLine(v)'
  PROVE  LineBehind' /\ InsideBehind'
<1>1. ASSUME NEW u \in Workers, NEW v \in Workers,
             (u # v /\ InLine(u) /\ InLine(v) /\ SameChat(u, v) /\ v \notin ahead[u])'
      PROVE  Behind(cur[v], u)'
  <2>1. u # w /\ v # w
    BY <1>1
  <2>2. QED
    BY <1>1, <2>1 DEF Others, LineBehind, InLine, SameChat, Behind, JobOf
<1>2. ASSUME NEW v \in Workers, NEW u \in Workers,
             (HoldsChat(u) /\ InLine(v) /\ SameChat(v, u))'
      PROVE  Behind(cur[v], u)'
  <2>1. u # w /\ v # w
    BY <1>2
  <2>2. QED
    BY <1>2, <2>1 DEF Others, InsideBehind, InLine, HoldsChat, HasChat, SameChat, Behind, JobOf
<1>3. QED
  BY <1>1, <1>2 DEF LineBehind, InsideBehind

LEMMA LineNext ==
  TypeOK /\ OrderInv /\ [Next]_vars => LineBehind' /\ InsideBehind'
<1> SUFFICES ASSUME TypeOK, OrderInv, [Next]_vars PROVE LineBehind' /\ InsideBehind'
  OBVIOUS
<1>1. LineBehind /\ InsideBehind /\ QueueBehind
  BY DEF OrderInv
<1>2. ASSUME NEW w \in Workers, WorkerStep(w) PROVE LineBehind' /\ InsideBehind'
  <2>1. Others(w)
    BY <1>2, Solo DEF Others
  <2>2. CASE Dequeue(w)
    <3>1. PICK it \in queue :
            /\ cur' = [cur EXCEPT ![w] = it]
            /\ IF ChatOf[it.job] = NoChat
                 THEN Goto(w, Entry(it.job)) /\ UNCHANGED ahead
                 ELSE /\ Goto(w, "lockwait")
                      /\ ahead' = [ahead EXCEPT ![w] = Waiters(ChatOf[it.job])]
      BY <2>2 DEF Dequeue
    <3>2. cur'[w] = it
      BY <3>1 DEF TypeOK
    <3>3. CASE ChatOf[it.job] = NoChat
      <4>1. ~InLine(w)' /\ ~HoldsChat(w)'
        BY <3>1, <3>2, <3>3 DEF Goto, Entry, InLine, HoldsChat, HasChat, JobOf, TypeOK
      <4>2. UNCHANGED ahead
        BY <3>1, <3>3
      <4>3. QED
        BY <1>1, <2>1, <4>1, <4>2, OrderWithout
    <3>4. CASE ChatOf[it.job] # NoChat
      <4>1. /\ ahead'[w] = Waiters(ChatOf[it.job]) /\ pc'[w] = "lockwait"
            /\ \A v \in Workers \ {w} : ahead'[v] = ahead[v]
        BY <3>1, <3>4 DEF Goto, TypeOK
      <4>2. pc[w] = "dequeue"
        BY <2>2 DEF Dequeue, Scheduled
      \* Whoever has a job took it before this one, which was in the queue.
      <4>3. ASSUME NEW u \in Workers \ {w}, HasJob(u) PROVE Behind(cur[w], u)'
        BY <1>1, <2>1, <3>2, <4>3 DEF QueueBehind, Behind, Others, JobOf
      <4>4. ASSUME NEW u \in Workers, NEW v \in Workers,
                   (u # v /\ InLine(u) /\ InLine(v) /\ SameChat(u, v) /\ v \notin ahead[u])'
            PROVE  Behind(cur[v], u)'
        <5>1. CASE u = w
          <6>1. v \in Waiters(ChatOf[it.job])
            BY <2>1, <3>2, <4>4, <5>1 DEF Waiters, InLine, SameChat, Others, JobOf
          <6>2. QED
            BY <4>1, <4>4, <5>1, <6>1
        <5>2. CASE u # w /\ v = w
          BY <2>1, <4>3, <4>4, <5>2 DEF InLine, HasJob, Others
        <5>3. CASE u # w /\ v # w
          BY <1>1, <2>1, <4>1, <4>4, <5>3
             DEF LineBehind, Others, InLine, SameChat, Behind, JobOf
        <5>4. QED
          BY <5>1, <5>2, <5>3
      <4>5. ASSUME NEW v \in Workers, NEW u \in Workers,
                   (HoldsChat(u) /\ InLine(v) /\ SameChat(v, u))'
            PROVE  Behind(cur[v], u)'
        <5>1. u # w
          BY <4>1, <4>5 DEF HoldsChat
        <5>2. HoldsChat(u) /\ HasJob(u)
          BY <2>1, <4>5, <5>1 DEF HoldsChat, HasChat, HasJob, Others, JobOf
        <5>3. CASE v = w
          BY <4>3, <5>1, <5>2, <5>3
        <5>4. CASE v # w
          BY <1>1, <2>1, <4>5, <5>1, <5>2, <5>4
             DEF InsideBehind, Others, InLine, SameChat, Behind, JobOf
        <5>5. QED
          BY <5>3, <5>4
      <4>6. QED
        BY <4>4, <4>5 DEF LineBehind, InsideBehind
    <3>5. QED
      BY <3>3, <3>4
  <2>3. CASE LockGranted(w)
    <3>1. /\ pc[w] = "lockwait" /\ ahead[w] = {} /\ UNCHANGED cur /\ ~InLine(w)'
          /\ \A v \in Workers \ {w} : ahead'[v] = ahead[v] \ {w}
      BY <2>3 DEF LockGranted, Scheduled, LeaveLine, Goto, Entry, InLine, TypeOK
    <3>2. ASSUME NEW u \in Workers, NEW v \in Workers,
                 (u # v /\ InLine(u) /\ InLine(v) /\ SameChat(u, v) /\ v \notin ahead[u])'
          PROVE  Behind(cur[v], u)'
      <4>1. u # w /\ v # w
        BY <3>1, <3>2
      <4>2. QED
        BY <1>1, <2>1, <3>1, <3>2, <4>1
           DEF LineBehind, Others, InLine, SameChat, Behind, JobOf
    <3>3. ASSUME NEW v \in Workers, NEW u \in Workers,
                 (HoldsChat(u) /\ InLine(v) /\ SameChat(v, u))'
          PROVE  Behind(cur[v], u)'
      <4>1. v # w
        BY <3>1, <3>3
      \* The one let in had nobody ahead of it.
      <4>2. CASE u = w
        BY <1>1, <2>1, <3>1, <3>3, <4>1, <4>2
           DEF LineBehind, Others, InLine, SameChat, Behind, JobOf
      <4>3. CASE u # w
        BY <1>1, <2>1, <3>1, <3>3, <4>1, <4>3
           DEF InsideBehind, Others, InLine, HoldsChat, HasChat, SameChat, Behind, JobOf
      <4>4. QED
        BY <4>2, <4>3
    <3>4. QED
      BY <3>2, <3>3 DEF LineBehind, InsideBehind
  <2>4. CASE PermitGranted(w)
    <3>1. /\ UNCHANGED <<cur, ahead>> /\ pc[w] = "semwait" /\ pc'[w] = "running"
      BY <2>4 DEF PermitGranted, Scheduled, Goto, TypeOK
    <3>2. \A v \in Workers : /\ InLine(v)' <=> InLine(v)
                             /\ HoldsChat(v)' <=> HoldsChat(v)
      BY <2>1, <3>1 DEF InLine, HoldsChat, HasChat, Others, JobOf
    <3>3. QED
      BY <1>1, <3>1, <3>2 DEF LineBehind, InsideBehind, SameChat, Behind, JobOf
  <2>5. CASE LoopCheck(w) \/ DequeueTimeout(w) \/ DeadLetterAdded(w) \/ DeadLetterLost(w)
    <3>1. UNCHANGED ahead /\ ~InLine(w)' /\ ~HoldsChat(w)'
      BY <2>5 DEF LoopCheck, DequeueTimeout, DeadLetterAdded, DeadLetterLost, Finish, Goto,
         InLine, HoldsChat, TypeOK
    <3>2. QED
      BY <1>1, <2>1, <3>1, OrderWithout
  <2>6. CASE LockTimeout(w) \/ Cancelled(w)
    <3>1. /\ ~InLine(w)' /\ ~HoldsChat(w)'
          /\ \A v \in Workers \ {w} : ahead'[v] = ahead[v] \ {w}
      BY <2>6 DEF LockTimeout, Cancelled, LeaveLine, Fail, Finish, Goto, InLine, HoldsChat,
         TypeOK
    <3>2. QED
      BY <1>1, <2>1, <3>1, OrderWithout
  <2>7. CASE HandlerReturns(w) \/ HandlerRaises(w)
    <3>1. UNCHANGED ahead /\ ~InLine(w)' /\ ~HoldsChat(w)'
      BY <2>7 DEF HandlerReturns, HandlerRaises, Fail, Finish, Goto, InLine, HoldsChat,
         TypeOK
    <3>2. QED
      BY <1>1, <2>1, <3>1, OrderWithout
  <2>8. QED
    BY <1>2, <2>2, <2>3, <2>4, <2>5, <2>6, <2>7 DEF WorkerStep
<1>3. CASE UNCHANGED workerVars
  BY <1>1, <1>3 DEF workerVars, LineBehind, InsideBehind, InLine, HoldsChat, HasChat,
     SameChat, Behind, JobOf
<1>4. QED
  BY <1>2, <1>3, Bystanders DEF Next

LEMMA OrderFollows == OrderInv => ChatOrder
BY DEF OrderInv, QueueBehind, InsideBehind, Behind, InLine, SameChat, ChatOrder, HoldsChat,
       HasJob, JobOf

\* Jobs of one chat and priority start in the order they were created
\* (dispatcher.py, Job.__lt__; locks.py, the lock of a chat), through retries,
\* lock timeouts and cancellation, for any number of workers and chats.
THEOREM ChatsInOrder == Spec => []ChatOrder
<1>1. Init => OrderInv
  BY DEF Init, DispatcherInit, OrderInv, Stamped, QueueBehind, LineBehind, InsideBehind,
         InLine, HoldsChat, HasJob
<1>2. TypeOK /\ NoSilentDrop /\ OrderInv /\ [Next]_vars => OrderInv'
  BY StampedNext, QueueBehindNext, LineNext DEF OrderInv
<1>3. QED
  BY <1>1, <1>2, OrderFollows, TypeCorrect, NothingDropped, PTL DEF Spec
=============================================================================
