--------------------------- MODULE ServicesProofs ---------------------------
(***************************************************************************)
(* Theorems about eight services: the scheduler with the control state,    *)
(* the dead letters, the skills on disk, the memory records, the cutting   *)
(* of long messages, the window of the transcript a model is shown, the    *)
(* sessions of the chat screen and the runner in a process of its own.     *)
(* They share no state; each section proves about one of them.             *)
(***************************************************************************)
EXTENDS Scheduler, DeadLetters, SkillLibrary, MemoryStore, ContextWindow, MessageSplit, ChatSessions,
  SubprocessRunner, Recursion, FiniteSetTheorems, TLAPS

-----------------------------------------------------------------------------
(* The scheduler.  Its steps are split once, for all that follows.         *)

\* What an operator or APScheduler does to one job.
OfJob(j) ==
  \/ PauseJob(j) \/ ResumeJob(j) \/ RemoveJob(j) \/ RunJobNow(j)
  \/ Fire(j) \/ Missed(j)

\* A command of an admin is one of the four.
LEMMA NextSplit ==
  ASSUME Next
  PROVE  \/ \E command \in Commands : Command(command)
         \/ \E j \in Jobs : OfJob(j)
         \/ Start \/ End
  BY DEF Next, OfJob, JobCommand

\* The jobs of the scheduler, its store, and its registry keep their types.
THEOREM SchedulerTyped == Spec => []TypeOK
<1>1. Init => TypeOK
  BY ControlStatesAssumption DEF Init, TypeOK, ControlInit, ControlTypeOK
<1>2. TypeOK /\ [Next]_vars => TypeOK'
  <2> SUFFICES ASSUME TypeOK, [Next]_vars PROVE TypeOK'
    OBVIOUS
  <2> USE DEF TypeOK, ControlTypeOK
  <2>1. ASSUME NEW command \in Commands, Command(command) PROVE TypeOK'
    <3>1. ControlTypeOK'
      BY <2>1 DEF Command, SetState, SaveState, CrashInSave
    <3> QED
      BY <2>1, <3>1 DEF Command
  <2>2. ASSUME NEW j \in Jobs, OfJob(j) PROVE TypeOK'
    <3>1. CASE PauseJob(j) \/ RemoveJob(j)
      BY <3>1 DEF PauseJob, RemoveJob, WithEnabled, controlVars
    <3>2. CASE ResumeJob(j) \/ RunJobNow(j)
      BY <3>2 DEF ResumeJob, RunJobNow, WithEnabled, controlVars
    <3>3. CASE Fire(j) \/ Missed(j)
      BY <3>3 DEF Fire, Missed, controlVars
    <3> QED
      BY <2>2, <3>1, <3>2, <3>3 DEF OfJob
  <2>3. CASE Start
    <3>1. LoadState \in States
      BY ControlStatesAssumption DEF LoadState
    <3> QED
      BY <2>3, <3>1 DEF Start, Boot, Restored
  <2>4. CASE End
    BY <2>4 DEF End, ProcessEnds
  <2>5. CASE UNCHANGED vars
    BY <2>5 DEF vars, controlVars, storeVars
  <2> QED
    BY <2>1, <2>2, <2>3, <2>4, <2>5, NextSplit
<1> QED
  BY <1>1, <1>2, PTL DEF Spec

-----------------------------------------------------------------------------
\* Every job the store may run is in the registry that /jobs lists, unless reading
\* the store failed at the start: the property is inductive beside the types.
THEOREM StoreListed == Spec => []StoreRegistered
<1>1. Init => StoreRegistered
  BY DEF Init, ControlInit, StoreRegistered
<1>2. TypeOK /\ StoreRegistered /\ [Next]_vars => StoreRegistered'
  <2> SUFFICES ASSUME TypeOK, StoreRegistered, [Next]_vars PROVE StoreRegistered'
    OBVIOUS
  <2> USE DEF TypeOK, StoreRegistered, Listed
  <2>1. ASSUME NEW command \in Commands, Command(command) PROVE StoreRegistered'
    BY <2>1 DEF Command, SetState, CrashInSave
  <2>2. ASSUME NEW j \in Jobs, OfJob(j) PROVE StoreRegistered'
    <3>1. CASE PauseJob(j) \/ RemoveJob(j)
      BY <3>1 DEF PauseJob, RemoveJob, WithEnabled, controlVars
    <3>2. CASE ResumeJob(j) \/ RunJobNow(j)
      BY <3>2 DEF ResumeJob, RunJobNow, WithEnabled, controlVars
    <3>3. CASE Fire(j) \/ Missed(j)
      BY <3>3 DEF Fire, Missed, controlVars
    <3> QED
      BY <2>2, <3>1, <3>2, <3>3 DEF OfJob
  <2>3. CASE Start
    BY <2>3 DEF Start, Restored
  <2>4. CASE End
    BY <2>4 DEF End, ProcessEnds
  <2>5. CASE UNCHANGED vars
    BY <2>5 DEF vars, controlVars, storeVars
  <2> QED
    BY <2>1, <2>2, <2>3, <2>4, <2>5, NextSplit
<1> QED
  BY <1>1, <1>2, SchedulerTyped, PTL DEF Spec

-----------------------------------------------------------------------------
\* What pause_job and remove_job leave in the store: no job that is held is due, and
\* none was submitted since.
HeldNotDue == \A j \in held : store[j] # "due" /\ j \notin fired

\* A job that was paused or deleted is not submitted again, across restarts and
\* whatever the control state, until it is resumed or triggered.
THEOREM PausedStays == Spec => []HeldNeverFires
<1>1. Init => HeldNotDue
  BY DEF Init, HeldNotDue
<1>2. TypeOK /\ HeldNotDue /\ [Next]_vars => HeldNotDue'
  <2> SUFFICES ASSUME TypeOK, HeldNotDue, [Next]_vars PROVE HeldNotDue'
    OBVIOUS
  <2> USE DEF TypeOK, HeldNotDue
  <2>1. ASSUME NEW command \in Commands, Command(command) PROVE HeldNotDue'
    BY <2>1 DEF Command
  <2>2. ASSUME NEW j \in Jobs, OfJob(j) PROVE HeldNotDue'
    <3>1. CASE PauseJob(j) \/ RemoveJob(j)
      BY <3>1 DEF PauseJob, RemoveJob
    <3>2. CASE ResumeJob(j) \/ RunJobNow(j)
      BY <3>2 DEF ResumeJob, RunJobNow
    <3>3. CASE Fire(j) \/ Missed(j)
      BY <3>3 DEF Fire, Missed
    <3> QED
      BY <2>2, <3>1, <3>2, <3>3 DEF OfJob
  <2>3. CASE Start \/ End
    BY <2>3 DEF Start, End
  <2>4. CASE UNCHANGED vars
    BY <2>4 DEF vars, storeVars
  <2> QED
    BY <2>1, <2>2, <2>3, <2>4, NextSplit
<1>3. HeldNotDue => HeldNeverFires
  BY DEF HeldNotDue, HeldNeverFires
<1> QED
  BY <1>1, <1>2, <1>3, SchedulerTyped, PTL DEF Spec

-----------------------------------------------------------------------------
\* What the file of the control state is worth to the next process, and why: while
\* a process runs, what it promised is its state, and it ended in a write at most
\* when none runs.
FileTells ==
  /\ up => promised = state /\ attempted = state
  /\ saved = "crashed" => ~up
  /\ saved = "yes" => LoadState = promised
  /\ saved = "crashed" => LoadState \in {promised, attempted, "normal"}

\* A paused system does not wake up by restarting, when every write went through;
\* one that ended inside a write starts in the old state, in the new one or in NORMAL.
THEOREM RestartKeeps == Spec => RestartKeepsState
<1>1. Init => FileTells
  BY ControlStatesAssumption DEF Init, ControlInit, FileTells, LoadState
<1>2. TypeOK /\ FileTells /\ [Next]_vars => FileTells'
  <2> SUFFICES ASSUME TypeOK, FileTells, [Next]_vars PROVE FileTells'
    OBVIOUS
  <2> USE DEF TypeOK, ControlTypeOK, FileTells, LoadState
  <2>1. ASSUME NEW command \in Commands, Command(command) PROVE FileTells'
    <3> DEFINE s == Target(command)
    <3> s \in States
      BY <2>1 DEF Command
    <3>1. CASE SetState(s)
      BY <3>1 DEF SetState, SaveState
    <3>2. CASE CrashInSave(s)
      BY <3>2, ControlStatesAssumption DEF CrashInSave
    <3> QED
      BY <2>1, <3>1, <3>2 DEF Command
  <2>2. ASSUME NEW j \in Jobs, OfJob(j) PROVE FileTells'
    <3>1. UNCHANGED controlVars
      BY <2>2 DEF OfJob, PauseJob, ResumeJob, RemoveJob, RunJobNow, Fire, Missed
    <3> QED
      BY <3>1 DEF controlVars
  <2>3. CASE Start
    BY <2>3 DEF Start, Boot
  <2>4. CASE End
    BY <2>4 DEF End, ProcessEnds
  <2>5. CASE UNCHANGED vars
    BY <2>5 DEF vars, controlVars
  <2> QED
    BY <2>1, <2>2, <2>3, <2>4, <2>5, NextSplit
<1>3. FileTells => [Boot => /\ saved = "yes" => state' = promised
                            /\ saved = "crashed" => state' \in {promised, attempted, "normal"}]_controlVars
  BY DEF FileTells, Boot
<1> QED
  BY <1>1, <1>2, <1>3, SchedulerTyped, PTL DEF Spec, RestartKeepsState

-----------------------------------------------------------------------------
(* The memory records.                                                     *)

\* What one failed commit may cost.
PerFault == 2 * MaxBatch - 1

\* The caller at work has part of a batch left, and a session that is broken now is a
\* fault of whose price the second call is still to pay.
LossToCome ==
  /\ batch = NoBatch \/ batch \in [caller : Callers, left : 0 .. MaxBatch]
  /\ faults \in Nat /\ lost \in Nat
  /\ lost + (IF session = "broken" THEN MaxBatch ELSE 0) <= faults * PerFault

LEMMA OneMoreFault ==
  ASSUME NEW f \in Nat
  PROVE  /\ PerFault \in Nat /\ PerFault >= MaxBatch /\ f * PerFault \in Nat
         /\ (f + 1) * PerFault = f * PerFault + PerFault
<1>1. PerFault \in Nat /\ PerFault >= MaxBatch
  BY MemoryAssumption DEF PerFault
<1>2. \A n \in Nat : f * n \in Nat /\ (f + 1) * n = f * n + n
  OBVIOUS
<1> QED
  BY <1>1, <1>2

\* A commit the database refuses costs what two calls had still to store at most:
\* the call that finds the session broken mends it, so that no third one does.
THEOREM FaultsCostTwo == MemorySpec => []FaultCostsTwoCalls
<1>1. MemoryInit => LossToCome
  BY OneMoreFault DEF MemoryInit, LossToCome
<1>2. LossToCome /\ [MemoryNext]_memoryVars => LossToCome'
  <2> SUFFICES ASSUME LossToCome, [MemoryNext]_memoryVars PROVE LossToCome'
    OBVIOUS
  <2>1. ASSUME NEW c \in Callers, Begin(c) PROVE LossToCome'
    <3>1. PICK n \in BatchSizes(c) : batch' = [caller |-> c, left |-> n]
      BY <2>1 DEF Begin
    <3>2. n \in 0 .. MaxBatch
      BY MemoryAssumption DEF BatchSizes
    <3> QED
      BY <2>1, <3>1, <3>2 DEF Begin, LossToCome
  <2>2. CASE BootJobStoresNothing \/ Finish \/ ToolAnswers
    BY <2>2 DEF BootJobStoresNothing, Finish, ToolAnswers, LossToCome
  <2>3. CASE CreateMemory
    <3>1. batch \in [caller : Callers, left : 0 .. MaxBatch] /\ batch.left \in 1 .. MaxBatch
      BY <2>3, MemoryAssumption DEF CreateMemory, LossToCome, NoBatch
    <3>2. CASE Stored
      <4>1. batch' = [batch EXCEPT !.left = batch.left - 1] /\ batch.left - 1 \in 0 .. MaxBatch
        BY <3>1, <3>2, MemoryAssumption DEF Stored
      <4>2. batch' \in [caller : Callers, left : 0 .. MaxBatch]
        BY <3>1, <4>1
      <4> QED
        BY <3>2, <4>2 DEF Stored, LossToCome
    <3>3. CASE InsertFails
      <4>1. /\ lost' = lost + batch.left /\ batch' = NoBatch /\ session' = "clean"
            /\ faults' = faults \/ (session # "broken" /\ faults' = faults + 1)
            /\ session = "broken" => faults' = faults
            /\ session # "broken" => faults' = faults + 1
        BY <3>3 DEF InsertFails, Raised, AfterFailure, Fault
      <4>2. faults * PerFault \in Nat /\ PerFault \in Nat /\ PerFault >= MaxBatch
            /\ (faults + 1) * PerFault = faults * PerFault + PerFault
        BY OneMoreFault DEF LossToCome
      <4> QED
        BY <3>1, <4>1, <4>2, MemoryAssumption DEF LossToCome
    <3>4. CASE AuditFails
      <4>1. /\ lost' = lost + (batch.left - 1) /\ batch' = NoBatch
            /\ session = "clean" /\ session' = "broken" /\ faults' = faults + 1
        BY <3>4 DEF AuditFails, Raised, Fault
      <4>2. faults * PerFault \in Nat /\ (faults + 1) * PerFault = faults * PerFault + PerFault
        BY OneMoreFault DEF LossToCome
      <4>3. batch.left - 1 + MaxBatch <= PerFault
        BY <3>1, MemoryAssumption DEF PerFault
      <4>4. lost <= faults * PerFault /\ lost \in Nat /\ faults \in Nat /\ PerFault \in Nat
        BY <4>1, OneMoreFault DEF LossToCome
      <4>5. lost' \in Nat /\ lost' + MaxBatch <= (faults + 1) * PerFault
        BY <3>1, <4>1, <4>2, <4>3, <4>4, MemoryAssumption
      <4> QED
        BY <4>1, <4>4, <4>5 DEF LossToCome
    <3> QED
      BY <2>3, <3>2, <3>3, <3>4 DEF CreateMemory
  <2>4. ASSUME NEW i \in 1 .. MaxMemories, NEW admin \in BOOLEAN, ForgetRecord(i, admin)
        PROVE  LossToCome'
    <3>1. /\ UNCHANGED <<batch, lost>>
          /\ \/ UNCHANGED <<session, faults>>
             \/ session = "clean" /\ session' = "broken" /\ faults' = faults + 1
      BY <2>4 DEF ForgetRecord, DeleteMemory, Fault
    <3>2. faults * PerFault \in Nat /\ PerFault \in Nat /\ PerFault >= MaxBatch
          /\ (faults + 1) * PerFault = faults * PerFault + PerFault
      BY OneMoreFault DEF LossToCome
    <3> QED
      BY <3>1, <3>2, MemoryAssumption DEF LossToCome
  <2>5. CASE UNCHANGED memoryVars
    BY <2>5 DEF memoryVars, LossToCome
  <2> QED
    BY <2>1, <2>2, <2>3, <2>4, <2>5 DEF MemoryNext
<1>3. LossToCome => FaultCostsTwoCalls
  <2> SUFFICES ASSUME LossToCome PROVE lost <= faults * PerFault
    BY DEF FaultCostsTwoCalls, PerFault
  <2> QED
    <3>1. faults \in Nat /\ lost \in Nat /\ MaxBatch \in Nat /\ faults * PerFault \in Nat
      BY OneMoreFault, MemoryAssumption DEF LossToCome
    <3> QED
      BY <3>1 DEF LossToCome
<1> QED
  BY <1>1, <1>2, <1>3, PTL DEF MemorySpec

-----------------------------------------------------------------------------
(* The dead letters.                                                       *)

\* A finite set in some order: every element is in it.
LEMMA SetInOrder ==
  ASSUME NEW S, IsFiniteSet(S)
  PROVE  SetToSeq(S) \in Seq(S) /\ Range(SetToSeq(S)) = S
<1> DEFINE n == Cardinality(S)
           s == SetToSeq(S)
<1>1. n \in Nat /\ Bijection(1 .. n, S) # {}
  BY FS_CardinalityType DEF ExistsBijection
<1>2. \E f \in [1 .. n -> S] : IsInjective(f)
  BY <1>1 DEF Bijection, Injection
<1>3. s \in [1 .. n -> S] /\ IsInjective(s)
  BY <1>2 DEF SetToSeq
<1>4. s \in Injection(1 .. n, S)
  BY <1>3 DEF Injection
<1>5. IsFiniteSet(1 .. n) /\ Cardinality(1 .. n) = n
  BY <1>1, FS_Interval
<1>6. s \in Surjection(1 .. n, S)
  BY <1>4, <1>5, FS_Injection
<1>7. \A x \in S : \E i \in 1 .. n : s[i] = x
  BY <1>6 DEF Surjection
<1> QED
  BY <1>1, <1>3, <1>7 DEF Range

\* The queue, the history and the replays keep their types; a replay that has begun
\* has a job in hand.
LettersShape ==
  /\ waiting \in Seq(Letters)
  /\ replay \in [Replayers -> [job : Letters \cup {NoLetter}, at : {"idle", "read", "queued"}]]
  /\ \A o \in Replayers : replay[o].at # "idle" => replay[o].job \in Letters
  /\ letterState \in [Letters -> {"live", "done", "deleted"}]

\* A job that a replay has queued, and whose row it has yet to delete, still waits,
\* unless a worker was through with it meanwhile.
QueuedWaits ==
  \A o \in Replayers : replay[o].at = "queued" =>
    LET j == replay[o].job IN
    letterState[j] = "live" /\ j \notin refused \cup raced => j \in Range(waiting)

\* There are two ways only to lose a job by replaying it: a dispatcher that was shut
\* down when it was queued again, and a failure that came before the replay deleted
\* the row of the last one - for any number of operators and rows.
THEOREM ReplayKeeps == LettersSpec => []ReplayKeepsJob
<1> DEFINE Inv == LettersShape /\ QueuedWaits /\ ReplayKeepsJob
           Kept(j) == letterState[j] = "live" /\ j \notin refused \cup raced
<1> USE DEF LettersShape, Somewhere
<1>1. LettersInit => Inv
  BY SetInOrder, LettersAssumption DEF LettersInit, QueuedWaits, ReplayKeepsJob
<1>2. Inv /\ [LettersNext]_letterVars => Inv'
  <2> SUFFICES ASSUME Inv, [LettersNext]_letterVars PROVE Inv'
    OBVIOUS
  \* A worker takes the first of the queue: the others are still in it.
  <2>1. ASSUME waiting # <<>>, waiting' = Tail(waiting)
        PROVE  /\ waiting' \in Seq(Letters) /\ Head(waiting) \in Letters
               /\ \A j \in Range(waiting) : j = Head(waiting) \/ j \in Range(waiting')
    <3>1. waiting' \in Seq(Letters) /\ Head(waiting) \in Letters
      BY <2>1
    <3>2. ASSUME NEW i \in DOMAIN waiting, i # 1
          PROVE  i - 1 \in DOMAIN waiting' /\ waiting'[i - 1] = waiting[i]
      BY <2>1, <3>2
    <3>3. ASSUME NEW j \in Range(waiting), j # Head(waiting) PROVE j \in Range(waiting')
      <4>1. PICK i \in DOMAIN waiting : waiting[i] = j
        BY DEF Range
      <4>2. i # 1
        BY <3>3, <4>1, <2>1
      <4> QED
        BY <3>2, <4>1, <4>2 DEF Range
    <3> QED
      BY <3>1, <3>3
  <2>2. CASE JobDone
    <3>1. /\ waiting' \in Seq(Letters) /\ Head(waiting) \in Letters
          /\ \A j \in Range(waiting) : j = Head(waiting) \/ j \in Range(waiting')
      BY <2>1, <2>2 DEF JobDone
    <3>2. \A j \in Letters : Kept(j)' => Kept(j) /\ j # Head(waiting)
      BY <2>2, <3>1 DEF JobDone
    <3>3. UNCHANGED <<rows, replay>> /\ LettersShape'
      BY <2>2, <3>1 DEF JobDone
    <3>4. QueuedWaits'
      BY <3>1, <3>2, <3>3 DEF QueuedWaits
    <3>5. ReplayKeepsJob'
      BY <3>1, <3>2, <3>3 DEF ReplayKeepsJob, RowsOf
    <3> QED
      BY <3>3, <3>4, <3>5
  <2>3. CASE Add
    <3> DEFINE h == Head(waiting)
    <3>1. /\ rows' = rows \cup {[id |-> nextRow, job |-> h]}
          /\ letterState' = [letterState EXCEPT ![h] = "live"]
          /\ raced' = (IF Deleting(h) = {} THEN raced ELSE raced \cup {h})
          /\ UNCHANGED <<refused, replay>>
      BY <2>3 DEF Add
    <3>2. \A j \in Letters : RowsOf(j) # {} => RowsOf(j)' # {}
      BY <3>1 DEF RowsOf
    <3>3. \A j : j = h => RowsOf(j)' # {}
      <4>1. PICK new : new = [id |-> nextRow, job |-> h]
        OBVIOUS
      <4>2. new.job = h /\ new \in rows'
        BY <3>1, <4>1
      <4> QED
        BY <4>2 DEF RowsOf
    <3>4. /\ waiting' \in Seq(Letters) /\ h \in Letters
          /\ \A j \in Range(waiting) : j = h \/ j \in Range(waiting')
      BY <2>1, <2>3 DEF Add
    <3>5. \A j \in Letters : j # h /\ Kept(j)' => Kept(j)
      BY <3>1
    <3>6. ReplayKeepsJob'
      BY <3>2, <3>3, <3>4, <3>5 DEF ReplayKeepsJob
    <3>7. ASSUME NEW o \in Replayers, replay[o].at = "queued", Kept(replay[o].job)'
          PROVE  replay[o].job \in Range(waiting')
      <4>1. replay[o].job \in Letters
        BY <3>7
      <4>2. replay[o].job # h
        <5>1. SUFFICES ASSUME replay[o].job = h PROVE FALSE
          OBVIOUS
        <5>2. replay[o] = [job |-> h, at |-> "queued"]
          BY <3>7, <5>1
        <5>3. o \in Deleting(h)
          BY <5>2 DEF Deleting
        <5> QED
          BY <3>1, <3>7, <5>1, <5>3
      <4> QED
        BY <3>1, <3>4, <3>5, <3>7, <4>1, <4>2 DEF QueuedWaits
    <3>8. QueuedWaits'
      BY <3>1, <3>7 DEF QueuedWaits
    <3>9. LettersShape'
      BY <3>1, <3>4
    <3> QED
      BY <3>6, <3>8, <3>9
  <2>4. CASE KeyExpires \/ ShutDown
    BY <2>4 DEF KeyExpires, ShutDown, RowsOf, fateVars, QueuedWaits, ReplayKeepsJob
  <2>5. ASSUME NEW o \in Replayers, (\E j \in Letters : GetLetter(o, j)) \/ Requeue(o) \/ Deleted(o)
        PROVE  Inv'
    <3>1. CASE \E j \in Letters : GetLetter(o, j)
      <4>1. PICK j \in Letters : GetLetter(o, j)
        BY <3>1
      <4>2. /\ UNCHANGED <<rows, waiting, letterState, refused, raced>>
            /\ replay' = [replay EXCEPT ![o] = [job |-> j, at |-> "read"]]
        BY <4>1 DEF GetLetter, queueSide, fateVars
      <4> QED
        BY <4>2 DEF RowsOf, QueuedWaits, ReplayKeepsJob
    <3>2. CASE Requeue(o)
      <4> DEFINE j == replay[o].job
      <4>1. j \in Letters /\ UNCHANGED <<rows, letterState, raced>> /\ refused \subseteq refused'
        BY <3>2 DEF Requeue
      <4>2. \/ replay' = [replay EXCEPT ![o].at = "queued"]
            \/ replay' = [replay EXCEPT ![o] = [job |-> NoLetter, at |-> "idle"]]
        BY <3>2 DEF Requeue, ReplayOver
      <4>3. waiting' = waiting \/ waiting' = Append(waiting, j)
        BY <3>2 DEF Requeue
      <4>4. Range(waiting) \subseteq Range(waiting')
        BY <4>1, <4>3, SMTT(30) DEF Range
      <4>5. replay'[o].at = "queued" => j \in refused' \/ j \in Range(waiting')
        <5>1. ASSUME waiting' = Append(waiting, j) PROVE j \in Range(waiting')
          <6>1. Len(waiting) + 1 \in DOMAIN waiting' /\ waiting'[Len(waiting) + 1] = j
            BY <4>1, <5>1
          <6> QED
            BY <6>1 DEF Range
        <5>2. \/ j \in refused'
              \/ replay' = [replay EXCEPT ![o] = [job |-> NoLetter, at |-> "idle"]]
              \/ waiting' = Append(waiting, j)
          BY <3>2 DEF Requeue, ReplayOver
        <5> QED
          BY <5>1, <5>2
      <4>6. LettersShape'
        <5>1. /\ replay' \in [Replayers -> [job : Letters \cup {NoLetter}, at : {"idle", "read", "queued"}]]
              /\ \A p \in Replayers : replay'[p].at # "idle" => replay'[p].job \in Letters
          BY <4>1, <4>2, SMTT(30)
        <5>2. waiting' \in Seq(Letters)
          BY <4>1, <4>3
        <5> QED
          BY <4>1, <5>1, <5>2
      <4>7. QueuedWaits'
        <5>1. SUFFICES ASSUME NEW p \in Replayers, replay'[p].at = "queued", Kept(replay[p].job)'
                       PROVE  replay[p].job \in Range(waiting')
          BY <4>2 DEF QueuedWaits
        <5>2. CASE p = o
          BY <4>2, <4>5, <5>1, <5>2
        <5>3. CASE p # o
          BY <4>1, <4>2, <4>4, <5>1, <5>3 DEF QueuedWaits
        <5> QED
          BY <5>2, <5>3
      <4>8. ReplayKeepsJob'
        BY <4>1, <4>4 DEF ReplayKeepsJob, RowsOf
      <4> QED
        BY <4>6, <4>7, <4>8
    <3>3. CASE Deleted(o)
      <4> DEFINE j == replay[o].job
      <4>1. /\ j \in Letters /\ replay[o].at = "queued"
            /\ UNCHANGED <<waiting, letterState, refused, raced>>
            /\ rows' \in {rows, rows \ RowsOf(j)}
            /\ replay' = [replay EXCEPT ![o] = [job |-> NoLetter, at |-> "idle"]]
        BY <3>3 DEF Deleted, ReplayOver, queueSide, fateVars
      <4>2. LettersShape' /\ QueuedWaits'
        BY <4>1 DEF QueuedWaits
      <4>3. ASSUME NEW l \in Letters, Kept(l) PROVE l \in Range(waiting) \/ RowsOf(l)' # {}
        <5>1. CASE l = j
          BY <4>1, <4>3, <5>1 DEF QueuedWaits
        <5>2. CASE l # j
          BY <4>1, <4>3, <5>2 DEF RowsOf, ReplayKeepsJob
        <5> QED
          BY <5>1, <5>2
      <4>4. ReplayKeepsJob'
        BY <4>1, <4>3 DEF ReplayKeepsJob
      <4> QED
        BY <4>2, <4>4
    <3> QED
      BY <2>5, <3>1, <3>2, <3>3
  <2>6. ASSUME NEW gone, Forget(gone) PROVE Inv'
    <3>1. /\ UNCHANGED <<waiting, replay, refused, raced>> /\ rows' = rows \ gone
          /\ letterState' = [j \in Letters |-> IF \E row \in gone : row.job = j
                                               THEN "deleted" ELSE letterState[j]]
      BY <2>6 DEF Forget, queueSide
    <3>2. \A j \in Letters : Kept(j)' => Kept(j) /\ RowsOf(j)' = RowsOf(j)
      BY <3>1 DEF RowsOf
    <3> QED
      BY <3>1, <3>2 DEF QueuedWaits, ReplayKeepsJob
  <2>7. CASE UNCHANGED letterVars
    BY <2>7 DEF letterVars, queueSide, fateVars, RowsOf, QueuedWaits, ReplayKeepsJob
  <2> QED
    BY <2>2, <2>3, <2>4, <2>5, <2>6, <2>7 DEF LettersNext, Delete, DeleteById, Clear
<1> QED
  BY <1>1, <1>2, PTL DEF LettersSpec

-----------------------------------------------------------------------------
(* The skills on disk.                                                     *)

\* The names a set of definitions defines.
Named(s) == {d.name : d \in s}

\* What a loader holds: definitions, none before it loaded, and as long as nobody
\* changed the directory those of every name that is there.
Holds(loader) ==
  /\ loader \in [loaded : BOOLEAN, skills : SUBSET Definitions]
  /\ edits = 0 /\ loader.loaded => Named(loader.skills) = Named(Found)

\* The files hold definitions or what is none.
DiskShape == \A place \in DOMAIN disk : disk[place] \in Definitions \cup {Broken}

LibraryShape ==
  /\ DiskShape /\ edits \in Nat
  /\ DOMAIN loaders = Loaders
  /\ \A l \in Loaders : Holds(loaders[l])

\* Loading, or the lookup that loads, gives a loader that has loaded and holds what it
\* should.
LEMMA LoadedHolds ==
  ASSUME DiskShape, NEW loader, Holds(loader),
         NEW new \in LoadAll(loader) \cup Ensured(loader)
  PROVE  Holds(new) /\ new.loaded
<1>1. Found \subseteq Definitions
  BY DEF Found, LoadSkill, DiskShape
<1>2. CASE new = loader /\ loader.loaded
  BY <1>2
<1>3. CASE \E s \in Readings : new = [loaded |-> TRUE, skills |-> s]
  <2>1. PICK s \in Readings : new = [loaded |-> TRUE, skills |-> s]
    BY <1>3
  <2>2. s \subseteq Definitions /\ Named(s) = Named(Found)
    BY <1>1 DEF Readings, Named
  <2> QED
    BY <2>1, <2>2 DEF Holds
<1> QED
  BY <1>2, <1>3 DEF LoadAll, Ensured, Holds

\* A definition that a loader holds is found by its name.
LEMMA HeldIsFound ==
  ASSUME NEW loader, Holds(loader), NEW name, name \in Named(loader.skills)
  PROVE  GetSkill(loader, name) # NoDefinition
<1>1. \E d \in loader.skills : d.name = name
  BY DEF Named
<1>2. PICK d \in loader.skills : d = GetSkill(loader, name)
  BY <1>1 DEF GetSkill
<1> QED
  BY <1>2, LibraryAssumption DEF Holds

\* Conversely only what it holds is found.
LEMMA FoundIsHeld ==
  ASSUME NEW loader, NEW name, GetSkill(loader, name) # NoDefinition
  PROVE  name \in Named(loader.skills)
  BY DEF GetSkill, Named

\* A keyword leads to a definition of the loader that was asked, and that loader, which
\* has loaded by then, is not read again before the skill is executed.
LEMMA KeywordFound ==
  ASSUME DiskShape, NEW word, NEW asked, Holds(asked), asked.loaded,
         NEW d \in SkillsByKeyword(asked, word), NEW loader \in Ensured(asked)
  PROVE  Holds(loader) /\ GetSkill(loader, d.name) # NoDefinition
<1>1. loader = asked /\ d \in loader.skills
  BY DEF Ensured, SkillsByKeyword
<1>2. d.name \in Named(loader.skills)
  BY <1>1 DEF Named
<1> QED
  BY <1>1, <1>2, HeldIsFound

\* A skill that was found is there when it is executed: a message routed by a keyword
\* always runs it, and so does /skills as long as nobody changed the directory between
\* the loading of the two loaders.
THEOREM FoundRuns == LibrarySpec => []FoundIsExecuted
<1>1. LibraryInit => LibraryShape /\ FoundIsExecuted
  <2> SUFFICES ASSUME LibraryInit PROVE LibraryShape /\ FoundIsExecuted
    OBVIOUS
  <2>1. PICK there \in SUBSET Places : disk \in [there -> Definitions \cup {Broken}]
    BY DEF LibraryInit, Directories
  <2> QED
    BY <2>1 DEF LibraryInit, LibraryShape, DiskShape, Holds, FoundIsExecuted, Loaders
<1>2. LibraryShape /\ FoundIsExecuted /\ [LibraryNext]_libraryVars
        => LibraryShape' /\ FoundIsExecuted'
  <2> SUFFICES ASSUME LibraryShape, FoundIsExecuted, [LibraryNext]_libraryVars
               PROVE  LibraryShape' /\ FoundIsExecuted'
    OBVIOUS
  <2>a. DiskShape /\ edits \in Nat /\ Holds(loaders["commands"]) /\ Holds(loaders["engine"])
    BY DEF LibraryShape, Loaders
  \* A step that leaves the files alone keeps what the loaders hold.
  <2>b. ASSUME UNCHANGED <<disk, edits>>, NEW commands, NEW engine,
               Holds(commands), Holds(engine),
               \/ loaders' = [commands |-> commands, engine |-> engine]
               \/ loaders' = [loaders EXCEPT !["commands"] = commands] /\ engine = loaders["engine"]
               \/ loaders' = [loaders EXCEPT !["engine"] = engine] /\ commands = loaders["commands"]
        PROVE  LibraryShape'
    <3>1. DOMAIN loaders' = Loaders /\ loaders'["commands"] = commands /\ loaders'["engine"] = engine
      BY <2>b DEF LibraryShape, Loaders
    <3>2. Found' = Found
      BY <2>b DEF Found, LoadSkill
    <3>3. \A l \in Loaders : Holds(loaders[l])'
      BY <2>b, <3>1, <3>2 DEF Holds, Loaders
    <3> QED
      BY <2>a, <2>b, <3>1, <3>3 DEF LibraryShape, DiskShape
  <2>1. CASE Startup
    <3>1. PICK new \in LoadAll(loaders["commands"]) :
            loaders' = [loaders EXCEPT !["commands"] = new]
      BY <2>1 DEF Startup
    <3>2. Holds(new)
      BY <2>a, LoadedHolds
    <3> QED
      BY <2>1, <2>a, <2>b, <3>1, <3>2 DEF Startup, FoundIsExecuted
  <2>2. CASE EditFiles
    <3>1. edits' > 0 /\ edits' \in Nat /\ UNCHANGED <<loaders, used>>
      BY <2>2, <2>a DEF EditFiles
    <3>2. PICK there \in SUBSET Places : disk' \in [there -> Definitions \cup {Broken}]
      BY <2>2 DEF EditFiles, Directories
    <3>3. DiskShape'
      BY <3>2 DEF DiskShape
    <3> QED
      BY <3>1, <3>3 DEF LibraryShape, Holds, FoundIsExecuted
  <2>3. CASE ListSkills
    <3>1. PICK new \in Ensured(loaders["commands"]) :
            loaders' = [loaders EXCEPT !["commands"] = new]
      BY <2>3 DEF ListSkills
    <3>2. Holds(new)
      BY <2>a, LoadedHolds
    <3>3. used'.end = "listed"
      BY <2>3 DEF ListSkills, Uses
    <3> QED
      BY <2>3, <2>a, <2>b, <3>1, <3>2, <3>3 DEF ListSkills, FoundIsExecuted
  <2>4. ASSUME NEW word \in Written, DirectInvocation(word)
        PROVE  LibraryShape' /\ FoundIsExecuted'
    <3>1. PICK new \in Ensured(loaders["engine"]) :
            loaders' = [loaders EXCEPT !["engine"] = new]
      BY <2>4 DEF DirectInvocation
    <3>2. Holds(new)
      BY <2>a, LoadedHolds
    <3>3. used'.by = "direct"
      BY <2>4 DEF DirectInvocation, Executes, Uses
    <3> QED
      BY <2>4, <2>a, <2>b, <3>1, <3>2, <3>3 DEF DirectInvocation, FoundIsExecuted
  <2>5. ASSUME NEW word \in Written, Message(word)
        PROVE  LibraryShape' /\ FoundIsExecuted'
    <3>1. PICK asked \in LoadAll(loaders["engine"]) :
            \/ /\ loaders' = [loaders EXCEPT !["engine"] = asked]
               /\ Uses("keyword", "agent")
            \/ \E d \in SkillsByKeyword(asked, word), new \in Ensured(asked) :
                 /\ loaders' = [loaders EXCEPT !["engine"] = new]
                 /\ Executes("keyword", new, d.name)
      BY <2>5 DEF Message
    <3>2. Holds(asked) /\ asked.loaded
      BY <2>a, LoadedHolds
    <3>3. PICK new : /\ loaders' = [loaders EXCEPT !["engine"] = new] /\ Holds(new)
                     /\ used'.end # "not_found"
      BY <3>1, <3>2, <2>a, KeywordFound DEF Uses, Executes
    <3> QED
      BY <2>5, <2>a, <2>b, <3>3 DEF Message, FoundIsExecuted
  <2>6. ASSUME NEW word \in Written, SkillsCommand(word)
        PROVE  LibraryShape' /\ FoundIsExecuted'
    <3>1. PICK named \in Ensured(loaders["commands"]) :
            \/ /\ GetSkill(named, Lower[word]) # NoDefinition
               /\ \E new \in Ensured(loaders["engine"]) :
                    /\ loaders' = [commands |-> named, engine |-> new]
                    /\ Executes("command", new, Lower[word])
            \/ \E asked \in LoadAll(loaders["engine"]) :
                 \/ SuggestSkills(named, asked)
                 \/ \E d \in SkillsByKeyword(asked, word), new \in Ensured(asked) :
                      /\ loaders' = [commands |-> named, engine |-> new]
                      /\ Executes("command", new, d.name)
      BY <2>6 DEF SkillsCommand
    <3>2. Holds(named) /\ named.loaded
      BY <2>a, LoadedHolds
    <3>3. PICK new : /\ loaders' = [commands |-> named, engine |-> new] /\ Holds(new)
                     /\ used'.by = "command" /\ (edits = 0 => used'.end # "not_found")
      <4>1. CASE /\ GetSkill(named, Lower[word]) # NoDefinition
                 /\ \E new \in Ensured(loaders["engine"]) :
                      /\ loaders' = [commands |-> named, engine |-> new]
                      /\ Executes("command", new, Lower[word])
        <5>1. PICK new \in Ensured(loaders["engine"]) :
                /\ loaders' = [commands |-> named, engine |-> new]
                /\ Executes("command", new, Lower[word])
          BY <4>1
        <5>2. Holds(new) /\ new.loaded
          BY <2>a, LoadedHolds
        <5>3. Lower[word] \in Named(named.skills)
          BY <4>1, FoundIsHeld
        <5>4. edits = 0 => Lower[word] \in Named(new.skills)
          BY <3>2, <5>2, <5>3 DEF Holds
        <5>5. edits = 0 => GetSkill(new, Lower[word]) # NoDefinition
          BY <5>2, <5>4, HeldIsFound
        <5> QED
          BY <5>1, <5>2, <5>5 DEF Executes, Uses
      <4>2. ASSUME NEW asked \in LoadAll(loaders["engine"]),
                   \/ SuggestSkills(named, asked)
                   \/ \E d \in SkillsByKeyword(asked, word), new \in Ensured(asked) :
                        /\ loaders' = [commands |-> named, engine |-> new]
                        /\ Executes("command", new, d.name)
            PROVE \E new : /\ loaders' = [commands |-> named, engine |-> new] /\ Holds(new)
                           /\ used'.by = "command" /\ (edits = 0 => used'.end # "not_found")
        <5>1. Holds(asked) /\ asked.loaded
          BY <2>a, LoadedHolds
        <5>2. CASE SuggestSkills(named, asked)
          <6>1. PICK new \in LoadAll(asked) : loaders' = [commands |-> named, engine |-> new]
            BY <5>2 DEF SuggestSkills
          <6>2. Holds(new)
            BY <2>a, <5>1, LoadedHolds
          <6> QED
            BY <5>2, <6>1, <6>2 DEF SuggestSkills, Uses
        <5>3. CASE \E d \in SkillsByKeyword(asked, word), new \in Ensured(asked) :
                        /\ loaders' = [commands |-> named, engine |-> new]
                        /\ Executes("command", new, d.name)
          BY <5>1, <5>3, <2>a, KeywordFound DEF Executes, Uses
        <5> QED
          BY <4>2, <5>2, <5>3
      <4> QED
        BY <3>1, <4>1, <4>2
    <3>4. UNCHANGED <<disk, edits>>
      BY <2>6 DEF SkillsCommand
    <3>5. LibraryShape'
      BY <2>b, <3>2, <3>3, <3>4
    <3>6. edits # 0 => edits > 0
      BY <2>a
    <3> QED
      BY <3>3, <3>4, <3>5, <3>6 DEF FoundIsExecuted
  <2>7. CASE UNCHANGED libraryVars
    <3>1. UNCHANGED <<disk, edits, loaders, used>> /\ Found' = Found
      BY <2>7 DEF libraryVars, Found, LoadSkill
    <3>2. \A l \in Loaders : Holds(loaders[l])'
      BY <3>1 DEF LibraryShape, Holds
    <3> QED
      BY <3>1, <3>2 DEF LibraryShape, DiskShape, FoundIsExecuted
  <2> QED
    BY <2>1, <2>2, <2>3, <2>4, <2>5, <2>6, <2>7 DEF LibraryNext
<1> QED
  BY <1>1, <1>2, PTL DEF LibrarySpec

-----------------------------------------------------------------------------
(* The cutting of a long text.  What makes the chunks whole is that what   *)
(* remains is always the rest of the text and, after the first chunk,      *)
(* begins with a letter.                                                   *)

LEMMA LeastIsMin ==
  ASSUME NEW S \in SUBSET Nat, NEW k \in S
  PROVE  /\ (\A m \in S : k <= m) => Min(S) = k
         /\ (\A m \in S : k >= m) => Max(S) = k
<1>1. ASSUME \A m \in S : k <= m PROVE Min(S) = k
  <2>1. Min(S) \in S /\ \A y \in S : Min(S) <= y
    BY <1>1, Zenon DEF Min
  <2>2. Min(S) <= k /\ k <= Min(S)
    BY <1>1, <2>1
  <2>3. Min(S) \in Nat /\ k \in Nat
    BY <2>1
  <2> QED
    BY <2>2, <2>3
<1>2. ASSUME \A m \in S : k >= m PROVE Max(S) = k
  <2>1. Max(S) \in S /\ \A y \in S : Max(S) >= y
    BY <1>2, Zenon DEF Max
  <2>2. Max(S) >= k /\ k >= Max(S)
    BY <1>2, <2>1
  <2>3. Max(S) \in Nat /\ k \in Nat
    BY <2>1
  <2> QED
    BY <2>2, <2>3
<1> QED
  BY <1>1, <1>2

LEMMA StripLeft ==
  ASSUME NEW s \in Seq(Characters)
  PROVE  \E k \in 0 .. Len(s) :
           /\ LStrip(s) = SubSeq(s, k + 1, Len(s))
           /\ \A i \in 1 .. k : Blank(s[i])
           /\ k < Len(s) => ~Blank(s[k + 1])
<1>1. Len(s) \in Nat /\ Visible(s) \subseteq 1 .. Len(s)
  BY DEF Visible
<1>2. CASE Visible(s) = {}
  <2>1. LStrip(s) = SubSeq(s, Len(s) + 1, Len(s))
    BY <1>1, <1>2 DEF LStrip
  <2>2. \A i \in 1 .. Len(s) : Blank(s[i])
    BY <1>1, <1>2 DEF Visible
  <2> QED
    BY <1>1, <2>1, <2>2
<1>3. CASE Visible(s) # {}
  <2>1. Visible(s) \in SUBSET Nat
    BY <1>1
  <2>2. PICK k \in Visible(s) : \A m \in Visible(s) : k <= m
    BY <1>3, <2>1, LeastElement
  <2>3. Min(Visible(s)) = k
    BY <2>1, <2>2 DEF Min
  <2>4. LStrip(s) = SubSeq(s, (k - 1) + 1, Len(s)) /\ k - 1 \in 0 .. Len(s) /\ k - 1 < Len(s)
    BY <1>1, <1>3, <2>2, <2>3, SMTT(30) DEF LStrip
  <2>5. \A i \in 1 .. k - 1 : Blank(s[i])
    BY <1>1, <2>2 DEF Visible
  <2>6. ~Blank(s[(k - 1) + 1])
    BY <1>1, <2>2 DEF Visible
  <2> QED
    BY <2>4, <2>5, <2>6
<1> QED
  BY <1>2, <1>3

LEMMA StripRight ==
  ASSUME NEW s \in Seq(Characters)
  PROVE  \E k \in 0 .. Len(s) :
           /\ RStrip(s) = SubSeq(s, 1, k)
           /\ \A i \in k + 1 .. Len(s) : Blank(s[i])
           /\ k > 0 => ~Blank(s[k])
<1>1. Len(s) \in Nat /\ Visible(s) \subseteq 1 .. Len(s)
  BY DEF Visible
<1>2. CASE Visible(s) = {}
  <2>1. RStrip(s) = SubSeq(s, 1, 0)
    BY <1>1, <1>2 DEF RStrip
  <2>2. \A i \in 1 .. Len(s) : Blank(s[i])
    BY <1>1, <1>2 DEF Visible
  <2> QED
    BY <1>1, <2>1, <2>2
<1>3. CASE Visible(s) # {}
  <2>1. Visible(s) \in SUBSET (0 .. Len(s))
    BY <1>1
  <2>2. PICK k \in Visible(s) : \A m \in Visible(s) : k >= m
    BY <1>1, <1>3, <2>1, GreatestElement
  <2>3. Max(Visible(s)) = k
    BY <2>1, <2>2 DEF Max
  <2>4. RStrip(s) = SubSeq(s, 1, k)
    BY <1>3, <2>3 DEF RStrip
  <2>5. k \in 0 .. Len(s) /\ ~Blank(s[k])
    BY <1>1, <2>2 DEF Visible
  <2>6. \A i \in k + 1 .. Len(s) : Blank(s[i])
    BY <1>1, <2>2 DEF Visible
  <2> QED
    BY <2>4, <2>6, <2>5
<1> QED
  BY <1>2, <1>3

LEMMA FoundWithinLimit ==
  ASSUME NEW s, NEW sub, Len(sub) \in {1, 2}
  PROVE  \/ RFind(s, sub) = -1
         \/ RFind(s, sub) \in Int /\ RFind(s, sub) + Len(sub) <= Limit
<1> DEFINE found == {i \in 0 .. Limit - Len(sub) : SubSeq(s, i + 1, i + Len(sub)) = sub}
<1>1. CASE found = {}
  BY <1>1 DEF RFind
<1>2. CASE found # {}
  <2>1. Limit - Len(sub) \in Nat /\ found \in SUBSET (0 .. Limit - Len(sub))
    BY <1>2, SplitAssumption
  <2>2. PICK k \in found : \A m \in found : k >= m
    <3> HIDE DEF found
    <3> QED
      BY <1>2, <2>1, GreatestElement
  <2>3. Max(found) = k
    <3>1. found \in SUBSET Nat
      BY <2>1
    <3> HIDE DEF found
    <3> QED
      BY <2>2, <3>1, LeastIsMin
  <2>4. RFind(s, sub) = k
    BY <1>2, <2>3 DEF RFind
  <2> QED
    BY <2>1, <2>2, <2>4, SplitAssumption
<1> QED
  BY <1>1, <1>2

LEMMA CutAfterBounds ==
  ASSUME NEW s, NEW sub, Len(sub) \in {1, 2}
  PROVE  CutAfter(s, sub) = 0 \/ CutAfter(s, sub) \in Limit \div 2 + 1 .. Limit
<1>1. Limit \div 2 \in Nat /\ Limit \div 2 + 1 <= Limit /\ Limit \in Nat
  BY SplitAssumption
<1> QED
  BY <1>1, FoundWithinLimit DEF CutAfter

\* The cut is beyond half the limit and within it.
LEMMA CutWithinLimit ==
  ASSUME NEW s
  PROVE  FindSplitPoint(s) \in Limit \div 2 + 1 .. Limit
<1> DEFINE I == Limit \div 2 + 1 .. Limit
           cuts == <<CutAfter(s, <<"\n", "\n">>), CutAfter(s, <<"\n">>), CutAfter(s, <<" ">>), Limit>>
           taken == {i \in DOMAIN cuts : cuts[i] > 0}
<1>1. Limit \div 2 \in Nat /\ Limit \in I /\ Limit > 0 /\ I \subseteq Nat
  BY SplitAssumption
<1>2. \A sub : Len(sub) = 1 \/ Len(sub) = 2 => CutAfter(s, sub) \in I \cup {0}
  BY CutAfterBounds
<1>3. DOMAIN cuts = 1 .. 4 /\ (\A i \in 1 .. 4 : cuts[i] \in I \cup {0}) /\ cuts[4] = Limit
  <2>1. Len(<<"\n", "\n">>) = 2 /\ Len(<<"\n">>) = 1 /\ Len(<<" ">>) = 1
    OBVIOUS
  <2>2. Limit \in I \cup {0}
    BY <1>1
  <2> HIDE DEF I
  <2>3. /\ CutAfter(s, <<"\n", "\n">>) \in I \cup {0}
        /\ CutAfter(s, <<"\n">>) \in I \cup {0}
        /\ CutAfter(s, <<" ">>) \in I \cup {0}
    BY <1>2, <2>1, Zenon
  <2>4. PICK a, b, c \in I \cup {0} : cuts = <<a, b, c, Limit>>
    BY <2>3, Zenon
  <2> HIDE DEF cuts
  <2>5. DOMAIN cuts = 1 .. 4 /\ cuts[1] = a /\ cuts[2] = b /\ cuts[3] = c /\ cuts[4] = Limit
    BY <2>4
  <2> QED
    BY <2>2, <2>5
<1> HIDE DEF cuts
<1>4. taken \in SUBSET Nat /\ 4 \in taken
  BY <1>1, <1>3
<1>5. PICK k \in taken : \A m \in taken : k <= m
  <2> HIDE DEF taken
  <2> QED
    BY <1>4, LeastElement
<1>6. Min(taken) = k
  <2> HIDE DEF taken
  <2> QED
    BY <1>4, <1>5, LeastIsMin
<1>7. FindSplitPoint(s) = cuts[k]
  BY <1>6 DEF FindSplitPoint, cuts
<1>8. cuts[k] \in I /\ k \in 1 .. 4
  <2> HIDE DEF I
  <2>1. cuts[k] \in I \cup {0} /\ cuts[k] > 0
    BY <1>3, <1>5
  <2>2. \A n \in I \cup {0} : n > 0 => n \in I
    OBVIOUS
  <2> QED
    BY <1>3, <1>5, <2>1, <2>2
<1> QED
  BY <1>7, <1>8

SplitInv ==
  /\ text \in Seq(Characters) /\ remaining \in Seq(Characters)
  /\ chunks \in Seq(Seq(Characters)) /\ begins \in Seq(Nat)
  /\ sending \in {"new", "cutting", "skipped", "cut"}
  /\ sending \in {"new", "skipped"} => chunks = <<>>
  /\ sending # "cutting" => remaining = <<>>
  /\ sending = "skipped" => Visible(text) = {}

\* What remains is the rest of the text, behind all chunks; it begins with a letter,
\* unless nothing was cut yet.
Rest ==
  /\ Len(remaining) <= Len(text)
  /\ Len(chunks) + Len(remaining) <= Len(text)
  /\ \A i \in 1 .. Len(remaining) : remaining[i] = text[Len(text) - Len(remaining) + i]
  /\ \A i \in DOMAIN chunks : begins[i] + Len(chunks[i]) <= Len(text) - Len(remaining)
  /\ remaining # <<>> => IF chunks = <<>> THEN remaining = text ELSE ~Blank(remaining[1])

\* Two sequences of one length with the same elements are one sequence.
LEMMA SameSequence ==
  ASSUME NEW S, NEW s \in Seq(S), NEW t \in Seq(S), NEW n \in Nat,
         Len(s) = n, Len(t) = n, \A j \in 1 .. n : s[j] = t[j]
  PROVE  s = t
OBVIOUS

\* What a part of a sequence holds, and that it depends on that part only.
LEMMA PartElements ==
  ASSUME NEW T, NEW s \in Seq(T), NEW a \in Nat, NEW b \in Nat, a >= 1, a <= b + 1, b <= Len(s)
  PROVE  /\ SubSeq(s, a, b) \in Seq(T) /\ Len(SubSeq(s, a, b)) = b - a + 1
         /\ \A i \in 1 .. b - a + 1 : SubSeq(s, a, b)[i] = s[a + i - 1]
OBVIOUS

LEMMA SameBegin ==
  ASSUME NEW T, NEW s \in Seq(T), NEW t \in Seq(T), NEW n \in Nat, n <= Len(s), n <= Len(t),
         \A i \in 1 .. n : s[i] = t[i]
  PROVE  SubSeq(s, 1, n) = SubSeq(t, 1, n)
OBVIOUS

\* What a longer sequence holds.
LEMMA Prepended ==
  ASSUME NEW T, NEW e \in T, NEW q \in Seq(T)
  PROVE  /\ <<e>> \o q \in Seq(T) /\ Len(<<e>> \o q) = Len(q) + 1
         /\ \A i \in 1 .. Len(q) + 1 : (<<e>> \o q)[i] = IF i = 1 THEN e ELSE q[i - 1]
OBVIOUS

LEMMA Appended ==
  ASSUME NEW T, NEW q \in Seq(T), NEW e \in T
  PROVE  /\ Append(q, e) \in Seq(T) /\ Len(q) \in Nat /\ Len(Append(q, e)) = Len(q) + 1
         /\ Append(q, e)[Len(q) + 1] = e
         /\ \A i \in 1 .. Len(q) : Append(q, e)[i] = q[i] /\ q[i] \in T
         /\ DOMAIN q = 1 .. Len(q) /\ DOMAIN Append(q, e) = 1 .. Len(q) + 1
OBVIOUS

\* One more chunk of what remains: the stretch of the text before the blanks that are
\* cut off.
\* One more chunk of what remains: a stretch of m characters, then blanks up to k.
Cut(k, m) ==
  /\ k \in 1 .. Len(remaining) /\ m \in 0 .. k /\ m <= Limit
  /\ \A i \in m + 1 .. k : Blank(remaining[i])
  /\ m = 0 => Limit \div 2 + 1 <= k
  /\ chunks' = Append(chunks, SubSeq(remaining, 1, m))
  /\ begins' = Append(begins, Len(text) - Len(remaining))
  /\ remaining' = SubSeq(remaining, k + 1, Len(remaining))
  /\ remaining' # <<>> => ~Blank(remaining'[1])
  /\ sending' \in {"cutting", "cut"} /\ (sending' = "cut" => remaining' = <<>>)
  /\ UNCHANGED text

LEMMA ChunkAdded ==
  ASSUME SplitInv, Rest, ChunksWhole, sending = "cutting", NEW k, NEW m, Cut(k, m)
  PROVE  SplitInv' /\ Rest' /\ ChunksWhole'
<1>1. text \in Seq(Characters) /\ remaining \in Seq(Characters)
  BY DEF SplitInv
<1>2. Len(text) \in Nat /\ Len(remaining) \in Nat /\ Len(remaining) <= Len(text)
  BY <1>1 DEF Rest
<1>3. PICK n \in Nat : n = Len(chunks) /\ n = Len(begins) /\ DOMAIN chunks = 1 .. n
  BY DEF SplitInv, ChunksWhole
<1>4. PICK l \in Nat : l = Len(remaining)
  BY <1>2
<1>5. PICK b \in Nat : b = Len(text) - l /\ Len(text) = b + l
  <2>1. Len(text) - l \in Nat
    BY <1>2, <1>4
  <2> QED
    BY <1>2, <1>4, <2>1
<1>6. k \in Nat /\ m \in Nat /\ 1 <= k /\ k <= l /\ m <= k /\ m <= Limit
  BY <1>4, <1>2 DEF Cut
<1>7. text' = text
  BY DEF Cut
<1>8. PICK chunk : chunk = SubSeq(remaining, 1, m)
  OBVIOUS
<1>9. /\ chunk \in Seq(Characters) /\ Len(chunk) = m /\ DOMAIN chunk = 1 .. m
      /\ \A i \in 1 .. m : chunk[i] = remaining[i]
  BY <1>1, <1>4, <1>8, <1>6
<1>10. /\ remaining' \in Seq(Characters) /\ Len(remaining') = l - k
      /\ \A i \in 1 .. l - k : remaining'[i] = remaining[k + i]
  <2>1. remaining' = SubSeq(remaining, k + 1, l)
    BY <1>4 DEF Cut
  <2> QED
    BY <1>1, <1>4, <1>6, <2>1
<1>11. /\ chunks' \in Seq(Seq(Characters)) /\ Len(chunks') = n + 1
      /\ chunks'[n + 1] = chunk /\ \A i \in 1 .. n : chunks'[i] = chunks[i]
      /\ DOMAIN chunks' = 1 .. n + 1
  <2>1. chunks' = Append(chunks, chunk) /\ chunks \in Seq(Seq(Characters))
    BY <1>8 DEF SplitInv, Cut
  <2> QED
    BY <1>9, <1>3, <2>1, Appended, SMTT(30)
<1>12. /\ begins' \in Seq(Nat) /\ Len(begins') = n + 1
       /\ begins'[n + 1] = b /\ \A i \in 1 .. n : begins'[i] = begins[i]
  <2>1. begins' = Append(begins, b) /\ begins \in Seq(Nat)
    BY <1>5, <1>4 DEF SplitInv, Cut
  <2> QED
    BY <1>3, <2>1, Appended
<1>13. \A i \in 1 .. l : remaining[i] = text[b + i]
  BY <1>5, <1>4 DEF Rest
<1>14. \A i \in 1 .. n : /\ Len(chunks[i]) \in Nat /\ begins[i] \in Nat
                        /\ begins[i] + Len(chunks[i]) <= b
  <2> SUFFICES ASSUME NEW i \in 1 .. n
               PROVE  Len(chunks[i]) \in Nat /\ begins[i] \in Nat /\ begins[i] + Len(chunks[i]) <= b
    OBVIOUS
  <2>1. chunks[i] \in Seq(Characters) /\ begins[i] \in Nat
    BY <1>3 DEF SplitInv
  <2>2. Len(chunks[i]) \in Nat
    BY <2>1
  <2>3. begins[i] + Len(chunks[i]) <= b
    BY <1>3, <1>5, <1>4 DEF Rest
  <2> QED
    BY <2>1, <2>2, <2>3
<1>15. SplitInv'
  BY <1>1, <1>7, <1>10, <1>11, <1>12 DEF SplitInv, Cut
<1>16. Rest'
  <2>1. \A i \in 1 .. Len(remaining') : remaining'[i] = text'[Len(text') - Len(remaining') + i]
    <3> SUFFICES ASSUME NEW i \in 1 .. l - k PROVE remaining'[i] = text[b + k + i]
      <4>1. Len(text) - (l - k) = b + k
        BY <1>5, <1>6
      <4> QED
        BY <1>10, <1>7, <4>1
    <3>1. k + i \in 1 .. l /\ b + (k + i) = b + k + i
      BY <1>6
    <3> QED
      BY <1>10, <1>13, <3>1
  <2>2. Len(remaining') <= Len(text') /\ Len(chunks') + Len(remaining') <= Len(text')
    <3>1. n + l <= b + l
      BY <1>3, <1>5, <1>4 DEF Rest
    <3> QED
      BY <1>5, <1>6, <1>7, <1>10, <1>11, <3>1, SMTT(30)
  <2>3. ASSUME NEW i \in 1 .. n + 1
        PROVE  begins'[i] + Len(chunks'[i]) <= Len(text') - Len(remaining')
    <3>1. Len(text') - Len(remaining') = b + k
      BY <1>5, <1>6, <1>7, <1>10
    <3>2. CASE i = n + 1
      BY <1>6, <1>9, <1>11, <1>12, <3>1, <3>2
    <3>3. CASE i \in 1 .. n
      <4>1. chunks'[i] = chunks[i] /\ begins'[i] = begins[i]
        BY <1>11, <1>12, <3>3
      <4>2. Len(chunks[i]) \in Nat /\ begins[i] \in Nat /\ begins[i] + Len(chunks[i]) <= b
        BY <1>14, <3>3
      <4> QED
        BY <1>6, <3>1, <4>1, <4>2
    <3> QED
      BY <3>2, <3>3
  <2>4. chunks' # <<>>
    BY <1>11
  <2>5. remaining' # <<>> => ~Blank(remaining'[1])
    BY DEF Cut
  <2> QED
    BY <1>11, <2>1, <2>2, <2>3, <2>4, <2>5 DEF Rest
<1>17. ASSUME NEW i \in 1 .. n + 1
      PROVE  /\ Len(chunks'[i]) <= Limit
             /\ chunks'[i] = SubSeq(text, begins'[i] + 1, begins'[i] + Len(chunks'[i]))
             /\ chunks'[i] = <<>> => i = 1 /\ Visible(SubSeq(text, 1, Limit \div 2 + 1)) = {}
             /\ i > 1 => begins'[i - 1] + Len(chunks'[i - 1]) <= begins'[i]
  <2>1. CASE i \in 1 .. n
    <3>1. /\ Len(chunks[i]) <= Limit
          /\ chunks[i] = SubSeq(text, begins[i] + 1, begins[i] + Len(chunks[i]))
          /\ chunks[i] = <<>> => i = 1 /\ Visible(SubSeq(text, 1, Limit \div 2 + 1)) = {}
          /\ i > 1 => begins[i - 1] + Len(chunks[i - 1]) <= begins[i]
      BY <1>3, <2>1, Zenon DEF ChunksWhole
    <3>2. i > 1 => i - 1 \in 1 .. n
      BY <2>1
    <3>3. chunks'[i] = chunks[i] /\ begins'[i] = begins[i]
      BY <1>11, <1>12, <2>1
    <3>4. i > 1 => chunks'[i - 1] = chunks[i - 1] /\ begins'[i - 1] = begins[i - 1]
      BY <1>11, <1>12, <3>2
    <3> QED
      BY <3>1, <3>3, <3>4, Zenon
  <2>2. CASE i = n + 1
    <3>1. chunk = SubSeq(text, b + 1, b + m)
      <4>1. \A j \in 1 .. m : chunk[j] = text[b + j]
        BY <1>9, <1>13, <1>6
      <4>2. /\ SubSeq(text, b + 1, b + m) \in Seq(Characters) /\ Len(SubSeq(text, b + 1, b + m)) = m
            /\ \A j \in 1 .. m : SubSeq(text, b + 1, b + m)[j] = text[b + j]
        <5>1. PICK from \in Nat : from = b + 1
          OBVIOUS
        <5>2. PICK to \in Nat : to = b + m
          BY <1>6
        <5>3. from <= to + 1 /\ to <= Len(text) /\ to - from + 1 = m /\ from >= 1
          BY <1>5, <1>6, <5>1, <5>2
        <5>4. /\ SubSeq(text, from, to) \in Seq(Characters) /\ Len(SubSeq(text, from, to)) = m
              /\ \A j \in 1 .. m : SubSeq(text, from, to)[j] = text[from + j - 1]
          BY <1>1, <1>6, <5>3
        <5>5. \A j \in 1 .. m : from + j - 1 = b + j
          BY <5>1
        <5> QED
          BY <5>1, <5>2, <5>4, <5>5
      <4>3. PICK part \in Seq(Characters) :
              /\ part = SubSeq(text, b + 1, b + m)
              /\ Len(part) = m
              /\ \A j \in 1 .. m : part[j] = text[b + j]
        BY <4>2
      <4>4. chunk \in Seq(Characters) /\ Len(chunk) = m
        BY <1>9
      <4>5. chunk = part
        <5>1. m \in Nat
          BY <1>6
        <5>2. \A j \in 1 .. m : chunk[j] = part[j]
          BY <4>1, <4>3
        <5> QED
          BY <4>3, <4>4, <5>1, <5>2, SameSequence
      <4> QED
        BY <4>3, <4>5
    <3>2. ASSUME chunk = <<>> PROVE n = 0 /\ Visible(SubSeq(text, 1, Limit \div 2 + 1)) = {}
      <4>1. m = 0 /\ 1 \in m + 1 .. k /\ Limit \div 2 + 1 <= k
        BY <1>6, <1>9, <3>2 DEF Cut
      <4>2. Blank(remaining[1]) /\ remaining # <<>>
        BY <1>1, <1>4, <1>6, <4>1 DEF Cut
      <4>3. n = 0 /\ remaining = text
        BY <1>3, <4>2 DEF Rest
      <4>4. PICK h \in Nat : h = Limit \div 2 + 1
        BY SplitAssumption
      <4>5. \A j \in 1 .. h : Blank(text[j])
        BY <1>6, <4>1, <4>3, <4>4 DEF Cut
      <4>6. /\ DOMAIN SubSeq(text, 1, h) = 1 .. h
            /\ \A j \in 1 .. h : SubSeq(text, 1, h)[j] = text[j]
        BY <1>1, <1>4, <1>6, <4>1, <4>3, <4>4
      <4>7. Visible(SubSeq(text, 1, h)) = {}
        BY <4>5, <4>6 DEF Visible
      <4> QED
        BY <4>3, <4>4, <4>7
    <3>3. n > 0 => n \in 1 .. n /\ i - 1 = n
      BY <2>2
    <3>4. i > 1 => begins'[i - 1] + Len(chunks'[i - 1]) <= begins'[i]
      <4>1. i > 1 => chunks'[n] = chunks[n] /\ begins'[n] = begins[n] /\ begins[n] + Len(chunks[n]) <= b /\ i - 1 = n
        BY <1>11, <1>12, <1>14, <2>2, <3>3
      <4>2. begins'[i] = b
        BY <1>12, <2>2
      <4> QED
        BY <4>1, <4>2
    <3>5. chunks'[i] = chunk /\ begins'[i] = b
      BY <1>11, <1>12, <2>2
    <3>6. n = 0 => i = 1
      BY <2>2
    <3>7. m <= Limit
      BY <1>6
    <3>8. Len(chunk) = m
      BY <1>9
    <3> QED
      BY <3>1, <3>2, <3>4, <3>5, <3>6, <3>7, <3>8
  <2> QED
    BY <2>1, <2>2
<1>18. ASSUME NEW p \in Visible(text)
       PROVE  \/ \E i \in 1 .. n + 1 : p \in begins'[i] + 1 .. begins'[i] + Len(chunks'[i])
              \/ p \in Len(text) - Len(remaining') + 1 .. Len(text)
  <2>1. p \in 1 .. b + l /\ ~Blank(text[p])
    BY <1>1, <1>5 DEF Visible
  <2>2. CASE p <= b
    <3>1. p \notin Len(text) - Len(remaining) + 1 .. Len(text)
      BY <1>5, <1>4, <2>1, <2>2
    <3>2. p \in UNION {Stretch(i) : i \in DOMAIN chunks}
      <4>1. sending # "new"
        OBVIOUS
      <4>2. Visible(text) \subseteq (UNION {Stretch(i) : i \in DOMAIN chunks})
                                    \cup (Len(text) - Len(remaining) + 1 .. Len(text))
        BY <4>1, Zenon DEF ChunksWhole
      <4> DEFINE A == UNION {Stretch(i) : i \in DOMAIN chunks}
                 B == Len(text) - Len(remaining) + 1 .. Len(text)
      <4>3. Visible(text) \subseteq A \cup B /\ p \notin B
        BY <3>1, <4>2, Zenon
      <4> HIDE DEF A, B
      <4>4. p \in A
        BY <4>3
      <4> QED
        BY <4>4 DEF A
    <3>3. PICK i \in 1 .. n : p \in Stretch(i)
      BY <1>3, <3>2, Zenon
    <3>4. begins'[i] = begins[i] /\ chunks'[i] = chunks[i] /\ i \in 1 .. n + 1
      BY <1>11, <1>12
    <3> QED
      BY <3>3, <3>4 DEF Stretch
  <2>3. CASE p > b
    <3>1. PICK j \in 1 .. l : p = b + j
      <4>1. p - b \in 1 .. l /\ p = b + (p - b)
        BY <2>1, <2>3
      <4> QED
        BY <4>1
    <3>2. ~Blank(remaining[j])
      BY <1>13, <2>1, <3>1
    <3>3. j \notin m + 1 .. k
      BY <3>2 DEF Cut
    <3>4. CASE j <= m
      <4>1. p \in b + 1 .. b + m /\ n + 1 \in 1 .. n + 1
        BY <1>6, <3>1, <3>4
      <4> QED
        BY <1>9, <1>11, <1>12, <4>1
    <3>5. CASE j > k
      <4>1. p \in b + l - (l - k) + 1 .. b + l
        BY <1>6, <3>1, <3>5
      <4> QED
        BY <1>5, <1>10, <4>1
    <3> QED
      BY <1>6, <3>3, <3>4, <3>5
  <2> QED
    BY <2>1, <2>2, <2>3
<1>19. Len(chunks') <= Len(text') /\ Len(begins') = Len(chunks')
  BY <1>7, <1>10, <1>11, <1>12, <1>16, <1>6, <1>2 DEF Rest
<1>20. Visible(text') \subseteq (UNION {Stretch(i)' : i \in DOMAIN chunks'})
                                   \cup (Len(text') - Len(remaining') + 1 .. Len(text'))
  <2> SUFFICES ASSUME NEW p \in Visible(text)
               PROVE  \/ p \in UNION {Stretch(i)' : i \in 1 .. n + 1}
                      \/ p \in Len(text) - Len(remaining') + 1 .. Len(text)
    <3>1. DOMAIN chunks' = 1 .. n + 1 /\ Visible(text') = Visible(text) /\ Len(text') = Len(text)
      BY <1>7, <1>11 DEF Visible
    <3> DEFINE A == UNION {Stretch(i)' : i \in 1 .. n + 1}
               B == Len(text) - Len(remaining') + 1 .. Len(text)
    <3>2. A = UNION {Stretch(i)' : i \in DOMAIN chunks'} /\ B = Len(text') - Len(remaining') + 1 .. Len(text')
      BY <3>1, Zenon
    <3>3. \A p \in Visible(text) : p \in A \/ p \in B
      OBVIOUS
    <3> HIDE DEF A, B
    <3>4. Visible(text) \subseteq A \cup B
      BY <3>3
    <3> QED
      BY <3>1, <3>2, <3>4, Zenon
  <2>1. CASE \E i \in 1 .. n + 1 : p \in begins'[i] + 1 .. begins'[i] + Len(chunks'[i])
    BY <2>1, Zenon DEF Stretch
  <2> QED
    BY <1>18, <2>1, Zenon
<1> QED
  <2>1. \A i \in DOMAIN chunks' :
          /\ Len(chunks'[i]) <= Limit
          /\ chunks'[i] = SubSeq(text', begins'[i] + 1, begins'[i] + Len(chunks'[i]))
          /\ chunks'[i] = <<>> => i = 1 /\ Visible(SubSeq(text', 1, Limit \div 2 + 1)) = {}
          /\ i > 1 => begins'[i - 1] + Len(chunks'[i - 1]) <= begins'[i]
    <3>1. DOMAIN chunks' = 1 .. n + 1
      BY <1>11
    <3>2. \A i \in DOMAIN chunks' :
            /\ Len(chunks'[i]) <= Limit
            /\ chunks'[i] = SubSeq(text, begins'[i] + 1, begins'[i] + Len(chunks'[i]))
            /\ chunks'[i] = <<>> => i = 1 /\ Visible(SubSeq(text, 1, Limit \div 2 + 1)) = {}
            /\ i > 1 => begins'[i - 1] + Len(chunks'[i - 1]) <= begins'[i]
      BY <1>17, <3>1, Zenon
    <3> QED
      BY <1>7, <3>2, Zenon DEF Visible
  <2>2. ChunksWhole'
    BY <1>19, <1>20, <2>1, Zenon DEF ChunksWhole, Visible
  <2> QED
    BY <1>15, <1>16, <2>2

LEMMA SplitStart ==
  ASSUME SplitInit PROVE SplitInv /\ Rest /\ ChunksWhole
<1>1. PICK n \in 0 .. MaxText : text \in [1 .. n -> Characters]
  BY DEF SplitInit, BoundedSeq, SeqOf
<1>2. text \in Seq(Characters) /\ Len(text) \in Nat
  <2>1. n \in Nat
    BY SplitAssumption
  <2> QED
    BY <1>1, <2>1
<1>3. remaining = <<>> /\ chunks = <<>> /\ begins = <<>> /\ sending = "new"
  BY DEF SplitInit
<1>4. Len(remaining) = 0 /\ Len(chunks) = 0 /\ DOMAIN chunks = {} /\ Len(begins) = 0
  BY <1>3
<1>5. SplitInv
  BY <1>2, <1>3 DEF SplitInv
<1>6. Rest
  BY <1>2, <1>3, <1>4 DEF Rest
<1>7. ChunksWhole
  BY <1>2, <1>3, <1>4 DEF ChunksWhole
<1> QED
  BY <1>5, <1>6, <1>7

LEMMA SendStep ==
  ASSUME SplitInv, Rest, ChunksWhole, SendMessage
  PROVE  SplitInv' /\ Rest' /\ ChunksWhole'
<1>1. text' = text /\ text \in Seq(Characters) /\ Len(text) \in Nat
  BY DEF SendMessage, SplitInv
<1>2. chunks = <<>> /\ remaining = <<>> /\ sending = "new"
  BY DEF SendMessage, SplitInv
<1>3. begins = <<>>
  BY <1>2 DEF SplitInv, ChunksWhole
<1>4. CASE Visible(text) = {}
  <2>1. sending' = "skipped" /\ remaining' = <<>> /\ chunks' = <<>> /\ begins' = <<>>
    BY <1>2, <1>3, <1>4 DEF SendMessage
  <2>2. Visible(text') = {}
    BY <1>1, <1>4 DEF Visible
  <2>3. SplitInv'
    BY <1>1, <2>1, <2>2 DEF SplitInv
  <2>4. Rest'
    BY <1>1, <2>1 DEF Rest
  <2>5. ChunksWhole'
    BY <1>1, <2>1, <2>2 DEF ChunksWhole
  <2> QED
    BY <2>3, <2>4, <2>5
<1>5. CASE Visible(text) # {} /\ Len(text) <= Limit
  <2>1. sending' = "cut" /\ remaining' = <<>> /\ chunks' = <<text>> /\ begins' = <<0>>
    BY <1>2, <1>5 DEF SendMessage
  <2>2. Len(text) >= 1 /\ text # <<>>
    BY <1>1, <1>5 DEF Visible
  <2>3. /\ chunks' \in Seq(Seq(Characters)) /\ begins' \in Seq(Nat) /\ Len(chunks') = 1
        /\ Len(begins') = 1 /\ chunks'[1] = text /\ begins'[1] = 0 /\ DOMAIN chunks' = {1}
    BY <1>1, <2>1
  <2>4. SplitInv'
    BY <1>1, <2>1, <2>3 DEF SplitInv
  <2>5. Rest'
    BY <1>1, <2>1, <2>2, <2>3 DEF Rest
  <2>6. text = SubSeq(text, 0 + 1, 0 + Len(text))
    BY <1>1
  <2>7. Visible(text') \subseteq (UNION {Stretch(i)' : i \in DOMAIN chunks'})
    <3>1. Stretch(1)' = 1 .. Len(text)
      BY <1>1, <2>3 DEF Stretch
    <3>2. Visible(text') \subseteq 1 .. Len(text)
      BY <1>1 DEF Visible
    <3> QED
      BY <2>3, <3>1, <3>2, Zenon
  <2>8. ChunksWhole'
    <3>1. /\ Len(chunks'[1]) <= Limit /\ chunks'[1] # <<>>
          /\ chunks'[1] = SubSeq(text', begins'[1] + 1, begins'[1] + Len(chunks'[1]))
      BY <1>1, <1>5, <2>2, <2>3, <2>6
    <3>2. Len(chunks') <= Len(text') /\ Len(begins') = Len(chunks')
      BY <1>1, <2>2, <2>3
    <3>3. \A i \in DOMAIN chunks' : i = 1
      BY <2>3
    <3> QED
      BY <2>7, <3>1, <3>2, <3>3 DEF ChunksWhole
  <2> QED
    BY <2>4, <2>5, <2>8
<1>6. CASE Visible(text) # {} /\ ~(Len(text) <= Limit)
  <2>1. sending' = "cutting" /\ remaining' = text /\ chunks' = <<>> /\ begins' = <<>>
    BY <1>2, <1>3, <1>6 DEF SendMessage
  <2>2. SplitInv'
    BY <1>1, <2>1 DEF SplitInv
  <2>3. Rest'
    BY <1>1, <2>1 DEF Rest
  <2>4. ChunksWhole'
    <3>1. Visible(text') \subseteq Len(text') - Len(remaining') + 1 .. Len(text')
      BY <1>1, <2>1 DEF Visible
    <3> QED
      BY <1>1, <2>1, <3>1 DEF ChunksWhole
  <2> QED
    BY <2>2, <2>3, <2>4
<1> QED
  BY <1>4, <1>5, <1>6

LEMMA CutStep ==
  ASSUME SplitInv, Rest, ChunksWhole, SplitMessage
  PROVE  SplitInv' /\ Rest' /\ ChunksWhole'
<1>1. /\ sending = "cutting" /\ remaining # <<>> /\ text' = text
      /\ begins' = Append(begins, Len(text) - Len(remaining))
  BY DEF SplitMessage
<1>2. PICK L \in Nat : L = Len(remaining)
  BY DEF SplitInv
<1>3. remaining \in Seq(Characters) /\ L > 0
  BY <1>1, <1>2 DEF SplitInv
<1>4. CASE L <= Limit
  <2>1. chunks' = Append(chunks, remaining) /\ remaining' = <<>> /\ sending' = "cut"
    BY <1>2, <1>4 DEF SplitMessage
  <2>2. remaining = SubSeq(remaining, 1, L) /\ remaining' = SubSeq(remaining, L + 1, L)
    BY <1>2, <1>3, <2>1
  <2>3. Cut(L, L)
    BY <1>1, <1>2, <1>3, <1>4, <2>1, <2>2 DEF Cut
  <2> QED
    BY <1>1, <2>3, ChunkAdded
<1>5. CASE ~(L <= Limit)
  <2>1. PICK point \in Limit \div 2 + 1 .. Limit : point = FindSplitPoint(remaining)
    BY CutWithinLimit
  <2>2. point \in Nat /\ 1 <= point /\ point <= L /\ Limit \div 2 + 1 <= point /\ point <= Limit
    BY <1>2, <1>5, <2>1, SplitAssumption
  <2>3. PICK head : head = SubSeq(remaining, 1, point)
    OBVIOUS
  <2>4. PICK tail : tail = SubSeq(remaining, point + 1, L)
    OBVIOUS
  <2>5. chunks' = Append(chunks, RStrip(head)) /\ remaining' = LStrip(tail) /\ sending' = sending
    BY <1>2, <1>5, <2>1, <2>3, <2>4 DEF SplitMessage
  <2>6. /\ head \in Seq(Characters) /\ Len(head) = point
        /\ \A i \in 1 .. point : head[i] = remaining[i]
    BY <1>2, <1>3, <2>2, <2>3
  <2>7. /\ tail \in Seq(Characters) /\ Len(tail) = L - point
        /\ \A i \in 1 .. L - point : tail[i] = remaining[point + i]
    BY <1>2, <1>3, <2>2, <2>4
  <2>8. PICK m \in 0 .. point : /\ RStrip(head) = SubSeq(head, 1, m)
                               /\ \A i \in m + 1 .. point : Blank(head[i])
    BY <2>6, StripRight
  <2>9. PICK j \in 0 .. L - point :
          /\ LStrip(tail) = SubSeq(tail, j + 1, L - point)
          /\ \A i \in 1 .. j : Blank(tail[i])
          /\ j < L - point => ~Blank(tail[j + 1])
    BY <2>7, StripLeft
  <2>10. SubSeq(head, 1, m) = SubSeq(remaining, 1, m)
    <3>1. m \in Nat /\ m <= point /\ m <= L
      BY <2>2
    <3>2. /\ SubSeq(head, 1, m) \in Seq(Characters) /\ Len(SubSeq(head, 1, m)) = m
          /\ \A i \in 1 .. m : SubSeq(head, 1, m)[i] = head[i]
      BY <2>6, <3>1
    <3>3. /\ SubSeq(remaining, 1, m) \in Seq(Characters) /\ Len(SubSeq(remaining, 1, m)) = m
          /\ \A i \in 1 .. m : SubSeq(remaining, 1, m)[i] = remaining[i]
      BY <1>2, <1>3, <3>1
    <3>4. \A i \in 1 .. m : head[i] = remaining[i]
      BY <2>6, <3>1
    <3> QED
      BY <3>2, <3>3, <3>4
  <2>11. PICK k \in Nat : k = point + j /\ k <= L /\ k >= point
    <3>1. point + j \in Nat /\ point + j <= L /\ point + j >= point
      BY <2>2
    <3> QED
      BY <3>1
  <2>12. SubSeq(tail, j + 1, L - point) = SubSeq(remaining, k + 1, L)
    <3>1. PICK r \in Nat : r = L - k /\ r = L - point - j
      BY <2>2, <2>11
    <3>2. /\ SubSeq(tail, j + 1, L - point) \in Seq(Characters)
          /\ Len(SubSeq(tail, j + 1, L - point)) = r
          /\ \A i \in 1 .. r : SubSeq(tail, j + 1, L - point)[i] = tail[j + i]
      BY <2>7, <3>1, <2>2
    <3>3. /\ SubSeq(remaining, k + 1, L) \in Seq(Characters) /\ Len(SubSeq(remaining, k + 1, L)) = r
          /\ \A i \in 1 .. r : SubSeq(remaining, k + 1, L)[i] = remaining[k + i]
      <4>1. k \in 0 .. L /\ r = L - k
        BY <1>2, <2>2, <2>11, <3>1
      <4> QED
        BY <1>2, <1>3, <4>1
    <3>4. \A i \in 1 .. r : tail[j + i] = remaining[k + i]
      <4> SUFFICES ASSUME NEW i \in 1 .. r PROVE tail[j + i] = remaining[k + i]
        OBVIOUS
      <4>1. j + i \in 1 .. L - point /\ point + (j + i) = k + i
        BY <2>2, <2>11, <3>1
      <4> QED
        BY <2>7, <4>1
    <3> QED
      BY <3>2, <3>3, <3>4
  <2>13. \A i \in m + 1 .. k : Blank(remaining[i])
    <3> SUFFICES ASSUME NEW i \in m + 1 .. k PROVE Blank(remaining[i])
      OBVIOUS
    <3>1. CASE i <= point
      <4>1. i \in 1 .. point /\ i \in m + 1 .. point
        BY <2>2, <3>1
      <4> QED
        BY <2>6, <2>8, <4>1
    <3>2. CASE i > point
      <4>1. i - point \in 1 .. j /\ i - point \in 1 .. L - point /\ point + (i - point) = i
        BY <2>2, <2>11, <3>2
      <4>2. PICK q \in Nat : q = i - point /\ q \in 1 .. j /\ q \in 1 .. L - point /\ point + q = i
        BY <4>1
      <4>3. Blank(tail[q])
        BY <2>9, <4>2
      <4>4. tail[q] = remaining[i]
        BY <2>7, <4>2
      <4> QED
        BY <4>3, <4>4
    <3> QED
      BY <2>2, <3>1, <3>2
  <2>14. remaining' # <<>> => ~Blank(remaining'[1])
    <3> SUFFICES ASSUME remaining' # <<>> PROVE ~Blank(remaining'[1])
      OBVIOUS
    <3>1. j < L - point
      BY <2>2, <2>5, <2>7, <2>9
    <3>2. remaining'[1] = tail[j + 1]
      BY <2>2, <2>5, <2>7, <2>9, <3>1
    <3>3. ~Blank(tail[j + 1])
      BY <2>9, <3>1, Zenon
    <3> QED
      BY <3>2, <3>3, Zenon
  <2>15. chunks' = Append(chunks, SubSeq(remaining, 1, m)) /\ remaining' = SubSeq(remaining, k + 1, L)
    BY <2>5, <2>8, <2>9, <2>10, <2>12
  <2>16. k \in 1 .. L /\ m \in 0 .. k /\ m <= Limit /\ Limit \div 2 + 1 <= k
    BY <2>2, <2>11, SplitAssumption
  <2>17. Cut(k, m)
    BY <1>1, <1>2, <2>5, <2>13, <2>14, <2>15, <2>16 DEF Cut
  <2> QED
    BY <1>1, <2>17, ChunkAdded
<1> QED
  BY <1>4, <1>5

LEMMA ChunksStay ==
  ASSUME ChunksWhole, UNCHANGED <<text, remaining, chunks, begins>>,
         sending = sending' \/ sending # "new"
  PROVE  ChunksWhole'
<1> DEFINE T == UNION {begins[i] + 1 .. begins[i] + Len(chunks[i]) : i \in DOMAIN chunks}
<1>1. sending' # "new" =>
        Visible(text) \subseteq T \cup (Len(text) - Len(remaining) + 1 .. Len(text))
  BY DEF ChunksWhole, Stretch
<1>2. (UNION {Stretch(i)' : i \in DOMAIN chunks'}) = T
  BY DEF Stretch
<1> HIDE DEF T
<1>3. sending' # "new" =>
        Visible(text') \subseteq (UNION {Stretch(i)' : i \in DOMAIN chunks'})
                                 \cup (Len(text') - Len(remaining') + 1 .. Len(text'))
  BY <1>1, <1>2, Zenon DEF Visible
<1> QED
  BY <1>3, Zenon DEF ChunksWhole, Visible

\* Each step of the cutting.
LEMMA SplitStep ==
  SplitInv /\ Rest /\ ChunksWhole /\ [SplitNext]_splitVars => SplitInv' /\ Rest' /\ ChunksWhole'
<1> SUFFICES ASSUME SplitInv, Rest, ChunksWhole, [SplitNext]_splitVars
    PROVE  SplitInv' /\ Rest' /\ ChunksWhole'
  OBVIOUS
<1>1. CASE SendMessage
  BY <1>1, SendStep
<1>2. CASE SplitMessage
  BY <1>2, CutStep
<1>3. CASE NothingLeft
  <2>1. /\ sending = "cutting" /\ sending' = "cut" /\ text' = text /\ remaining' = remaining
        /\ remaining = <<>> /\ chunks' = chunks /\ begins' = begins
    BY <1>3 DEF NothingLeft
  <2>2. SplitInv' /\ Rest'
    BY <2>1 DEF SplitInv, Rest
  <2>3. ChunksWhole'
    <3>1. sending # "new"
      BY <2>1
    <3> QED
      BY <2>1, <3>1, ChunksStay
  <2> QED
    BY <2>2, <2>3
<1>4. CASE UNCHANGED splitVars
  <2>1. /\ text' = text /\ remaining' = remaining /\ chunks' = chunks
        /\ begins' = begins /\ sending' = sending
    BY <1>4 DEF splitVars
  <2>2. SplitInv' /\ Rest'
    BY <2>1, Zenon DEF SplitInv, Rest, Visible
  <2>3. ChunksWhole'
    BY <2>1, ChunksStay
  <2> QED
    BY <2>2, <2>3
<1> QED
  BY <1>1, <1>2, <1>3, <1>4 DEF SplitNext

\* Whatever the text and the limit: the chunks sent are the text, in order and without
\* its blanks at the cuts (_split_message, app/interfaces/telegram_sender.py).
THEOREM CutsWhole == SplitSpec => []ChunksWhole
<1> DEFINE I == SplitInv /\ Rest /\ ChunksWhole
<1>1. SplitInit => I
  BY SplitStart
<1>2. I /\ [SplitNext]_splitVars => I'
  BY SplitStep
<1> QED
  BY <1>1, <1>2, PTL DEF SplitSpec

\* Whatever the text: no chunk is longer than MAX_MESSAGE_LENGTH, which Telegram would
\* refuse, and what is still to be cut is no longer than the text.
THEOREM SplitTyped == SplitSpec => []SplitTypeOK
<1> DEFINE I == SplitInv /\ Rest /\ Len(text) <= MaxText
<1>1. SplitInit => I
  <2> SUFFICES ASSUME SplitInit PROVE Len(text) <= MaxText
    BY SplitStart
  <2>1. PICK n \in 0 .. MaxText : text \in [1 .. n -> Characters]
    BY DEF SplitInit, BoundedSeq, SeqOf
  <2> QED
    BY <2>1, SplitAssumption
<1>2. I /\ ChunksWhole /\ [SplitNext]_splitVars => I'
  <2>1. [SplitNext]_splitVars => text' = text
    BY DEF SplitNext, SendMessage, SplitMessage, NothingLeft, splitVars
  <2> QED
    BY <2>1, SplitStep
<1>3. I /\ ChunksWhole => SplitTypeOK
  <2> SUFFICES ASSUME SplitInv, Rest, ChunksWhole, Len(text) <= MaxText PROVE SplitTypeOK
    OBVIOUS
  <2>1. \A n \in Nat : \A s \in Seq(Characters) : Len(s) <= n => s \in BoundedSeq(Characters, n)
    <3> SUFFICES ASSUME NEW n \in Nat, NEW s \in Seq(Characters), Len(s) <= n
        PROVE  s \in BoundedSeq(Characters, n)
      OBVIOUS
    <3>1. Len(s) \in 0 .. n /\ s \in [1 .. Len(s) -> Characters]
      OBVIOUS
    <3> QED
      BY <3>1 DEF BoundedSeq, SeqOf
  <2>2. {text, remaining} \subseteq BoundedSeq(Characters, MaxText)
    <3>1. Len(text) \in Nat /\ Len(remaining) \in Nat /\ Len(remaining) <= MaxText
      BY SplitAssumption DEF SplitInv, Rest
    <3> QED
      BY <2>1, <3>1, SplitAssumption DEF SplitInv
  <2>3. chunks \in Seq(BoundedSeq(Characters, Limit))
    <3>1. \A i \in DOMAIN chunks : chunks[i] \in Seq(Characters) /\ Len(chunks[i]) <= Limit
      BY DEF SplitInv, ChunksWhole
    <3>2. \A i \in DOMAIN chunks : chunks[i] \in BoundedSeq(Characters, Limit)
      BY <2>1, <3>1, SplitAssumption
    <3>3. chunks \in Seq(Seq(Characters))
      BY DEF SplitInv
    <3> QED
      BY <3>2, <3>3
  <2> QED
    BY <2>2, <2>3 DEF SplitInv, SplitTypeOK
<1> QED
  BY <1>1, <1>2, <1>3, CutsWhole, PTL DEF SplitSpec

-----------------------------------------------------------------------------
(* What the model is shown.  Sizes are compared by the sums of the sizes   *)
(* before each message; what is kept of a transcript is always its newest  *)
(* messages, with the budget less their sizes.                             *)

Sized(s) == Len(s) \in Nat /\ \A i \in 1 .. Len(s) : s[i].size \in Nat

\* The sum of the first i sizes, for each i.
Sums(sum, s) ==
  /\ \A i \in 0 .. Len(s) : sum[i] \in Nat
  /\ sum[0] = 0
  /\ \A i \in 1 .. Len(s) : sum[i] = sum[i - 1] + s[i].size

LEMMA SizeOfSums ==
  ASSUME NEW s, Sized(s)
  PROVE  \E sum : Sums(sum, s) /\ SizeOf(s) = sum[Len(s)]
<1> DEFINE step == [i \in 1 .. Len(s) |-> [x \in Nat |-> x + s[i].size]]
           F(g) == [i \in 0 .. Len(s) |-> IF i = 0 THEN 0 ELSE g[i - 1] + s[i].size]
<1>1. Len(s) \in Nat /\ \A i \in 1 .. Len(s) : s[i].size \in Nat
  BY DEF Sized
<1> HIDE DEF step, F
<1>2. step \in [1 .. Len(s) -> [Nat -> Nat]]
  BY <1>1 DEF step
<1>3. PICK f : Iterates(f, Len(s), Nat, 0, step)
  BY <1>1, <1>2, RecursionExists
<1>4. f = F(f)
  <2>1. ASSUME NEW i \in 1 .. Len(s) PROVE f[i] = f[i - 1] + s[i].size
    <3>1. f[i] = step[i][f[i - 1]] /\ f[i - 1] \in Nat
      <4>1. i - 1 \in 0 .. Len(s)
        BY <1>1
      <4> QED
        BY <1>3, <4>1 DEF Iterates
    <3> QED
      BY <3>1 DEF step
  <2> QED
    BY <1>3, <2>1 DEF F, Iterates
<1> DEFINE sum == CHOOSE g : g = F(g)
<1>5. sum = F(sum)
  BY <1>4
<1>6. SizeOf(s) = sum[Len(s)]
  BY DEF SizeOf, F
<1> HIDE DEF sum
<1>7. sum[0] = 0 /\ \A i \in 1 .. Len(s) : sum[i] = sum[i - 1] + s[i].size
  BY <1>1, <1>5 DEF F
<1>8. \A n \in 0 .. Len(s) : n \in {m \in 0 .. Len(s) : sum[m] \in Nat}
  <2> DEFINE S == {m \in 0 .. Len(s) : sum[m] \in Nat}
  <2>1. 0 \in S
    BY <1>1, <1>7
  <2>2. \A n \in 0 .. Len(s) - 1 : n \in S => n + 1 \in S
    <3> SUFFICES ASSUME NEW n \in 0 .. Len(s) - 1, n \in S PROVE sum[n + 1] \in Nat
      BY <1>1
    <3>1. n + 1 \in 1 .. Len(s) /\ (n + 1) - 1 = n /\ sum[n] \in Nat
      BY <1>1
    <3>2. sum[n + 1] = sum[n] + s[n + 1].size
      BY <1>7, <3>1
    <3> QED
      BY <1>1, <3>1, <3>2
  <2> HIDE DEF S
  <2> QED
    BY <1>1, <2>1, <2>2, Induction DEF S
<1> QED
  BY <1>6, <1>7, <1>8 DEF Sums

\* The size of a part is the difference of two sums.
PartOf(t, s, a) ==
  Len(t) \in Nat /\ a + Len(t) <= Len(s) /\ \A i \in 1 .. Len(t) : t[i] = s[a + i]

LEMMA SizeOfPart ==
  ASSUME NEW s, Sized(s), NEW sum, Sums(sum, s), NEW t, NEW a \in Nat, PartOf(t, s, a)
  PROVE  SizeOf(t) = sum[a + Len(t)] - sum[a]
<1>1. Len(t) \in Nat /\ a + Len(t) <= Len(s) /\ \A i \in 1 .. Len(t) : t[i] = s[a + i]
  BY DEF PartOf
<1>2. Len(s) \in Nat /\ \A i \in 1 .. Len(s) : s[i].size \in Nat
  BY DEF Sized
<1>3. Sized(t)
  <2> SUFFICES ASSUME NEW i \in 1 .. Len(t) PROVE t[i].size \in Nat
    BY DEF Sized
  <2>1. a + i \in 1 .. Len(s) /\ t[i] = s[a + i]
    BY <1>1, <1>2
  <2> QED
    BY <1>1, <1>2, <2>1
<1>4. PICK part : Sums(part, t) /\ SizeOf(t) = part[Len(t)]
  BY <1>3, SizeOfSums
<1> DEFINE S == {i \in 0 .. Len(t) : part[i] = sum[a + i] - sum[a]}
<1>5. \A i \in 0 .. Len(t) : sum[a + i] \in Nat /\ part[i] \in Nat
  <2> SUFFICES ASSUME NEW i \in 0 .. Len(t) PROVE sum[a + i] \in Nat /\ part[i] \in Nat
    OBVIOUS
  <2>1. a + i \in 0 .. Len(s)
    BY <1>1, <1>2
  <2> QED
    BY <1>1, <1>4, <2>1 DEF Sums
<1>6. 0 \in S
  <2>1. part[0] = 0 /\ a + 0 = a
    BY <1>4 DEF Sums
  <2>2. 0 \in 0 .. Len(t) /\ sum[a] \in Nat
    BY <1>1, <1>5, <2>1
  <2> QED
    BY <2>1, <2>2
<1>7. \A i \in 0 .. Len(t) - 1 : i \in S => i + 1 \in S
  <2> SUFFICES ASSUME NEW i \in 0 .. Len(t) - 1, part[i] = sum[a + i] - sum[a]
               PROVE  part[i + 1] = sum[a + (i + 1)] - sum[a] /\ i + 1 \in 0 .. Len(t)
    BY <1>1
  <2>1. i + 1 \in 1 .. Len(t) /\ a + (i + 1) \in 1 .. Len(s)
    BY <1>1, <1>2
  <2>2. part[i + 1] = part[i] + t[i + 1].size
    BY <1>1, <1>4, <2>1 DEF Sums
  <2>3. sum[a + (i + 1)] = sum[a + i] + s[a + (i + 1)].size
    <3>1. sum[a + (i + 1)] = sum[(a + (i + 1)) - 1] + s[a + (i + 1)].size
      BY <2>1 DEF Sums
    <3>2. (a + (i + 1)) - 1 = a + i
      OBVIOUS
    <3> QED
      BY <3>1, <3>2
  <2>4. t[i + 1] = s[a + (i + 1)] /\ s[a + (i + 1)].size \in Nat
    BY <1>1, <1>2, <2>1
  <2>5. sum[a + i] \in Nat /\ sum[a] \in Nat
    <3>1. i \in 0 .. Len(t) /\ 0 \in 0 .. Len(t) /\ a + 0 = a
      OBVIOUS
    <3> QED
      BY <1>5, <3>1
  <2> QED
    BY <2>1, <2>2, <2>3, <2>4, <2>5
<1> HIDE DEF S
<1>8. Len(t) \in S
  <2>1. \A i \in 0 .. Len(t) : i \in S
    BY <1>1, <1>6, <1>7, Induction
  <2> QED
    BY <1>1, <2>1
<1>9. part[Len(t)] \in Nat
  BY <1>1, <1>5
<1> QED
  BY <1>4, <1>8, <1>9 DEF S

\* With more messages the sum does not fall.
LEMMA SumsGrow ==
  ASSUME NEW s, Sized(s), NEW sum, Sums(sum, s), NEW a \in 0 .. Len(s), NEW b \in a .. Len(s)
  PROVE  sum[a] <= sum[b]
<1> DEFINE S == {i \in 0 .. Len(s) - a : sum[a] <= sum[a + i]}
<1>1. Len(s) \in Nat /\ a \in Nat /\ Len(s) - a \in Nat /\ \A i \in 1 .. Len(s) : s[i].size \in Nat
  BY DEF Sized
<1>2. 0 \in S
  <2>1. sum[a] \in Nat /\ a + 0 = a
    BY <1>1 DEF Sums
  <2> QED
    BY <1>1, <2>1
<1>3. \A i \in 0 .. (Len(s) - a) - 1 : i \in S => i + 1 \in S
  <2> SUFFICES ASSUME NEW i \in 0 .. (Len(s) - a) - 1, sum[a] <= sum[a + i]
               PROVE  sum[a] <= sum[a + (i + 1)] /\ i + 1 \in 0 .. Len(s) - a
    OBVIOUS
  <2>1. a + (i + 1) \in 1 .. Len(s) /\ (a + (i + 1)) - 1 = a + i /\ a + i \in 0 .. Len(s)
    BY <1>1
  <2>2. sum[a + (i + 1)] = sum[(a + (i + 1)) - 1] + s[a + (i + 1)].size
    BY <2>1 DEF Sums
  <2>3. sum[a] \in Nat /\ sum[a + i] \in Nat /\ s[a + (i + 1)].size \in Nat
    BY <1>1, <2>1 DEF Sums
  <2>4. sum[a + (i + 1)] = sum[a + i] + s[a + (i + 1)].size
    BY <2>1, <2>2
  <2> QED
    BY <1>1, <2>3, <2>4
<1> HIDE DEF S
<1>4. \A i \in 0 .. Len(s) - a : i \in S
  BY <1>1, <1>2, <1>3, Induction
<1>5. b - a \in 0 .. Len(s) - a /\ a + (b - a) = b
  BY <1>1
<1>6. b - a \in S
  BY <1>4, <1>5
<1> QED
  BY <1>5, <1>6 DEF S

\* What is kept after the newest i messages were looked at: the newest k of them, all
\* of them unless one did not fit.
Window == [left : Int, full : BOOLEAN, messages : Seq(StoredMessage)]

Kept(kept, i, k, messages, budget, sum) ==
  LET n == Len(messages) IN
  /\ kept \in Window
  /\ k \in 0 .. i
  /\ kept.messages = SubSeq(messages, n - k + 1, n)
  /\ kept.left = budget - (sum[n] - sum[n - k])
  /\ k > 0 => kept.left >= 0
  /\ ~kept.full => k = i
  /\ kept.full => k < n /\ messages[n - k].size > kept.left

LEMMA StoredAreSized ==
  ASSUME NEW s \in Seq(StoredMessage)
  PROVE  Sized(s)
<1>1. \A i \in 1 .. Len(s) : s[i] \in StoredMessage
  OBVIOUS
<1>2. \A m \in StoredMessage : m.size \in Nat
  BY ContextAssumption DEF StoredMessage
<1>3. Len(s) \in Nat
  OBVIOUS
<1> QED
  BY <1>1, <1>2, <1>3 DEF Sized

LEMMA Spent ==
  ASSUME NEW b \in Int, NEW x \in Int, NEW y \in Int, NEW z \in Int, NEW q \in Int, y = z + q
  PROVE  (b - (x - y)) - q = b - (x - z)
OBVIOUS

\* The window after a message that no longer fits: what was kept, marked full.
LEMMA FullKept ==
  ASSUME NEW messages, NEW budget, NEW sum, NEW n \in Nat, n = Len(messages),
         NEW i \in Nat, NEW k \in 0 .. i, NEW left \in Int, NEW texts \in Seq(StoredMessage),
         texts = SubSeq(messages, n - k + 1, n),
         left = budget - (sum[n] - sum[n - k]),
         k > 0 => left >= 0,
         k < n /\ messages[n - k].size > left
  PROVE  Kept([left |-> left, full |-> TRUE, messages |-> texts], i + 1, k, messages, budget, sum)
<1>1. PICK r \in Window : r = [left |-> left, full |-> TRUE, messages |-> texts]
  BY DEF Window
<1>2. r.left = left /\ r.full = TRUE /\ r.messages = texts
  BY <1>1
<1>3. k \in 0 .. i + 1
  OBVIOUS
<1>4. Kept(r, i + 1, k, messages, budget, sum)
  BY <1>2, <1>3 DEF Kept
<1> QED
  BY <1>1, <1>4

LEMMA TakeKeeps ==
  ASSUME NEW messages \in Seq(StoredMessage), NEW budget \in Int, NEW sum, Sums(sum, messages),
         NEW i \in 0 .. Len(messages) - 1, NEW k, NEW kept,
         Kept(kept, i, k, messages, budget, sum)
  PROVE  \E l : Kept(Take(messages[Len(messages) - (i + 1) + 1], kept), i + 1, l, messages, budget, sum)
<1>1. PICK n \in Nat : n = Len(messages)
  OBVIOUS
<1>2. PICK j \in 1 .. n : j = n - i /\ j = Len(messages) - (i + 1) + 1
  BY <1>1
<1>3. PICK m \in StoredMessage : m = messages[j]
  BY <1>1
<1>4. m.size \in Nat
  BY ContextAssumption DEF StoredMessage
<1>5. PICK left \in Int, full \in BOOLEAN, texts \in Seq(StoredMessage) :
        kept = [left |-> left, full |-> full, messages |-> texts]
  <2>1. kept \in Window
    BY DEF Kept
  <2> QED
    BY <2>1 DEF Window
<1>6. /\ k \in 0 .. i /\ k \in 0 .. n
      /\ texts = SubSeq(messages, n - k + 1, n)
      /\ left = budget - (sum[n] - sum[n - k])
      /\ k > 0 => left >= 0
      /\ ~full => k = i
      /\ full => k < n /\ messages[n - k].size > left
  BY <1>1, <1>5 DEF Kept
<1>7. \A l \in 0 .. n : sum[l] \in Nat
  BY <1>1 DEF Sums
<1> SUFFICES \E l : Kept(Take(m, kept), i + 1, l, messages, budget, sum)
  BY <1>2, <1>3
<1>8. CASE full
  <2>1. Take(m, kept) = [left |-> left, full |-> TRUE, messages |-> texts]
    BY <1>5, <1>8 DEF Take
  <2>2. Kept([left |-> left, full |-> TRUE, messages |-> texts], i + 1, k, messages, budget, sum)
    <3>1. n \in Nat /\ n = Len(messages) /\ i \in Nat /\ k \in 0 .. i
      BY <1>1, <1>6
    <3>2. left \in Int /\ texts \in Seq(StoredMessage)
      BY <1>5
    <3>3. k < n /\ messages[n - k].size > left
      BY <1>6, <1>8
    <3> QED
      BY <1>6, <3>1, <3>2, <3>3, FullKept
  <2> QED
    BY <2>1, <2>2
<1>9. CASE ~full /\ m.size > left
  <2>1. Take(m, kept) = [left |-> left, full |-> TRUE, messages |-> texts]
    BY <1>5, <1>9 DEF Take
  <2>2. k = i /\ k < n /\ messages[n - k].size > left
    BY <1>1, <1>2, <1>3, <1>6, <1>9
  <2>3. Kept([left |-> left, full |-> TRUE, messages |-> texts], i + 1, k, messages, budget, sum)
    <3>1. n \in Nat /\ n = Len(messages) /\ i \in Nat /\ k \in 0 .. i
      BY <1>1, <1>6
    <3>2. left \in Int /\ texts \in Seq(StoredMessage)
      BY <1>5
    <3>3. k < n /\ messages[n - k].size > left
      BY <1>6, <2>2
    <3> QED
      BY <1>6, <3>1, <3>2, <3>3, FullKept
  <2> QED
    BY <2>1, <2>3
<1>10. CASE ~full /\ ~(m.size > left)
  <2>1. Take(m, kept) = [left |-> left - m.size, full |-> FALSE, messages |-> <<m>> \o texts]
    BY <1>5, <1>10 DEF Take
  <2>2. k = i /\ n - k = j /\ n - (k + 1) = j - 1 /\ j - 1 \in 0 .. n /\ j \in 0 .. n
    <3>1. k = i /\ i \in Nat
      BY <1>6, <1>10
    <3> QED
      BY <1>2, <3>1
  <2>3. sum[j] = sum[j - 1] + m.size
    BY <1>1, <1>2, <1>3 DEF Sums
  <2>4. left - m.size = budget - (sum[n] - sum[j - 1])
    <3>1. sum[n] \in Nat /\ sum[j] \in Nat /\ sum[j - 1] \in Nat
      BY <1>7, <2>2
    <3>2. left = budget - (sum[n] - sum[j])
      BY <1>6, <2>2
    <3>3. PICK x \in Nat, y \in Nat, z \in Nat : x = sum[n] /\ y = sum[j] /\ z = sum[j - 1]
      BY <3>1
    <3>4. left = budget - (x - y) /\ y = z + m.size
      BY <2>3, <3>2, <3>3
    <3>5. PICK q \in Nat : q = m.size
      BY <1>4
    <3>6. y = z + q
      BY <3>4, <3>5
    <3>7. left - q = budget - (x - z)
      <4>1. left = budget - (x - y)
        BY <3>4
      <4>2. (budget - (x - y)) - q = budget - (x - z)
        BY <3>6, Spent
      <4> QED
        BY <4>1, <4>2
    <3> QED
      BY <3>3, <3>5, <3>7
  <2>5. <<m>> \o texts = SubSeq(messages, j, n)
    <3>1. texts = SubSeq(messages, j + 1, n)
      BY <1>6, <2>2
    <3>2. /\ texts \in Seq(StoredMessage) /\ Len(texts) = n - j
          /\ \A l \in 1 .. n - j : texts[l] = messages[j + l]
      BY <1>1, <1>2, <3>1
    <3>3. PICK r \in Nat : r = n - j
      BY <1>2
    <3>4. /\ <<m>> \o texts \in Seq(StoredMessage) /\ Len(<<m>> \o texts) = r + 1
          /\ \A l \in 1 .. r + 1 : (<<m>> \o texts)[l] = IF l = 1 THEN m ELSE texts[l - 1]
      <4>1. texts \in Seq(StoredMessage) /\ Len(texts) = r
        BY <3>2, <3>3
      <4>2. /\ <<m>> \o texts \in Seq(StoredMessage) /\ Len(<<m>> \o texts) = Len(texts) + 1
            /\ \A l \in 1 .. Len(texts) + 1 : (<<m>> \o texts)[l] = IF l = 1 THEN m ELSE texts[l - 1]
        BY <1>3, <4>1, Prepended, SMTT(30)
      <4> QED
        BY <4>1, <4>2
    <3>5. /\ SubSeq(messages, j, n) \in Seq(StoredMessage) /\ Len(SubSeq(messages, j, n)) = r + 1
          /\ \A l \in 1 .. r + 1 : SubSeq(messages, j, n)[l] = messages[j + l - 1]
      <4>1. j \in Nat /\ j >= 1 /\ j <= n + 1 /\ n <= Len(messages) /\ n - j + 1 = r + 1
        BY <1>1, <1>2, <3>3
      <4> QED
        BY <4>1, PartElements
    <3>6. \A l \in 1 .. r + 1 : (IF l = 1 THEN m ELSE texts[l - 1]) = messages[j + l - 1]
      <4> SUFFICES ASSUME NEW l \in 1 .. r + 1
                   PROVE  (IF l = 1 THEN m ELSE texts[l - 1]) = messages[j + l - 1]
        OBVIOUS
      <4>1. CASE l = 1
        BY <1>3, <4>1
      <4>2. CASE l # 1
        <5>1. l - 1 \in 1 .. n - j /\ j + (l - 1) = j + l - 1
          BY <3>3, <4>2
        <5> QED
          BY <3>2, <4>2, <5>1
      <4> QED
        BY <4>1, <4>2
    <3>7. \A u, v \in Seq(StoredMessage) :
            Len(u) = Len(v) /\ (\A l \in 1 .. Len(u) : u[l] = v[l]) => u = v
      OBVIOUS
    <3> DEFINE u == <<m>> \o texts
               v == SubSeq(messages, j, n)
    <3>8. /\ u \in Seq(StoredMessage) /\ Len(u) = r + 1
          /\ v \in Seq(StoredMessage) /\ Len(v) = r + 1
          /\ \A l \in 1 .. r + 1 : u[l] = v[l]
      BY <3>4, <3>5, <3>6
    <3> HIDE DEF u, v
    <3>9. u = v
      BY <3>7, <3>8
    <3> QED
      BY <3>9 DEF u, v
  <2>6. <<m>> \o texts \in Seq(StoredMessage) /\ left - m.size \in Int /\ left - m.size >= 0
    BY <1>3, <1>4, <1>10
  <2>7. k + 1 \in 0 .. i + 1 /\ n - (k + 1) + 1 = j /\ k + 1 = i + 1
    BY <1>6, <2>2
  <2>8. Kept([left |-> left - m.size, full |-> FALSE, messages |-> <<m>> \o texts],
             i + 1, k + 1, messages, budget, sum)
    BY <1>1, <2>2, <2>4, <2>5, <2>6, <2>7 DEF Kept, Window
  <2> QED
    BY <2>1, <2>8
<1> QED
  BY <1>8, <1>9, <1>10

\* Of a transcript the newest messages are kept, as many as the budget has room for.
LEMMA TruncateKeepsNewest ==
  ASSUME NEW messages \in Seq(StoredMessage), NEW budget \in Int, NEW sum, Sums(sum, messages)
  PROVE  \E k \in 0 .. Len(messages) :
           LET n == Len(messages) IN
           /\ Truncate(messages, budget) = SubSeq(messages, n - k + 1, n)
           /\ k > 0 => sum[n] - sum[n - k] <= budget
           /\ k < n => sum[n] - sum[n - k - 1] > budget
<1>1. PICK n \in Nat : n = Len(messages)
  OBVIOUS
<1> DEFINE begin == [left |-> budget, full |-> FALSE, messages |-> <<>>]
           step == [i \in 1 .. n |-> [w \in Window |-> Take(messages[n - i + 1], w)]]
           F(g) == [i \in 0 .. n |-> IF i = 0 THEN begin ELSE Take(messages[n - i + 1], g[i - 1])]
<1>2. begin \in Window
  BY DEF Window
<1>3. ASSUME NEW i \in 1 .. n, NEW w \in Window PROVE Take(messages[n - i + 1], w) \in Window
  <2>1. PICK m \in StoredMessage : m = messages[n - i + 1]
    BY <1>1
  <2>2. m.size \in Nat
    BY ContextAssumption DEF StoredMessage
  <2>3. PICK left \in Int, full \in BOOLEAN, texts \in Seq(StoredMessage) :
          w = [left |-> left, full |-> full, messages |-> texts]
    BY DEF Window
  <2>4. Take(m, w) \in {[left |-> left, full |-> TRUE, messages |-> texts],
                        [left |-> left - m.size, full |-> full, messages |-> <<m>> \o texts]}
    BY <2>3 DEF Take
  <2>5. <<m>> \o texts \in Seq(StoredMessage) /\ left - m.size \in Int
    BY <2>2
  <2>6. /\ [left |-> left, full |-> TRUE, messages |-> texts] \in Window
        /\ [left |-> left - m.size, full |-> full, messages |-> <<m>> \o texts] \in Window
    BY <2>5 DEF Window
  <2>7. Take(m, w) \in Window
    BY <2>4, <2>6
  <2> QED
    BY <2>1, <2>7
<1> HIDE DEF begin, step, F
<1>4. step \in [1 .. n -> [Window -> Window]]
  BY <1>3 DEF step
<1>5. PICK f : Iterates(f, n, Window, begin, step)
  BY <1>2, <1>4, RecursionExists
<1>6. f = F(f)
  <2>1. ASSUME NEW i \in 1 .. n PROVE f[i] = Take(messages[n - i + 1], f[i - 1])
    <3>1. f[i] = step[i][f[i - 1]] /\ f[i - 1] \in Window
      BY <1>5 DEF Iterates
    <3> QED
      BY <3>1 DEF step
  <2> QED
    BY <1>5, <2>1 DEF F, Iterates
<1> DEFINE kept == CHOOSE g : g = F(g)
<1>7. kept = F(kept)
  BY <1>6
<1>8. Truncate(messages, budget) = kept[n].messages
  BY <1>1 DEF Truncate, F, begin
<1> HIDE DEF kept
<1>9. kept[0] = begin /\ \A i \in 1 .. n : kept[i] = Take(messages[n - i + 1], kept[i - 1])
  BY <1>7 DEF F
<1> DEFINE S == {i \in 0 .. n : \E k : Kept(kept[i], i, k, messages, budget, sum)}
<1>10. 0 \in S
  <2>1. sum[n] \in Nat /\ sum[n - 0] = sum[n]
    BY <1>1 DEF Sums
  <2>2. budget = budget - (sum[n] - sum[n - 0])
    BY <2>1
  <2>3. <<>> = SubSeq(messages, n - 0 + 1, n)
    BY <1>1
  <2>4. Kept(begin, 0, 0, messages, budget, sum)
    BY <1>1, <1>2, <2>2, <2>3 DEF Kept, begin
  <2> QED
    BY <1>9, <2>4
<1>11. \A i \in 0 .. n - 1 : i \in S => i + 1 \in S
  <2> SUFFICES ASSUME NEW i \in 0 .. n - 1, i \in S PROVE i + 1 \in S
    OBVIOUS
  <2>1. PICK k : Kept(kept[i], i, k, messages, budget, sum)
    OBVIOUS
  <2>2. i + 1 \in 1 .. n /\ (i + 1) - 1 = i /\ i + 1 \in 0 .. n
    OBVIOUS
  <2>3. kept[i + 1] = Take(messages[n - (i + 1) + 1], kept[i])
    BY <1>9, <2>2
  <2>4. \E l : Kept(kept[i + 1], i + 1, l, messages, budget, sum)
    BY <1>1, <2>1, <2>3, TakeKeeps
  <2> QED
    BY <2>2, <2>4
<1> HIDE DEF S
<1>12. n \in S
  <2>1. \A i \in 0 .. n : i \in S
    BY <1>10, <1>11, Induction
  <2> QED
    BY <2>1
<1>13. PICK k : Kept(kept[n], n, k, messages, budget, sum)
  BY <1>12 DEF S
<1>14. /\ k \in 0 .. n /\ kept[n].messages = SubSeq(messages, n - k + 1, n)
       /\ kept[n].left = budget - (sum[n] - sum[n - k])
       /\ k > 0 => kept[n].left >= 0
       /\ k < n => messages[n - k].size > kept[n].left
  <2>1. kept[n].full \/ ~kept[n].full
    OBVIOUS
  <2> QED
    BY <1>1, <1>13, <2>1 DEF Kept
<1>15. \A l \in 0 .. n : sum[l] \in Nat
  BY <1>1 DEF Sums
<1>16. k > 0 => sum[n] - sum[n - k] <= budget
  <2>1. PICK x \in Nat, y \in Nat : x = sum[n] /\ y = sum[n - k]
    BY <1>14, <1>15
  <2>2. k > 0 => budget - (x - y) >= 0
    BY <1>14, <2>1
  <2>3. k > 0 => x - y <= budget
    BY <2>2
  <2> QED
    BY <2>1, <2>3
<1>17. k < n => sum[n] - sum[n - k - 1] > budget
  <2> SUFFICES ASSUME k < n PROVE sum[n] - sum[n - k - 1] > budget
    OBVIOUS
  <2>1. PICK j \in 1 .. n : j = n - k /\ j - 1 = n - k - 1
    BY <1>14
  <2>2. PICK x \in Nat, y \in Nat, z \in Nat : x = sum[n] /\ y = sum[j] /\ z = sum[j - 1]
    BY <1>15, <2>1
  <2>3. PICK m \in StoredMessage : m = messages[j]
    BY <1>1
  <2>4. m.size \in Nat
    BY ContextAssumption DEF StoredMessage
  <2>5. y = z + m.size
    BY <1>1, <2>2, <2>3 DEF Sums
  <2>6. m.size > budget - (x - y)
    BY <1>14, <2>1, <2>2, <2>3
  <2>7. x - z > budget
    BY <2>4, <2>5, <2>6, SMTT(30)
  <2> QED
    BY <2>1, <2>2, <2>7
<1> QED
  BY <1>1, <1>8, <1>14, <1>16, <1>17

LEMMA LastOfStored ==
  ASSUME NEW stored \in Seq(StoredMessage), stored # <<>>
  PROVE  \E from \in 1 .. Len(stored) : LastOf(stored) = SubSeq(stored, from, Len(stored))
<1>1. PICK n \in Nat : n = Len(stored) /\ n >= 1
  OBVIOUS
<1>2. PICK b \in Int : b = n - MaxMessages + 1 /\ b <= n
  <2>1. MaxMessages \in Nat /\ MaxMessages >= 1
    BY ContextAssumption
  <2> QED
    BY <1>1, <2>1
<1>3. PICK from : from \in {1, b} /\ from >= 1 /\ from >= b
  <2>1. CASE b >= 1
    BY <2>1
  <2>2. CASE ~(b >= 1)
    <3>1. 1 \in {1, b} /\ 1 >= 1 /\ 1 >= b
      BY <2>2
    <3> QED
      BY <3>1
  <2> QED
    BY <2>1, <2>2
<1>4. Max({1, b}) = from
  <2>1. \E y \in {1, b} : \A x \in {1, b} : y >= x
    BY <1>3
  <2>2. Max({1, b}) \in {1, b} /\ \A x \in {1, b} : Max({1, b}) >= x
    BY <2>1, Zenon DEF Max
  <2> QED
    BY <1>3, <2>2
<1>5. from \in 1 .. n
  BY <1>1, <1>2, <1>3
<1> QED
  BY <1>1, <1>2, <1>4, <1>5 DEF LastOf

LEMMA NewestShown ==
  ASSUME NEW stored \in Seq(StoredMessage), stored # <<>>, NEW budget \in Int
  PROVE  \E k \in 0 .. Len(LastOf(stored)) :
           LET Newest(j) == SubSeq(stored, Len(stored) - j + 1, Len(stored)) IN
           /\ Truncate(LastOf(stored), budget) = Newest(k) /\ Len(Newest(k)) = k
           /\ Fits(Newest(k), budget)
           /\ \A j \in k + 1 .. Len(LastOf(stored)) : ~Fits(Newest(j), budget)
<1>1. PICK N \in Nat : N = Len(stored)
  OBVIOUS
<1>2. PICK from \in 1 .. N : LastOf(stored) = SubSeq(stored, from, N)
  BY <1>1, LastOfStored
<1>3. PICK n \in Nat : n = N - from + 1
  OBVIOUS
<1>4. PICK t : t = LastOf(stored)
  OBVIOUS
<1>5. /\ t \in Seq(StoredMessage) /\ Len(t) = n
      /\ \A i \in 1 .. n : t[i] = stored[from + i - 1]
  BY <1>1, <1>2, <1>3, <1>4
<1>6. PICK sum : Sums(sum, t)
  BY <1>5, StoredAreSized, SizeOfSums
<1>7. PICK k \in 0 .. n :
        /\ Truncate(t, budget) = SubSeq(t, n - k + 1, n)
        /\ k > 0 => sum[n] - sum[n - k] <= budget
        /\ k < n => sum[n] - sum[n - k - 1] > budget
  BY <1>5, <1>6, TruncateKeepsNewest
<1> DEFINE Newest(j) == SubSeq(stored, N - j + 1, N)
<1>8. ASSUME NEW j \in 0 .. n
      PROVE  /\ Newest(j) = SubSeq(t, n - j + 1, n) /\ Len(Newest(j)) = j
             /\ SizeOf(Newest(j)) = sum[n] - sum[n - j]
  <2>1. PICK a \in Nat : a = n - j /\ a + j = n
    <3>1. n - j \in Nat /\ (n - j) + j = n
      OBVIOUS
    <3> QED
      BY <3>1
  <2>2. N - j + 1 \in 1 .. N + 1 /\ n - j + 1 \in 1 .. n + 1
    BY <1>3
  <2>3. /\ SubSeq(t, n - j + 1, n) \in Seq(StoredMessage) /\ Len(SubSeq(t, n - j + 1, n)) = j
        /\ \A i \in 1 .. j : SubSeq(t, n - j + 1, n)[i] = t[a + i]
    BY <1>5, <2>1, <2>2
  <2>4. /\ Newest(j) \in Seq(StoredMessage) /\ Len(Newest(j)) = j
        /\ \A i \in 1 .. j : Newest(j)[i] = stored[N - j + i]
    BY <1>1, <2>2
  <2>5. \A i \in 1 .. j : t[a + i] = stored[N - j + i]
    <3> SUFFICES ASSUME NEW i \in 1 .. j PROVE t[a + i] = stored[N - j + i]
      OBVIOUS
    <3>1. a + i \in 1 .. n /\ from + (a + i) - 1 = N - j + i
      BY <1>3, <2>1
    <3> QED
      BY <1>5, <3>1
  <2>6. \A u, v \in Seq(StoredMessage) :
          Len(u) = Len(v) /\ (\A l \in 1 .. Len(u) : u[l] = v[l]) => u = v
    OBVIOUS
  <2> DEFINE u == SubSeq(t, n - j + 1, n)
             v == Newest(j)
  <2>7. /\ u \in Seq(StoredMessage) /\ Len(u) = j /\ v \in Seq(StoredMessage) /\ Len(v) = j
        /\ \A i \in 1 .. j : u[i] = v[i] /\ u[i] = t[a + i]
    BY <2>3, <2>4, <2>5
  <2> HIDE DEF u, v
  <2>8. v = u
    BY <2>6, <2>7
  <2>9. SizeOf(u) = sum[a + j] - sum[a]
    <3>1. Sized(t) /\ a + Len(u) <= Len(t) /\ Len(u) \in Nat
      BY <1>5, <2>1, <2>7, StoredAreSized
    <3>2. Len(u) = j
      BY <2>7
    <3>3. PartOf(u, t, a)
      BY <2>7, <3>1 DEF PartOf
    <3>4. SizeOf(u) = sum[a + Len(u)] - sum[a]
      BY <1>6, <3>1, <3>3, SizeOfPart
    <3> QED
      BY <3>2, <3>4
  <2> QED
    BY <2>1, <2>7, <2>8, <2>9 DEF u, v
<1>9. \A l \in 0 .. n : sum[l] \in Nat
  BY <1>5, <1>6 DEF Sums
<1>10. Fits(Newest(k), budget)
  <2>1. Len(Newest(k)) = k /\ SizeOf(Newest(k)) = sum[n] - sum[n - k]
    BY <1>8
  <2>2. CASE k = 0
    <3>1. Newest(k) = <<>>
      BY <1>1, <2>2
    <3> QED
      BY <3>1 DEF Fits
  <2>3. CASE k > 0
    <3>1. sum[n] - sum[n - k] <= budget
      BY <1>7, <2>3
    <3> HIDE DEF Newest
    <3>2. SizeOf(Newest(k)) <= budget
      BY <2>1, <3>1
    <3> QED
      BY <3>2 DEF Fits
  <2> QED
    BY <2>2, <2>3
<1>11. ASSUME NEW j \in k + 1 .. n PROVE ~Fits(Newest(j), budget)
  <2>1. j \in 0 .. n /\ k < n /\ j > 0
    OBVIOUS
  <2>2. Len(Newest(j)) = j /\ SizeOf(Newest(j)) = sum[n] - sum[n - j]
    BY <1>8, <2>1
  <2>3. PICK a \in 0 .. n : a = n - j
    BY <2>1
  <2>4. PICK b \in a .. n : b = n - k - 1
    BY <2>3, <2>1
  <2>5. sum[a] <= sum[b]
    BY <1>5, <1>6, <2>4, StoredAreSized, SumsGrow
  <2>6. PICK x \in Nat, y \in Nat, z \in Nat : x = sum[n] /\ y = sum[a] /\ z = sum[b]
    BY <1>9, <2>3, <2>4
  <2>7. x - z > budget /\ y <= z
    <3>1. sum[n] - sum[n - k - 1] > budget
      BY <1>7, <2>1
    <3> QED
      BY <2>4, <2>5, <2>6, <3>1
  <2>8. x - y > budget
    BY <2>7
  <2>9. Newest(j) # <<>>
    BY <2>1, <2>2
  <2>10. SizeOf(Newest(j)) = x - y
    BY <2>2, <2>3, <2>6
  <2> HIDE DEF Newest
  <2>11. ~(SizeOf(Newest(j)) <= budget)
    BY <2>8, <2>10
  <2> QED
    BY <2>9, <2>11 DEF Fits
<1>12. Truncate(LastOf(stored), budget) = Newest(k) /\ Len(Newest(k)) = k
  <2>1. Newest(k) = SubSeq(t, n - k + 1, n) /\ Len(Newest(k)) = k
    BY <1>8
  <2>2. Truncate(t, budget) = SubSeq(t, n - k + 1, n)
    BY <1>7
  <2> HIDE DEF Newest
  <2> QED
    BY <1>4, <2>1, <2>2
<1> QED
  BY <1>1, <1>4, <1>5, <1>10, <1>11, <1>12

\* The ids of the stored messages are their positions; what was asked last is among them.
Transcript ==
  /\ history \in Seq(StoredMessage) /\ cards \in Seq(Card)
  /\ \A i \in 1 .. Len(history) : history[i].id = i
  /\ shown # <<>> => shown.user.id \in 1 .. Len(history)

LEMMA SizesAreNat ==
  ASSUME NEW s, Sized(s)
  PROVE  SizeOf(s) \in Nat
<1>1. PICK sum : Sums(sum, s) /\ SizeOf(s) = sum[Len(s)]
  BY SizeOfSums
<1>2. Len(s) \in 0 .. Len(s)
  BY DEF Sized
<1> QED
  BY <1>1, <1>2 DEF Sums

LEMMA BudgetIsInt ==
  ASSUME Transcript, NEW stored \in Seq(StoredMessage), stored # <<>>, NEW resolved \in BOOLEAN
  PROVE  SystemSize(LastOf(stored), resolved) \in Nat
<1>1. PromptSize \in Nat
  BY ContextAssumption
<1>2. SizeOf(LastOf(stored)) \in Nat
  <2>1. LastOf(stored) \in Seq(StoredMessage)
    <3>1. PICK from \in 1 .. Len(stored) : LastOf(stored) = SubSeq(stored, from, Len(stored))
      BY LastOfStored
    <3> QED
      BY <3>1
  <2> QED
    BY <2>1, StoredAreSized, SizesAreNat
<1>3. SizeOf(InPrompt) \in Nat
  <2>1. PICK n \in Nat : n = Len(cards) /\ DOMAIN cards = 1 .. n
    BY DEF Transcript
  <2>2. Len(InPrompt) = n
    BY <2>1 DEF InPrompt
  <2>3. ASSUME NEW i \in 1 .. n PROVE InPrompt[i].size \in Nat
    <3>1. PICK wanted \in BOOLEAN, size \in Sizes : cards[i] = [wanted |-> wanted, size |-> size]
      <4>1. cards[i] \in Card
        BY <2>1 DEF Transcript
      <4> QED
        BY <4>1 DEF Card
    <3>2. size \in Nat
      BY ContextAssumption
    <3>3. InPrompt[i] = IF Relevant(i) THEN cards[i] ELSE [cards[i] EXCEPT !.size = 0]
      BY <2>1 DEF InPrompt
    <3> QED
      BY <3>1, <3>2, <3>3
  <2>4. Sized(InPrompt)
    BY <2>2, <2>3 DEF Sized
  <2> QED
    BY <2>4, SizesAreNat
<1> QED
  BY <1>1, <1>2, <1>3 DEF SystemSize

LEMMA StoreAppends ==
  ASSUME Transcript, NEW from \in {"user", "assistant"}, NEW n \in Sizes, Len(history) < MaxStored,
         history' = Store(from, n)
  PROVE  /\ history' \in Seq(StoredMessage) /\ Len(history') = Len(history) + 1
         /\ Len(history) \in Nat
         /\ \A i \in 1 .. Len(history) : history'[i] = history[i]
         /\ \A i \in 1 .. Len(history') : history'[i].id = i
<1>1. PICK l \in Nat : l = Len(history) /\ l < MaxStored
  BY DEF Transcript
<1>2. PICK m \in StoredMessage : m = [from |-> from, id |-> l + 1, size |-> n]
  <2>1. l + 1 \in 1 .. MaxStored
    BY <1>1, ContextAssumption
  <2> QED
    BY <2>1 DEF StoredMessage
<1>3. history' = Append(history, m) /\ history \in Seq(StoredMessage)
  BY <1>1, <1>2 DEF Store, Transcript
<1>4. /\ history' \in Seq(StoredMessage) /\ Len(history') = l + 1 /\ history'[l + 1] = m
      /\ \A i \in 1 .. l : history'[i] = history[i]
  BY <1>1, <1>3
<1>5. m.id = l + 1
  BY <1>2
<1>6. \A i \in 1 .. l : history[i].id = i
  BY <1>1 DEF Transcript
<1>7. \A i \in 1 .. l + 1 : history'[i].id = i
  <2> SUFFICES ASSUME NEW i \in 1 .. l + 1 PROVE history'[i].id = i
    OBVIOUS
  <2>1. CASE i = l + 1
    BY <1>4, <1>5, <2>1
  <2>2. CASE i \in 1 .. l
    BY <1>4, <1>6, <2>2
  <2> QED
    BY <2>1, <2>2
<1> QED
  BY <1>1, <1>4, <1>7

\* Whatever the sizes, the window and the number of messages: a request holds the newest
\* messages of the thread, without a gap, and as many as fit (_truncate_messages,
\* agent/context_builder.py).
THEOREM NoGapShown == ContextSpec => []ShownWithoutGap
<1> DEFINE I == Transcript /\ ShownWithoutGap
<1>1. ContextInit => I
  BY DEF ContextInit, Transcript, ShownWithoutGap
<1>2. I /\ [ContextNext]_contextVars => I'
  <2> SUFFICES ASSUME I, [ContextNext]_contextVars PROVE I'
    OBVIOUS
  <2>1. ASSUME NEW n \in Sizes, NEW resolved \in BOOLEAN, Ask(n, resolved) PROVE I'
    <3>1. /\ Len(history) < MaxStored /\ history' = Store("user", n)
          /\ shown' = Built(history', resolved) /\ cards' = cards
      BY <2>1 DEF Ask
    <3>2. /\ history' \in Seq(StoredMessage) /\ Len(history') = Len(history) + 1 /\ Len(history) \in Nat
          /\ \A i \in 1 .. Len(history') : history'[i].id = i
      BY <3>1, StoreAppends
    <3>3. PICK s \in Seq(StoredMessage) : s = history' /\ s # <<>>
      BY <3>2
    <3>4. PICK budget \in Int : budget = Available - SystemSize(LastOf(s), resolved) - HeaderSize
      <4>1. SystemSize(LastOf(s), resolved) \in Nat
        BY <3>3, BudgetIsInt
      <4>2. Available \in Nat /\ HeaderSize \in Nat
        BY ContextAssumption
      <4> QED
        BY <4>1, <4>2
    <3>5. /\ shown'.messages = Truncate(LastOf(s), budget) /\ shown'.budget = budget
          /\ shown'.user = s[Len(s)]
      BY <3>1, <3>3, <3>4 DEF Built, Last
    <3>6. shown'.user.id = Len(s) /\ Len(s) \in 1 .. Len(s)
      BY <3>2, <3>3, <3>5
    <3>7. SubSeq(history', 1, shown'.user.id) = s
      BY <3>3, <3>6
    <3>8. ShownWithoutGap'
      <4> DEFINE Newest(j) == SubSeq(s, Len(s) - j + 1, Len(s))
                 n0 == Len(LastOf(s))
      <4>1. PICK k \in 0 .. n0 :
              /\ Truncate(LastOf(s), budget) = Newest(k) /\ Len(Newest(k)) = k
              /\ Fits(Newest(k), budget)
              /\ \A j \in k + 1 .. n0 : ~Fits(Newest(j), budget)
        BY <3>3, NewestShown
      <4>2. shown'.messages = Newest(k) /\ Len(shown'.messages) = k
        BY <3>5, <4>1
      <4> HIDE DEF Newest, n0
      <4>3. /\ shown'.messages = Newest(Len(shown'.messages)) /\ Fits(shown'.messages, shown'.budget)
            /\ \A j \in Len(shown'.messages) + 1 .. n0 : ~Fits(Newest(j), shown'.budget)
        BY <3>5, <4>1, <4>2
      <4>4. ShownWithoutGap' <=>
              (shown' # <<>> =>
                 LET stored == SubSeq(history', 1, shown'.user.id)
                     taken == Len(shown'.messages)
                     Latest(j) == SubSeq(stored, Len(stored) - j + 1, Len(stored))
                 IN /\ shown'.messages = Latest(taken) /\ Fits(shown'.messages, shown'.budget)
                    /\ \A j \in taken + 1 .. Len(LastOf(stored)) : ~Fits(Latest(j), shown'.budget))
        BY DEF ShownWithoutGap, Fits, SizeOf, LastOf
      <4> QED
        BY <3>7, <4>3, <4>4, Zenon DEF Newest, n0
    <3>9. Transcript'
      BY <3>1, <3>2, <3>3, <3>6 DEF Transcript
    <3> QED
      BY <3>8, <3>9
  <2>2. ASSUME NEW n \in Sizes, Reply(n) PROVE I'
    <3>1. /\ Len(history) < MaxStored /\ history' = Store("assistant", n)
          /\ shown' = shown /\ cards' = cards /\ shown # <<>>
      BY <2>2 DEF Reply
    <3>2. /\ history' \in Seq(StoredMessage) /\ Len(history') = Len(history) + 1 /\ Len(history) \in Nat
          /\ \A i \in 1 .. Len(history) : history'[i] = history[i]
          /\ \A i \in 1 .. Len(history') : history'[i].id = i
      BY <3>1, StoreAppends
    <3>3. PICK id \in 1 .. Len(history) : id = shown.user.id
      BY <3>1 DEF Transcript
    <3>4. SubSeq(history', 1, id) = SubSeq(history, 1, id)
      <4>1. history \in Seq(StoredMessage) /\ history' \in Seq(StoredMessage)
        BY <3>2 DEF Transcript
      <4>2. id \in Nat /\ id <= Len(history) /\ id <= Len(history')
        BY <3>2
      <4>3. \A i \in 1 .. id : history'[i] = history[i]
        BY <3>2
      <4> QED
        BY <4>1, <4>2, <4>3, SameBegin
    <3>5. Transcript'
      BY <3>1, <3>2, <3>3 DEF Transcript
    <3>6. ShownWithoutGap'
      BY <3>1, <3>3, <3>4 DEF ShownWithoutGap
    <3> QED
      BY <3>5, <3>6
  <2>3. ASSUME NEW n \in Sizes, NEW wanted \in BOOLEAN, AddCard(wanted, n) PROVE I'
    <3>1. history' = history /\ shown' = shown /\ cards' = Append(cards, [wanted |-> wanted, size |-> n])
      BY <2>3 DEF AddCard
    <3>2. cards' \in Seq(Card)
      BY <3>1 DEF Transcript, Card
    <3> QED
      BY <3>1, <3>2 DEF Transcript, ShownWithoutGap
  <2>4. CASE UNCHANGED contextVars
    BY <2>4 DEF contextVars, Transcript, ShownWithoutGap
  <2> QED
    BY <2>1, <2>2, <2>3, <2>4 DEF ContextNext
<1> QED
  BY <1>1, <1>2, PTL DEF ContextSpec

-----------------------------------------------------------------------------
(* The sessions of the control plane.                                      *)

\* A message that its runner took up is in a session of the agent it was put to.
TakenUp ==
  \A c \in Consoles : chatting[c].at \in {"thinking", "answered"} =>
    /\ chatting[c].of.session \in SessionIds /\ chatting[c].of.agent \in AgentIds
    /\ belongs[chatting[c].of.session] = chatting[c].of.agent

SessionsShape ==
  /\ belongs \in [SessionIds -> AgentIds \cup {NoAgent}]
  /\ voices \in [SessionIds -> SUBSET AgentIds]
  /\ DOMAIN chatting = Consoles /\ \A c \in Consoles : DOMAIN chatting[c] = {"at", "of"}
  /\ agents \subseteq AgentIds /\ sessions \subseteq SessionIds

SessionsInv == SessionsShape /\ TakenUp /\ AnswersByOwner /\ SessionsHaveAgents

LEMMA SessionsStart == SessionsInit => SessionsInv
BY DEF SessionsInit, SessionsInv, SessionsShape, TakenUp, AnswersByOwner, SessionsHaveAgents, NoTask

\* Once a session was opened for an agent it stays that agent's.
LEMMA OpenKeeps ==
  ASSUME SessionsInv, NEW c \in Consoles, NEW a \in AgentIds, NEW new \in BOOLEAN, Open(c, a, new),
         UNCHANGED <<agents, voices, unclean>>
  PROVE  /\ belongs' \in [SessionIds -> AgentIds \cup {NoAgent}] /\ sessions' \subseteq SessionIds
         /\ \A s \in SessionIds : belongs[s] \in AgentIds => belongs'[s] = belongs[s]
         /\ AnswersByOwner' /\ SessionsHaveAgents'
<1> USE DEF SessionsInv, SessionsShape
<1>1. PICK s \in SessionIds :
        /\ belongs[s] \in {NoAgent, a}
        /\ sessions' = sessions \cup {s}
        /\ belongs' = [belongs EXCEPT ![s] = a]
  BY DEF Open, NewId, Unused, SessionsOf
<1>2. /\ belongs' \in [SessionIds -> AgentIds \cup {NoAgent}]
      /\ belongs'[s] = a /\ \A t \in SessionIds \ {s} : belongs'[t] = belongs[t]
  BY <1>1
<1>3. a \in agents
  BY DEF Open, Resolved
<1>4. \A t \in SessionIds : belongs[t] \in AgentIds => belongs'[t] = belongs[t]
  BY <1>1, <1>2, SessionsAssumption
<1>5. AnswersByOwner'
  <2> SUFFICES ASSUME NEW t \in SessionIds PROVE voices[t] \subseteq {belongs'[t]}
    BY DEF AnswersByOwner
  <2>1. voices[t] \subseteq {belongs[t]} /\ voices[t] \subseteq AgentIds
    BY DEF AnswersByOwner
  <2> QED
    BY <1>4, <2>1, SessionsAssumption
<1>6. SessionsHaveAgents'
  <2> SUFFICES ASSUME NEW t \in sessions' PROVE belongs'[t] \in agents \cup unclean
    BY DEF SessionsHaveAgents
  <2>1. CASE t = s
    BY <1>2, <1>3, <2>1
  <2>2. CASE t # s
    BY <1>1, <1>2, <2>2 DEF SessionsHaveAgents
  <2> QED
    BY <2>1, <2>2
<1> QED
  BY <1>1, <1>2, <1>4, <1>5, <1>6

\* The steps that leave every message where it was, or put it back.
LEMMA TakenUpStays ==
  ASSUME SessionsInv, DOMAIN chatting' = Consoles,
         \A s \in SessionIds : belongs[s] \in AgentIds => belongs'[s] = belongs[s],
         \A c \in Consoles : chatting'[c].at \in {"thinking", "answered"} =>
           chatting'[c].of = chatting[c].of /\ chatting[c].at \in {"thinking", "answered"}
  PROVE  TakenUp'
BY DEF SessionsInv, TakenUp

\* What a console does.
LEMMA ConsoleKeeps ==
  ASSUME SessionsInv, NEW c \in Consoles,
         StartSession(c) \/ Submit(c) \/ Refresh(c) \/ DeleteSession(c)
  PROVE  SessionsInv'
<1>1. /\ DOMAIN chatting' = Consoles
      /\ \A d \in Consoles : DOMAIN chatting'[d] = {"at", "of"}
      /\ \A d \in Consoles : chatting'[d].at \in {"thinking", "answered"} =>
           chatting'[d].of = chatting[d].of /\ chatting[d].at \in {"thinking", "answered"}
  <2>1. chatting' = chatting \/ chatting' = [chatting EXCEPT ![c].at = "created"]
    BY DEF StartSession, Submit, Refresh, DeleteSession
  <2> QED
    BY <2>1 DEF SessionsInv, SessionsShape
<1>2. CASE \E a \in AgentIds, new \in BOOLEAN : Open(c, a, new) /\ UNCHANGED <<agents, voices, unclean>>
  BY <1>1, <1>2, OpenKeeps, TakenUpStays DEF SessionsInv, SessionsShape
<1>3. CASE UNCHANGED <<agents, voices, unclean, sessions, belongs>>
  BY <1>1, <1>3, TakenUpStays DEF SessionsInv, SessionsShape, AnswersByOwner, SessionsHaveAgents
<1>4. CASE DeleteSession(c)
  <2>1. /\ sessions' \subseteq sessions /\ UNCHANGED <<agents, belongs, unclean>>
        /\ voices' = [voices EXCEPT ![active[c].session] = {}]
    BY <1>4 DEF DeleteSession
  <2>2. /\ voices' \in [SessionIds -> SUBSET AgentIds]
        /\ \A s \in SessionIds : voices'[s] \subseteq voices[s]
    BY <2>1 DEF SessionsInv, SessionsShape
  <2> QED
    BY <1>1, <2>1, <2>2, TakenUpStays DEF SessionsInv, SessionsShape, AnswersByOwner, SessionsHaveAgents
<1>5. StartSession(c) \/ Submit(c) \/ Refresh(c) =>
        \/ \E a \in AgentIds, new \in BOOLEAN : Open(c, a, new) /\ UNCHANGED <<agents, voices, unclean>>
        \/ UNCHANGED <<agents, voices, unclean, sessions, belongs>>
  BY DEF StartSession, Submit, Refresh, OpenFails
<1> QED
  BY <1>2, <1>3, <1>4, <1>5

\* What becomes of a message: it is taken up only where agent and session belong
\* together (Attached), and its answer goes where its question was.
LEMMA MessageKeeps ==
  ASSUME SessionsInv, NEW c \in Consoles,
         BeginChat(c) \/ Think(c) \/ Answered(c) \/ ModelRaises(c) \/ StoreAnswer(c)
  PROVE  SessionsInv'
<1> USE DEF SessionsInv, SessionsShape
<1>1. UNCHANGED <<agents, sessions, belongs, unclean>> /\ DOMAIN chatting' = Consoles
  BY DEF BeginChat, Think, Answered, ModelRaises, StoreAnswer
<1>2. \A d \in Consoles : DOMAIN chatting'[d] = {"at", "of"}
  <2>1. \/ chatting' = [chatting EXCEPT ![c] = NoTask]
        \/ chatting' = [chatting EXCEPT ![c] = [at |-> "waiting", of |-> active[c]]]
        \/ chatting' = [chatting EXCEPT ![c].at = "answered"]
        \/ chatting' = [chatting EXCEPT ![c].at = "thinking"]
    BY DEF BeginChat, Think, Answered, ModelRaises, StoreAnswer
  <2> QED
    BY <2>1 DEF NoTask
<1>3. SessionsHaveAgents'
  BY <1>1 DEF SessionsHaveAgents
<1>4. TakenUp'
  <2>1. CASE Think(c)
    <3>1. \A d \in Consoles : chatting'[d].at \in {"thinking", "answered"} =>
            /\ chatting'[d].of = chatting[d].of
            /\ chatting[d].at \in {"thinking", "answered"} \/ Attached(chatting[d].of)
      BY <2>1 DEF Think, NoTask
    <3>2. \A d \in Consoles : Attached(chatting[d].of) =>
            /\ chatting[d].of.session \in SessionIds /\ chatting[d].of.agent \in AgentIds
            /\ belongs[chatting[d].of.session] = chatting[d].of.agent
      BY DEF Attached, SessionsOf
    <3> QED
      BY <1>1, <3>1, <3>2 DEF TakenUp
  <2>2. CASE BeginChat(c) \/ Answered(c) \/ ModelRaises(c) \/ StoreAnswer(c)
    <3>1. \A d \in Consoles : chatting'[d].at \in {"thinking", "answered"} =>
            chatting'[d].of = chatting[d].of /\ chatting[d].at \in {"thinking", "answered"}
      <4>1. \/ chatting' = [chatting EXCEPT ![c] = NoTask]
            \/ chatting' = [chatting EXCEPT ![c] = [at |-> "waiting", of |-> active[c]]]
            \/ chatting' = [chatting EXCEPT ![c].at = "answered"] /\ chatting[c].at = "thinking"
        BY <2>2 DEF BeginChat, Answered, ModelRaises, StoreAnswer
      <4> QED
        BY <4>1 DEF NoTask
    <3> QED
      BY <1>1, <3>1, TakenUpStays
  <2> QED
    BY <2>1, <2>2
<1>5. voices' \in [SessionIds -> SUBSET AgentIds] /\ AnswersByOwner'
  <2>1. CASE voices' = voices
    BY <1>1, <2>1 DEF AnswersByOwner
  <2>2. CASE voices' = Said(c) /\ chatting[c].at \in {"thinking", "answered"}
    <3>1. PICK s \in SessionIds, a \in AgentIds :
            chatting[c].of.session = s /\ chatting[c].of.agent = a /\ belongs[s] = a
      BY <2>2 DEF TakenUp
    <3>2. voices' = [voices EXCEPT ![s] = @ \cup {a}]
      BY <2>2, <3>1 DEF Said
    <3> QED
      BY <1>1, <3>1, <3>2 DEF AnswersByOwner
  <2>3. voices' = voices \/ (voices' = Said(c) /\ chatting[c].at \in {"thinking", "answered"})
    BY DEF BeginChat, Think, Answered, ModelRaises, StoreAnswer
  <2> QED
    BY <2>1, <2>2, <2>3
<1> QED
  BY <1>1, <1>2, <1>3, <1>4, <1>5

\* The deletion of an agent takes its sessions first.
LEMMA DeletionKeeps ==
  ASSUME SessionsInv, NEW d \in Deleters, DeleteAgent(d) \/ DeleteEnds(d)
  PROVE  SessionsInv'
<1> USE DEF SessionsInv, SessionsShape
<1>1. /\ UNCHANGED belongs /\ DOMAIN chatting' = Consoles
      /\ \A c \in Consoles : DOMAIN chatting'[c] = {"at", "of"}
      /\ \A c \in Consoles : chatting'[c].at \in {"thinking", "answered"} =>
           chatting'[c].of = chatting[c].of /\ chatting[c].at \in {"thinking", "answered"}
  BY DEF DeleteAgent, DeleteBegins, DeleteStopped, DeleteEnds, DeleteRows
<1>2. TakenUp'
  BY <1>1, TakenUpStays
<1>3. ASSUME NEW a, DeleteRows(a) PROVE SessionsInv'
  <2>1. /\ agents' \subseteq agents /\ sessions' \subseteq sessions
        /\ voices' \in [SessionIds -> SUBSET AgentIds]
        /\ \A s \in SessionIds : voices'[s] \subseteq voices[s]
    BY <1>3 DEF DeleteRows
  <2>2. \A s \in sessions' : belongs[s] \in agents' \cup unclean'
    BY <1>3 DEF DeleteRows, SessionsOf, SessionsHaveAgents
  <2> QED
    BY <1>1, <1>2, <2>1, <2>2 DEF AnswersByOwner, SessionsHaveAgents
<1>4. CASE \E a \in AgentIds : DeleteBegins(d, a)
  BY <1>1, <1>2, <1>4 DEF DeleteBegins, AnswersByOwner, SessionsHaveAgents
<1> QED
  BY <1>3, <1>4 DEF DeleteAgent, DeleteStopped, DeleteEnds

LEMMA SessionsStep == SessionsInv /\ [SessionsNext]_sessionVars => SessionsInv'
<1>1. SessionsInv /\ UNCHANGED sessionVars => SessionsInv'
  BY DEF sessionVars, SessionsInv, SessionsShape, TakenUp, AnswersByOwner, SessionsHaveAgents
<1> QED
  BY <1>1, ConsoleKeeps, MessageKeeps, DeletionKeeps DEF SessionsNext

\* Whatever context a message of the chat screen is sent with, only the agent of the
\* session answers in it (generate_response_with_tools looks at both before the model
\* is asked), for any number of consoles, agents and sessions.
THEOREM OwnersAnswer == SessionsSpec => []AnswersByOwner
<1>1. SessionsInv => AnswersByOwner
  BY DEF SessionsInv
<1> QED
  BY <1>1, SessionsStart, SessionsStep, PTL DEF SessionsSpec

\* delete_agent leaves no session of an agent that is gone, whatever was opened while
\* it suspended, unless the deletion of the sessions failed.
THEOREM NoOrphanSessions == SessionsSpec => []SessionsHaveAgents
<1>1. SessionsInv => SessionsHaveAgents
  BY DEF SessionsInv
<1> QED
  BY <1>1, SessionsStart, SessionsStep, PTL DEF SessionsSpec

-----------------------------------------------------------------------------
(* The runner in a process of its own.                                     *)

\* The future of a request holds nothing or the answer with the request's id.
AnswersInv == answers \in Seq(Nat) /\ AnswersMatch

LEMMA AnswersStart == WorkersInit => AnswersInv
BY DEF WorkersInit, AnswersInv, AnswersMatch, Requests

\* A new request has no answer yet.
LEMMA AskKeeps ==
  ASSUME AnswersInv, answers' = Append(answers, 0)
  PROVE  AnswersInv'
<1>1. /\ answers' \in Seq(Nat) /\ Len(answers') = Len(answers) + 1 /\ Len(answers) \in Nat
      /\ answers'[Len(answers) + 1] = 0 /\ \A r \in 1 .. Len(answers) : answers'[r] = answers[r]
  BY DEF AnswersInv
<1>2. \A r \in 1 .. Len(answers) : answers[r] \in {0, r}
  BY DEF AnswersInv, AnswersMatch, Requests
<1>3. \A r \in 1 .. Len(answers) + 1 : answers'[r] \in {0, r}
  BY <1>1, <1>2
<1> QED
  BY <1>1, <1>3 DEF AnswersInv, AnswersMatch, Requests

\* A line goes to the request whose id it carries, or to nobody.
LEMMA ReadKeeps ==
  ASSUME AnswersInv, NEW w, ReadLine(w)
  PROVE  AnswersInv'
<1>1. PICK line :
        answers' = [r \in Requests |-> IF r \in Awaited(w, line) /\ Waits(r) THEN line ELSE answers[r]]
  BY DEF ReadLine
<1>2. Len(answers) \in Nat /\ \A r \in Requests : answers[r] \in Nat /\ answers[r] \in {0, r}
  BY DEF AnswersInv, AnswersMatch, Requests
<1>3. Requests = 1 .. Len(answers)
  BY DEF Requests
<1>4. \A r \in Requests : answers'[r] \in {0, r}
  BY <1>1, <1>2 DEF Awaited
<1>5. answers' \in [1 .. Len(answers) -> Nat]
  BY <1>1, <1>2, <1>3, <1>4
<1>6. answers' \in Seq(Nat) /\ Len(answers') = Len(answers)
  BY <1>2, <1>5
<1> QED
  BY <1>3, <1>4, <1>6 DEF AnswersInv, AnswersMatch, Requests

LEMMA AnswersStep == AnswersInv /\ [WorkersNext]_workerVars => AnswersInv'
<1> SUFFICES ASSUME AnswersInv, [WorkersNext]_workerVars PROVE AnswersInv'
  OBVIOUS
<1>1. \/ answers' = answers
      \/ answers' = Append(answers, 0)
      \/ \E w : ReadLine(w)
  BY DEF WorkersNext, workerVars, Spawn, ChatWithWorker, Started, StartTimeout, Returns, StopLeftover,
         StopWorker, Terminate, WorkerStopped, AskWorker, ReaderEnds, HeartbeatLate, Heartbeat, WorkerUp,
         WorkerStep, WorkerDies
<1> QED
  BY <1>1, AskKeeps, ReadKeeps DEF AnswersInv, AnswersMatch, Requests

\* A caller of a worker process is given the answer to its own message, for any number
\* of callers, workers and messages, however late, dropped or terminated a worker is:
\* _read_stdout goes by the request's id.
THEOREM OwnAnswer == WorkersSpec => []AnswersMatch
<1>1. AnswersInv => AnswersMatch
  BY DEF AnswersInv
<1> QED
  BY <1>1, AnswersStart, AnswersStep, PTL DEF WorkersSpec
=============================================================================
