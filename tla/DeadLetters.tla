----------------------------- MODULE DeadLetters -----------------------------
(***************************************************************************)
(* The dead-letter queue (DeadLetterQueue, app/queue/dead_letter.py): jobs *)
(* that failed for good are rows of a table, which operators list, replay, *)
(* delete and clear while the workers go on.  The dispatcher is what replay*)
(* sees of it: a bounded queue, its idempotency keys and its shutdown.     *)
(*                                                                         *)
(* These are the operations of the class.  The routes of app/api/          *)
(* routes_admin.py call a method it does not have and change nothing.      *)
(***************************************************************************)
EXTENDS Integers, FiniteSets, Sequences, SequencesExt

CONSTANTS
  Letters,     \* job ids
  Keyed,       \* those with an idempotency key
  Replayers,   \* operators at work at the same time
  QueueSize,   \* JobDispatcher.max_size
  MaxRows,     \* bound: rows ever added
  NoLetter     \* an operator has no replay in hand

ASSUME LettersAssumption ==
  /\ IsFiniteSet(Letters) /\ Keyed \subseteq Letters
  /\ QueueSize \in Nat \ {0} /\ MaxRows \in Nat
  /\ NoLetter \notin Letters

VARIABLES
  rows,      \* the table: [id, job]
  nextRow,   \* the next id
  waiting,   \* the dispatcher's queue; a job in it ends in one step
  seen,      \* idempotency keys the dispatcher remembers, by job
  closed,    \* the dispatcher is shut down
  replay,    \* the replay each operator has in hand: its job and how far it is
  letterState, \* history: whether each job is live, done or deleted
  refused,   \* history: jobs a closed dispatcher refused
  raced      \* history: jobs that failed while a replay had yet to delete a row

queueSide == <<waiting, seen, closed>>
fateVars == <<letterState, refused, raced>>
letterVars == <<rows, nextRow, queueSide, replay, fateVars>>

Rows == [id : 1 .. MaxRows, job : Letters]
RowsOf(j) == {row \in rows : row.job = j}

LettersTypeOK ==
  /\ rows \subseteq Rows
  /\ nextRow \in 1 .. MaxRows + 1
  /\ waiting \in Seq(Letters)
  /\ seen \subseteq Keyed
  /\ closed \in BOOLEAN
  /\ replay \in [Replayers -> [job : Letters \cup {NoLetter}, at : {"idle", "read", "queued"}]]
  /\ letterState \in [Letters -> {"live", "done", "deleted"}]
  /\ refused \subseteq Letters /\ raced \subseteq Letters

LettersInit ==
  /\ rows = {} /\ nextRow = 1 /\ closed = FALSE
  /\ waiting = SetToSeq(Letters) /\ seen \in SUBSET Keyed
  /\ replay = [o \in Replayers |-> [job |-> NoLetter, at |-> "idle"]]
  /\ letterState = [j \in Letters |-> "live"]
  /\ refused = {} /\ raced = {}

-----------------------------------------------------------------------------
\* A worker is through with a job, well or badly; add writes the row.
JobDone ==
  /\ waiting # <<>>
  /\ waiting' = Tail(waiting)
  /\ letterState' = [letterState EXCEPT ![Head(waiting)] = "done"]
  /\ UNCHANGED <<rows, nextRow, seen, closed, replay, refused, raced>>

\* The replays of a job that have queued it and have not yet deleted its row.
Deleting(j) == {o \in Replayers : replay[o] = [job |-> j, at |-> "queued"]}

Add ==
  /\ waiting # <<>>
  /\ nextRow <= MaxRows
  /\ rows' = rows \cup {[id |-> nextRow, job |-> Head(waiting)]}
  /\ nextRow' = nextRow + 1
  /\ waiting' = Tail(waiting)
  /\ letterState' = [letterState EXCEPT ![Head(waiting)] = "live"]
  /\ raced' = IF Deleting(Head(waiting)) = {} THEN raced ELSE raced \cup {Head(waiting)}
  /\ UNCHANGED <<seen, closed, replay, refused>>

KeyExpires ==
  /\ \E j \in seen : seen' = seen \ {j}
  /\ UNCHANGED <<rows, nextRow, waiting, closed, replay, fateVars>>

ShutDown ==
  /\ ~closed
  /\ closed' = TRUE
  /\ UNCHANGED <<rows, nextRow, waiting, seen, replay, fateVars>>

-----------------------------------------------------------------------------
\* replay begins with get, which raises for a job of two rows and finds none for
\* a job of no row.
GetLetter(o, j) ==
  /\ replay[o].at = "idle"
  /\ Cardinality(RowsOf(j)) = 1
  /\ replay' = [replay EXCEPT ![o] = [job |-> j, at |-> "read"]]
  /\ UNCHANGED <<rows, nextRow, queueSide, fateVars>>

\* The operator is through with the replay.
ReplayOver(o) == [replay EXCEPT ![o] = [job |-> NoLetter, at |-> "idle"]]
Duplicate(j) == j \in Keyed /\ j \in seen

\* Mutant of Requeue: the row is deleted before the job is queued.
RequeueDeleted(o) ==
  LET j == replay[o].job IN
  /\ replay[o].at = "read"
  /\ rows' = rows \ RowsOf(j)
  /\ replay' = ReplayOver(o)
  /\ waiting' = IF Duplicate(j) \/ Len(waiting) = QueueSize THEN waiting ELSE Append(waiting, j)
  /\ UNCHANGED <<nextRow, seen, closed, fateVars>>

\* enqueue of the rebuilt job.  A ReplayError for a duplicate or a full queue,
\* which has noted the key by then, leaves the row; False is not looked at.
Requeue(o) ==
  LET j == replay[o].job IN
  /\ replay[o].at = "read"
  /\ seen' = IF closed \/ j \notin Keyed THEN seen ELSE seen \cup {j}
  /\ \/ /\ closed
        /\ replay' = [replay EXCEPT ![o].at = "queued"]
        /\ refused' = refused \cup {j}
        /\ UNCHANGED waiting
     \/ /\ ~closed
        /\ Duplicate(j) \/ Len(waiting) = QueueSize
        /\ replay' = ReplayOver(o)
        /\ UNCHANGED <<waiting, refused>>
     \/ /\ ~closed /\ ~Duplicate(j) /\ Len(waiting) < QueueSize
        /\ replay' = [replay EXCEPT ![o].at = "queued"]
        /\ waiting' = Append(waiting, j)
        /\ UNCHANGED refused
  /\ UNCHANGED <<rows, nextRow, closed, letterState, raced>>

\* delete, by the id of the job: it takes the row of a failure that came after
\* the job was queued again, too.  If the database fails the row stays.
Deleted(o) ==
  LET j == replay[o].job IN
  /\ replay[o].at = "queued"
  /\ rows' \in {rows, rows \ RowsOf(j)}
  /\ replay' = ReplayOver(o)
  /\ UNCHANGED <<nextRow, queueSide, fateVars>>

-----------------------------------------------------------------------------
Forget(gone) ==
  /\ gone # {}
  /\ rows' = rows \ gone
  /\ letterState' = [j \in Letters |-> IF \E row \in gone : row.job = j THEN "deleted" ELSE letterState[j]]
  /\ UNCHANGED <<nextRow, queueSide, replay, refused, raced>>

Delete(j) == Forget(RowsOf(j))
DeleteById(row) == Forget({row})
\* clear, of all rows or of those before a time.
Clear == \E n \in 1 .. MaxRows : Forget({row \in rows : row.id <= n})

LettersNext ==
  \/ JobDone \/ Add \/ KeyExpires \/ ShutDown
  \/ \E o \in Replayers : (\E j \in Letters : GetLetter(o, j)) \/ Requeue(o) \/ Deleted(o)
  \/ \E j \in Letters : Delete(j)
  \/ \E row \in rows : DeleteById(row)
  \/ Clear

LettersSpec == LettersInit /\ [][LettersNext]_letterVars

-----------------------------------------------------------------------------
Somewhere(j) == j \in Range(waiting) \/ RowsOf(j) # {}

\* A failed job that nobody deleted is done, waits or has its row, whatever is
\* replayed: replay raises a ReplayError when it cannot queue the job again.
JobSurvives == \A j \in Letters : letterState[j] = "live" => Somewhere(j)

\* There are two ways only to lose a job by replaying it, whatever the operators
\* replay, delete and clear at the same time, and whether the queue is full or
\* knows the job's key: the dispatcher was shut down when it was queued again, or
\* the job failed again before the replay deleted the row of its last failure.
ReplayKeepsJob ==
  \A j \in Letters \ (refused \cup raced) : letterState[j] = "live" => Somewhere(j)
=============================================================================
