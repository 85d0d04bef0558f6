---------------------------- MODULE JobLifecycle ----------------------------
(***************************************************************************)
(* What the job queue promises for every job, without workers, locks,      *)
(* priorities or capacities: an accepted job is in one place at a time and *)
(* moves only along the arrows                                             *)
(*                                                                         *)
(*   (accepted) -> waiting -> working -> done                              *)
(*                    ^          |                                         *)
(*                    +--retry---+--> dying -> dead                        *)
(*                                                                         *)
(* where a retry is one more attempt of at most MaxAttempts, and only a    *)
(* job that was being worked on, or was about to be dead-lettered, can be  *)
(* lost.  WorkerPool implements this.                                      *)
(***************************************************************************)
EXTENDS Integers

CONSTANTS
  Jobs,
  MaxAttempts   \* Job.max_attempts

VARIABLE places   \* job -> the places it is found in, each [at, att]

Place(at, att) == [at |-> at, att |-> att]

Init == places = [j \in Jobs |-> {}]

Move(j, from, to) ==
  places[j] = {from} /\ places' = [places EXCEPT ![j] = {to}]

\* enqueue returns True; a job that is refused stays nowhere.
Accept(j) ==
  places[j] = {} /\ places' = [places EXCEPT ![j] = {Place("waiting", 0)}]

\* A worker takes the job and makes the attempt after n failed ones.
Start(j, n) == Move(j, Place("waiting", n), Place("working", n))

Succeed(j, n) == Move(j, Place("working", n), Place("done", 0))

Retry(j, n) ==
  n + 1 < MaxAttempts /\ Move(j, Place("working", n), Place("waiting", n + 1))

\* The job failed for good, and its row is stored, or is not.
GiveUp(j, n) == Move(j, Place("working", n), Place("dying", n))
Bury(j, n) == Move(j, Place("dying", n), Place("dead", 0))

\* The worker is cancelled, or the dead-letter insert fails.
Lose(j, n) ==
  \E at \in {"working", "dying"} : Move(j, Place(at, n), Place("lost", 0))

Attempt(j, n) ==
  \/ Start(j, n) \/ Succeed(j, n) \/ Retry(j, n)
  \/ GiveUp(j, n) \/ Bury(j, n) \/ Lose(j, n)

Next == \E j \in Jobs : Accept(j) \/ \E n \in 0 .. MaxAttempts - 1 : Attempt(j, n)

Spec == Init /\ [][Next]_places
=============================================================================
