---------------------------- MODULE InstanceLock ----------------------------
(***************************************************************************)
(* The lock file that lets one control plane run at a time:                *)
(* SingleInstanceLock (app/control_plane/infra/lock.py) and the processes  *)
(* that use it (app/control_plane/entrypoint.py).  Every read and write of *)
(* the file is an action of its own; a process may die between any two.    *)
(***************************************************************************)
EXTENDS Integers, FiniteSets

CONSTANTS
  Processes,  \* every start of the program is a process of its own
  Forces      \* TRUE: users may answer "force unlock"

ASSUME LockAssumption ==
  /\ Forces \in BOOLEAN
  /\ Processes \cap {"absent", "empty", "None"} = {}

VARIABLES
  file,      \* the lock file: "absent", "empty" while it is written, or a pid
  pc,        \* where a process is in acquire and release
  info,      \* what read_lock returned: a pid or "None"
  acquired,  \* _acquired
  seen,      \* how a process looks to the others, the same all the time
  disturbed  \* history: among those alive, two were in acquire at once or one forced

lockVars == <<file, pc, info, acquired, seen, disturbed>>

\* "denied": of another user, os.kill may not ask for it.  "nameless": ps is not
\* there or fails, or shows another name or command line than the program's.
\* "lookalike": when it has died, its pid goes to a process that looks like the
\* program, the next start of the program included.
Looks == {"plain", "denied", "nameless", "lookalike"}

Places == {"new", "read", "decide", "open", "write", "running", "ask", "gone", "dead"}

LockTypeOK ==
  /\ file \in Processes \cup {"absent", "empty"}
  /\ pc \in [Processes -> Places]
  /\ info \in [Processes -> Processes \cup {"None"}]
  /\ acquired \in [Processes -> BOOLEAN]
  /\ seen \in [Processes -> Looks]
  /\ disturbed \in BOOLEAN

LockInit ==
  /\ file = "absent"
  /\ pc = [p \in Processes |-> "new"]
  /\ info = [p \in Processes |-> "None"]
  /\ acquired = [p \in Processes |-> FALSE]
  /\ seen \in [Processes -> Looks]
  /\ disturbed = FALSE

InAcquire(p) == pc[p] \in {"read", "decide", "open", "write"}
Alive(p) == pc[p] \notin {"new", "gone", "dead"}

\* What overlapping starts did to each other is over when they have all ended.
Leaves(p) == disturbed' = (disturbed /\ \E q \in Processes \ {p} : Alive(q))

\* _acquire_control_plane_lock.
Start(p) ==
  /\ pc[p] = "new"
  /\ pc' = [pc EXCEPT ![p] = "read"]
  /\ disturbed' = (disturbed \/ \E q \in Processes : InAcquire(q))
  /\ UNCHANGED <<file, info, acquired, seen>>

\* read_lock: a file that cannot be parsed is no lock.
ReadLock(p) ==
  /\ pc[p] = "read"
  /\ info' = [info EXCEPT ![p] = IF file \in Processes THEN file ELSE "None"]
  /\ pc' = [pc EXCEPT ![p] = "decide"]
  /\ UNCHANGED <<file, acquired, seen, disturbed>>

\* Any error of os.kill, a refused permission included, counts as "does not exist".
PidExists(pid) == IF Alive(pid) THEN seen[pid] # "denied" ELSE seen[pid] = "lookalike"

\* _pid_process_name and _pid_commandline: no name, or one of another program.
LooksRight(pid) == seen[pid] # "nameless"

\* Mutant of IsStale: only the time is looked at, and it has passed.
IsStaleByAge(p) == TRUE

IsStale(p) == ~PidExists(info[p]) \/ ~LooksRight(info[p])

\* No lock, or a stale one that is deleted first.
NotHeld(p) ==
  /\ pc[p] = "decide"
  /\ info[p] # "None" => IsStale(p)
  /\ file' = IF info[p] # "None" THEN "absent" ELSE file
  /\ pc' = [pc EXCEPT ![p] = "open"]
  /\ UNCHANGED <<info, acquired, seen, disturbed>>

Held(p) ==
  /\ pc[p] = "decide"
  /\ info[p] # "None"
  /\ ~IsStale(p)
  /\ pc' = [pc EXCEPT ![p] = "ask"]
  /\ UNCHANGED <<file, info, acquired, seen, disturbed>>

\* write_text truncates the file, then writes the pid.
OpenFile(p) ==
  /\ pc[p] = "open"
  /\ file' = "empty"
  /\ pc' = [pc EXCEPT ![p] = "write"]
  /\ UNCHANGED <<info, acquired, seen, disturbed>>

WriteFile(p) ==
  /\ pc[p] = "write"
  /\ file' = p
  /\ acquired' = [acquired EXCEPT ![p] = TRUE]
  /\ pc' = [pc EXCEPT ![p] = "running"]
  /\ UNCHANGED <<info, seen, disturbed>>

\* Mutant of AnswerExit: release deletes the file, whoever acquired it.
AnswerExitDeletes(p) ==
  /\ pc[p] = "ask"
  /\ file' = "absent"
  /\ pc' = [pc EXCEPT ![p] = "gone"]
  /\ Leaves(p)
  /\ UNCHANGED <<info, acquired, seen>>

\* The user exits, which runs release as well, or forces:
\* acquire(force_unlock=True) deletes the file.
AnswerExit(p) ==
  /\ pc[p] = "ask"
  /\ file' = IF acquired[p] THEN "absent" ELSE file
  /\ pc' = [pc EXCEPT ![p] = "gone"]
  /\ Leaves(p)
  /\ UNCHANGED <<info, acquired, seen>>

AnswerForce(p) ==
  /\ Forces
  /\ pc[p] = "ask"
  /\ file' = IF file = "empty" THEN file ELSE "absent"
  /\ pc' = [pc EXCEPT ![p] = "open"]
  /\ disturbed' = TRUE
  /\ UNCHANGED <<info, acquired, seen>>

\* release deletes the file of a process that acquired it, whoever wrote it last.
Release(p) ==
  /\ pc[p] = "running"
  /\ file' = IF acquired[p] THEN "absent" ELSE file
  /\ acquired' = [acquired EXCEPT ![p] = FALSE]
  /\ pc' = [pc EXCEPT ![p] = "gone"]
  /\ Leaves(p)
  /\ UNCHANGED <<info, seen>>

\* Killed, or the machine went down: the file stays as it is.
Crash(p) ==
  /\ pc[p] \in {"read", "decide", "open", "write", "running", "ask"}
  /\ pc' = [pc EXCEPT ![p] = "dead"]
  /\ Leaves(p)
  /\ UNCHANGED <<file, info, acquired, seen>>

TakeLock(p) == Start(p) \/ ReadLock(p) \/ NotHeld(p) \/ Held(p) \/ OpenFile(p) \/ WriteFile(p)

LockNext ==
  \E p \in Processes :
    TakeLock(p) \/ AnswerExit(p) \/ AnswerForce(p) \/ Release(p) \/ Crash(p)

LockSpec == LockInit /\ [][LockNext]_lockVars

-----------------------------------------------------------------------------
Exclusive == \A p, q \in Processes : pc[p] = "running" /\ pc[q] = "running" => p = q

\* Nobody alive met another in acquire or forced, and is_stale can tell a
\* running control plane from a dead one: os.kill may ask for it, and ps shows it.
Undisturbed == ~disturbed /\ \A p \in Processes : seen[p] \notin {"denied", "nameless"}

\* Crashes at any point, releases, pids that are given to other processes, and
\* what earlier, disturbed starts left in the file do not break the lock: as
\* long as those alive are undisturbed, one control plane runs.
ExclusiveAlone == Undisturbed => Exclusive

\* An undisturbed control plane that runs is visible to the next start: its pid
\* is in the file, whoever wrote and deleted it before (acquire, release).
RunningIsVisible ==
  \A p \in Processes : Undisturbed /\ pc[p] = "running" => file = p
=============================================================================
