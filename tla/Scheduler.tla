------------------------------ MODULE Scheduler ------------------------------
(***************************************************************************)
(* The scheduler: SchedulerService (app/scheduler/service.py) with its     *)
(* _job_registry beside the APScheduler job store, the commands that act   *)
(* on both, and the control state.                                         *)
(*                                                                         *)
(* APScheduler is external, and taken to do what the service asks of it.   *)
(* Its store is a table that survives a restart and holds jobs that are    *)
(* due ("due") or have no next run time ("paused"); a one-shot job is      *)
(* forgotten once it is submitted.  An operation the store refuses changes *)
(* nothing and is not an action here.                                      *)
(*                                                                         *)
(* No action adds a job.  add_job has no caller, and the store pickles the *)
(* job it is given with the service its method is bound to, which raises:  *)
(* the store holds what another program put there, and starts with any     *)
(* content.  A job that is submitted goes to a pool of threads, which      *)
(* calls its function; _execute_job is a coroutine function, the call      *)
(* makes a coroutine nobody awaits, and SchedulerExecutor is never asked.  *)
(***************************************************************************)
EXTENDS ControlState

CONSTANT Jobs   \* job ids

VARIABLES
  store,    \* APScheduler: "none", "due" or "paused"
  once,     \* APScheduler: the job's trigger is a date
  reg,      \* _job_registry: "none", "enabled" or "disabled"
  loaded,   \* _load_jobs_from_store went through
  held,     \* jobs the operator paused or deleted last
  fired     \* jobs submitted since an operator last had to do with them

storeVars == <<store, once, reg, loaded>>
vars == <<controlVars, storeVars, held, fired>>

TypeOK ==
  /\ ControlTypeOK
  /\ store \in [Jobs -> {"none", "due", "paused"}]
  /\ once \in [Jobs -> BOOLEAN]
  /\ reg \in [Jobs -> {"none", "enabled", "disabled"}]
  /\ loaded \in BOOLEAN
  /\ held \subseteq Jobs
  /\ fired \subseteq Jobs

Init ==
  /\ ControlInit
  /\ store \in [Jobs -> {"none", "due", "paused"}]
  /\ once \in [Jobs -> BOOLEAN]
  /\ reg = [j \in Jobs |-> "none"]
  /\ loaded = TRUE
  /\ held = {}
  /\ fired = {}

-----------------------------------------------------------------------------
(* The operator: the commands of app/interfaces/telegram_commands.py.      *)

\* /pause jobs, tools or all, and /resume.
Command(command) ==
  /\ Target(command) \in States
  /\ SetState(Target(command)) \/ CrashInSave(Target(command))
  /\ IF up' THEN UNCHANGED reg ELSE reg' = [j \in Jobs |-> "none"]
  /\ UNCHANGED <<store, once, loaded, held, fired>>

\* Mutant of RemoveJob: the store is not told.
RemoveJobFromRegistry(j) ==
  /\ up
  /\ store[j] # "none"
  /\ reg' = [reg EXCEPT ![j] = "none"]
  /\ held' = held \cup {j}
  /\ fired' = fired \ {j}
  /\ UNCHANGED <<controlVars, store, once, loaded>>

\* remove_job: a job the store does not know raises before the registry entry
\* is deleted.
RemoveJob(j) ==
  /\ up
  /\ store[j] # "none"
  /\ store' = [store EXCEPT ![j] = "none"]
  /\ reg' = [reg EXCEPT ![j] = "none"]
  /\ held' = held \cup {j}
  /\ fired' = fired \ {j}
  /\ UNCHANGED <<controlVars, once, loaded>>

\* What /jobs lists: the registry, of which a message shows ten.
Listed == {j \in Jobs : reg[j] # "none"}

WithEnabled(j, e) == reg' = [reg EXCEPT ![j] = IF @ = "none" THEN "none" ELSE e]

PauseJob(j) ==
  /\ up
  /\ store[j] # "none"
  /\ store' = [store EXCEPT ![j] = "paused"]
  /\ WithEnabled(j, "disabled")
  /\ held' = held \cup {j}
  /\ fired' = fired \ {j}
  /\ UNCHANGED <<controlVars, once, loaded>>

\* APScheduler drops a job without a next fire time instead of resuming it.
ResumeJob(j) ==
  /\ up
  /\ store[j] # "none"
  /\ \/ store' = [store EXCEPT ![j] = "due"]
     \/ once[j] /\ store' = [store EXCEPT ![j] = "none"]
  /\ WithEnabled(j, "enabled")
  /\ held' = held \ {j}
  /\ fired' = fired \ {j}
  /\ UNCHANGED <<controlVars, once, loaded>>

\* run_job_now sets the next run time, which ends a pause in the store.
RunJobNow(j) ==
  /\ up
  /\ store[j] # "none"
  /\ store' = [store EXCEPT ![j] = "due"]
  /\ held' = held \ {j}
  /\ fired' = fired \ {j}
  /\ UNCHANGED <<controlVars, once, reg, loaded>>

\* /jobs: deleting and running are the admins'.
JobCommand(j, admin) ==
  \/ PauseJob(j) \/ ResumeJob(j)
  \/ admin /\ (RemoveJob(j) \/ RunJobNow(j))

-----------------------------------------------------------------------------
(* APScheduler.                                                            *)

\* A due job is submitted.  The registry's last run and next run stay what they
\* were, the lines that refresh them being in the coroutine.
Fire(j) ==
  /\ up
  /\ store[j] = "due"
  /\ store' = [store EXCEPT ![j] = IF once[j] THEN "none" ELSE "due"]
  /\ fired' = fired \cup {j}
  /\ UNCHANGED <<controlVars, once, reg, loaded, held>>

\* A one-shot job found due when its grace time is over, at a start or after a
\* trigger in the past, is dropped without a run; its entry stays.
Missed(j) ==
  /\ up
  /\ store[j] = "due" /\ once[j]
  /\ store' = [store EXCEPT ![j] = "none"]
  /\ UNCHANGED <<controlVars, once, reg, loaded, held, fired>>

-----------------------------------------------------------------------------
(* The process.                                                            *)

\* Mutant of Restored: the store is read for due jobs only.
RestoredDue(j) == IF store[j] = "due" THEN "enabled" ELSE "none"

\* Every job of the store is entered as enabled.
Restored(j) == IF store[j] = "none" THEN "none" ELSE "enabled"

\* start: _load_jobs_from_store swallows its errors.
Start ==
  /\ Boot
  /\ \/ /\ loaded' = TRUE
        /\ reg' = [j \in Jobs |-> Restored(j)]
     \/ /\ loaded' = FALSE
        /\ UNCHANGED reg
  /\ UNCHANGED <<store, once, held, fired>>

\* stop at shutdown, or a crash: the registry is gone.
End ==
  /\ ProcessEnds
  /\ reg' = [j \in Jobs |-> "none"]
  /\ UNCHANGED <<store, once, loaded, held, fired>>

Next ==
  \/ \E command \in Commands : Command(command)
  \/ \E j \in Jobs :
       \/ \E admin \in BOOLEAN : JobCommand(j, admin)
       \/ Fire(j) \/ Missed(j)
  \/ Start
  \/ End

Spec == Init /\ [][Next]_vars

-----------------------------------------------------------------------------
\* A job that was paused or deleted is not submitted again, across any number of
\* restarts and whatever else is done, until it is resumed or triggered.
HeldNeverFires == held \cap fired = {}

\* Every job the store may run is listed, so that the operator can pause it,
\* unless reading the store failed at the start.
StoreRegistered ==
  up /\ loaded => \A j \in Jobs : store[j] # "none" => j \in Listed

=============================================================================
