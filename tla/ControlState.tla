---------------------------- MODULE ControlState ----------------------------
(***************************************************************************)
(* The control state of the system (ControlStateManager,                   *)
(* app/scheduler/control_state.py): one of four states, kept in memory and *)
(* written to a JSON file at every change, so that the next process can    *)
(* start from it.  The operator's commands set it, the process may end at  *)
(* any moment, also inside a write.                                        *)
(***************************************************************************)
CONSTANT States   \* the members of ControlState the operator uses

ASSUME ControlStatesAssumption ==
  /\ States \subseteq {"normal", "pause_jobs", "pause_tools", "pause_all"}
  /\ "normal" \in States

VARIABLES
  up,         \* a process is running
  state,      \* _state
  file,       \* what control_state.json holds: a state, "absent" or "torn"
  promised,   \* the state the last command was answered with
  attempted,  \* the state a command was setting when the process ended
  saved       \* the file holds the promised state: "yes", "no" (a write failed)
              \* or "crashed" (the process ended in the first write since)

controlVars == <<up, state, file, promised, attempted, saved>>

ControlTypeOK ==
  /\ up \in BOOLEAN
  /\ state \in States
  /\ file \in States \cup {"absent", "torn"}
  /\ promised \in States
  /\ attempted \in States
  /\ saved \in {"yes", "no", "crashed"}

ControlInit ==
  /\ up = FALSE
  /\ state = "normal"
  /\ file = "absent"
  /\ promised = "normal"
  /\ attempted = "normal"
  /\ saved = "yes"

JobsPaused == state \in {"pause_jobs", "pause_all"}

\* pause_jobs, pause_tools, pause_all and resume.  There is one state, so that
\* each replaces the pause another one set.
Commands == {"jobs", "tools", "all", "resume"}
Target(command) ==
  CASE command = "jobs" -> "pause_jobs"
    [] command = "tools" -> "pause_tools"
    [] command = "all" -> "pause_all"
    [] command = "resume" -> "normal"

\* Mutant of SaveState: the file is written before _state is assigned.
SaveStateEarly(s) ==
  \/ file' = state /\ saved' = "yes"
  \/ file' \in {file, "torn"} /\ saved' = "no"

\* _save_state: an error, in opening the file or in writing it, is only logged.
SaveState(s) ==
  \/ file' = s /\ saved' = "yes"
  \/ file' \in {file, "torn"} /\ saved' = "no"

\* set_state, which the four call.  To set
\* the state it already has does nothing, not even repeat a write that failed.
SetState(s) ==
  /\ up
  /\ s # state
  /\ state' = s
  /\ promised' = s
  /\ attempted' = s
  /\ SaveState(s)
  /\ UNCHANGED up

\* The process ends inside _save_state: open(..., "w") empties the file first.
CrashInSave(s) ==
  /\ up
  /\ s # state
  /\ up' = FALSE
  /\ attempted' = s
  /\ file' \in {file, "torn", s}
  /\ saved' = IF saved = "yes" THEN "crashed" ELSE saved
  /\ UNCHANGED <<state, promised>>

ProcessEnds ==
  /\ up
  /\ up' = FALSE
  /\ UNCHANGED <<state, file, promised, attempted, saved>>

\* _load_state: any error leaves the initial state.
LoadState == IF file \in States THEN file ELSE "normal"

\* ControlStateManager(load_persisted_state=True)
Boot ==
  /\ ~up
  /\ up' = TRUE
  /\ state' = LoadState
  /\ promised' = state'
  /\ attempted' = state'
  /\ saved' = "yes"
  /\ UNCHANGED file

-----------------------------------------------------------------------------
\* When every write went through, a new process starts in the state the last
\* command was answered with: a paused system does not wake up by restarting.
\* When the last one ended inside a write it starts in the old state, in the
\* new one or, the file being torn, in NORMAL, and in no other.
RestartKeepsState ==
  [][Boot => /\ saved = "yes" => state' = promised
             /\ saved = "crashed" => state' \in {promised, attempted, "normal"}]_controlVars
=============================================================================
