----------------------------- MODULE SkillEngine -----------------------------
(***************************************************************************)
(* The execution of one skill workflow (SkillEngine.execute_skill and      *)
(* _execute_steps, app/skills/engine.py).  A workflow is a list of steps;  *)
(* a step may name the step to go to on success and on failure.  The       *)
(* initial states are all workflows of the given shape, so a run checks    *)
(* the interpreter against every one of them.                              *)
(*                                                                         *)
(* The fields a step needs are there: the loader refuses a file without    *)
(* them (validate_step_type).                                              *)
(***************************************************************************)
EXTENDS Integers, FiniteSets

CONSTANTS
  N,            \* number of steps
  Types,        \* the types of step the workflows are made of
  SuccTargets,  \* values of on_success; 0 is none, N + 1 an id no step has
  FailTargets   \* values of on_failure

StepTypes == {"tool_call", "llm_prompt", "condition", "transform", "subagent",
              "schedule_create", "return"}

ASSUME SkillAssumption ==
  /\ N \in Nat \ {0}
  /\ Types \subseteq StepTypes
  /\ SuccTargets \subseteq 0 .. N + 1
  /\ FailTargets \subseteq 0 .. N + 1

VARIABLES
  kind,      \* StepType of each step
  succ,      \* on_success
  fail,      \* on_failure
  pos,       \* current_step, 0 when there is none
  stepResults, \* the keys of step_results
  raised,    \* the steps that raised
  success    \* SkillResult: "none" while execute_skill runs, "yes" or "no"

workflow == <<kind, succ, fail>>
engineVars == <<workflow, pos, stepResults, raised, success>>

Steps == 1 .. N

EngineTypeOK ==
  /\ kind \in [Steps -> Types]
  /\ succ \in [Steps -> SuccTargets]
  /\ fail \in [Steps -> FailTargets]
  /\ pos \in 0 .. N
  /\ stepResults \subseteq Steps
  /\ raised \subseteq Steps
  /\ success \in {"none", "yes", "no"}

EngineInit ==
  /\ kind \in [Steps -> Types]
  /\ succ \in [Steps -> SuccTargets]
  /\ fail \in [Steps -> FailTargets]
  /\ pos = 0
  /\ stepResults = {}
  /\ raised = {}
  /\ success = "none"

-----------------------------------------------------------------------------
\* The executors.  Each ends with a value, None or an exception; only what eval
\* gives may be None or false.

\* A tool that is not registered gives a text.  One that is registered is called
\* but never awaited: the value is a coroutine, if the arguments fit.
ExecuteToolCall == {"value", "raise"}
\* A placeholder for the answer; format raises for a missing input.
ExecuteLlmPrompt == {"value", "raise"}
SafeEval == {"value", "false", "none", "raise"}
ExecuteCondition == SafeEval
ExecuteTransform == SafeEval
\* Placeholders: no sub-agent is started and no job is scheduled.
ExecuteSubagent == {"value"}
ExecuteScheduleCreate == {"value"}
\* A SkillResult with the outputs, which only step_results keeps.
ExecuteReturn == {"value"}

Outcomes(type) ==
  CASE type = "tool_call"       -> ExecuteToolCall
    [] type = "llm_prompt"      -> ExecuteLlmPrompt
    [] type = "condition"       -> ExecuteCondition
    [] type = "transform"       -> ExecuteTransform
    [] type = "subagent"        -> ExecuteSubagent
    [] type = "schedule_create" -> ExecuteScheduleCreate
    [] type = "return"          -> ExecuteReturn

-----------------------------------------------------------------------------
\* execute_skill: a required input without a value and without a default ends it
\* before the first step.
MissingInput ==
  /\ success = "none" /\ pos = 0
  /\ success' = "no"
  /\ UNCHANGED <<workflow, pos, stepResults, raised>>

\* _execute_steps starts with get_first_step.
Start ==
  /\ success = "none" /\ pos = 0
  /\ pos' = 1
  /\ UNCHANGED <<workflow, stepResults, raised, success>>

\* get_step: None for an id no step has.
GetStep(s) == IF s \in Steps THEN s ELSE 0

Following(s) == IF s < N THEN s + 1 ELSE 0

\* The next step after a result; only None counts as a failure, not False.
Branch(s, o) ==
  IF succ[s] # 0 /\ o # "none" THEN GetStep(succ[s])
  ELSE IF fail[s] # 0 /\ o = "none" THEN GetStep(fail[s])
  ELSE Following(s)

\* Without a next step the loop ends, and execute_skill reports success.
GoTo(s) ==
  /\ pos' = s
  /\ success' = IF s = 0 THEN "yes" ELSE "none"

Result ==
  /\ pos # 0
  /\ \E o \in Outcomes(kind[pos]) \ {"raise"} :
       GoTo(IF kind[pos] = "return" THEN 0 ELSE Branch(pos, o))
  /\ stepResults' = stepResults \cup {pos}
  /\ UNCHANGED <<workflow, raised>>

\* Mutant of Unhandled: the exception ends the workflow without an error.
UnhandledIgnored == GoTo(0)

\* An exception without a failure branch ends execute_skill with success=False.
Unhandled == pos' = 0 /\ success' = "no"

StepRaises ==
  /\ pos # 0
  /\ "raise" \in Outcomes(kind[pos])
  /\ raised' = raised \cup {pos}
  /\ IF fail[pos] # 0 THEN GoTo(GetStep(fail[pos])) ELSE Unhandled
  /\ UNCHANGED <<workflow, stepResults>>

EngineNext == MissingInput \/ Start \/ Result \/ StepRaises

EngineSpec == EngineInit /\ [][EngineNext]_engineVars

-----------------------------------------------------------------------------
\* A skill reports success only if every step that raised had a branch for it,
\* and at least one step was tried.
SuccessMeansHandled ==
  success = "yes" => /\ stepResults \cup raised # {}
                     /\ \A s \in raised : fail[s] # 0

=============================================================================
