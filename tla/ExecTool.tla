------------------------------ MODULE ExecTool -------------------------------
(***************************************************************************)
(* The command tool (app/tools/exec_tool.py) under the deadlines of those  *)
(* that call it.  A call runs inside up to three of them: the tool loop's  *)
(* (ToolExecutor), the registry's, from the tool's policy, and the tool's  *)
(* own around the output of the process, which starts last and is the only *)
(* one that kills.  An outer deadline, or the cancellation of the worker   *)
(* at shutdown, cancels the call; CancelledError is no TimeoutError, so    *)
(* that the process is left behind, with nobody to read what it prints.    *)
(*                                                                         *)
(* A command is the class its text belongs to for the validation.          *)
(***************************************************************************)
EXTENDS Integers, Sequences

CONSTANTS
  ExecCalls,      \* calls of the tool
  InstanceMode,   \* mode of the registered tool: "safe", "extended" or "disabled"
  LoopTimeout,    \* ToolExecutionContext.timeout_sec, in ticks
  ExecTimeout     \* EXEC_TIMEOUT_SEC, of the registry's policy and of the tool, in ticks

ExecAssumption ==
  /\ InstanceMode \in {"safe", "extended", "disabled"}
  /\ {LoopTimeout, ExecTimeout} \subseteq Nat \ {0}

VARIABLES
  calls,     \* call -> what is known of it
  process,   \* call -> its process: "none", "running", "ended" or "killed"
  leftovers  \* calls whose temporary directory could not be removed

execVars == <<calls, process, leftovers>>

Commands == {"missing", "blank", "forbidden", "chained", "unlisted", "extended", "listed"}
Codes == {"missing", "dangerous", "plain"}

Requests ==
  [action : {"powershell"}, text : Commands, mode : {"safe", "extended"}]
    \cup [action : {"python"}, text : Codes, mode : {"safe", "extended"}]

Via == {"loop", "registry"}

Answers == {"EXEC_DISABLED", "MODE_NOT_ALLOWED", "MISSING_COMMAND", "COMMAND_NOT_ALLOWED",
            "MISSING_CODE", "CODE_NOT_ALLOWED", "POWERSHELL_NOT_FOUND", "EXECUTION_ERROR",
            "ok", "timeout", "cancelled"}

NoCall == [stage |-> "idle", via |-> "loop", elapsed |-> 0, chatty |-> FALSE, answer |-> "none"]

ExecTypeOK ==
  /\ \A c \in ExecCalls :
       calls[c] \in [stage : {"idle", "waiting", "answered"}, via : Via, elapsed : Nat,
                     chatty : BOOLEAN, answer : Answers \cup {"none"}]
  /\ process \in [ExecCalls -> {"none", "running", "ended", "killed"}]
  /\ leftovers \subseteq ExecCalls

ExecInit ==
  /\ calls = [c \in ExecCalls |-> NoCall]
  /\ process = [c \in ExecCalls |-> "none"]
  /\ leftovers = {}

\* _validate_powershell_command: the allowlist of the mode that was asked for.
CommandAllowed(text, mode) == text = "listed" \/ (text = "extended" /\ mode = "extended")

\* What execute answers before it starts anything, or "run".
Verdict(q) ==
  CASE InstanceMode = "disabled" -> "EXEC_DISABLED"
    [] InstanceMode = "safe" /\ q.mode = "extended" -> "MODE_NOT_ALLOWED"
    [] q.action = "powershell" ->
         (CASE q.text = "missing" -> "MISSING_COMMAND"
            [] CommandAllowed(q.text, q.mode) -> "run"
            [] OTHER -> "COMMAND_NOT_ALLOWED")
    [] OTHER ->
         (CASE q.text = "missing" -> "MISSING_CODE"
            [] q.text = "dangerous" -> "CODE_NOT_ALLOWED"
            [] OTHER -> "run")

Answered(c, answer) == calls' = [calls EXCEPT ![c].stage = "answered", ![c].answer = answer]

Refuse(c, q) ==
  /\ calls[c].stage = "idle" /\ Verdict(q) # "run"
  /\ Answered(c, Verdict(q))
  /\ UNCHANGED <<process, leftovers>>

\* _execute_python: the template of the wrapper has a brace that format takes for
\* a field, so that no code is ever started; the directory made before is removed
\* unless that fails.
RunPython(c, q) ==
  /\ calls[c].stage = "idle" /\ Verdict(q) = "run" /\ q.action = "python"
  /\ Answered(c, "EXECUTION_ERROR")
  /\ leftovers' \in {leftovers, leftovers \cup {c}}
  /\ UNCHANGED process

\* _execute_powershell: the process starts, or there is no PowerShell, or the
\* start fails otherwise.
StartProcess(c, q) ==
  /\ calls[c].stage = "idle" /\ Verdict(q) = "run" /\ q.action = "powershell"
  /\ \/ \E answer \in {"POWERSHELL_NOT_FOUND", "EXECUTION_ERROR"} :
          Answered(c, answer) /\ UNCHANGED process
     \/ /\ \E via \in Via, chatty \in BOOLEAN :
             calls' = [calls EXCEPT ![c] = [stage |-> "waiting", via |-> via, elapsed |-> 0,
                                            chatty |-> chatty, answer |-> "none"]]
        /\ process' = [process EXCEPT ![c] = "running"]
  /\ UNCHANGED leftovers

\* The deadlines over a call, outermost first: they start in this order, so
\* that of two that expire together the outer one is called first.
Deadlines(c) == (IF calls[c].via = "loop" THEN <<LoopTimeout>> ELSE <<>>)
                  \o <<ExecTimeout, ExecTimeout>>

\* The first deadline to expire is the innermost, the tool's.
OwnFirst(c) ==
  LET own == Len(Deadlines(c)) IN \A i \in 1 .. own - 1 : Deadlines(c)[own] < Deadlines(c)[i]

Expires(c) == CHOOSE t \in {LoopTimeout, ExecTimeout} :
  /\ \E i \in DOMAIN Deadlines(c) : Deadlines(c)[i] = t
  /\ \A i \in DOMAIN Deadlines(c) : t <= Deadlines(c)[i]

\* Time passes for a call that waits for its process.
Tick(c) ==
  /\ calls[c].stage = "waiting" /\ calls[c].elapsed < Expires(c)
  /\ calls' = [calls EXCEPT ![c].elapsed = @ + 1]
  /\ UNCHANGED <<process, leftovers>>

\* The tool's own deadline kills the process and is an EXECUTION_ERROR: the inner
\* handler takes the TimeoutError that the outer one has a branch for.  Any
\* other deadline is a timeout of the loop or of the registry.
Expire(c) ==
  /\ calls[c].stage = "waiting" /\ calls[c].elapsed = Expires(c)
  /\ IF OwnFirst(c)
     THEN Answered(c, "EXECUTION_ERROR") /\ process' = [process EXCEPT ![c] = "killed"]
     ELSE Answered(c, "timeout") /\ UNCHANGED process
  /\ UNCHANGED leftovers

\* communicate returns at the end of the process; a return code is no error.
Communicate(c) ==
  /\ calls[c].stage = "waiting" /\ process[c] = "ended"
  /\ Answered(c, "ok")
  /\ UNCHANGED <<process, leftovers>>

\* The worker that makes the call is cancelled by its pool's stop.
CancelCall(c) ==
  /\ calls[c].stage = "waiting"
  /\ Answered(c, "cancelled")
  /\ UNCHANGED <<process, leftovers>>

\* A process ends by itself; one that prints more than the pipe and the reader
\* hold needs someone who reads.
ProcessEnds(c) ==
  /\ process[c] = "running"
  /\ (calls[c].chatty => calls[c].stage = "waiting")
  /\ process' = [process EXCEPT ![c] = "ended"]
  /\ UNCHANGED <<calls, leftovers>>

ExecNext ==
  \E c \in ExecCalls :
    \/ \E q \in Requests : Refuse(c, q) \/ RunPython(c, q) \/ StartProcess(c, q)
    \/ Tick(c) \/ Expire(c) \/ Communicate(c) \/ CancelCall(c) \/ ProcessEnds(c)

ExecSpec == ExecInit /\ [][ExecNext]_execVars

-----------------------------------------------------------------------------
\* A call that overran its time has left no process behind: what exec_tool.py:16
\* says, "Timeout and kill on overrun".
OverrunKilled == \A c \in ExecCalls : calls[c].answer = "timeout" => process[c] # "running"
=============================================================================
