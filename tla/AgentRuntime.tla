---------------------------- MODULE AgentRuntime ----------------------------
(***************************************************************************)
(* One job in the agent runtime: AgentRuntime.run (app/agent/runtime.py),  *)
(* the tool loop it runs (run_tool_loop, app/tools/loop.py), the executor  *)
(* of the tool calls (ToolExecutor, app/tools/executor.py) and what the    *)
(* worker pool makes of the result (app/queue/workers.py).                 *)
(*                                                                         *)
(* A tool call is a record of the tool and its arguments.  A message of the*)
(* model has pieces of two kinds, envelopes in its text and native calls;  *)
(* each is a tool call or malformed.                                       *)
(* Operators pause and resume the tools while the job runs.                *)
(***************************************************************************)
EXTENDS Integers, Sequences, FiniteSets, SequencesExt

CONSTANTS
  Permitted,      \* tools that profile, policy and persona allow
  Forbidden,      \* tools one of them denies, and unknown tools
  Args,           \* arguments of a call, as far as calls differ
  MaxToolTurns,   \* AgentRuntime.max_tool_turns
  PersonaTurns,   \* persona.max_tool_turns, 0 for None
  MaxCalls,       \* max_calls_per_message
  MaxRetries,     \* MAX_RETRIES
  JobAttempts,    \* Job.max_attempts of the pool
  MaxMessage,     \* bound: envelopes and native calls in one message of the model
  MaxPauses       \* bound: how often the operators pause or resume

ASSUME RuntimeAssumption ==
  /\ Permitted \cap Forbidden = {}
  /\ {MaxToolTurns, MaxRetries, JobAttempts} \subseteq Nat \ {0}
  /\ {PersonaTurns, MaxCalls, MaxMessage, MaxPauses} \subseteq Nat

ToolCall == [tool : Permitted \cup Forbidden, args : Args]

\* The verdicts of a receipt (ToolResultEnvelope): ok, or the type of its error.
Ran == {"ok", "execution_error", "timeout"}
Verdicts == Ran \cup {"limit_exceeded", "not_allowed", "parse_error"}

\* AgentResult: "OK", an error_code, or "raised" for an exception of run.
LoopErrors == {"CIRCUIT_BREAKER_OPEN", "TRANSPORT_ERROR", "OLLAMA_ERROR", "INTERNAL_ERROR"}
Results == {"none", "OK", "skill_error", "MAX_TURNS_EXCEEDED", "raised"} \cup LoopErrors

VARIABLES
  phase,       \* where run is
  turn,        \* turn of run_tool_loop
  retry,       \* attempt of _call_ollama_with_retry
  message,     \* calls of the current message
  malformed,   \* its malformed pieces
  receipts,    \* parse failures and turn_events, as the model is shown them: a
               \* sequence of [call |-> index in message or 0, verdict]
  ran,         \* history: the calls whose tool was started, in this attempt
  requests,    \* history: requests to the model, in this attempt
  paused,      \* is_tools_paused()
  pauses,      \* counts changes of paused, for the bound
  transcript,  \* roles of the messages the job put in the transcript
  result,      \* what run returned
  attempts,    \* attempts of the pool
  job          \* the job in the pool

runtimeVars == <<phase, turn, retry, message, malformed, receipts, ran, requests, paused, pauses,
                 transcript, result, attempts, job>>

LoopTurns ==
  LET limit == IF PersonaTurns # 0 /\ PersonaTurns < MaxToolTurns
               THEN PersonaTurns ELSE MaxToolTurns
  IN IF limit < 1 THEN 1 ELSE limit

Cap == IF MaxCalls < 1 THEN 1 ELSE MaxCalls
\* Mutant of Capped: the cap is only reported.
CappedNot == Len(message)

Capped == IF Len(message) < Cap THEN Len(message) ELSE Cap
Overflow == Len(message) - Capped

RuntimeTypeOK ==
  /\ phase \in {"skill", "user", "context", "model", "execute", "tool", "answer", "done"}
  /\ turn \in 1 .. LoopTurns
  /\ retry \in 0 .. MaxRetries - 1
  /\ message \in BoundedSeq(ToolCall, MaxMessage)
  /\ malformed \in 0 .. MaxMessage
  /\ receipts \in Seq([call : 0 .. MaxMessage, verdict : Verdicts])
  /\ ran \in Seq(ToolCall)
  /\ requests \in 0 .. LoopTurns * MaxRetries
  /\ paused \in BOOLEAN
  /\ pauses \in 0 .. MaxPauses
  /\ transcript \in Seq({"user", "assistant"})
  /\ result \in Results
  /\ attempts \in 1 .. JobAttempts
  /\ job \in {"running", "completed", "dead"}

RuntimeInit ==
  /\ phase = "skill"
  /\ turn = 1
  /\ retry = 0
  /\ message = <<>>
  /\ malformed = 0
  /\ receipts = <<>>
  /\ ran = <<>>
  /\ requests = 0
  /\ paused \in BOOLEAN
  /\ pauses = 0
  /\ transcript = <<>>
  /\ result = "none"
  /\ attempts = 1
  /\ job = "running"

Return(r) ==
  /\ phase' = "done"
  /\ result' = r

loop == <<turn, retry, message, malformed, receipts, ran, requests>>
pool == <<attempts, job>>
tools == <<paused, pauses>>

-----------------------------------------------------------------------------
\* _check_skill_trigger: a skill answers the job, ok or not, or the agent does.
CheckSkillTrigger ==
  /\ phase = "skill"
  /\ \/ Return("OK")
     \/ Return("skill_error")
     \/ phase' = "user" /\ UNCHANGED result
  /\ UNCHANGED <<loop, tools, transcript, pool>>

\* _persist_user_message: failures are logged and the job goes on.
PersistUserMessage ==
  /\ phase = "user"
  /\ phase' = "context"
  /\ transcript' \in {transcript, Append(transcript, "user")}
  /\ UNCHANGED <<loop, tools, result, pool>>

\* Persona and context are built outside of any try: an error leaves run.
BuildInitialContext ==
  /\ phase = "context"
  /\ \/ phase' = "model" /\ UNCHANGED result
     \/ Return("raised")
  /\ UNCHANGED <<loop, tools, transcript, pool>>

\* extract_tool_calls: an envelope that is no JSON object with a tool and an
\* object of arguments is a failure, and the others are calls still.
WellFormed(pieces) == SelectSeq(pieces, LAMBDA piece : piece \in ToolCall)

\* normalize_native_tool_calls: likewise for a native call without a name, or
\* whose arguments are neither an object nor its text.
Failures(pieces) == Len(pieces) - Len(WellFormed(pieces))

\* extract_calls_from_output: the calls of the text come before the native ones.
Extracted(text, native) ==
  [calls |-> WellFormed(text) \o WellFormed(native),
   failures |-> Failures(text) + Failures(native)]

Malformed == [tool |-> "invalid"]
Piece == ToolCall \cup {Malformed}
Reply == [calls : BoundedSeq(ToolCall, MaxMessage), failures : 0 .. MaxMessage]
Messages == {pair \in BoundedSeq(Piece, MaxMessage) \X BoundedSeq(Piece, MaxMessage) :
            Len(pair[1]) + Len(pair[2]) <= MaxMessage}
Replies == {Extracted(pair[1], pair[2]) : pair \in Messages} \cap Reply

\* build_receipt_feedback: the malformed pieces are told first.
Feedback(broken, events) ==
  [i \in 1 .. broken |-> [call |-> 0, verdict |-> "parse_error"]] \o events

\* The loop's way out: the last content is the answer when there is no call in
\* it.  Its malformed pieces are recorded, and the model does not hear of them.
ModelAnswers ==
  /\ phase = "model"
  /\ requests' = requests + 1
  /\ \E reply \in Replies :
       /\ reply.calls = <<>>
       /\ malformed' = reply.failures
       /\ receipts' = Feedback(reply.failures, <<>>)
  /\ message' = <<>>
  /\ retry' = 0
  /\ phase' = "answer"
  /\ UNCHANGED <<turn, ran, tools, transcript, result, pool>>

\* A message with calls: execute_calls first answers those beyond the cap.
ModelCallsTools ==
  /\ phase = "model"
  /\ requests' = requests + 1
  /\ \E reply \in Replies :
       /\ reply.calls # <<>>
       /\ message' = reply.calls
       /\ malformed' = reply.failures
       /\ receipts' = Feedback(reply.failures,
                        [i \in 1 .. Overflow' |-> [call |-> Capped' + i, verdict |-> "limit_exceeded"]])
  /\ retry' = 0
  /\ phase' = "execute"
  /\ UNCHANGED <<turn, ran, tools, transcript, result, pool>>

\* _call_ollama_with_retry: only transport errors are retried.
ModelUnreachable ==
  /\ phase = "model"
  /\ requests' = requests + 1
  /\ IF retry < MaxRetries - 1
     THEN retry' = retry + 1 /\ UNCHANGED <<phase, result>>
     ELSE Return("TRANSPORT_ERROR") /\ UNCHANGED retry
  /\ UNCHANGED <<turn, message, malformed, receipts, ran, tools, transcript, pool>>

\* Mutant of ModelFails: an error that is none of the client's leaves run.
ModelFailsUncaught ==
  /\ phase = "model"
  /\ requests' = requests + 1
  /\ \E error \in {"CIRCUIT_BREAKER_OPEN", "OLLAMA_ERROR", "raised"} : Return(error)
  /\ UNCHANGED <<turn, retry, message, malformed, receipts, ran, tools, transcript, pool>>

\* run catches whatever leaves the loop and returns an error code.
ModelFails ==
  /\ phase = "model"
  /\ requests' = requests + 1
  /\ \E error \in LoopErrors \ {"TRANSPORT_ERROR"} : Return(error)
  /\ UNCHANGED <<turn, retry, message, malformed, receipts, ran, tools, transcript, pool>>

-----------------------------------------------------------------------------
\* The capped call execute_calls handles next.
NextCall == Len(receipts) - malformed - Overflow + 1
Receipt(verdict) == Append(receipts, [call |-> NextCall, verdict |-> verdict])

\* _deny_reason, read when the call's turn comes.
Denied(call) == paused \/ call.tool \in Forbidden

Deny ==
  /\ phase = "execute"
  /\ NextCall <= Capped
  /\ Denied(message[NextCall])
  /\ receipts' = Receipt("not_allowed")
  /\ UNCHANGED <<phase, turn, retry, message, malformed, ran, requests, tools, transcript, result, pool>>

ExecuteSingle ==
  /\ phase = "execute"
  /\ NextCall <= Capped
  /\ ~Denied(message[NextCall])
  /\ ran' = Append(ran, message[NextCall])
  /\ phase' = "tool"
  /\ UNCHANGED <<turn, retry, message, malformed, receipts, requests, tools, transcript, result, pool>>

\* The tool returns, raises or is cancelled by wait_for: each gives a receipt.
ToolEnds ==
  /\ phase = "tool"
  /\ \E verdict \in Ran : receipts' = Receipt(verdict)
  /\ phase' = "execute"
  /\ UNCHANGED <<turn, retry, message, malformed, ran, requests, tools, transcript, result, pool>>

\* After the last turn the loop gives the "maximum turns" text; run knows it by
\* loop_result.turns >= self.max_tool_turns.
TurnEnds ==
  /\ phase = "execute"
  /\ NextCall > Capped
  /\ IF turn < LoopTurns
     THEN turn' = turn + 1 /\ phase' = "model" /\ UNCHANGED result
     ELSE /\ UNCHANGED turn
          /\ IF LoopTurns >= MaxToolTurns
             THEN Return("MAX_TURNS_EXCEEDED")
             ELSE phase' = "answer" /\ UNCHANGED result
  /\ UNCHANGED <<retry, message, malformed, receipts, ran, requests, tools, transcript, pool>>

\* Mutant of PersistAssistantMessage: an error after the write leaves run.
PersistAssistantUnguarded ==
  /\ phase = "answer"
  /\ transcript' = Append(transcript, "assistant")
  /\ Return("OK") \/ Return("raised")
  /\ UNCHANGED <<loop, tools, pool>>

\* _persist_assistant_message: failures are logged.
PersistAssistantMessage ==
  /\ phase = "answer"
  /\ transcript' \in {transcript, Append(transcript, "assistant")}
  /\ Return("OK")
  /\ UNCHANGED <<loop, tools, pool>>

-----------------------------------------------------------------------------
\* Operators pause and resume the tools (control state).
PauseTools ==
  /\ job = "running"
  /\ pauses < MaxPauses
  /\ pauses' = pauses + 1
  /\ paused' = ~paused
  /\ UNCHANGED <<phase, loop, transcript, result, pool>>

\* WorkerPool._handle_chat_message logs the result and returns: job completed.
JobCompleted ==
  /\ job = "running"
  /\ phase = "done"
  /\ result # "raised"
  /\ job' = "completed"
  /\ UNCHANGED <<phase, loop, tools, transcript, result, attempts>>

\* An exception of run is a failed attempt: the job is run again from the start,
\* or it is dead after the last attempt.
JobFailed ==
  /\ job = "running"
  /\ phase = "done"
  /\ result = "raised"
  /\ IF attempts < JobAttempts
     THEN /\ attempts' = attempts + 1
          /\ phase' = "skill"
          /\ turn' = 1 /\ retry' = 0 /\ requests' = 0
          /\ message' = <<>> /\ malformed' = 0 /\ receipts' = <<>> /\ ran' = <<>>
          /\ result' = "none"
          /\ UNCHANGED job
     ELSE /\ job' = "dead"
          /\ UNCHANGED <<phase, loop, attempts, result>>
  /\ UNCHANGED <<tools, transcript>>

Run ==
  \/ CheckSkillTrigger \/ PersistUserMessage \/ BuildInitialContext
  \/ ModelAnswers \/ ModelCallsTools \/ ModelUnreachable \/ ModelFails
  \/ Deny \/ ExecuteSingle \/ ToolEnds \/ TurnEnds
  \/ PersistAssistantMessage \/ JobCompleted \/ JobFailed

RuntimeNext == Run \/ PauseTools

RuntimeSpec == RuntimeInit /\ [][RuntimeNext]_runtimeVars
\* The event loop runs the task of the job; every call of it has a timeout.
RuntimeFairSpec == RuntimeSpec /\ WF_runtimeVars(Run)

-----------------------------------------------------------------------------
\* Every piece of a message, malformed or a call, gets exactly one receipt before
\* the model is asked again, and no more of them than the cap were run.
ReceiptPerCall ==
  (phase \in {"model", "answer", "done"} /\ result \notin LoopErrors) =>
    /\ Len(receipts) = malformed + Len(message)
    /\ {receipts[i].call : i \in DOMAIN receipts} \ {0} = DOMAIN message
    /\ Cardinality({i \in DOMAIN receipts : receipts[i].verdict \in Ran}) <= Cap

\* What tools did is not done again: the pool repeats a job, and lays it by as a
\* dead letter that can be replayed, only when none of its tools was started.
NothingRepeated ==
  [][(attempts' # attempts \/ job' = "dead") => ran = <<>>]_runtimeVars

\* The transcript of a job has at most one answer, it is the last entry, and
\* a job that failed has none, even after several attempts of the pool.
OneAnswer ==
  \A i \in DOMAIN transcript :
    transcript[i] = "assistant" => i = Len(transcript) /\ result = "OK"

=============================================================================
