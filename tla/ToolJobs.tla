------------------------------ MODULE ToolJobs -------------------------------
(***************************************************************************)
(* The jobs the model keeps through the scheduler tool                     *)
(* (app/tools/scheduler_tool.py): a table in memory, of its own; nothing   *)
(* of it is ever run, as its answers say.  A call is one step, on behalf   *)
(* of the chat and with the privilege its arguments name; neither is among *)
(* the parameters, so a call has one only if the model puts it there.      *)
(***************************************************************************)
EXTENDS Integers, Functions, SequencesExt, FiniteSetsExt

CONSTANTS
  ToolChats, NoChat,
  MaxJobs,      \* bound: jobs ever created
  MaxToolCalls  \* bound: other calls that change something

ToolJobsAssumption == NoChat \notin ToolChats /\ {MaxJobs, MaxToolCalls} \subseteq Nat

VARIABLES
  table,      \* _jobs
  nextId,     \* _next_job_id
  answered,   \* history: the ids answered to the creations, in their order
  toolCalls   \* counts calls, for the bound

toolVars == <<table, nextId, answered, toolCalls>>

ToolJob == [made : 1 .. MaxJobs, chat : ToolChats \cup {NoChat}, status : {"pending", "paused"},
            runs : 0 .. MaxToolCalls]

ToolJobsTypeOK ==
  /\ nextId \in 1 .. MaxJobs + 1
  /\ DOMAIN table \subseteq 1 .. MaxJobs /\ \A i \in DOMAIN table : table[i] \in ToolJob
  /\ answered \in Seq(1 .. MaxJobs)
  /\ toolCalls \in 0 .. MaxToolCalls

ToolJobsInit ==
  /\ table = <<>> /\ nextId = 1
  /\ answered = <<>> /\ toolCalls = 0

NewId == nextId

\* create, with a name and a trigger that pass the checks; next_run is computed
\* once and never read again.
CreateToolJob(c) ==
  /\ Len(answered) < MaxJobs
  /\ table' = [i \in DOMAIN table \cup {NewId} |->
                 IF i = NewId
                 THEN [made |-> Len(answered) + 1, chat |-> c, status |-> "pending", runs |-> 0]
                 ELSE table[i]]
  /\ nextId' = nextId + 1
  /\ answered' = Append(answered, NewId)
  /\ UNCHANGED toolCalls

ToolCommand == toolCalls < MaxToolCalls /\ toolCalls' = toolCalls + 1 /\ UNCHANGED <<nextId, answered>>

\* An unknown id and a job of another chat are errors, but for an admin.
May(c, admin, i) == i \in DOMAIN table /\ (admin \/ table[i].chat \in {NoChat, c})

SetStatus(ids, status) ==
  table' = [i \in DOMAIN table |-> IF i \in ids THEN [table[i] EXCEPT !.status = status] ELSE table[i]]

PauseToolJob(c, admin, i) == ToolCommand /\ May(c, admin, i) /\ SetStatus({i}, "paused")
ResumeToolJob(c, admin, i) == ToolCommand /\ May(c, admin, i) /\ SetStatus({i}, "pending")

DeleteToolJob(c, admin, i) ==
  ToolCommand /\ May(c, admin, i) /\ table' = Restrict(table, DOMAIN table \ {i})

\* run_now counts a run.
RunToolJob(c, admin, i) ==
  ToolCommand /\ May(c, admin, i) /\ table' = [table EXCEPT ![i].runs = @ + 1]

\* pause_all and resume_all, for admins: the jobs of the chat, or all without one.
OfChat(c) == {i \in DOMAIN table : c = NoChat \/ table[i].chat = c}
PauseAll(c) == ToolCommand /\ SetStatus(OfChat(c), "paused")
ResumeAll(c) == ToolCommand /\ SetStatus(OfChat(c), "pending")

ToolJobsNext ==
  \E c \in ToolChats \cup {NoChat} :
    \/ CreateToolJob(c) \/ PauseAll(c) \/ ResumeAll(c)
    \/ \E admin \in BOOLEAN, i \in 1 .. MaxJobs :
         \/ PauseToolJob(c, admin, i) \/ ResumeToolJob(c, admin, i)
         \/ DeleteToolJob(c, admin, i) \/ RunToolJob(c, admin, i)

ToolJobsSpec == ToolJobsInit /\ [][ToolJobsNext]_toolVars

-----------------------------------------------------------------------------
\* The id answered to a creation names that job for ever: after deletions and
\* further creations a command with it acts on that job or answers NOT_FOUND.
IdsStable ==
  \A s \in DOMAIN answered :
    answered[s] \in DOMAIN table => table[answered[s]].made = s
=============================================================================
