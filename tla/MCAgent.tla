------------------------------- MODULE MCAgent -------------------------------
(***************************************************************************)
(* The agent for TLC: the client of the model with its circuit breaker, one*)
(* job in the runtime with its tools, the threads the jobs of a chat write *)
(* to, the files and the jobs the tools keep, the commands they start and  *)
(* the searches and requests they make.                                    *)
(* Each abstracts what it needs of the others (a request fails, a run      *)
(* raises), so a behaviour runs one of them and leaves the others in one   *)
(* initial state.                                                          *)
(***************************************************************************)
EXTENDS OllamaClient, AgentRuntime, Threads, Files, TLC

CONSTANTS
  j1, j2, c1, k, short, long, d, md, py,
  ToolChats, NoChat, MaxJobs, MaxToolCalls,
  ExecCalls, InstanceMode, LoopTimeout, ExecTimeout,
  WebCalls, PoolSize, Searchable

VARIABLES
  part,
  table, nextId, answered, toolCalls,
  execCalls, process, leftovers,
  webCalls, searchers, line

toolVars == <<table, nextId, answered, toolCalls>>
execVars == <<execCalls, process, leftovers>>
webVars == <<webCalls, searchers, line>>

\* Two jobs of one chat that ask to remember the same thing.
MCJobs == {j1, j2}
MCChatOf == j1 :> c1 @@ j2 :> c1
MCKeyOf == j1 :> k @@ j2 :> k

\* One name of each of two extensions, in the root or in a directory; the
\* paths are spellings of them, one directory and one way out.
MCSizeOf == short :> 1 @@ long :> 2
MCExtOf == [n \in {md, py} |-> n]
MCOverrides == {{md}, {py}}
MCPaths == {<<md>>, <<d, md>>, <<d, "..", md>>, <<"..", md>>, <<d, ".", md>>, <<py>>, <<d>>}

Table == INSTANCE ToolJobs
Exec == INSTANCE ExecTool WITH calls <- execCalls
Web == INSTANCE WebTool WITH calls <- webCalls, threads <- searchers

ASSUME Table!ToolJobsAssumption /\ Exec!ExecAssumption /\ Web!WebAssumption

\* Every message of the model is a reply: Replies leaves none of them out.
ASSUME \A pair \in Messages : Extracted(pair[1], pair[2]) \in Replies

RuntimeIdle == paused = FALSE /\ RuntimeInit

Parts == {"client", "runtime", "threads", "files", "table", "exec", "web"}

MCInit ==
  /\ part \in Parts
  /\ Init /\ ThreadsInit /\ FilesInit /\ Table!ToolJobsInit
  /\ Exec!ExecInit /\ Web!WebInit
  /\ IF part = "runtime" THEN RuntimeInit ELSE RuntimeIdle

ClientStep(A) ==
  /\ part = "client" /\ A
  /\ UNCHANGED <<part, runtimeVars, threadVars, fileVars, toolVars, execVars, webVars>>
RuntimeStep ==
  /\ part = "runtime" /\ RuntimeNext
  /\ UNCHANGED <<part, vars, threadVars, fileVars, toolVars, execVars, webVars>>
ThreadsStep ==
  /\ part = "threads" /\ ThreadsNext
  /\ UNCHANGED <<part, vars, runtimeVars, fileVars, toolVars, execVars, webVars>>
FilesStep ==
  /\ part = "files" /\ FilesNext
  /\ UNCHANGED <<part, vars, runtimeVars, threadVars, toolVars, execVars, webVars>>
TableStep ==
  /\ part = "table" /\ Table!ToolJobsNext
  /\ UNCHANGED <<part, vars, runtimeVars, threadVars, fileVars, execVars, webVars>>

ExecStep ==
  /\ part = "exec" /\ Exec!ExecNext
  /\ UNCHANGED <<part, vars, runtimeVars, threadVars, fileVars, toolVars, webVars>>
WebStep ==
  /\ part = "web" /\ Web!WebNext
  /\ UNCHANGED <<part, vars, runtimeVars, threadVars, fileVars, toolVars, execVars>>

MCNext ==
  \/ ClientStep(Next) \/ RuntimeStep \/ ThreadsStep \/ FilesStep \/ TableStep
  \/ ExecStep \/ WebStep

allVars == <<part, vars, runtimeVars, threadVars, fileVars, toolVars, execVars, webVars>>

\* Fairness as in OllamaClient, when the client runs.
MCSpec ==
  /\ MCInit
  /\ [][MCNext]_allVars
  /\ WF_allVars(ClientStep(Timer /\ \A c \in Callers : pc[c] = "idle"))
  /\ \A c \in Callers :
       /\ WF_allVars(ClientStep(Answered(c) \/ Unavailable(c) \/ Rejected(c) \/ Escaped(c)))
       /\ WF_allVars(ClientStep(Retry(c)))

-----------------------------------------------------------------------------
\* The property of the command tool (ExecTool).
OverrunKilled == Exec!OverrunKilled
=============================================================================
