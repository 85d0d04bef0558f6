------------------------------ MODULE Subagents ------------------------------
(***************************************************************************)
(* Sub-agents: SubAgentManager (app/subagents/manager.py), which records   *)
(* every run and limits depth and number of children, SubAgentExecutor     *)
(* (executor.py), which runs the agent loop of a run and reports its end   *)
(* to the manager, and the tool that agents spawn with                     *)
(* (app/tools/subagent_tool.py).  A run executes inside a tool call of the *)
(* agent that spawned it, which may time out, and can be cancelled in the  *)
(* records while it executes.                                              *)
(***************************************************************************)
EXTENDS Integers, FiniteSets

CONSTANTS
  Runs,         \* run ids
  Main,         \* parent_id of the main agent, "main"
  MaxDepth,     \* SubAgentPolicy.max_spawn_depth
  MaxChildren,  \* SubAgentPolicy.max_children_per_parent
  MaxTurns      \* bound: turns a call may ask for

ASSUME SubagentsAssumption ==
  /\ Main \notin Runs
  /\ MaxDepth \in Nat
  /\ MaxChildren \in Nat \ {0}   \* validate_policy
  /\ MaxTurns \in Nat \ {0}

VARIABLES
  recs,      \* keys of _runs
  status,    \* the status field of each record; "none" before it is spawned
  children,  \* _parent_children: the runs spawned under each parent id
  depth,     \* the depth field of each record
  above,     \* the agents that await the run, directly or through another
  exec,      \* where the execution of a run is suspended, or how it ended
  left,      \* turns the agent loop may still begin
  results    \* the runs whose tool_results_accumulated is not empty

manager == <<recs, status, children, depth, above>>
loop == <<exec, left, results>>
vars == <<manager, loop>>

Agents == Runs \cup {Main}
Terminal == {"completed", "failed", "cancelled"}
Active(r) == exec[r] \in {"chat", "tools"}
Ended == {"returned", "raised", "killed"}

TypeOK ==
  /\ recs \subseteq Runs
  /\ status \in [Runs -> {"none", "pending", "running"} \cup Terminal]
  /\ children \in [Agents -> SUBSET Runs]
  /\ depth \in [Runs -> Nat]
  /\ above \in [Runs -> SUBSET Agents]
  /\ exec \in [Runs -> {"none", "chat", "tools"} \cup Ended]
  /\ left \in [Runs -> 0 .. MaxTurns]
  /\ results \subseteq Runs

Init ==
  /\ recs = {}
  /\ status = [r \in Runs |-> "none"]
  /\ children = [p \in Agents |-> {}]
  /\ depth = [r \in Runs |-> 0]
  /\ above = [r \in Runs |-> {}]
  /\ exec = [r \in Runs |-> "none"]
  /\ left = [r \in Runs |-> 0]
  /\ results = {}

-----------------------------------------------------------------------------
(* The manager.                                                            *)

\* The depth of a new run: that of its parent plus one, if the parent has
\* children already and its record is still there; otherwise 1.
NewDepth(p) == IF children[p] # {} /\ p \in recs THEN depth[p] + 1 ELSE 1

MaySpawn(p) ==
  /\ NewDepth(p) <= MaxDepth
  /\ Cardinality(children[p]) < MaxChildren

\* The agent that makes a tool call: a run that awaits no other call, or one of
\* the main agents, which several workers run at once under the same id.
CanCall(a) ==
  a # Main => exec[a] = "tools" /\ \A c \in Runs : a \in above[c] => ~Active(c)

\* validate_policy, of the defaults with the tools the call allows: what the
\* call asks of turns and time is not put into the policy it looks at.
ValidPolicy(allow) == allow \cap {"exec", "run_code", "sudo"} = {}

\* The end of SubAgentManager.spawn_subagent.
Record(r, p) ==
  /\ recs' = recs \cup {r}
  /\ children' = [children EXCEPT ![p] = @ \cup {r}]
  /\ depth' = [depth EXCEPT ![r] = NewDepth(p)]

\* SubAgentTool.spawn_subagent, called by agent a.  With wait the run is
\* executed at once, inside the call, by the policy as it was asked for: without
\* a turn the loop ends at once and its error raises, and the record
\* stays running.  Without wait nothing ever executes the run, and the call is
\* told that it failed.
Spawn(r, a, p, wait, turns) ==
  /\ status[r] = "none"
  /\ MaySpawn(p)
  /\ Record(r, p)
  /\ IF wait
       THEN /\ status' = [status EXCEPT ![r] = "running"]
            /\ above' = [above EXCEPT ![r] = {a} \cup (IF a = Main THEN {} ELSE above[a])]
            /\ exec' = [exec EXCEPT ![r] = IF turns > 0 THEN "chat" ELSE "raised"]
            /\ left' = [left EXCEPT ![r] = IF turns > 0 THEN turns - 1 ELSE 0]
       ELSE /\ status' = [status EXCEPT ![r] = "pending"]
            /\ UNCHANGED <<above, exec, left>>
  /\ UNCHANGED results

\* SubAgentTool.execute: parent_id is an argument like the others and defaults to
\* "main".  A call that does not name its purpose and its task, that allows a
\* denied tool, or goes beyond depth or quota is refused and leaves nothing.
Execute(r, a) ==
  /\ CanCall(a)
  /\ \E p \in {a, Main}, wait \in BOOLEAN, turns \in 0 .. MaxTurns, allow \in SUBSET {"web", "exec"} :
       ValidPolicy(allow) /\ Spawn(r, a, p, wait, turns)

\* cancel_subagent: only the record changes.
Cancel(r) ==
  /\ r \in recs
  /\ status[r] \in {"pending", "running"}
  /\ status' = [status EXCEPT ![r] = "cancelled"]
  /\ UNCHANGED <<recs, children, depth, above, loop>>

\* clear_completed, for a record that is old enough; _parent_children keeps it.
ClearCompleted(r) ==
  /\ r \in recs
  /\ status[r] \in Terminal
  /\ recs' = recs \ {r}
  /\ UNCHANGED <<status, children, depth, above, loop>>

-----------------------------------------------------------------------------
(* The executor: execute_subagent and its agent loop.                      *)

\* The executions in the set end; their turns and results were local.
End(ending, how) ==
  /\ exec' = [r \in Runs |-> IF r \in ending THEN how ELSE exec[r]]
  /\ left' = [r \in Runs |-> IF r \in ending THEN 0 ELSE left[r]]
  /\ results' = results \ ending

\* The loop returned a result: update_run_status(COMPLETED).  When the record
\* is gone it raises, and so does the handler.
Complete(r) ==
  /\ IF r \in recs
       THEN status' = [status EXCEPT ![r] = "completed"] /\ End({r}, "returned")
       ELSE End({r}, "raised") /\ UNCHANGED status
  /\ UNCHANGED <<recs, children, depth, above>>

\* The model answered without tool calls.
FinalAnswer(r) ==
  /\ exec[r] = "chat"
  /\ Complete(r)

ToolCalls(r) ==
  /\ exec[r] = "chat"
  /\ exec' = [exec EXCEPT ![r] = "tools"]
  /\ UNCHANGED <<manager, left, results>>

\* Both handlers of execute_subagent call SubAgentResult.error with an argument
\* it does not take: the TypeError leaves them before the status is set.
Raise(r) ==
  /\ End({r}, "raised")
  /\ UNCHANGED manager

\* The chat timed out: what the tools have found so far is the result, if any.
ChatTimeout(r) ==
  /\ exec[r] = "chat"
  /\ IF r \in results THEN Complete(r) ELSE Raise(r)

ChatRaises(r) ==
  /\ exec[r] = "chat"
  /\ Raise(r)

\* Mutant of NextTurn: the turn is not counted.
NextTurnUncounted(r) ==
  /\ exec' = [exec EXCEPT ![r] = "chat"]
  /\ results' = results \cup {r}
  /\ UNCHANGED <<manager, left>>

NextTurn(r) ==
  /\ exec' = [exec EXCEPT ![r] = "chat"]
  /\ results' = results \cup {r}
  /\ left' = [left EXCEPT ![r] = @ - 1]
  /\ UNCHANGED manager

\* The tool calls of a turn have ended; a tool may ask the loop to stop.
ToolsDone(r) ==
  /\ exec[r] = "tools"
  /\ \A c \in Runs : r \in above[c] => ~Active(c)
  /\ \/ Complete(r)
     \/ left[r] > 0 /\ NextTurn(r)

\* Mutant of ToolTimeout: the cancellation stops at the run itself.
ToolTimeoutShallow(r) ==
  /\ Active(r)
  /\ End({r}, "killed")
  /\ UNCHANGED manager

\* The tool call that awaits a run exceeds its timeout: the CancelledError
\* passes through the run and all it awaits, and no handler catches it.
ToolTimeout(r) ==
  /\ Active(r)
  /\ End({c \in Runs : Active(c) /\ (c = r \/ r \in above[c])}, "killed")
  /\ UNCHANGED manager

-----------------------------------------------------------------------------
Loop(r) == FinalAnswer(r) \/ ToolCalls(r) \/ ChatTimeout(r) \/ ChatRaises(r) \/ ToolsDone(r)

Next ==
  \/ \E r \in Runs, a \in Agents : Execute(r, a)
  \/ \E r \in Runs : Cancel(r) \/ ClearCompleted(r) \/ Loop(r) \/ ToolTimeout(r)

Spec == Init /\ [][Next]_vars

\* Every await of the loop is bounded by a timeout.
Fairness == \A r \in Runs : WF_vars(Loop(r))

-----------------------------------------------------------------------------

\* Whoever awaits a run outlives it: an agent in a tool call does not take its
\* next turn, nor end, while a run it awaits executes.
CallerWaits ==
  \A r, c \in Runs : r \in above[c] /\ Active(c) => exec[r] = "tools"

\* Every execution ends: within its turns, or with the call that awaits it.
ExecutionsEnd == \A r \in Runs : Active(r) ~> exec[r] \in Ended
=============================================================================
