-------------------------- MODULE AutomationProofs --------------------------
(***************************************************************************)
(* Proofs about what works without being asked again: the runs of          *)
(* sub-agents, the workflow of a skill, the choice of a skill and the tools*)
(* of a request, for all sizes and all contents of the registries.         *)
(***************************************************************************)
EXTENDS Subagents, SkillEngine, SkillRouter, Personas, TLAPS

-----------------------------------------------------------------------------
(* Sub-agents.                                                             *)

\* A run that was not spawned is nobody's child and awaits nothing.
Unspawned ==
  \A r \in Runs : status[r] = "none" =>
    exec[r] = "none" /\ \A c \in Runs : r \notin above[c]

\* Whoever awaits an agent awaits what that one awaits.
Nested == \A r, c \in Runs : r \in above[c] => above[r] \subseteq above[c]

RunsInv == TypeOK /\ Unspawned /\ Nested /\ CallerWaits

\* What a step of the executor leaves alone: only exec, left, results, and the
\* status of runs that were spawned, change.
LEMMA LoopKeeps ==
  ASSUME RunsInv, TypeOK', UNCHANGED above,
         \A r \in Runs : status'[r] = "none" => status[r] = "none" /\ exec'[r] = exec[r]
  PROVE  Unspawned' /\ Nested'
BY DEF RunsInv, Unspawned, Nested, TypeOK

\* The executions in the set end as one: what is below one of them is among
\* them, or is not active.
LEMMA EndingWaits ==
  ASSUME RunsInv, NEW ending \in SUBSET Runs, NEW how \in Ended,
         \A r \in ending : exec[r] # "none",
         \A r \in ending, c \in Runs : r \in above[c] /\ Active(c) => c \in ending,
         End(ending, how), UNCHANGED above
  PROVE  /\ CallerWaits'
         /\ exec' \in [Runs -> {"none", "chat", "tools"} \cup Ended]
         /\ left' \in [Runs -> 0 .. MaxTurns] /\ results' \subseteq Runs
         /\ \A r \in Runs : exec'[r] # exec[r] => exec[r] # "none"
<1>1. MaxTurns \in Nat
  BY SubagentsAssumption
<1>2. \A r \in Runs : exec'[r] = IF r \in ending THEN how ELSE exec[r]
  BY DEF End
<1>3. how \notin {"chat", "tools"}
  BY DEF Ended
<1>4. exec' \in [Runs -> {"none", "chat", "tools"} \cup Ended]
  BY DEF End, RunsInv, TypeOK
<1>5. left' \in [Runs -> 0 .. MaxTurns] /\ results' \subseteq Runs
  BY <1>1 DEF End, RunsInv, TypeOK
<1>6. CallerWaits'
  <2> SUFFICES ASSUME NEW r \in Runs, NEW c \in Runs, r \in above[c], Active(c)'
               PROVE  exec'[r] = "tools"
    BY DEF CallerWaits
  <2>1. c \notin ending /\ Active(c)
    BY <1>2, <1>3 DEF Active
  <2>2. r \notin ending
    BY <2>1
  <2> QED
    BY <1>2, <2>1, <2>2 DEF RunsInv, CallerWaits
<1> QED
  BY <1>2, <1>4, <1>5, <1>6

\* A run that awaits no active run may end.
LEMMA EndKeeps ==
  ASSUME RunsInv, NEW r \in Runs, Active(r),
         \A c \in Runs : r \in above[c] => ~Active(c),
         Complete(r) \/ Raise(r)
  PROVE  RunsInv'
<1>1. \E how \in Ended : End({r}, how)
  BY DEF Complete, Raise, Ended
<1>2. UNCHANGED <<recs, children, depth, above>>
  BY DEF Complete, Raise, manager
<1>3. exec[r] # "none"
  BY DEF Active
<1>4. status[r] # "none"
  BY <1>3 DEF RunsInv, Unspawned
<1>5. status' \in [Runs -> {"none", "pending", "running"} \cup Terminal]
  BY DEF Complete, Raise, manager, RunsInv, TypeOK, Terminal
<1>6. \A c \in Runs : status'[c] = "none" => status[c] = "none"
  BY <1>4 DEF Complete, Raise, manager, RunsInv, TypeOK, Terminal
<1>7. /\ CallerWaits'
      /\ exec' \in [Runs -> {"none", "chat", "tools"} \cup Ended]
      /\ left' \in [Runs -> 0 .. MaxTurns] /\ results' \subseteq Runs
      /\ \A c \in Runs : exec'[c] # exec[c] => exec[c] # "none"
  BY <1>1, <1>2, <1>3, EndingWaits
<1>8. TypeOK'
  BY <1>2, <1>5, <1>7 DEF RunsInv, TypeOK
<1>9. \A c \in Runs : status'[c] = "none" => status[c] = "none" /\ exec'[c] = exec[c]
  BY <1>6, <1>7 DEF RunsInv, Unspawned
<1>10. Unspawned' /\ Nested'
  BY <1>2, <1>8, <1>9, LoopKeeps
<1> QED
  BY <1>7, <1>8, <1>10 DEF RunsInv

LEMMA ExecuteKeeps ==
  ASSUME RunsInv, NEW r \in Runs, NEW a \in Agents, Execute(r, a)
  PROVE  RunsInv'
<1> PICK p \in {a, Main}, wait \in BOOLEAN, turns \in 0 .. MaxTurns : Spawn(r, a, p, wait, turns)
  BY DEF Execute
<1>1. MaxTurns \in Nat /\ Main \notin Runs /\ p \in Agents
  BY SubagentsAssumption DEF Agents
<1>2. CanCall(a)
  BY DEF Execute
<1>3. status[r] = "none" /\ exec[r] = "none" /\ \A c \in Runs : r \notin above[c]
  BY DEF Spawn, RunsInv, Unspawned
<1>4. depth' \in [Runs -> Nat] /\ recs' \subseteq Runs /\ children' \in [Agents -> SUBSET Runs]
  <2>1. NewDepth(p) \in Nat
    BY DEF NewDepth, RunsInv, TypeOK
  <2> QED
    BY <1>1, <2>1 DEF Spawn, Record, RunsInv, TypeOK
<1>5. CASE ~wait
  <2>1. status' = [status EXCEPT ![r] = "pending"] /\ UNCHANGED <<above, exec, left, results>>
    BY <1>5 DEF Spawn
  <2>2. TypeOK'
    BY <1>4, <2>1 DEF RunsInv, TypeOK
  <2>3. Unspawned' /\ Nested' /\ CallerWaits'
    BY <2>1 DEF RunsInv, TypeOK, Unspawned, Nested, CallerWaits, Active
  <2> QED
    BY <2>2, <2>3 DEF RunsInv
<1>6. CASE wait
  <2> DEFINE line == {a} \cup (IF a = Main THEN {} ELSE above[a])
  <2>1. /\ status' = [status EXCEPT ![r] = "running"]
        /\ above' = [above EXCEPT ![r] = line]
        /\ exec' = [exec EXCEPT ![r] = IF turns > 0 THEN "chat" ELSE "raised"]
        /\ left' = [left EXCEPT ![r] = IF turns > 0 THEN turns - 1 ELSE 0]
        /\ results' = results
    BY <1>6 DEF Spawn
  <2>2. a # Main => a \in Runs /\ exec[a] = "tools" /\ a # r
    BY <1>2, <1>3 DEF CanCall, Agents
  <2>3. line \in SUBSET Agents
    BY <2>2 DEF RunsInv, TypeOK, Agents
  <2>4. r \notin line /\ \A x \in line \cap Runs : exec[x] = "tools" /\ above[x] \subseteq line
    <3>1. CASE a = Main
      BY <1>1, <3>1
    <3>2. CASE a # Main
      <4>1. line = {a} \cup above[a] /\ Active(a) /\ a \in Runs
        BY <2>2, <3>2 DEF Active
      <4>2. \A x \in above[a] \cap Runs : exec[x] = "tools" /\ above[x] \subseteq above[a]
        BY <4>1 DEF RunsInv, CallerWaits, Nested
      <4> QED
        BY <1>3, <2>2, <3>2, <4>1, <4>2
    <3> QED
      BY <3>1, <3>2
  <2> HIDE DEF line
  <2>5. TypeOK'
    BY <1>1, <1>4, <2>1, <2>3 DEF RunsInv, TypeOK, Ended
  <2>6. \A c \in Runs : above'[c] = IF c = r THEN line ELSE above[c]
    BY <2>1 DEF RunsInv, TypeOK
  <2>7. \A c \in Runs : c # r => exec'[c] = exec[c] /\ status'[c] = status[c]
    BY <2>1 DEF RunsInv, TypeOK
  <2>8. status'[r] = "running" /\ r \notin line
    BY <2>1, <2>4 DEF RunsInv, TypeOK
  <2>9. Nested'
    BY <1>3, <2>4, <2>6 DEF RunsInv, Nested
  <2>10. CallerWaits'
    BY <1>3, <2>4, <2>6, <2>7 DEF RunsInv, CallerWaits, Active
  <2>11. Unspawned'
    <3> SUFFICES ASSUME NEW x \in Runs, status'[x] = "none"
                 PROVE  exec'[x] = "none" /\ \A c \in Runs : x \notin above'[c]
      BY DEF Unspawned
    <3>1. x # r /\ status[x] = "none" /\ exec'[x] = exec[x]
      BY <2>7, <2>8
    <3>2. exec[x] = "none" /\ \A c \in Runs : x \notin above[c]
      BY <3>1 DEF RunsInv, Unspawned
    <3>3. x \notin line
      BY <2>4, <3>2
    <3> QED
      BY <2>6, <3>1, <3>2, <3>3
  <2> QED
    BY <2>5, <2>9, <2>10, <2>11 DEF RunsInv
<1> QED
  BY <1>5, <1>6

LEMMA ToolTimeoutKeeps ==
  ASSUME RunsInv, NEW r \in Runs, ToolTimeout(r)
  PROVE  RunsInv'
<1> DEFINE ending == {c \in Runs : Active(c) /\ (c = r \/ r \in above[c])}
<1>1. Active(r) /\ End(ending, "killed") /\ UNCHANGED <<recs, status, children, depth, above>>
  BY DEF ToolTimeout, manager
<1>2. \A x \in ending : x \in Runs /\ exec[x] # "none"
  BY DEF Active
<1>3. \A x \in ending, c \in Runs : x \in above[c] /\ Active(c) => c \in ending
  BY DEF RunsInv, Nested
<1> HIDE DEF ending
<1>4. ending \in SUBSET Runs /\ "killed" \in Ended
  BY <1>2 DEF Ended
<1>5. /\ CallerWaits'
      /\ exec' \in [Runs -> {"none", "chat", "tools"} \cup Ended]
      /\ left' \in [Runs -> 0 .. MaxTurns] /\ results' \subseteq Runs
      /\ \A c \in Runs : exec'[c] # exec[c] => exec[c] # "none"
  BY <1>1, <1>2, <1>3, <1>4, EndingWaits
<1>6. TypeOK'
  BY <1>1, <1>5 DEF RunsInv, TypeOK
<1>7. \A c \in Runs : status'[c] = "none" => status[c] = "none" /\ exec'[c] = exec[c]
  BY <1>1, <1>5 DEF RunsInv, Unspawned
<1>8. Unspawned' /\ Nested'
  BY <1>1, <1>6, <1>7, LoopKeeps
<1> QED
  BY <1>5, <1>6, <1>8 DEF RunsInv

LEMMA LoopStepKeeps ==
  ASSUME RunsInv, NEW r \in Runs, Loop(r)
  PROVE  RunsInv'
<1>1. CASE exec[r] = "chat" /\ (Complete(r) \/ Raise(r))
  <2>1. Active(r) /\ \A c \in Runs : r \in above[c] => ~Active(c)
    BY <1>1 DEF RunsInv, CallerWaits, Active
  <2> QED
    BY <1>1, <2>1, EndKeeps
<1>2. CASE ToolCalls(r)
  <2>1. /\ exec[r] = "chat" /\ exec' = [exec EXCEPT ![r] = "tools"]
        /\ UNCHANGED <<recs, status, children, depth, above, left, results>>
    BY <1>2 DEF ToolCalls, manager
  <2>2. TypeOK'
    BY <2>1 DEF RunsInv, TypeOK
  <2>3. \A c \in Runs : exec'[c] = IF c = r THEN "tools" ELSE exec[c]
    BY <2>1 DEF RunsInv, TypeOK
  <2>4. CallerWaits'
    BY <2>1, <2>3 DEF RunsInv, CallerWaits, Active
  <2>5. \A c \in Runs : status'[c] = "none" => status[c] = "none" /\ exec'[c] = exec[c]
    BY <2>1, <2>3 DEF RunsInv, Unspawned
  <2> QED
    BY <2>1, <2>2, <2>4, <2>5, LoopKeeps DEF RunsInv
<1>3. CASE ToolsDone(r) /\ Complete(r)
  <2>1. Active(r) /\ \A c \in Runs : r \in above[c] => ~Active(c)
    BY <1>3 DEF ToolsDone, Active
  <2> QED
    BY <1>3, <2>1, EndKeeps
<1>4. CASE ToolsDone(r) /\ left[r] > 0 /\ NextTurn(r)
  <2>1. MaxTurns \in Nat
    BY SubagentsAssumption
  <2>2. /\ exec[r] = "tools" /\ exec' = [exec EXCEPT ![r] = "chat"]
        /\ results' = results \cup {r} /\ left' = [left EXCEPT ![r] = @ - 1]
        /\ UNCHANGED <<recs, status, children, depth, above>>
        /\ \A c \in Runs : r \in above[c] => ~Active(c)
    BY <1>4 DEF ToolsDone, NextTurn, manager
  <2>3. left' \in [Runs -> 0 .. MaxTurns]
    BY <1>4, <2>1, <2>2 DEF RunsInv, TypeOK
  <2>4. TypeOK'
    BY <2>2, <2>3 DEF RunsInv, TypeOK
  <2>5. \A c \in Runs : exec'[c] = IF c = r THEN "chat" ELSE exec[c]
    BY <2>2 DEF RunsInv, TypeOK
  <2>6. CallerWaits'
    <3> SUFFICES ASSUME NEW x \in Runs, NEW c \in Runs, x \in above[c], Active(c)'
                 PROVE  exec'[x] = "tools"
      BY <2>2 DEF CallerWaits
    <3>1. Active(c)
      BY <2>2, <2>5 DEF Active
    <3>2. x # r /\ exec[x] = "tools"
      BY <2>2, <3>1 DEF RunsInv, CallerWaits
    <3> QED
      BY <2>5, <3>2
  <2>7. \A c \in Runs : status'[c] = "none" => status[c] = "none" /\ exec'[c] = exec[c]
    BY <2>2, <2>5 DEF RunsInv, Unspawned
  <2> QED
    BY <2>2, <2>4, <2>6, <2>7, LoopKeeps DEF RunsInv
<1> QED
  BY <1>1, <1>2, <1>3, <1>4 DEF Loop, FinalAnswer, ChatTimeout, ChatRaises, ToolsDone

LEMMA CancelKeeps ==
  ASSUME RunsInv, NEW r \in Runs, Cancel(r) \/ ClearCompleted(r)
  PROVE  RunsInv'
<1>1. UNCHANGED <<children, depth, above, exec, left, results>> /\ recs' \subseteq Runs
  BY DEF Cancel, ClearCompleted, loop, RunsInv, TypeOK
<1>2. /\ status' \in [Runs -> {"none", "pending", "running"} \cup Terminal]
      /\ \A c \in Runs : status'[c] = "none" => status[c] = "none"
  BY DEF Cancel, ClearCompleted, RunsInv, TypeOK, Terminal
<1>3. TypeOK'
  BY <1>1, <1>2 DEF RunsInv, TypeOK
<1>4. CallerWaits'
  BY <1>1 DEF RunsInv, CallerWaits, Active
<1> QED
  BY <1>1, <1>2, <1>3, <1>4, LoopKeeps DEF RunsInv

LEMMA RunsStart == Init => RunsInv
<1> SUFFICES ASSUME Init PROVE RunsInv
  OBVIOUS
<1>1. MaxTurns \in Nat
  BY SubagentsAssumption
<1> QED
  BY <1>1 DEF Init, RunsInv, TypeOK, Unspawned, Nested, CallerWaits, Active

LEMMA RunsStep == RunsInv /\ [Next]_vars => RunsInv'
<1> SUFFICES ASSUME RunsInv, [Next]_vars PROVE RunsInv'
  OBVIOUS
<1>1. CASE UNCHANGED vars
  BY <1>1 DEF vars, manager, loop, RunsInv, TypeOK, Unspawned, Nested, CallerWaits, Active
<1>2. ASSUME NEW r \in Runs, NEW a \in Agents, Execute(r, a) PROVE RunsInv'
  BY <1>2, ExecuteKeeps
<1>3. ASSUME NEW r \in Runs, Cancel(r) \/ ClearCompleted(r) PROVE RunsInv'
  BY <1>3, CancelKeeps
<1>4. ASSUME NEW r \in Runs, Loop(r) PROVE RunsInv'
  BY <1>4, LoopStepKeeps
<1>5. ASSUME NEW r \in Runs, ToolTimeout(r) PROVE RunsInv'
  BY <1>5, ToolTimeoutKeeps
<1> QED
  BY <1>1, <1>2, <1>3, <1>4, <1>5 DEF Next

\* The records and the executions of sub-agents keep their types: in particular
\* a run never begins more turns than its call asked for.
THEOREM SubagentsTyped == Spec => []TypeOK
<1>1. RunsInv => TypeOK
  BY DEF RunsInv
<1> QED
  BY <1>1, RunsStart, RunsStep, PTL DEF Spec

\* Whoever awaits a run outlives it (executor.py, _execute_tool_call): however
\* runs are nested, cancelled, cleared and stopped by timeouts, an agent is in its
\* tool call as long as a run below it executes.
THEOREM CallersWait == Spec => []CallerWaits
<1>1. RunsInv => CallerWaits
  BY DEF RunsInv
<1> QED
  BY <1>1, RunsStart, RunsStep, PTL DEF Spec

-----------------------------------------------------------------------------
(* The workflow of a skill.                                                *)

\* A step that raised had a branch for it, unless the workflow ended there.
Branched == success # "no" => \A s \in raised : fail[s] # 0

\* A workflow is at a step only while it runs, and ends well only after one.
Tried ==
  /\ pos # 0 => success = "none"
  /\ success = "yes" => stepResults \cup raised # {}

EngineInv == EngineTypeOK /\ Branched /\ Tried

LEMMA EngineStart == EngineInit => EngineInv
BY SkillAssumption DEF EngineInit, EngineInv, EngineTypeOK, Branched, Tried, Steps

\* The next step is one of the workflow, whatever the targets name.
LEMMA BranchStays ==
  ASSUME EngineTypeOK, NEW s \in Steps, NEW o
  PROVE  Branch(s, o) \in 0 .. N /\ GetStep(fail[s]) \in 0 .. N
<1>1. N \in Nat \ {0}
  BY SkillAssumption
<1>2. \A t : GetStep(t) \in 0 .. N
  BY <1>1 DEF GetStep, Steps
<1>3. Following(s) \in 0 .. N
  BY <1>1 DEF Following, Steps
<1> QED
  BY <1>2, <1>3 DEF Branch

LEMMA EngineStep == EngineInv /\ [EngineNext]_engineVars => EngineInv'
<1> SUFFICES ASSUME EngineInv, [EngineNext]_engineVars PROVE EngineInv'
  OBVIOUS
<1>1. N \in Nat \ {0}
  BY SkillAssumption
<1>2. CASE UNCHANGED engineVars
  BY <1>2 DEF engineVars, workflow, EngineInv, EngineTypeOK, Branched, Tried
<1>3. CASE MissingInput
  BY <1>3 DEF MissingInput, workflow, EngineInv, EngineTypeOK, Branched, Tried
<1>4. CASE Start
  BY <1>1, <1>4 DEF Start, workflow, EngineInv, EngineTypeOK, Branched, Tried
<1>5. CASE Result
  <2>1. pos \in Steps /\ UNCHANGED <<kind, succ, fail, raised>> /\ stepResults' = stepResults \cup {pos}
    BY <1>1, <1>5 DEF Result, workflow, Steps, EngineInv, EngineTypeOK
  <2>2. \A o : Branch(pos, o) \in 0 .. N
    BY <2>1, BranchStays DEF EngineInv
  <2>3. PICK s \in 0 .. N : GoTo(s)
    BY <1>1, <1>5, <2>2 DEF Result
  <2>4. pos' = s /\ (s = 0 => success' = "yes") /\ (s # 0 => success' = "none")
    BY <2>3 DEF GoTo
  <2>5. EngineTypeOK'
    BY <2>1, <2>4 DEF EngineInv, EngineTypeOK
  <2>6. success = "none" /\ Branched' /\ Tried'
    BY <2>1, <2>4 DEF EngineInv, Branched, Tried, Steps
  <2> QED
    BY <2>5, <2>6 DEF EngineInv
<1>6. CASE StepRaises
  <2>1. pos \in Steps /\ UNCHANGED <<kind, succ, fail, stepResults>> /\ raised' = raised \cup {pos}
    BY <1>1, <1>6 DEF StepRaises, workflow, Steps, EngineInv, EngineTypeOK
  <2>2. success = "none"
    BY <2>1, <1>6 DEF StepRaises, EngineInv, Tried
  <2>3. CASE fail[pos] # 0
    <3>1. PICK s \in 0 .. N : GoTo(s)
      BY <1>6, <2>1, <2>3, BranchStays DEF StepRaises, EngineInv
    <3>2. pos' = s /\ (s = 0 => success' = "yes") /\ (s # 0 => success' = "none")
      BY <3>1 DEF GoTo
    <3>3. EngineTypeOK'
      BY <2>1, <3>2 DEF EngineInv, EngineTypeOK
    <3>4. Branched' /\ Tried'
      BY <2>1, <2>2, <2>3, <3>2 DEF EngineInv, Branched, Tried
    <3> QED
      BY <3>3, <3>4 DEF EngineInv
  <2>4. CASE fail[pos] = 0
    <3>1. pos' = 0 /\ success' = "no"
      BY <1>6, <2>4 DEF StepRaises, Unhandled
    <3>2. EngineTypeOK'
      BY <1>1, <2>1, <3>1 DEF EngineInv, EngineTypeOK
    <3>3. Branched' /\ Tried'
      BY <3>1 DEF Branched, Tried
    <3> QED
      BY <3>2, <3>3 DEF EngineInv
  <2> QED
    BY <2>3, <2>4
<1> QED
  BY <1>2, <1>3, <1>4, <1>5, <1>6 DEF EngineNext

\* The workflow keeps its steps and branches, and the position, the results and the
\* exceptions of its execution stay among its steps, whatever the steps return or raise
\* and wherever the workflow jumps (execute_skill, engine.py:119).
THEOREM EngineTyped == EngineSpec => []EngineTypeOK
<1>1. EngineInv => EngineTypeOK
  BY DEF EngineInv
<1> QED
  BY <1>1, EngineStart, EngineStep, PTL DEF EngineSpec

\* A skill reports success only when each exception had a branch and something was
\* tried (execute_skill, engine.py:119), in every workflow of every length, those
\* that loop and those whose targets name no step included.
THEOREM SuccessIsHandled == EngineSpec => []SuccessMeansHandled
<1>1. EngineInv => SuccessMeansHandled
  BY DEF EngineInv, Branched, Tried, SuccessMeansHandled
<1> QED
  BY <1>1, EngineStart, EngineStep, PTL DEF EngineSpec

-----------------------------------------------------------------------------
(* The choice of a skill.                                                  *)

\* The best match is the first of the highest confidence among those tried so far.
BestSoFar ==
  /\ best = 0 => \A i \in 1 .. next - 1 : tried[i].confidence = 0
  /\ best # 0 =>
       /\ tried[best].confidence > 0
       /\ \A i \in 1 .. next - 1 : tried[i].confidence <= tried[best].confidence
       /\ \A i \in 1 .. best - 1 : tried[i].confidence < tried[best].confidence

RouterShape ==
  /\ tried \in Seq(Triggers)
  /\ next \in 1 .. Len(tried) + 1
  /\ best \in 0 .. next - 1

RouterInv == RouterShape /\ BestSoFar /\ RoutesToFirstBest

LEMMA ConfidenceNat ==
  ASSUME RouterShape, NEW i \in DOMAIN tried
  PROVE  tried[i].confidence \in Nat /\ tried[i] \in Triggers
<1>1. tried[i] \in Triggers
  BY DEF RouterShape
<1>2. tried[i].confidence \in Confidences
  BY <1>1 DEF Triggers
<1> QED
  BY <1>1, <1>2 DEF Confidences

LEMMA RouterStart == RouterInit => RouterInv
<1> SUFFICES ASSUME RouterInit PROVE RouterInv
  OBVIOUS
<1>1. tried \in BoundedSeq(Triggers, MaxTriggers)
  BY DEF RouterInit
<1>2. tried \in Seq(Triggers)
  BY <1>1, RouterAssumption DEF BoundedSeq, SeqOf
<1>3. RouterShape
  BY <1>2 DEF RouterInit, RouterShape
<1>4. BestSoFar
  BY DEF RouterInit, BestSoFar
<1>5. RoutesToFirstBest
  BY DEF RouterInit, RoutesToFirstBest
<1> QED
  BY <1>3, <1>4, <1>5 DEF RouterInv

LEMMA MatchKeeps ==
  ASSUME RouterInv, MatchTrigger
  PROVE  RouterInv'
<1>1. UNCHANGED <<direct, tried, routed>> /\ next' = next + 1 /\ next \in 1 .. Len(tried)
  BY DEF MatchTrigger, RouterInv, RouterShape
<1>2. RouterShape
  BY DEF RouterInv
<1>3. Len(tried) \in Nat /\ DOMAIN tried = 1 .. Len(tried)
  BY <1>2 DEF RouterShape
<1>4. \A i \in 1 .. Len(tried) : tried[i].confidence \in Nat
  BY <1>2, <1>3, ConfidenceNat
<1>5. RoutesToFirstBest'
  <2>1. routed' = "none"
    BY <1>1 DEF MatchTrigger
  <2> QED
    BY <2>1 DEF RoutesToFirstBest
<1>6. CASE tried[next].confidence > 0 /\ Better(next)
  <2>1. best' = next
    BY <1>6 DEF MatchTrigger
  <2>2. RouterShape'
    BY <1>1, <1>2, <2>1 DEF RouterShape
  <2>3. \A i \in 1 .. next - 1 : tried[i].confidence < tried[next].confidence
    <3>1. CASE best = 0
      BY <1>6, <3>1 DEF RouterInv, BestSoFar
    <3>2. CASE best # 0
      <4>1. best \in 1 .. Len(tried) /\ tried[next].confidence > tried[best].confidence
        BY <1>1, <1>2, <1>3, <1>6, <3>2 DEF Better, RouterShape
      <4>2. \A i \in 1 .. next - 1 : tried[i].confidence <= tried[best].confidence
        BY <3>2 DEF RouterInv, BestSoFar
      <4>3. \A i \in 1 .. next - 1 : i \in 1 .. Len(tried)
        BY <1>1, <1>3
      <4> QED
        BY <1>1, <1>4, <4>1, <4>2, <4>3
    <3> QED
      BY <3>1, <3>2
  <2>4. \A i \in 1 .. next' - 1 : tried[i].confidence <= tried[next].confidence
    <3> SUFFICES ASSUME NEW i \in 1 .. next PROVE tried[i].confidence <= tried[next].confidence
      BY <1>1
    <3>1. CASE i = next
      BY <1>1, <1>4, <3>1
    <3>2. CASE i # next
      <4>1. i \in 1 .. next - 1 /\ i \in 1 .. Len(tried)
        BY <1>1, <1>3, <3>2
      <4> QED
        BY <1>1, <1>4, <2>3, <4>1
    <3> QED
      BY <3>1, <3>2
  <2>5. BestSoFar'
    BY <1>1, <1>6, <2>1, <2>3, <2>4 DEF BestSoFar
  <2> QED
    BY <1>5, <2>2, <2>5 DEF RouterInv
<1>7. CASE ~(tried[next].confidence > 0 /\ Better(next))
  <2>1. best' = best
    BY <1>7 DEF MatchTrigger
  <2>2. RouterShape'
    BY <1>1, <1>2, <2>1 DEF RouterShape
  <2>3. \A i \in 1 .. next' - 1 : i \in 1 .. next - 1 \/ i = next
    BY <1>1
  <2>4. CASE best = 0
    <3>1. tried[next].confidence = 0
      BY <1>1, <1>4, <1>7, <2>4 DEF Better
    <3> QED
      BY <1>1, <1>5, <2>1, <2>2, <2>3, <2>4, <3>1 DEF RouterInv, BestSoFar
  <2>5. CASE best # 0
    <3>1. best \in 1 .. Len(tried) /\ tried[best].confidence > 0
      BY <1>1, <1>2, <1>3, <2>5 DEF RouterInv, RouterShape, BestSoFar
    <3>2. tried[next].confidence <= tried[best].confidence
      BY <1>1, <1>4, <1>7, <2>5, <3>1 DEF Better
    <3> QED
      BY <1>1, <1>5, <2>1, <2>2, <2>3, <2>5, <3>1, <3>2 DEF RouterInv, BestSoFar
  <2> QED
    BY <2>4, <2>5
<1> QED
  BY <1>6, <1>7

\* What route_intent returns at the end is what the reference names.
LEMMA ReturnFirstBest ==
  ASSUME RouterInv, Return
  PROVE  routed' = Expected
<1>1. RouterShape /\ BestSoFar /\ direct = NoSkill /\ next = Len(tried) + 1
  BY DEF RouterInv, RouterShape, Return
<1>2. Len(tried) \in Nat /\ DOMAIN tried = 1 .. Len(tried) /\ next - 1 = Len(tried)
  BY <1>1 DEF RouterShape
<1>3. \A i \in DOMAIN tried : tried[i].confidence \in Nat
  BY <1>1, ConfidenceNat
<1>4. CASE best = 0
  <2>1. Matches = {}
    BY <1>1, <1>2, <1>3, <1>4 DEF BestSoFar, Matches
  <2> QED
    BY <1>1, <1>4, <2>1 DEF Return, Expected
<1>5. CASE best # 0
  <2>1. best \in Matches
    BY <1>1, <1>2, <1>5 DEF BestSoFar, RouterShape, Matches
  <2>2. \A i \in Matches : Confidence(i) \in Nat /\ Confidence(i) <= Confidence(best)
    BY <1>1, <1>2, <1>3, <1>5 DEF BestSoFar, Matches, Confidence
  <2>3. Max({Confidence(j) : j \in Matches}) = Confidence(best)
    <3> DEFINE S == {Confidence(j) : j \in Matches}
    <3>1. Confidence(best) \in S /\ \A y \in S : y \in Nat /\ y <= Confidence(best)
      BY <2>1, <2>2
    <3> HIDE DEF S
    <3>2. Max(S) \in S /\ \A y \in S : Max(S) >= y
      BY <3>1 DEF Max
    <3>3. Max(S) = Confidence(best)
      BY <3>1, <3>2
    <3> QED
      BY <3>3 DEF S
  <2>4. best \in Top /\ \A i \in Top : i \in DOMAIN tried /\ Confidence(i) = Confidence(best)
    BY <2>1, <2>3 DEF Top, Matches
  <2>5. \A i \in Top : i \in Nat /\ i >= best
    <3> SUFFICES ASSUME NEW i \in Top PROVE i \in Nat /\ i >= best
      OBVIOUS
    <3>1. i \in 1 .. Len(tried) /\ best \in 1 .. Len(tried)
      BY <1>2, <2>1, <2>4 DEF Matches
    <3>2. tried[i].confidence = tried[best].confidence
      BY <2>4 DEF Confidence
    <3>3. tried[best].confidence \in Nat
      BY <1>2, <1>3, <3>1
    <3>4. i \notin 1 .. best - 1
      BY <1>1, <1>5, <3>2, <3>3 DEF BestSoFar
    <3> QED
      BY <1>2, <3>1, <3>4
  <2>6. Min(Top) = best
    <3>1. Min(Top) \in Top /\ \A y \in Top : Min(Top) =< y
      BY <2>4, <2>5 DEF Min
    <3> QED
      BY <2>4, <2>5, <3>1
  <2> QED
    BY <1>1, <1>5, <2>1, <2>6 DEF Return, Expected
<1> QED
  BY <1>4, <1>5

LEMMA RouterStep == RouterInv /\ [RouterNext]_routerVars => RouterInv'
<1> SUFFICES ASSUME RouterInv, [RouterNext]_routerVars PROVE RouterInv'
  OBVIOUS
<1>1. CASE UNCHANGED routerVars
  <2>1. UNCHANGED <<direct, tried, next, best, routed>>
    BY <1>1 DEF routerVars
  <2>2. Expected' = Expected
    BY <2>1 DEF Expected, Matches, Top, Confidence
  <2> QED
    BY <2>1, <2>2 DEF RouterInv, RouterShape, BestSoFar, RoutesToFirstBest
<1>2. CASE MatchTrigger
  BY <1>2, MatchKeeps
<1>3. CASE CheckDirectInvocation \/ Return
  <2>1. UNCHANGED <<direct, tried, next, best>>
    BY <1>3 DEF CheckDirectInvocation, Return
  <2>2. Expected' = Expected
    BY <2>1 DEF Expected, Matches, Top, Confidence
  <2>3. routed' = Expected
    BY <1>3, ReturnFirstBest DEF CheckDirectInvocation, Expected
  <2> QED
    BY <2>1, <2>2, <2>3 DEF RouterInv, RouterShape, BestSoFar, RoutesToFirstBest
<1> QED
  BY <1>1, <1>2, <1>3 DEF RouterNext

\* The router returns the skill invoked directly, or that of the first trigger
\* among those of the highest confidence (route_intent, router.py), for any number
\* of skills and triggers in any order.
THEOREM RoutedToFirstBest == RouterSpec => []RoutesToFirstBest
<1>1. RouterInv => RoutesToFirstBest
  BY DEF RouterInv
<1> QED
  BY <1>1, RouterStart, RouterStep, PTL DEF RouterSpec

-----------------------------------------------------------------------------
(* The tools of a request.                                                 *)

\* No message of a chat has another profile than "balanced".
JobProfile == path = "job" => profile = "balanced"

\* A request that runs has the tools of its profile, and is offered what its policy
\* leaves of them; before, nothing was called.
RequestInv ==
  /\ request.at # "running" => last = NoCall
  /\ request.at = "running" =>
       /\ request.offered = Offered(request.allowed)
       /\ profile # "dangerous" => request.allowed \subseteq PlatformTools(profile)

\* What is barred for a request that runs is not among its tools.
BarredInv ==
  /\ request.at # "running" => barred = {}
  /\ request.at = "running" =>
       barred = {} \/ (request.allowed # All /\ request.allowed \cap barred = {})

\* A request has these fields, whatever it has come to.
RequestFields == DOMAIN request = {"at", "mode", "soul", "allowed", "offered"}

PersonaInv == RequestFields /\ JobProfile /\ RequestInv /\ BarredInv /\ OfferedRuns /\ ModeHolds

\* The tools of a profile are those the executor lets a profile use, and what they
\* allow of a soul never goes beyond them.
LEMMA AllowedInProfile ==
  ASSUME NEW soul, NEW mode, profile # "dangerous"
  PROVE  /\ Effective(soul, mode) \subseteq PlatformTools(profile)
         /\ PlatformTools(profile) = ProfileTools(profile)
         /\ All # Effective(soul, mode)
<1>1. Effective(soul, mode) \subseteq PlatformTools(profile)
  BY DEF Effective
<1>2. PlatformTools(profile) = ProfileTools(profile) /\ "*" \notin PlatformTools(profile)
  BY DEF PlatformTools, ProfileTools, SafeTools
<1> QED
  BY <1>1, <1>2 DEF All

\* A mode keeps its tools from a request unless all are allowed.
LEMMA AvoidedNotAllowed ==
  ASSUME NEW soul, NEW mode, Effective(soul, mode) # All
  PROVE  Effective(soul, mode) \cap Canonicals(mode.avoid) = {}
BY DEF Effective

LEMMA PersonaStart == PersonasInit => PersonaInv
<1> SUFFICES ASSUME PersonasInit PROVE PersonaInv
  OBVIOUS
<1>1. request.at = "none" /\ last = NoCall /\ last.verdict = "none" /\ barred = {}
  BY DEF PersonasInit, NoRequest, NoCall
<1>2. JobProfile
  BY DEF PersonasInit, JobProfile
<1>3. RequestFields
  BY DEF PersonasInit, NoRequest, RequestFields
<1> QED
  BY <1>1, <1>2, <1>3 DEF PersonaInv, RequestInv, BarredInv, OfferedRuns, ModeHolds

\* What is offered depends on path, profile and policy only.
LEMMA OfferedStays ==
  ASSUME UNCHANGED <<path, profile>>
  PROVE  \A allowed : Offered(allowed)' = Offered(allowed)
BY DEF Offered, Permitted, IsAdmin, ChatId

\* What does not concern the request at hand: the chat's choice, the registries.
LEMMA OthersKeep ==
  ASSUME PersonaInv, UNCHANGED <<path, profile, request, last, barred>>
  PROVE  PersonaInv'
<1>1. \A allowed : Offered(allowed)' = Offered(allowed)
  BY OfferedStays
<1> QED
  BY <1>1 DEF PersonaInv, RequestFields, JobProfile, RequestInv, BarredInv, OfferedRuns, ModeHolds,
              PlatformTools, Allows

\* A request begins with what its persona allows: nothing that is barred then.
LEMMA BeginKeeps ==
  ASSUME PersonaInv, NEW refs, Begin(refs), UNCHANGED <<path, profile>>, last' = NoCall,
         LET allowed == Effective(Newest(Souls(refs.soul)), Newest(Modes(refs.mode)))
         IN barred' = {} \/ (allowed # All /\ allowed \cap barred' = {})
  PROVE  PersonaInv'
<1> DEFINE allowed == Effective(Newest(Souls(refs.soul)), Newest(Modes(refs.mode)))
<1>1. request' = [request EXCEPT !.at = "running", !.allowed = allowed, !.offered = Offered(allowed)]
  BY DEF Begin
<1>2. barred' = {} \/ (allowed # All /\ allowed \cap barred' = {})
  OBVIOUS
<1>3. profile # "dangerous" => allowed \subseteq PlatformTools(profile)
  BY AllowedInProfile
<1> HIDE DEF allowed
<1>4. request'.at = "running" /\ request'.allowed = allowed /\ request'.offered = Offered(allowed)
  BY <1>1 DEF PersonaInv, RequestFields
<1>5. RequestFields'
  BY <1>1 DEF PersonaInv, RequestFields
<1>6. RequestInv'
  <2>1. request.allowed' = allowed
    BY <1>4
  <2>2. Offered(request.allowed)' = Offered(allowed)
    BY <2>1 DEF Offered, Permitted, IsAdmin, ChatId, Allows
  <2>3. PlatformTools(profile)' = PlatformTools(profile)
    BY DEF PlatformTools
  <2> QED
    BY <1>3, <1>4, <2>2, <2>3 DEF RequestInv
<1>7. BarredInv'
  BY <1>2, <1>4 DEF BarredInv, All
<1>8. last'.tool = "" /\ last'.verdict = "none"
  BY DEF NoCall
<1>9. JobProfile'
  BY DEF PersonaInv, JobProfile
<1> QED
  BY <1>5, <1>6, <1>7, <1>8, <1>9 DEF PersonaInv, OfferedRuns, ModeHolds

\* The tools of a request that runs are those of its persona.
LEMMA BeginAllows ==
  ASSUME PersonaInv, NEW refs, Begin(refs)
  PROVE  request'.allowed = Effective(Newest(Souls(refs.soul)), Newest(Modes(refs.mode)))
BY DEF Begin, PersonaInv, RequestFields

LEMMA SendKeeps ==
  ASSUME PersonaInv, Send
  PROVE  PersonaInv'
<1> DEFINE refs == PersonaPayload
<1>1. /\ request' = [NoRequest EXCEPT !.at = "queued", !.mode = refs.mode, !.soul = refs.soul]
      /\ last' = NoCall /\ path = "job" /\ request.at = "none"
      /\ UNCHANGED <<path, profile, library, scope, barred>>
  BY DEF Send
<1> HIDE DEF refs
<1>2. request'.at = "queued" /\ RequestFields'
  BY <1>1 DEF NoRequest, RequestFields
<1>3. last'.verdict = "none" /\ last'.tool = ""
  BY <1>1 DEF NoCall
<1> QED
  BY <1>1, <1>2, <1>3 DEF PersonaInv, JobProfile, RequestInv, BarredInv, OfferedRuns, ModeHolds

\* What the chat's mode avoids now is kept from a request that begins with it.
LEMMA RunJobKeeps ==
  ASSUME PersonaInv, RunJob
  PROVE  PersonaInv'
<1>1. path = "job" /\ request.at = "queued" /\ UNCHANGED <<path, profile, library, scope, last>>
  BY DEF RunJob
<1>2. last' = NoCall
  BY <1>1 DEF PersonaInv, RequestInv
<1> DEFINE Found(refs) == Resolves(refs.mode, refs.soul)
<1>3. PICK persisted \in BOOLEAN :
        /\ \/ Found(JobRefs(persisted)) /\ Begin(JobRefs(persisted))
           \/ /\ ~Found(JobRefs(persisted))
              /\ Resolves(DefaultMode, DefaultSoul)
              /\ Begin(Defaults)
           \/ /\ ~Found(JobRefs(persisted))
              /\ ~Resolves(DefaultMode, DefaultSoul)
              /\ request' = NoRequest
        /\ barred' = IF persisted /\ Found(JobRefs(persisted)) /\ request'.allowed # All
                     THEN Avoided ELSE {}
  BY DEF RunJob
<1>4. CASE Found(JobRefs(persisted)) /\ Begin(JobRefs(persisted))
  <2> DEFINE refs == JobRefs(persisted)
             allowed == Effective(Newest(Souls(refs.soul)), Newest(Modes(refs.mode)))
  <2>1. request'.allowed = allowed
    BY <1>4, BeginAllows
  <2>2. ASSUME persisted, allowed # All PROVE allowed \cap Avoided = {}
    <3>1. refs.mode = scope.mode
      BY <2>2 DEF JobRefs
    <3>2. Modes(scope.mode) # {}
      BY <1>4, <3>1 DEF Resolves
    <3>3. Avoided = Canonicals(Newest(Modes(refs.mode)).avoid)
      BY <3>1, <3>2 DEF Avoided
    <3> QED
      BY <2>2, <3>3, AvoidedNotAllowed
  <2>3. barred' = {} \/ (allowed # All /\ allowed \cap barred' = {})
    BY <1>3, <1>4, <2>1, <2>2
  <2> QED
    BY <1>1, <1>2, <1>4, <2>3, BeginKeeps
<1>5. CASE ~Found(JobRefs(persisted)) /\ Begin(Defaults)
  <2>1. barred' = {}
    BY <1>3, <1>5
  <2> QED
    BY <1>1, <1>2, <1>5, <2>1, BeginKeeps
<1>6. CASE ~Found(JobRefs(persisted)) /\ request' = NoRequest
  <2>1. barred' = {}
    BY <1>3, <1>6
  <2>2. request'.at = "none" /\ last'.verdict = "none" /\ RequestFields'
    BY <1>2, <1>6 DEF NoRequest, NoCall, RequestFields
  <2> QED
    BY <1>1, <1>2, <2>1, <2>2
       DEF PersonaInv, JobProfile, RequestInv, BarredInv, OfferedRuns, ModeHolds
<1> QED
  BY <1>3, <1>4, <1>5, <1>6

LEMMA ConverseKeeps ==
  ASSUME PersonaInv, Converse
  PROVE  PersonaInv'
<1> DEFINE allowed == Effective(Newest(Souls(ScopeRefs.soul)), Newest(Modes(ScopeRefs.mode)))
<1>1. /\ Begin(ScopeRefs) /\ Resolves(ScopeRefs.mode, ScopeRefs.soul)
      /\ barred' = IF request'.allowed # All THEN Avoided ELSE {}
      /\ last' = NoCall /\ UNCHANGED <<path, profile>>
  BY DEF Converse
<1>2. request'.allowed = allowed
  BY <1>1, BeginAllows
<1>3. Avoided = Canonicals(Newest(Modes(ScopeRefs.mode)).avoid)
  BY <1>1 DEF Avoided, ScopeRefs, Resolves
<1>4. allowed # All => allowed \cap Avoided = {}
  BY <1>3, AvoidedNotAllowed
<1> QED
  BY <1>1, <1>2, <1>4, BeginKeeps

\* A verdict says what the request allows and was offered.
LEMMA CallKeeps ==
  ASSUME PersonaInv, NEW asked \in Asked, Call(asked)
  PROVE  PersonaInv'
<1> DEFINE tool == Canonical(asked)
<1>1. request.at = "running" /\ UNCHANGED <<path, profile, library, scope, request, barred>>
  BY DEF Call
<1>2. PICK verdict \in IF Denied(tool, request.allowed) THEN {"denied"} ELSE Executed(tool) :
        last' = [tool |-> tool, verdict |-> verdict]
  BY DEF Call
<1> HIDE DEF tool
<1>3. last'.tool = tool /\ last'.verdict = verdict
  BY <1>2
<1>4. verdict # "denied" => Allows(request.allowed, tool) /\ tool \in Registered /\ Permitted(tool)
  BY <1>2 DEF Denied, Executed
<1>5. /\ request.offered = Offered(request.allowed)
      /\ profile # "dangerous" => request.allowed \subseteq PlatformTools(profile)
  BY <1>1 DEF PersonaInv, RequestInv
<1>6. verdict # "denied" => Allows(request.offered, tool)
  BY <1>4, <1>5 DEF Offered, Allows
<1>7. path = "job" /\ tool \in request.offered => verdict # "denied"
  <2> SUFFICES ASSUME path = "job", tool \in request.offered PROVE verdict # "denied"
    OBVIOUS
  <2>1. tool \in Registered /\ Permitted(tool) /\ Allows(request.allowed, tool)
    BY <1>5 DEF Offered
  <2>2. profile = "balanced"
    BY DEF PersonaInv, JobProfile
  <2>3. tool \in ProfileTools(profile)
    <3>1. request.allowed \subseteq PlatformTools(profile) /\ PlatformTools(profile) = ProfileTools(profile)
      BY <1>5, <2>2, AllowedInProfile
    <3>2. "*" \notin PlatformTools(profile)
      BY DEF PlatformTools, SafeTools
    <3> QED
      BY <2>1, <3>1, <3>2 DEF Allows, All
  <2>4. ~Denied(tool, request.allowed)
    BY <2>1, <2>3 DEF Denied
  <2> QED
    BY <1>2, <2>1, <2>4 DEF Executed
<1>8. OfferedRuns'
  BY <1>1, <1>3, <1>6, <1>7 DEF OfferedRuns, Allows
<1>9. ModeHolds'
  BY <1>1, <1>3, <1>4 DEF PersonaInv, BarredInv, ModeHolds, Allows
<1>10. RequestInv'
  BY <1>1, <1>5, OfferedStays DEF RequestInv, PlatformTools
<1> QED
  BY <1>1, <1>8, <1>9, <1>10 DEF PersonaInv, RequestFields, JobProfile, BarredInv

LEMMA FinishKeeps ==
  ASSUME PersonaInv, Finish
  PROVE  PersonaInv'
<1>1. request'.at = "none" /\ last' = NoCall /\ last'.verdict = "none" /\ RequestFields'
  BY DEF Finish, NoRequest, NoCall, RequestFields
<1>2. barred' = {} /\ UNCHANGED <<path, profile>>
  BY DEF Finish
<1> QED
  BY <1>1, <1>2 DEF PersonaInv, JobProfile, RequestInv, BarredInv, OfferedRuns, ModeHolds

LEMMA PersonaStep == PersonaInv /\ [PersonasNext]_personaVars => PersonaInv'
<1> SUFFICES ASSUME PersonaInv, [PersonasNext]_personaVars PROVE PersonaInv'
  OBVIOUS
<1>1. CASE UNCHANGED personaVars
  BY <1>1, OthersKeep DEF personaVars
<1>2. CASE ReloadModes \/ ReloadSouls
  BY <1>2, OthersKeep DEF ReloadModes, ReloadSouls
<1>3. ASSUME NEW ref \in Refs, SetMode(ref) \/ SetSoul(ref) PROVE PersonaInv'
  BY <1>3, OthersKeep DEF SetMode, SetSoul
<1>4. ASSUME NEW locked \in BOOLEAN, SetModeLock(locked) PROVE PersonaInv'
  BY <1>4, OthersKeep DEF SetModeLock
<1>5. CASE Send
  BY <1>5, SendKeeps
<1>6. CASE RunJob
  BY <1>6, RunJobKeeps
<1>7. CASE Converse
  BY <1>7, ConverseKeeps
<1>8. CASE Finish
  BY <1>8, FinishKeeps
<1>9. ASSUME NEW tool \in Asked, Call(tool) PROVE PersonaInv'
  BY <1>9, CallKeeps
<1> QED
  BY <1>1, <1>2, <1>3, <1>4, <1>5, <1>6, <1>7, <1>8, <1>9 DEF PersonasNext

\* The two deciders agree (app/persona/resolve.py and app/tools/executor.py, each
\* with lists of its own): what runs was offered, and what a job is offered is not
\* denied it - for all tools with any policies, all modes and souls, all edits of
\* their files.
THEOREM OfferedIsRun == PersonasSpec => []OfferedRuns
<1>1. PersonaInv => OfferedRuns
  BY DEF PersonaInv
<1> QED
  BY <1>1, PersonaStart, PersonaStep, PTL DEF PersonasSpec

\* A tool that the chat's mode avoided when a request began to run is not run for it,
\* though it was sent under another mode (_persist_user_message puts the thread's refs
\* into its payload) and whatever is set or edited while it runs.
THEOREM ModeHeld == PersonasSpec => []ModeHolds
<1>1. PersonaInv => ModeHolds
  BY DEF PersonaInv
<1> QED
  BY <1>1, PersonaStart, PersonaStep, PTL DEF PersonasSpec
=============================================================================
