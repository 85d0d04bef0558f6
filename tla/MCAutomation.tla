---------------------------- MODULE MCAutomation ----------------------------
(***************************************************************************)
(* Sub-agents, skills and personas for TLC: the runs of sub-agents, the    *)
(* routing of a message to a skill, the execution of a skill's workflow and*)
(* the tools of a request.  They share no state, so a behaviour runs one of*)
(* them and leaves the others in one initial state.                        *)
(***************************************************************************)
EXTENDS Subagents, SkillEngine, SkillRouter, Personas

VARIABLE part

\* The tools of the application, one of them for admins only; a builder mode, a
\* research mode of two versions, a soul for all tools and one for some.
MCPolicy == [t \in Registered |-> [enabled |-> TRUE, admin_only |-> t = "exec", allowed_chats |-> {}]]
Mode(n, v, avoid) == [name |-> n, version |-> v, avoid |-> avoid]
Soul(n, v, allowed) == [name |-> n, version |-> v, allowed |-> allowed]
Ref(n, v) == [name |-> n, version |-> v]
Builder == Mode("builder", 1, {})
Careful == Mode("research", 1, {"exec"})
Offline == Mode("research", 2, {"web.search", "files.write"})
Anything == Soul("agent", 1, {"*"})
Few == Soul("agent", 2, {"web.search", "time", "memory"})
MCFirstModes == {Builder, Careful}
MCFirstSouls == {Anything}
MCModeFiles == {MCFirstModes, {Builder, Offline}, {Offline}}
MCSoulFiles == {MCFirstSouls, {Anything, Few}, {Few}}
MCRefs == {Ref("coder", 0), Ref("research", 0), Ref("research", 1), Ref("agent", 0), Ref("agent", 1)}
MCDefaultMode == Ref("builder", 1)
MCDefaultSoul == Ref("agent", 1)

\* What the engine, the router and the personas start from when another part runs.
EngineIdle ==
  /\ kind = [s \in 1 .. N |-> "subagent"]
  /\ succ = [s \in 1 .. N |-> 0]
  /\ fail = [s \in 1 .. N |-> 0]
  /\ EngineInit

RouterIdle == direct = NoSkill /\ tried = <<>> /\ RouterInit

PersonaIdle == path = "job" /\ PersonasInit

MCInit ==
  /\ Init
  /\ \/ part = "subagents" /\ EngineIdle /\ RouterIdle /\ PersonaIdle
     \/ part = "engine" /\ EngineInit /\ RouterIdle /\ PersonaIdle
     \/ part = "router" /\ EngineIdle /\ RouterInit /\ PersonaIdle
     \/ part = "personas" /\ EngineIdle /\ RouterIdle /\ PersonasInit

SubagentStep(A) ==
  part = "subagents" /\ A /\ UNCHANGED <<part, engineVars, routerVars, personaVars>>
EngineStep == part = "engine" /\ EngineNext /\ UNCHANGED <<part, vars, routerVars, personaVars>>
RouterStep == part = "router" /\ RouterNext /\ UNCHANGED <<part, vars, engineVars, personaVars>>
PersonaStep ==
  part = "personas" /\ PersonasNext /\ UNCHANGED <<part, vars, engineVars, routerVars>>

MCNext == SubagentStep(Next) \/ EngineStep \/ RouterStep \/ PersonaStep

allVars == <<part, vars, engineVars, routerVars, personaVars>>

\* Fairness as in Subagents, when the sub-agents run.
MCSpec ==
  /\ MCInit
  /\ [][MCNext]_allVars
  /\ \A r \in Runs : WF_allVars(SubagentStep(Loop(r)))
=============================================================================
