---------------------------- MODULE ChatSessions ----------------------------
(***************************************************************************)
(* The sessions of the control plane (SessionService and SessionRepository,*)
(* app/control_plane/services/session_service.py, infra/session_repo.py),  *)
(* the consoles that chat in them (the chat screen, tui/screens/chat.py)   *)
(* and the deletion of agents under them (RuntimeSupervisor.delete_agent). *)
(*                                                                         *)
(* All of it runs on one event loop: what a coroutine does between two     *)
(* suspensions is one action.  start_agent does not suspend, so that the   *)
(* opening of a session is one; the sending of a message is several, and   *)
(* the deletion of an agent suspends in the stop of its runner.  The queue *)
(* of a runner is RuntimeSupervisor's, here a message waits for any time.  *)
(***************************************************************************)
EXTENDS FiniteSets

CONSTANTS
  AgentIds,
  SessionIds,   \* bound: the sessions created
  Consoles,     \* chat screens, each with a message in hand at most
  Deleters,     \* commands that delete an agent
  NoAgent,      \* active_agent_id is None
  NoSession     \* active_session_id is None

ASSUME SessionsAssumption == NoAgent \notin AgentIds /\ NoSession \notin SessionIds

VARIABLES
  agents,       \* the agents table
  sessions,     \* the rows of agent_sessions
  belongs,      \* agent_id of a session, also of one that was deleted
  voices,       \* agent_messages: the agents that answered in a session
  runners,      \* agents with an entry in _runners
  active,       \* console -> active_agent_id and active_session_id
  chatting,      \* console -> its pending task, and what chat was called with
  deleting,     \* command -> the agent whose runner it stops, or NoAgent
  unclean       \* history: agents deleted although their sessions were not

sessionVars == <<agents, sessions, belongs, voices, runners, active, chatting, deleting, unclean>>

Contexts == [agent : AgentIds \cup {NoAgent}, session : SessionIds \cup {NoSession}]
Nothing == [agent |-> NoAgent, session |-> NoSession]
TaskPlaces == {"idle", "created", "waiting", "thinking", "answered", "stranded"}
NoTask == [at |-> "idle", of |-> Nothing]

SessionsTypeOK ==
  /\ agents \subseteq AgentIds /\ runners \subseteq AgentIds /\ unclean \subseteq AgentIds
  /\ sessions \subseteq SessionIds
  /\ belongs \in [SessionIds -> AgentIds \cup {NoAgent}]
  /\ voices \in [SessionIds -> SUBSET AgentIds]
  /\ active \in [Consoles -> Contexts]
  /\ chatting \in [Consoles -> [at : TaskPlaces, of : Contexts]]
  /\ deleting \in [Deleters -> AgentIds \cup {NoAgent}]

SessionsInit ==
  /\ agents = AgentIds
  /\ sessions = {} /\ runners = {} /\ unclean = {}
  /\ belongs = [s \in SessionIds |-> NoAgent]
  /\ voices = [s \in SessionIds |-> {}]
  /\ active = [c \in Consoles |-> Nothing]
  /\ chatting = [c \in Consoles |-> NoTask]
  /\ deleting = [d \in Deleters |-> NoAgent]

-----------------------------------------------------------------------------
(* A console.                                                              *)

SessionsOf(a) == {s \in sessions : belongs[s] = a}
Unused == {s \in SessionIds : belongs[s] = NoAgent}
NewId == {s \in Unused : s = CHOOSE t \in Unused : TRUE}

\* _ensure_active_context, before an input is handled.
InContext(c) ==
  LET now == active[c] IN
  IF now.agent # NoAgent /\ now.agent \notin agents THEN Nothing
  ELSE IF now.session \in sessions THEN now ELSE [now EXCEPT !.session = NoSession]

\* Mutant of Resolved: the active agent is taken as it is.
ResolvedActive(c) == IF active[c].agent # NoAgent THEN {active[c].agent} ELSE agents

\* _resolve_agent: what the field names, or the default, of the agents there are.
Resolved(c) == agents

\* _start_chat_session: the runner is started and the agent is active before the
\* session is looked for - a new one, or one of the agent's, the latest - which may
\* fail.
Open(c, a, new) ==
  /\ a \in Resolved(c)
  /\ runners' = runners \cup {a}
  /\ \E s \in IF new \/ SessionsOf(a) = {} THEN NewId ELSE SessionsOf(a) :
       /\ active' = [active EXCEPT ![c] = [agent |-> a, session |-> s]]
       /\ sessions' = sessions \cup {s}
       /\ belongs' = [belongs EXCEPT ![s] = a]
OpenFails(c, a) ==
  /\ a \in Resolved(c)
  /\ runners' = runners \cup {a}
  /\ active' = [active EXCEPT ![c].agent = a]
  /\ UNCHANGED <<sessions, belongs>>

\* The buttons Start, New Session and Resume Last, and /new.
StartSession(c) ==
  /\ \E a \in AgentIds, new \in BOOLEAN : Open(c, a, new) \/ OpenFails(c, a)
  /\ UNCHANGED <<agents, voices, chatting, deleting, unclean>>

\* A message, when none is pending: a task is created, in an active context that is
\* opened if it has to be.  Without one the input fails.
Submit(c) ==
  /\ chatting[c].at = "idle"
  /\ IF NoAgent # InContext(c).agent /\ NoSession # InContext(c).session
       THEN /\ active' = [active EXCEPT ![c] = InContext(c)]
            /\ chatting' = [chatting EXCEPT ![c].at = "created"]
            /\ UNCHANGED <<sessions, belongs, runners>>
       ELSE \E a \in AgentIds :
              \/ Open(c, a, FALSE) /\ chatting' = [chatting EXCEPT ![c].at = "created"]
              \/ OpenFails(c, a) /\ UNCHANGED chatting
  /\ UNCHANGED <<agents, voices, deleting, unclean>>

\* The refresh of the screen, an input while a message is pending, and the commands
\* that only show something.
Refresh(c) ==
  /\ active' = [active EXCEPT ![c] = InContext(c)]
  /\ UNCHANGED <<agents, sessions, belongs, voices, runners, chatting, deleting, unclean>>

\* delete_session, with its messages.
DeleteSession(c) ==
  /\ active[c].session # NoSession
  /\ sessions' = sessions \ {active[c].session}
  /\ voices' = [voices EXCEPT ![active[c].session] = {}]
  /\ active' = [active EXCEPT ![c].session = NoSession]
  /\ UNCHANGED <<agents, belongs, runners, chatting, deleting, unclean>>

-----------------------------------------------------------------------------
(* The task of a message: chat, and _chat_with_limits in the runner.       *)

\* The task runs for the first time: it passes on what is active by now.  chat
\* starts a runner if it has to, which the agent must exist for, stores the
\* question, whatever the session, and puts it into the queue unless that is full.
BeginChat(c) ==
  LET now == active[c]
      known == now.agent \in runners \cup agents
  IN /\ chatting[c].at = "created"
     /\ runners' = IF known THEN runners \cup {now.agent} ELSE runners
     /\ \/ /\ known /\ now.session # NoSession
           /\ chatting' = [chatting EXCEPT ![c] = [at |-> "waiting", of |-> now]]
        \/ chatting' = [chatting EXCEPT ![c] = NoTask]
     /\ UNCHANGED <<agents, sessions, belongs, voices, active, deleting, unclean>>

\* Mutant of Attached: any session that exists will do.
AttachedToAny(context) == context.agent \in agents /\ context.session \in sessions

\* What generate_response_with_tools checks first.
Attached(context) ==
  /\ context.agent \in agents
  /\ context.session \in SessionsOf(context.agent)

\* The runner takes the message up.
Think(c) ==
  /\ chatting[c].at = "waiting"
  /\ chatting' = IF Attached(chatting[c].of) THEN [chatting EXCEPT ![c].at = "thinking"]
                ELSE [chatting EXCEPT ![c] = NoTask]
  /\ UNCHANGED <<agents, sessions, belongs, voices, runners, active, deleting, unclean>>

Said(c) == [voices EXCEPT ![chatting[c].of.session] = @ \cup {chatting[c].of.agent}]

\* The model answered.  What its tools did is stored, then set_status raises if the
\* agent is gone.
Answered(c) ==
  /\ chatting[c].at = "thinking"
  /\ \E tools \in BOOLEAN : voices' = IF tools THEN Said(c) ELSE voices
  /\ chatting' = IF chatting[c].of.agent \in agents
                THEN [chatting EXCEPT ![c].at = "answered"] ELSE [chatting EXCEPT ![c] = NoTask]
  /\ UNCHANGED <<agents, sessions, belongs, runners, active, deleting, unclean>>

ModelRaises(c) ==
  /\ chatting[c].at = "thinking"
  /\ chatting' = [chatting EXCEPT ![c] = NoTask]
  /\ UNCHANGED <<agents, sessions, belongs, voices, runners, active, deleting, unclean>>

\* chat goes on and stores the answer; _load_transcript then leaves a session that
\* is gone.
StoreAnswer(c) ==
  /\ chatting[c].at = "answered"
  /\ voices' = Said(c)
  /\ chatting' = [chatting EXCEPT ![c] = NoTask]
  /\ active' = IF active[c].session \in sessions THEN active
               ELSE [active EXCEPT ![c].session = NoSession]
  /\ UNCHANGED <<agents, sessions, belongs, runners, deleting, unclean>>

-----------------------------------------------------------------------------
(* delete_agent.                                                           *)

InHand(a) == {c \in Consoles : chatting[c].at \in {"waiting", "thinking"} /\ chatting[c].of.agent = a}

\* The runner is stopped: the chats it has are never answered.  A runner that was
\* replaced meanwhile still has its own.
DeleteBegins(d, a) ==
  /\ deleting[d] = NoAgent
  /\ a \in agents \cap runners
  /\ deleting' = [deleting EXCEPT ![d] = a]
  /\ \E lost \in SUBSET InHand(a) :
       chatting' = [c \in Consoles |-> IF c \in lost THEN [at |-> "stranded", of |-> Nothing]
                                      ELSE chatting[c]]
  /\ UNCHANGED <<agents, sessions, belongs, voices, runners, active, unclean>>

\* The sessions and their messages are deleted, then the agent, also when the first
\* failed; each of the two may fail.
DeleteRows(a) ==
  /\ \/ /\ sessions' = sessions \ SessionsOf(a)
        /\ voices' = [s \in SessionIds |-> IF s \in SessionsOf(a) THEN {} ELSE voices[s]]
        /\ agents' \in {agents, agents \ {a}}
        /\ UNCHANGED unclean
     \/ /\ agents' = agents \ {a}
        /\ unclean' = unclean \cup {a}
        /\ UNCHANGED <<sessions, voices>>
     \/ UNCHANGED <<sessions, voices, agents, unclean>>
  /\ runners' = runners \ {a}
  /\ UNCHANGED <<belongs, active>>

\* The stop has returned, or there was nothing to stop.
DeleteEnds(d) ==
  /\ deleting[d] # NoAgent
  /\ DeleteRows(deleting[d])
  /\ deleting' = [deleting EXCEPT ![d] = NoAgent]
  /\ UNCHANGED chatting
DeleteStopped(d, a) ==
  /\ deleting[d] = NoAgent
  /\ a \in agents \ runners
  /\ DeleteRows(a)
  /\ UNCHANGED <<chatting, deleting>>

\* The command of the agents screen.
DeleteAgent(d) == \E a \in AgentIds : DeleteBegins(d, a) \/ DeleteStopped(d, a)

-----------------------------------------------------------------------------
SessionsNext ==
  \/ \E c \in Consoles :
       \/ StartSession(c) \/ Submit(c) \/ Refresh(c) \/ DeleteSession(c)
       \/ BeginChat(c) \/ Think(c) \/ Answered(c) \/ ModelRaises(c) \/ StoreAnswer(c)
  \/ \E d \in Deleters : DeleteAgent(d) \/ DeleteEnds(d)

SessionsSpec == SessionsInit /\ [][SessionsNext]_sessionVars

-----------------------------------------------------------------------------
\* Only the agent a session belongs to ever answers in it, although a console whose
\* start of a session failed half way shows one agent and another one's session, and
\* whatever was opened or deleted between a message and its answer.
AnswersByOwner == \A s \in SessionIds : voices[s] \subseteq {belongs[s]}

\* No session outlives its agent, whoever opens one while the agent's runner is being
\* stopped to delete it, unless the deletion of the sessions failed.
SessionsHaveAgents == \A s \in sessions : belongs[s] \in agents \cup unclean
=============================================================================
