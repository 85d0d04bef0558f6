\* Two chats with one agent, a queue of one and one permit, two operators with
\* two operations, up to three runners; three starts of the control plane; two
\* programs with four commands to one agent and two names; four dev servers.
CONSTANTS
  Agents = {"a"}
  Clients = {c1, c2}
  Operators = {o1, o2}
  Depth = 1
  Permits = 1
  MaxRunners = 3
  MaxAsks = 1
  MaxOps = 2
  Processes = {p1, p2, p3}
  Forces = TRUE
  Bot = Bot  Screens = Screens
  Names = {n1, n2}
  Assistant = Assistant
  NoName = NoName
  MaxCommands = 4
  MaxServers = 4
SPECIFICATION MCSpec
INVARIANTS
  NoPermitLeaks ExclusiveAlone RunningIsVisible ServerKnown
PROPERTIES DeletedForGood ServedUnlessStopped
CHECK_DEADLOCK FALSE
