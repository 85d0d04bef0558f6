CONSTANTS
  Agents = {"a"}
  Clients = {c1, c2}
  Operators = {o1, o2}
  Depth = 1
  Permits = 1
  MaxRunners = 3
  MaxAsks = 1
  MaxOps = 2
  Processes = {p1, p2, p3}
  Forces = TRUE
  Bot = Bot  Screens = Screens
  Names = {n1, n2}
  Assistant = Assistant
  NoName = NoName
  MaxCommands = 4
  MaxServers = 4
SPECIFICATION MCSpec
INVARIANT RenameSticks
CHECK_DEADLOCK FALSE
