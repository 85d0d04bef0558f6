SPECIFICATION FairSpec
CONSTANTS
  Agents = {"a"}
  Clients = {c1, c2}
  Operators = {o1}
  Depth = 1
  Permits = 1
  MaxRunners = 2
  MaxAsks = 1
  MaxOps = 2
PROPERTY ChatReturns
CHECK_DEADLOCK FALSE
