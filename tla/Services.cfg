\* Two jobs, with any content of the store; two files, two definitions and one edit; two dead
\* letters, one with a key, two operators and two rows; texts of twice the limit;
\* three chats that share the queue of one agent's runner, which
\* holds two requests beside the one in hand, and one operation; a chat screen, two
\* agents and a deletion over three sessions; two callers of two processes.
CONSTANTS
  States = {"normal", "pause_jobs", "pause_all"}
  Jobs = {j1, j2}
  Stems <- MCStems
  Definitions <- MCDefinitions
  Lower <- MCLower
  Broken = Broken
  NoDefinition = NoDefinition
  MaxEdits = 1
  Letters = {l1, l2}
  Keyed = {l1}
  Replayers = {o1, o2}
  QueueSize = 2
  MaxRows = 3
  NoLetter = NoLetter
  Limit = 5
  MaxText = 10
  Agents = {"a"}
  Clients = {c1, c2, c3}
  Operators = {"operator"}
  Depth = 2
  Permits = 1
  MaxRunners = 2
  MaxAsks = 1
  MaxOps = 1
  Sizes = {1, 3}
  Available = 12
  PromptSize = 1
  HeaderSize = 1
  MaxMessages = 3
  MaxItems = 1
  MaxStored = 4
  MaxCards = 2
  MaxBatch = 3
  MaxMemories = 3
  MaxFaults = 2
  AgentIds = {a1, a2}
  SessionIds = {s1, s2, s3}
  Consoles = {k1}
  Deleters = {d1}
  NoAgent = NoAgent
  NoSession = NoSession
  Partners = {t1, t2}
  MaxWorkers = 2
  MaxRequests = 2
SPECIFICATION MCSpec
SYMMETRY JobSymmetry
INVARIANTS
  StoreRegistered FoundIsExecuted ReplayKeepsJob ChunksWhole AnswersInOrder ShownWithoutGap FaultCostsTwoCalls
  AnswersByOwner SessionsHaveAgents AnswersMatch
PROPERTIES RestartKeepsState
CHECK_DEADLOCK FALSE
