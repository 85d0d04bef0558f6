\* The client: two callers with four calls of two requests each; two failures
\* open the breaker, two successes close it; one reset or force_open.
\* The runtime: two turns, three calls in a message of which two are executed,
\* three requests a turn, one pause or resume.
\* The threads: two chats, two jobs of one of them, two threads, two commands.
\* The files: two programs, three calls.  The scheduler tool: two chats, three
\* jobs, three other calls.  The command tool: two calls, the loop's deadline before
\* the tool's.  The web tool: two calls, one thread.
CONSTANTS
  Callers = {a, b}
  MaxAttempts = 2
  Calls = 4
  Resets = 1
  FailureThreshold = 2
  SuccessThreshold = 2
  Permitted = {exec}
  Forbidden = {shell}
  Args = {x}
  MaxToolTurns = 2
  PersonaTurns = 3
  MaxCalls = 2
  MaxRetries = 3
  JobAttempts = 2
  MaxMessage = 3
  MaxPauses = 1
  c1 = c1  j1 = j1  j2 = j2  k = k
  Jobs <- MCJobs
  ChatOf <- MCChatOf
  KeyOf <- MCKeyOf
  Chats = {c1, c2}
  Keys = {k}
  NoKey = NoKey
  Modes = {m, n}
  DefaultMode = m
  ThreadAttempts = 2
  MaxThreads = 2
  MaxCommands = 2
  Dirs = {d}
  Names = {md, py}
  SizeOf <- MCSizeOf
  ExtOf <- MCExtOf
  Base = {md}
  Overrides <- MCOverrides
  Paths <- MCPaths
  Programs = {p1, p2}
  Texts = {short, long}
  short = short  long = long  d = d  md = md  py = py
  Widening = 2
  WriteCap = 2
  ReadCap = 2
  AllowOverwrite = TRUE
  MaxFileCalls = 3
  ToolChats = {c1, c2}
  NoChat = NoChat
  MaxJobs = 3
  MaxToolCalls = 3
  ExecCalls = {e1, e2}
  InstanceMode = "safe"
  LoopTimeout = 1
  ExecTimeout = 2
  WebCalls = {w1, w2}
  PoolSize = 1
  Searchable = TRUE
SPECIFICATION MCSpec
INVARIANTS
  OneAnswer JobStaysInThread CardsCurrent WholeTexts
PROPERTIES OpensOnStreak ProbeComes NothingRepeated
CHECK_DEADLOCK FALSE
