\* Three jobs, two workers, one chat, one permit, a queue of two;
\* j1 and j3 share an idempotency key, which may expire.
CONSTANTS
  j1 = j1  j2 = j2  j3 = j3
  w1 = w1  w2 = w2
  c1 = c1  k1 = k1
  NoKey = NoKey  NoWorker = NoWorker  NoChat = NoChat  NoItem = NoItem
  Jobs <- MCJobs
  Keys = {k1}
  KeyOf <- MCSplitKey
  Prio <- MCPrio
  MaxAttempts = 2
  MaxSize = 2
  Cutoffs <- MCTwo
  Workers = {w1, w2}
  Chats = {c1}
  ChatOf <- MCChatOf
  Handled <- MCJobs
  NeedsOllama <- MCOllama
  Permits = 1
SPECIFICATION FairSpec
INVARIANTS
  ChatMutex ChatOrder NoSilentDrop
PROPERTIES JobsSettle CleanShutdown ImplementsLifecycle
CHECK_DEADLOCK FALSE
