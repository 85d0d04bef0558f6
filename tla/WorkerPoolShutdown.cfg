\* Two jobs of one chat, two workers, one permit.
CONSTANTS
  j1 = j1  j2 = j2  j3 = j3
  w1 = w1  w2 = w2
  c1 = c1  k1 = k1
  NoKey = NoKey  NoWorker = NoWorker  NoChat = NoChat  NoItem = NoItem
  Jobs <- MCChatJobs
  Keys = {k1}
  KeyOf <- MCChatNoKeys
  Prio <- MCChatPrio
  MaxAttempts = 2
  MaxSize = 2
  Cutoffs <- MCNoExpiry
  Workers = {w1, w2}
  Chats = {c1}
  ChatOf <- MCOneChat
  Handled <- MCChatJobs
  NeedsOllama <- MCChatJobs
  Permits = 1
SPECIFICATION FairSpec
PROPERTIES ShutdownCompletes
CHECK_DEADLOCK FALSE
