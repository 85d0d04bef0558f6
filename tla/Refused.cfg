\* The outbound queue as in Delivery.cfg.
CONSTANTS
  m1 = m1  m2 = m2  m3 = m3
  NoItem = NoItem
  Msgs = {m1, m2, m3}
  Chunks <- MCChunks
  MaxQueue = 2
  QueueMaxSize = 2
  MaxAttempts = 2
  MaxRetries = 2
  Chats = {c, d}
  Interval = 2
  ChatInterval = 4
  ChunkDelay = 1
  MaxChunks = 2
  Users = {u1, u2}
  MaxUpdates = 3
  SchedulerEnabled = TRUE
SPECIFICATION MCSpec
INVARIANT SentIsDelivered
CHECK_DEADLOCK FALSE
