\* Three messages, a queue of two, two attempts of two tries per chunk; two
\* chats, which may be written to every fourth tick, with messages of two chunks;
\* two users with three updates to the bot.
CONSTANTS
  m1 = m1  m2 = m2  m3 = m3
  NoItem = NoItem
  Msgs = {m1, m2, m3}
  Chunks <- MCChunks
  MaxQueue = 2
  QueueMaxSize = 2
  MaxAttempts = 2
  MaxRetries = 2
  Chats = {c, d}
  Interval = 2
  ChatInterval = 4
  ChunkDelay = 1
  MaxChunks = 2
  Users = {u1, u2}
  MaxUpdates = 3
  SchedulerEnabled = TRUE
SPECIFICATION MCSpec
INVARIANTS
  OnePlace GracefulDrain NothingLost
PROPERTIES StopEnds
CHECK_DEADLOCK FALSE
