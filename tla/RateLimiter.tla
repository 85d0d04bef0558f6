---------------------------- MODULE RateLimiter ----------------------------
(***************************************************************************)
(* RateLimiter (app/queue/throttles.py) as it runs when aiolimiter has no  *)
(* Limiter to import, with the sends it is to space (send_chunked_message, *)
(* app/interfaces/telegram_sender.py).  The sender loop, the only caller,  *)
(* acquires once per message: it waits until enough time has passed since  *)
(* the last message, first over all chats, then for the chat, and sends    *)
(* the chunks of the message, with a short sleep between two of them.      *)
(* With one caller nobody waits for _chat_lock.                            *)
(*                                                                         *)
(* Times are distances from the present, capped by the interval they are   *)
(* compared with.  The tries of a chunk are one send, the last, and a      *)
(* request takes no time.                                                  *)
(***************************************************************************)
EXTENDS Integers, FiniteSetsExt

CONSTANTS
  Chats,        \* chat ids
  Interval,     \* 1 / global_rate, in ticks
  ChatInterval, \* 1 / per_chat_rate, in ticks
  ChunkDelay,   \* the sleep between two chunks, in ticks
  MaxChunks     \* bound: chunks of a message

ASSUME LimiterAssumption ==
  /\ Chats # {}
  /\ {Interval, ChatInterval, ChunkDelay, MaxChunks} \subseteq Nat \ {0}

VARIABLES
  limiterPc,   \* "idle", "globalSleep", "chatSleep" or "send"
  chat,        \* the chat of the message in hand
  chunks,      \* its chunks not yet sent
  left,        \* time left of the sleep
  sinceGlobal, \* time since _last_global_send, Interval if it is None
  sinceChat,   \* time since _last_chat_send of each chat
  sinceSend,   \* time since anything was sent to each chat (history)
  sendGap      \* time between the last two sends to each chat (history)

grantVars == <<sinceGlobal, sinceChat>>
sentVars == <<sinceSend, sendGap>>
limiterVars == <<limiterPc, chat, chunks, left, grantVars, sentVars>>

LimiterInit ==
  /\ limiterPc = "idle"
  /\ chat = CHOOSE d \in Chats : TRUE
  /\ chunks = 0 /\ left = 0
  /\ sinceGlobal = Interval
  /\ sinceChat = [d \in Chats |-> ChatInterval]
  /\ sinceSend = [d \in Chats |-> ChatInterval]
  /\ sendGap = [d \in Chats |-> ChatInterval]

\* The sleep, if there is time to wait for, comes before what follows it.
SleepThen(t, l) == limiterPc' = l /\ left' = Max({t, 0})

\* acquire_global: is there time to wait for?
Acquire ==
  /\ limiterPc = "idle"
  /\ chat' \in Chats
  /\ chunks' \in 1 .. MaxChunks
  /\ SleepThen(Interval - sinceGlobal, "globalSleep")
  /\ UNCHANGED <<grantVars, sentVars>>

\* The global time is noted; acquire_chat: is there time to wait for?
GlobalWake ==
  /\ limiterPc = "globalSleep" /\ left = 0
  /\ sinceGlobal' = 0
  /\ SleepThen(ChatInterval - sinceChat[chat], "chatSleep")
  /\ UNCHANGED <<chat, chunks, sinceChat, sentVars>>

\* The chat's time is noted, and _send_message goes on.
ChatWake ==
  /\ limiterPc = "chatSleep" /\ left = 0
  /\ sinceChat' = [sinceChat EXCEPT ![chat] = 0]
  /\ limiterPc' = "send"
  /\ UNCHANGED <<chat, chunks, left, sinceGlobal, sentVars>>

\* Bot.send_message with a chunk, and the small delay unless it was the last.
SendChunk ==
  /\ limiterPc = "send" /\ left = 0
  /\ sinceSend' = [sinceSend EXCEPT ![chat] = 0]
  /\ sendGap' = [sendGap EXCEPT ![chat] = sinceSend[chat]]
  /\ chunks' = chunks - 1
  /\ IF chunks > 1 THEN SleepThen(ChunkDelay, "send") ELSE SleepThen(0, "idle")
  /\ UNCHANGED <<chat, grantVars>>

\* One tick of time, of which only sleeps and the absence of messages take any.
Tick ==
  /\ limiterPc = "idle" \/ left > 0
  /\ left' = Max({left - 1, 0})
  /\ sinceGlobal' = Min({sinceGlobal + 1, Interval})
  /\ sinceChat' = [d \in Chats |-> Min({sinceChat[d] + 1, ChatInterval})]
  /\ sinceSend' = [d \in Chats |-> Min({sinceSend[d] + 1, ChatInterval})]
  /\ UNCHANGED <<limiterPc, chat, chunks, sendGap>>

LimiterNext == Tick \/ Acquire \/ GlobalWake \/ ChatWake \/ SendChunk

LimiterSpec == LimiterInit /\ [][LimiterNext]_limiterVars

-----------------------------------------------------------------------------
\* The type invariant; a message has chunks left while it is in hand.
LimiterTypeOK ==
  /\ limiterPc \in {"idle", "globalSleep", "chatSleep", "send"}
  /\ chat \in Chats
  /\ chunks \in 0 .. MaxChunks /\ (chunks = 0 <=> limiterPc = "idle")
  /\ left \in 0 .. Max({Interval, ChatInterval, ChunkDelay})
  /\ sinceGlobal \in 0 .. Interval
  /\ {sinceChat, sinceSend, sendGap} \subseteq [Chats -> 0 .. ChatInterval]

\* per_chat_rate, the "maximum messages per second per chat", holds of what is
\* sent: two sends to one chat are a full interval apart.
SendsSpaced == \A d \in Chats : sendGap[d] >= ChatInterval
=============================================================================
