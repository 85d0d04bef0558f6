------------------------------ MODULE Outbound ------------------------------
(***************************************************************************)
(* The outbound message queue (OutboundQueue, app/queue/throttles.py) and  *)
(* the Telegram sender attached to it (app/interfaces/telegram_sender.py). *)
(* One sender loop takes messages from a bounded FIFO queue, sends each    *)
(* one chunk by chunk, puts a message whose sending raised back into the   *)
(* queue after a pause and dead-letters it when its attempts are used up.  *)
(*                                                                         *)
(* Telegram itself is external: it delivers a chunk, refuses it for good,  *)
(* asks for a retry, or lets the request time out.                         *)
(***************************************************************************)
EXTENDS Integers, Sequences

CONSTANTS
  Msgs,         \* messages handed to enqueue_message
  NoItem,       \* the sender loop has no message in hand
  Chunks,       \* Chunks[m]: into how many chunks _split_message cuts m
  MaxQueue,     \* OutboundQueue.max_queue_size
  MaxAttempts,  \* OutboundQueue.max_attempts
  MaxRetries    \* TelegramSender.MAX_RETRIES

Items == [msg : Msgs, att : Nat]

ASSUME OutboundAssumption ==
  /\ NoItem \notin Items
  /\ Chunks \in [Msgs -> Nat \ {0}]
  /\ MaxQueue \in Nat \ {0}
  /\ MaxAttempts \in Nat \ {0}
  /\ MaxRetries \in Nat \ {0}

VARIABLES
  queue,      \* _queue: a sequence of items [msg, att]
  tracked,    \* keys of _pending_messages
  answer,     \* what enqueue_message answered for each message
  loop,       \* where the sender loop is suspended
  cur,        \* the message it has in hand, or NoItem
  chunk,      \* the chunk being sent, 0 when none
  tries,      \* attempts made for this chunk
  short,      \* messages of whose last pass a chunk was given up (history)
  running,    \* _running
  stop,       \* progress of stop_sender
  fate        \* how each message ended: "none", "sent", "dead" or "lost"

queueVars == <<queue, tracked, answer>>
sendVars == <<chunk, tries, short>>
vars == <<queueVars, loop, cur, sendVars, running, stop, fate>>

Init ==
  /\ queue = <<>>
  /\ tracked = {}
  /\ answer = [m \in Msgs |-> "new"]
  /\ loop = "check"
  /\ cur = NoItem
  /\ chunk = 0
  /\ tries = 0
  /\ short = {}
  /\ running = TRUE
  /\ stop = "up"
  /\ fate = [m \in Msgs |-> "none"]

IsFull == Len(queue) >= MaxQueue

\* enqueue_message; it does not look at _running.
Enqueue(m) ==
  /\ answer[m] = "new"
  /\ IF IsFull
       THEN answer' = [answer EXCEPT ![m] = "full"] /\ UNCHANGED <<queue, tracked>>
       ELSE /\ answer' = [answer EXCEPT ![m] = IF running THEN "accepted" ELSE "late"]
            /\ queue' = Append(queue, [msg |-> m, att |-> 0])
            /\ tracked' = tracked \cup {m}
  /\ UNCHANGED <<loop, cur, sendVars, running, stop, fate>>

-----------------------------------------------------------------------------
(* The sender loop.                                                        *)

At(l) == loop = l /\ stop # "cancelling"

\* Mutant of LoopCheck: the loop ends as soon as it is told to.
LoopCheckNotDraining ==
  /\ At("check")
  /\ loop' = IF running THEN "get" ELSE "stopped"
  /\ UNCHANGED <<queueVars, cur, sendVars, running, stop, fate>>

\* while self._running or not self._queue.empty()
LoopCheck ==
  /\ At("check")
  /\ loop' = IF running \/ queue # <<>> THEN "get" ELSE "stopped"
  /\ UNCHANGED <<queueVars, cur, sendVars, running, stop, fate>>

Get ==
  /\ At("get")
  /\ queue # <<>>
  /\ cur' = Head(queue)
  /\ queue' = Tail(queue)
  /\ loop' = "send"
  /\ chunk' = 1
  /\ tries' = 0
  /\ short' = short \ {Head(queue).msg}
  /\ UNCHANGED <<tracked, answer, running, stop, fate>>

\* Nothing came within a second.
GetTimeout ==
  /\ At("get")
  /\ queue = <<>>
  /\ loop' = "check"
  /\ UNCHANGED <<queueVars, cur, sendVars, running, stop, fate>>

\* The message leaves _pending_messages for good.
Settle(f) ==
  /\ fate' = [fate EXCEPT ![cur.msg] = f]
  /\ tracked' = tracked \ {cur.msg}

Rest == loop' = "check" /\ chunk' = 0 /\ tries' = 0 /\ cur' = NoItem

\* This chunk is dealt with, well or badly.  After the last one the sender
\* returns True or False, and _send_message marks the message sent either way.
NextChunk ==
  IF chunk < Chunks[cur.msg]
    THEN chunk' = chunk + 1 /\ tries' = 0 /\ UNCHANGED <<loop, cur, tracked, fate>>
    ELSE Settle("sent") /\ Rest

\* Bot.send_message returns.
ChunkSent ==
  /\ At("send")
  /\ NextChunk
  /\ UNCHANGED <<queue, answer, running, stop, short>>

\* _send_with_retry returns False, of which _send_message takes no notice.
GiveUp ==
  /\ short' = short \cup {cur.msg}
  /\ NextChunk

\* RetryAfter, NetworkError or TimedOut: tried again after a sleep, given up
\* after MAX_RETRIES.
ChunkRetried ==
  /\ At("send")
  /\ IF tries + 1 < MaxRetries
       THEN tries' = tries + 1 /\ UNCHANGED <<loop, cur, chunk, short, tracked, fate>>
       ELSE GiveUp
  /\ UNCHANGED <<queue, answer, running, stop>>

\* Any other TelegramError: the chunk is given up at once.
ChunkRefused ==
  /\ At("send")
  /\ GiveUp
  /\ UNCHANGED <<queue, answer, running, stop>>

CanRetry(it) == it.att < MaxAttempts

\* increment_attempt
Incremented == [cur EXCEPT !.att = @ + 1]

\* The sender raises something that is no TelegramError: _process_message
\* pauses before a retry, or turns to the dead-letter queue.
SendRaises ==
  /\ At("send")
  /\ loop' = IF CanRetry(Incremented) THEN "pause" ELSE "dlqadd"
  /\ tracked' = IF CanRetry(Incremented) THEN tracked ELSE tracked \ {cur.msg}
  /\ chunk' = 0
  /\ tries' = 0
  /\ UNCHANGED <<queue, answer, cur, short, running, stop, fate>>

\* Mutant of PutBack: a retry does not find room and is dropped.
PutBackOrDrop ==
  /\ At("pause")
  /\ queue' = IF IsFull THEN queue ELSE Append(queue, Incremented)
  /\ tracked' = tracked \cup {cur.msg}
  /\ Rest
  /\ UNCHANGED <<answer, short, running, stop, fate>>

\* The pause is over and the queue has room.  Without room, put waits for a
\* get that only this loop could make.
PutBack ==
  /\ At("pause")
  /\ ~IsFull
  /\ queue' = Append(queue, Incremented)
  /\ tracked' = tracked \cup {cur.msg}
  /\ Rest
  /\ UNCHANGED <<answer, short, running, stop, fate>>

\* DeadLetterQueue.add commits, or raises into the loop's except clause.
DeadLetter ==
  /\ At("dlqadd")
  /\ \E f \in {"dead", "lost"} : Settle(f)
  /\ Rest
  /\ UNCHANGED <<queue, answer, short, running, stop>>

-----------------------------------------------------------------------------
(* stop_sender: wait for the loop, and cancel it after the timeout.        *)

Stop ==
  /\ stop = "up"
  /\ running' = FALSE
  /\ stop' = "stopping"
  /\ UNCHANGED <<queueVars, loop, cur, sendVars, fate>>

StopTimeout ==
  /\ stop = "stopping"
  /\ loop # "stopped"
  /\ stop' = "cancelling"
  /\ UNCHANGED <<queueVars, loop, cur, sendVars, running, fate>>

\* Mutant of Cancelled: the loop survives the cancellation.
CancelledSwallowed ==
  /\ stop = "cancelling"
  /\ loop # "stopped"
  /\ Rest
  /\ UNCHANGED <<queueVars, short, running, stop, fate>>

\* The loop leaves with the message in hand, which stays tracked unless it
\* was on its way to the dead letters; that insert may still commit.
Cancelled ==
  /\ stop = "cancelling"
  /\ loop # "stopped"
  /\ loop' = "stopped"
  /\ IF cur = NoItem THEN UNCHANGED fate
     ELSE \/ fate' = [fate EXCEPT ![cur.msg] = "lost"]
          \/ loop = "dlqadd" /\ fate' = [fate EXCEPT ![cur.msg] = "dead"]
  /\ cur' = NoItem
  /\ chunk' = 0
  /\ tries' = 0
  /\ UNCHANGED <<queueVars, short, running, stop>>

StopReturns ==
  /\ stop \in {"stopping", "cancelling"}
  /\ loop = "stopped"
  /\ stop' = IF stop = "stopping" THEN "drained" ELSE "cut"
  /\ UNCHANGED <<queueVars, loop, cur, sendVars, running, fate>>

LoopStep ==
  \/ LoopCheck \/ Get \/ GetTimeout \/ ChunkSent \/ ChunkRetried \/ ChunkRefused
  \/ SendRaises \/ PutBack \/ DeadLetter

Next ==
  \/ \E m \in Msgs : Enqueue(m)
  \/ LoopStep
  \/ Stop \/ StopTimeout \/ Cancelled \/ StopReturns

Spec == Init /\ [][Next]_vars

\* The loop runs, sends end in one way or another, and the timeout of
\* stop_sender expires; nobody has to enqueue or to stop.
Fairness ==
  /\ WF_vars(LoopStep) /\ WF_vars(StopTimeout) /\ WF_vars(Cancelled)
  /\ WF_vars(StopReturns)

-----------------------------------------------------------------------------
\* The type invariant; a message is in hand while it is being dealt with.
TypeOK ==
  /\ queue \in Seq(Items)
  /\ tracked \subseteq Msgs
  /\ answer \in [Msgs -> {"new", "accepted", "late", "full"}]
  /\ loop \in {"check", "get", "send", "pause", "dlqadd", "stopped"}
  /\ cur \in Items \cup {NoItem}
  /\ cur # NoItem <=> loop \in {"send", "pause", "dlqadd"}
  /\ chunk \in Nat /\ (loop = "send" <=> chunk > 0)
  /\ tries \in 0..(MaxRetries - 1)
  /\ short \subseteq Msgs
  /\ running \in BOOLEAN
  /\ stop \in {"up", "stopping", "cancelling", "drained", "cut"}
  /\ fate \in [Msgs -> {"none", "sent", "dead", "lost"}]

Copies(m) == {i \in DOMAIN queue : queue[i].msg = m}
InHand(m) == cur # NoItem /\ cur.msg = m
Accepted(m) == answer[m] \in {"accepted", "late"}

Once(m) ==
  IF Accepted(m) /\ fate[m] = "none"
    THEN IF InHand(m) THEN Copies(m) = {} ELSE \E i \in Copies(m) : Copies(m) = {i}
    ELSE Copies(m) = {} /\ ~InHand(m)
TrackedIsHeld == \A m \in tracked : Copies(m) # {} \/ InHand(m) \/ fate[m] = "lost"
HeldIsTracked ==
  \A m \in Msgs : Copies(m) # {} \/ (InHand(m) /\ loop # "dlqadd") => m \in tracked

\* A message is never duplicated or forgotten by the queue: as long as it has
\* no fate it is queued once or in hand, and with a fate it is in neither; and
\* _pending_messages, whose size get_stats and stop_sender report, holds what
\* is queued or in hand, and besides only what a cancelled loop dropped.
OnePlace == (\A m \in Msgs : Once(m)) /\ TrackedIsHeld /\ HeldIsTracked

\* A stop_sender that was not cut short by its timeout has dealt with every
\* message accepted before it was called, retries included.
GracefulDrain ==
  stop = "drained" => \A m \in Msgs : answer[m] = "accepted" => fate[m] # "none"

\* What Telegram would not take, for good or after all tries, goes to the
\* dead letters: a message that is marked sent was delivered with every chunk.
SentIsDelivered == \A m \in Msgs : fate[m] = "sent" => m \notin short

\* stop_sender always returns, even if the loop is blocked.
StopEnds == stop = "stopping" ~> stop \in {"drained", "cut"}
=============================================================================
