--------------------------- MODULE DeliveryProofs ---------------------------
(***************************************************************************)
(* Theorems about what lies between the application and Telegram - the     *)
(* outbound queue (Outbound) and the bot (Bot) - for any number of         *)
(* messages and users.                                                     *)
(***************************************************************************)
EXTENDS Outbound, Bot, TLAPS

-----------------------------------------------------------------------------
(* The outbound queue.                                                     *)

\* Where a message is queued after one is appended, and after the head leaves.
LEMMA CopiesAppend ==
  ASSUME queue \in Seq(Items), NEW it \in Items, queue' = Append(queue, it), NEW m
  PROVE  Copies(m)' = Copies(m) \cup (IF it.msg = m THEN {Len(queue) + 1} ELSE {})
<1>1. /\ Len(queue) \in Nat /\ DOMAIN queue = 1 .. Len(queue)
      /\ DOMAIN queue' = 1 .. (Len(queue) + 1)
      /\ queue'[Len(queue) + 1] = it
      /\ \A i \in 1 .. Len(queue) : queue'[i] = queue[i]
  OBVIOUS
<1>2. QED
  BY <1>1 DEF Copies

LEMMA CopiesTail ==
  ASSUME queue \in Seq(Items), queue # <<>>, queue' = Tail(queue), NEW m
  PROVE  Copies(m)' = {i - 1 : i \in Copies(m) \ {1}}
<1>1. /\ Len(queue) \in Nat \ {0} /\ DOMAIN queue = 1 .. Len(queue)
      /\ DOMAIN queue' = 1 .. (Len(queue) - 1)
      /\ \A i \in 1 .. (Len(queue) - 1) : queue'[i] = queue[i + 1]
  OBVIOUS
<1>2. ASSUME NEW i \in Copies(m)' PROVE i \in {k - 1 : k \in Copies(m) \ {1}}
  <2>1. i + 1 \in Copies(m) \ {1} /\ i = (i + 1) - 1
    BY <1>1, <1>2 DEF Copies
  <2>2. QED
    BY <2>1
<1>3. ASSUME NEW i \in Copies(m) \ {1} PROVE i - 1 \in Copies(m)'
  <2>1. i \in 2 .. Len(queue) /\ queue[i].msg = m
    BY <1>1, <1>3 DEF Copies
  <2>2. i - 1 \in 1 .. (Len(queue) - 1) /\ queue'[i - 1] = queue[i]
    BY <1>1, <2>1
  <2>3. QED
    BY <1>1, <2>1, <2>2 DEF Copies
<1>4. QED
  BY <1>2, <1>3

\* The head of the queue is the copy that leaves.
LEMMA CopiesHead ==
  ASSUME queue \in Seq(Items), queue # <<>>, NEW m
  PROVE  /\ 1 \in Copies(m) <=> Head(queue).msg = m
         /\ Head(queue) \in Items /\ Tail(queue) \in Seq(Items)
<1>1. 1 \in DOMAIN queue /\ Head(queue) = queue[1] /\ queue[1] \in Items
  OBVIOUS
<1>2. QED
  BY <1>1 DEF Copies

LEMMA OutboundTypeInit == Init => TypeOK
BY OutboundAssumption DEF Init, TypeOK

\* What is in hand is a message with its attempts, and stays one.
LEMMA InHandItem ==
  ASSUME TypeOK, cur # NoItem
  PROVE  /\ cur \in Items /\ cur.msg \in Msgs /\ Incremented \in Items
         /\ Incremented.msg = cur.msg
BY DEF TypeOK, Items, Incremented

LEMMA OutboundTypeNext == TypeOK /\ [Next]_vars => TypeOK'
<1> SUFFICES ASSUME TypeOK, [Next]_vars PROVE TypeOK'
  OBVIOUS
<1> USE OutboundAssumption
<1>1. ASSUME NEW m \in Msgs, Enqueue(m) PROVE TypeOK'
  <2>1. CASE IsFull
    BY <1>1, <2>1 DEF Enqueue, TypeOK, sendVars
  <2>2. CASE ~IsFull
    <3>1. [msg |-> m, att |-> 0] \in Items
      BY DEF Items
    <3>2. queue \in Seq(Items) /\ queue' = Append(queue, [msg |-> m, att |-> 0])
      BY <1>1, <2>2 DEF Enqueue, TypeOK
    <3>3. queue' \in Seq(Items)
      BY <3>1, <3>2
    <3>4. QED
      BY <1>1, <2>2, <3>3 DEF Enqueue, TypeOK, sendVars
  <2>3. QED
    BY <2>1, <2>2
<1>2. CASE LoopCheck \/ GetTimeout
  BY <1>2 DEF LoopCheck, GetTimeout, At, TypeOK, queueVars, sendVars
<1>3. CASE Get
  <2>1. Head(queue) \in Items /\ Tail(queue) \in Seq(Items)
    BY <1>3, CopiesHead DEF Get, TypeOK
  <2>2. QED
    BY <1>3, <2>1 DEF Get, At, TypeOK
<1>4. ASSUME At("send"), NextChunk, UNCHANGED <<queue, answer, running, stop>>,
             short' = short \/ short' = short \cup {cur.msg}
      PROVE  TypeOK'
  <2>1. cur \in Items /\ cur.msg \in Msgs
    BY <1>4, InHandItem DEF At, TypeOK
  <2>2. short' \subseteq Msgs
    BY <1>4, <2>1 DEF TypeOK
  <2>3. CASE chunk < Chunks[cur.msg]
    BY <1>4, <2>2, <2>3 DEF At, NextChunk, TypeOK
  <2>4. CASE ~(chunk < Chunks[cur.msg])
    <3>1. Settle("sent") /\ Rest
      BY <1>4, <2>4 DEF NextChunk
    <3>2. fate' \in [Msgs -> {"none", "sent", "dead", "lost"}] /\ tracked' \subseteq Msgs
      BY <3>1 DEF Settle, TypeOK
    <3>3. tries' = 0 /\ tries' \in 0..(MaxRetries - 1)
      BY <3>1 DEF Rest
    <3>4. QED
      BY <1>4, <2>2, <3>1, <3>2, <3>3 DEF Rest, TypeOK
  <2>5. QED
    BY <2>3, <2>4
<1>5. CASE ChunkSent \/ ChunkRefused
  BY <1>4, <1>5 DEF ChunkSent, ChunkRefused, GiveUp
<1>6. CASE ChunkRetried
  BY <1>4, <1>6 DEF ChunkRetried, GiveUp, At, TypeOK
<1>7. CASE SendRaises
  BY <1>7 DEF SendRaises, At, TypeOK
<1>8. CASE PutBack
  <2>1. cur # NoItem
    BY <1>8 DEF PutBack, At, TypeOK
  <2>2. queue' \in Seq(Items) /\ cur.msg \in Msgs
    BY <1>8, <2>1, InHandItem DEF PutBack, TypeOK
  <2>3. QED
    BY <1>8, <2>2 DEF PutBack, At, Rest, TypeOK
<1>9. CASE DeadLetter
  <2>1. PICK f \in {"dead", "lost"} : Settle(f)
    BY <1>9 DEF DeadLetter
  <2>2. fate' \in [Msgs -> {"none", "sent", "dead", "lost"}] /\ tracked' \subseteq Msgs
    BY <2>1 DEF Settle, TypeOK
  <2>3. QED
    BY <1>9, <2>2 DEF DeadLetter, Rest, At, TypeOK
<1>10. CASE Stop \/ StopTimeout \/ StopReturns
  BY <1>10 DEF Stop, StopTimeout, StopReturns, TypeOK, queueVars, sendVars
<1>11. CASE Cancelled
  <2>1. fate' \in [Msgs -> {"none", "sent", "dead", "lost"}]
    BY <1>11 DEF Cancelled, TypeOK
  <2>2. QED
    BY <1>11, <2>1 DEF Cancelled, TypeOK, queueVars
<1>12. CASE UNCHANGED vars
  BY <1>12 DEF vars, queueVars, sendVars, TypeOK
<1>13. QED
  BY <1>1, <1>2, <1>3, <1>5, <1>6, <1>7, <1>8, <1>9, <1>10, <1>11, <1>12
     DEF Next, LoopStep

\* Type correctness of the outbound queue: a message is in hand exactly while it
\* is sent, waits for a retry or goes to the dead letters (_process_message).
THEOREM OutboundTyped == Spec => []TypeOK
BY OutboundTypeInit, OutboundTypeNext, PTL DEF Spec

-----------------------------------------------------------------------------
(* One place for every message.  OnePlace is not inductive: a message that *)
(* enqueue_message refused or has not seen yet must have no fate that the  *)
(* next one could inherit, and what goes to the dead letters must have     *)
(* left _pending_messages, for a cancelled loop settles it without looking.*)

Untouched == \A m \in Msgs : ~Accepted(m) => fate[m] = "none"
DyingUntracked == loop = "dlqadd" => cur.msg \notin tracked
PlaceInv == OnePlace /\ Untouched /\ DyingUntracked

\* A step that moves no message.
LEMMA PlaceIdle ==
  ASSUME TypeOK, PlaceInv, UNCHANGED <<queue, tracked, answer, cur, fate>>,
         UNCHANGED loop \/ (cur = NoItem /\ loop' # "dlqadd")
  PROVE  PlaceInv'
BY DEF PlaceInv, OnePlace, Once, TrackedIsHeld, HeldIsTracked, Untouched, DyingUntracked,
       Copies, InHand, Accepted, TypeOK

\* The message in hand is settled.
LEMMA PlaceSettled ==
  ASSUME TypeOK, PlaceInv, cur # NoItem, cur' = NoItem, UNCHANGED <<queue, answer>>,
         NEW f \in {"sent", "dead", "lost"}, fate' = [fate EXCEPT ![cur.msg] = f],
         \/ tracked' = tracked \ {cur.msg}
         \/ tracked' = tracked /\ (f = "lost" \/ loop = "dlqadd"),
         loop' # "dlqadd"
  PROVE  PlaceInv'
<1>1. cur.msg \in Msgs
  BY InHandItem
<1>2. \A m \in Msgs : Copies(m)' = Copies(m) /\ Accepted(m)' = Accepted(m) /\ ~InHand(m)'
  BY DEF Copies, Accepted, InHand
<1>3. Copies(cur.msg) = {} /\ Accepted(cur.msg)
  BY <1>1 DEF PlaceInv, OnePlace, Once, InHand
<1>4. \A m \in Msgs \ {cur.msg} : fate'[m] = fate[m] /\ ~InHand(m)
  BY <1>1 DEF TypeOK, InHand
<1>5. fate'[cur.msg] = f
  BY <1>1 DEF TypeOK
<1>6. \A m \in Msgs : Once(m)'
  BY <1>2, <1>3, <1>4, <1>5 DEF PlaceInv, OnePlace, Once
<1>7. TrackedIsHeld'
  <2>1. SUFFICES ASSUME NEW m \in tracked', Copies(m)' = {}
                 PROVE  fate'[m] = "lost"
    BY DEF TrackedIsHeld
  <2>2. m \in tracked /\ m \in Msgs
    BY DEF TypeOK
  <2>3. CASE m = cur.msg
    BY <1>5, <2>3 DEF PlaceInv, DyingUntracked
  <2>4. CASE m # cur.msg
    BY <1>2, <1>4, <2>1, <2>2, <2>4 DEF PlaceInv, OnePlace, TrackedIsHeld
  <2>5. QED
    BY <2>3, <2>4
<1>8. HeldIsTracked'
  BY <1>2, <1>3, <1>4 DEF PlaceInv, OnePlace, HeldIsTracked
<1>9. QED
  BY <1>2, <1>3, <1>4, <1>6, <1>7, <1>8
     DEF PlaceInv, OnePlace, Untouched, DyingUntracked

\* A message joins the queue: it was nowhere, or it was in hand.
LEMMA PlaceAppended ==
  ASSUME TypeOK, PlaceInv, NEW it \in Items, queue' = Append(queue, it),
         tracked' = tracked \cup {it.msg}, UNCHANGED fate,
         \A m \in Msgs : Accepted(m)' <=> Accepted(m) \/ m = it.msg,
         \/ ~Accepted(it.msg) /\ UNCHANGED <<cur, loop>>
         \/ InHand(it.msg) /\ cur' = NoItem /\ loop' # "dlqadd"
  PROVE  PlaceInv'
<1>1. it.msg \in Msgs
  BY DEF Items
<1>2. Copies(it.msg) = {} /\ fate[it.msg] = "none"
  BY <1>1 DEF PlaceInv, OnePlace, Once, Untouched
<1>3. ASSUME NEW m \in Msgs
      PROVE  Copies(m)' = IF m = it.msg THEN {Len(queue) + 1} ELSE Copies(m)
  <2>1. queue \in Seq(Items)
    BY DEF TypeOK
  <2>2. Copies(m)' = Copies(m) \cup (IF it.msg = m THEN {Len(queue) + 1} ELSE {})
    BY <2>1, CopiesAppend
  <2>3. QED
    BY <1>2, <2>2
<1>4. ~InHand(it.msg)' /\ \A m \in Msgs \ {it.msg} : InHand(m)' <=> InHand(m)
  BY <1>1 DEF InHand, PlaceInv, OnePlace, Once
<1>5. \A m \in Msgs : Once(m)'
  BY <1>2, <1>3, <1>4 DEF PlaceInv, OnePlace, Once
<1>6. TrackedIsHeld' /\ HeldIsTracked'
  <2>1. \A m \in tracked' : m \in Msgs
    BY <1>1 DEF TypeOK
  <2>2. loop' = "dlqadd" => loop = "dlqadd"
    OBVIOUS
  <2>3. TrackedIsHeld'
    BY <1>3, <1>4, <2>1 DEF PlaceInv, OnePlace, TrackedIsHeld
  <2>4. \A m \in Msgs : InHand(m)' => loop' = loop
    BY DEF InHand
  <2>5. HeldIsTracked'
    BY <1>3, <1>4, <2>4 DEF PlaceInv, OnePlace, HeldIsTracked
  <2>6. QED
    BY <2>3, <2>5
<1>7. Untouched'
  BY DEF PlaceInv, Untouched
<1>8. DyingUntracked'
  <2>1. SUFFICES ASSUME loop' = "dlqadd" PROVE cur'.msg \notin tracked'
    BY DEF DyingUntracked
  <2>2. loop = "dlqadd" /\ cur' = cur /\ cur # NoItem /\ ~Accepted(it.msg)
    BY <2>1 DEF TypeOK
  <2>3. cur.msg # it.msg
    BY <1>1, <2>2 DEF PlaceInv, OnePlace, Once, InHand
  <2>4. QED
    BY <2>2, <2>3 DEF PlaceInv, DyingUntracked
<1>9. QED
  BY <1>5, <1>6, <1>7, <1>8 DEF PlaceInv, OnePlace

LEMMA PlaceNext == TypeOK /\ PlaceInv /\ [Next]_vars => PlaceInv'
<1> SUFFICES ASSUME TypeOK, PlaceInv, [Next]_vars PROVE PlaceInv'
  OBVIOUS
<1>1. ASSUME NEW m \in Msgs, Enqueue(m) PROVE PlaceInv'
  <2>1. ~Accepted(m)
    BY <1>1 DEF Enqueue, Accepted
  <2>2. CASE IsFull
    <3>1. \A k \in Msgs : Accepted(k)' <=> Accepted(k)
      BY <1>1, <2>2 DEF Enqueue, Accepted, TypeOK
    <3>2. UNCHANGED <<queue, tracked, loop, cur, fate>>
      BY <1>1, <2>2 DEF Enqueue
    <3>3. QED
      BY <3>1, <3>2 DEF PlaceInv, OnePlace, Once, TrackedIsHeld, HeldIsTracked,
         Untouched, DyingUntracked, Copies, InHand
  <2>3. CASE ~IsFull
    <3>1. [msg |-> m, att |-> 0] \in Items
      BY DEF Items
    <3>2. \A k \in Msgs : Accepted(k)' <=> Accepted(k) \/ k = m
      BY <1>1, <2>3 DEF Enqueue, Accepted, TypeOK
    <3>3. /\ queue' = Append(queue, [msg |-> m, att |-> 0]) /\ tracked' = tracked \cup {m}
          /\ UNCHANGED <<fate, cur, loop>>
      BY <1>1, <2>3 DEF Enqueue
    <3>4. QED
      BY <2>1, <3>1, <3>2, <3>3, PlaceAppended
  <2>4. QED
    BY <2>2, <2>3
<1>2. CASE LoopCheck \/ GetTimeout
  BY <1>2, PlaceIdle DEF LoopCheck, GetTimeout, At, queueVars, TypeOK
<1>3. CASE Get
  <2>1. cur = NoItem /\ queue \in Seq(Items) /\ queue # <<>> /\ queue' = Tail(queue)
    BY <1>3 DEF Get, At, TypeOK
  <2>2. cur' = Head(queue) /\ loop' = "send" /\ UNCHANGED <<tracked, answer, fate>>
    BY <1>3 DEF Get
  <2>3. Head(queue) \in Items /\ Head(queue) # NoItem /\ Head(queue).msg \in Msgs
    BY <2>1, CopiesHead, OutboundAssumption DEF Items
  <2>4. \A m \in Msgs : /\ Copies(m)' = {i - 1 : i \in Copies(m) \ {1}}
                        /\ InHand(m)' <=> 1 \in Copies(m)
    BY <2>1, <2>2, <2>3, CopiesTail, CopiesHead DEF InHand
  <2>5. \A m \in Msgs : 1 \in Copies(m) => Copies(m) = {1}
    BY <2>1 DEF PlaceInv, OnePlace, Once, InHand
  <2>6. ASSUME NEW m \in Msgs, 1 \in Copies(m)
        PROVE  Once(m)' /\ InHand(m)'
    <3>1. Copies(m)' = {} /\ InHand(m)' /\ Accepted(m) /\ fate[m] = "none"
      BY <2>1, <2>4, <2>5, <2>6 DEF PlaceInv, OnePlace, Once
    <3>2. QED
      BY <2>2, <3>1 DEF Once, Accepted
  <2>7. ASSUME NEW m \in Msgs, 1 \notin Copies(m)
        PROVE  Once(m)' /\ ~InHand(m)' /\ (Copies(m)' = {} <=> Copies(m) = {})
    <3>1. Copies(m)' = {i - 1 : i \in Copies(m)} /\ ~InHand(m)' /\ ~InHand(m)
      BY <2>1, <2>4, <2>7 DEF InHand
    <3>2. QED
      BY <2>2, <3>1 DEF PlaceInv, OnePlace, Once, Accepted
  <2>8. TrackedIsHeld' /\ HeldIsTracked'
    BY <2>1, <2>2, <2>6, <2>7
       DEF PlaceInv, OnePlace, TrackedIsHeld, HeldIsTracked, TypeOK, InHand
  <2>9. QED
    BY <2>2, <2>6, <2>7, <2>8
       DEF PlaceInv, OnePlace, Untouched, DyingUntracked, Accepted
<1>4. ASSUME At("send"), NextChunk, UNCHANGED <<queue, answer>> PROVE PlaceInv'
  <2>1. cur # NoItem
    BY <1>4 DEF At, TypeOK
  <2>2. CASE chunk < Chunks[cur.msg]
    BY <1>4, <2>2, PlaceIdle DEF NextChunk
  <2>3. CASE ~(chunk < Chunks[cur.msg])
    <3>1. /\ fate' = [fate EXCEPT ![cur.msg] = "sent"] /\ tracked' = tracked \ {cur.msg}
          /\ cur' = NoItem /\ loop' # "dlqadd"
      BY <1>4, <2>3 DEF NextChunk, Settle, Rest
    <3>2. QED
      BY <1>4, <2>1, <3>1, PlaceSettled
  <2>4. QED
    BY <2>2, <2>3
<1>5. CASE ChunkSent \/ ChunkRefused
  BY <1>4, <1>5 DEF ChunkSent, ChunkRefused, GiveUp
<1>6. CASE ChunkRetried
  BY <1>4, <1>6, PlaceIdle DEF ChunkRetried, GiveUp
<1>7. CASE SendRaises
  <2>1. cur # NoItem /\ loop = "send" /\ cur.msg \in Msgs
    BY <1>7, InHandItem DEF SendRaises, At, TypeOK
  <2>2. UNCHANGED <<queue, answer, cur, fate>>
    BY <1>7 DEF SendRaises
  <2>3. CASE CanRetry(Incremented)
    BY <1>7, <2>1, <2>2, <2>3
       DEF SendRaises, PlaceInv, OnePlace, Once, TrackedIsHeld, HeldIsTracked, Untouched,
           DyingUntracked, Copies, InHand, Accepted
  <2>4. CASE ~CanRetry(Incremented)
    <3>1. loop' = "dlqadd" /\ tracked' = tracked \ {cur.msg}
      BY <1>7, <2>4 DEF SendRaises
    <3>2. \A m \in Msgs : /\ Copies(m)' = Copies(m) /\ (InHand(m)' <=> InHand(m))
                          /\ (Accepted(m)' <=> Accepted(m))
      BY <2>2 DEF Copies, InHand, Accepted
    <3>3. Copies(cur.msg) = {}
      BY <2>1 DEF PlaceInv, OnePlace, Once, InHand
    <3>4. HeldIsTracked'
      BY <3>1, <3>2, <3>3 DEF PlaceInv, OnePlace, HeldIsTracked
    <3>5. TrackedIsHeld'
      BY <2>2, <3>1, <3>2 DEF PlaceInv, OnePlace, TrackedIsHeld, TypeOK
    <3>6. QED
      BY <2>2, <3>1, <3>2, <3>4, <3>5
         DEF PlaceInv, OnePlace, Once, Untouched, DyingUntracked
  <2>5. QED
    BY <2>3, <2>4
<1>8. CASE PutBack
  <2>1. cur # NoItem /\ InHand(cur.msg)
    BY <1>8 DEF PutBack, At, TypeOK, InHand
  <2>2. Incremented \in Items /\ Incremented.msg = cur.msg /\ cur.msg \in Msgs
    BY <2>1, InHandItem
  <2>3. \A m \in Msgs : Accepted(m)' <=> Accepted(m) \/ m = Incremented.msg
    BY <1>8, <2>1, <2>2 DEF PutBack, Accepted, PlaceInv, OnePlace, Once
  <2>4. /\ queue' = Append(queue, Incremented) /\ tracked' = tracked \cup {Incremented.msg}
        /\ UNCHANGED fate /\ cur' = NoItem /\ loop' # "dlqadd"
    BY <1>8, <2>2 DEF PutBack, Rest
  <2>5. QED
    BY <2>1, <2>2, <2>3, <2>4, PlaceAppended
<1>9. CASE DeadLetter
  <2>1. PICK f \in {"dead", "lost"} : Settle(f)
    BY <1>9 DEF DeadLetter
  <2>2. /\ fate' = [fate EXCEPT ![cur.msg] = f] /\ tracked' = tracked \ {cur.msg}
        /\ cur' = NoItem /\ loop' # "dlqadd" /\ UNCHANGED <<queue, answer>>
    BY <1>9, <2>1 DEF DeadLetter, Settle, Rest
  <2>3. cur # NoItem
    BY <1>9 DEF DeadLetter, At, TypeOK
  <2>4. QED
    BY <2>2, <2>3, PlaceSettled
<1>10. CASE Stop \/ StopTimeout \/ StopReturns
  BY <1>10, PlaceIdle DEF Stop, StopTimeout, StopReturns, queueVars
<1>11. CASE Cancelled
  <2>1. cur' = NoItem /\ loop' # "dlqadd" /\ UNCHANGED <<queue, tracked, answer>>
    BY <1>11 DEF Cancelled, queueVars
  <2>2. CASE cur = NoItem
    BY <1>11, <2>1, <2>2, PlaceIdle DEF Cancelled
  <2>3. CASE cur # NoItem
    <3>1. CASE fate' = [fate EXCEPT ![cur.msg] = "lost"]
      BY <2>1, <2>3, <3>1, PlaceSettled
    <3>2. CASE loop = "dlqadd" /\ fate' = [fate EXCEPT ![cur.msg] = "dead"]
      BY <2>1, <2>3, <3>2, PlaceSettled
    <3>3. QED
      BY <1>11, <2>3, <3>1, <3>2 DEF Cancelled
  <2>4. QED
    BY <2>2, <2>3
<1>12. CASE UNCHANGED vars
  BY <1>12, PlaceIdle DEF vars, queueVars
<1>13. QED
  BY <1>1, <1>2, <1>3, <1>5, <1>6, <1>7, <1>8, <1>9, <1>10, <1>11, <1>12
     DEF Next, LoopStep

LEMMA PlaceInit == Init => PlaceInv
BY DEF Init, PlaceInv, OnePlace, Once, TrackedIsHeld, HeldIsTracked, Untouched,
       DyingUntracked, Copies, InHand, Accepted

\* The outbound queue neither duplicates nor forgets a message, and its
\* _pending_messages tells the truth (OutboundQueue, _process_message).
THEOREM MessagesInOnePlace == Spec => []OnePlace
<1>1. PlaceInv => OnePlace
  BY DEF PlaceInv
<1>2. QED
  BY <1>1, PlaceInit, PlaceNext, OutboundTyped, PTL DEF Spec

-----------------------------------------------------------------------------
(* The graceful stop.  What stop_sender reports when it returns was decided *)
(* when the loop ended: it found the queue empty with nothing in hand, and  *)
(* what is accepted from then on is late.                                   *)

DrainInv ==
  /\ running <=> stop = "up"
  /\ stop = "up" => loop # "stopped"
  /\ stop = "drained" => loop = "stopped"
  /\ loop = "stopped" /\ stop \in {"stopping", "drained"} =>
       \A m \in Msgs : answer[m] = "accepted" => fate[m] # "none"

\* Steps of the loop that settle messages and leave the loop alive.
LEMMA DrainAlive ==
  ASSUME TypeOK, DrainInv, UNCHANGED <<running, stop>>, loop # "stopped", loop' # "stopped"
  PROVE  DrainInv'
BY DEF DrainInv

LEMMA DrainNext == TypeOK /\ PlaceInv /\ DrainInv /\ [Next]_vars => DrainInv'
<1> SUFFICES ASSUME TypeOK, PlaceInv, DrainInv, [Next]_vars PROVE DrainInv'
  OBVIOUS
<1>1. ASSUME NEW m \in Msgs, Enqueue(m) PROVE DrainInv'
  <2>1. \A k \in Msgs : answer'[k] = "accepted" => answer[k] = "accepted" \/ running
    BY <1>1 DEF Enqueue, TypeOK
  <2>2. UNCHANGED <<loop, running, stop, fate>>
    BY <1>1 DEF Enqueue
  <2>3. QED
    BY <2>1, <2>2 DEF DrainInv
<1>2. CASE LoopCheck
  <2>1. CASE running \/ queue # <<>>
    BY <1>2, <2>1, DrainAlive DEF LoopCheck, At
  <2>2. CASE ~running /\ queue = <<>>
    <3>1. cur = NoItem /\ \A m \in Msgs : Copies(m) = {}
      BY <1>2, <2>2 DEF LoopCheck, At, TypeOK, Copies
    <3>2. \A m \in Msgs : Accepted(m) => fate[m] # "none"
      BY <3>1 DEF PlaceInv, OnePlace, Once, InHand
    <3>3. loop' = "stopped" /\ UNCHANGED <<answer, fate, running, stop>>
      BY <1>2, <2>2 DEF LoopCheck, queueVars
    <3>4. QED
      BY <2>2, <3>2, <3>3 DEF DrainInv, Accepted
  <2>3. QED
    BY <2>1, <2>2
<1>3. CASE GetTimeout \/ Get \/ SendRaises
  BY <1>3, DrainAlive DEF GetTimeout, Get, SendRaises, At
<1>4. CASE ChunkSent \/ ChunkRetried \/ ChunkRefused
  BY <1>4, DrainAlive DEF ChunkSent, ChunkRetried, ChunkRefused, GiveUp, NextChunk, Rest, At
<1>5. CASE PutBack \/ DeadLetter
  BY <1>5, DrainAlive DEF PutBack, DeadLetter, Rest, At
<1>6. CASE Stop \/ StopTimeout \/ StopReturns
  BY <1>6 DEF Stop, StopTimeout, StopReturns, DrainInv, queueVars
<1>7. CASE Cancelled
  BY <1>7 DEF Cancelled, DrainInv
<1>8. CASE UNCHANGED vars
  BY <1>8 DEF vars, queueVars, DrainInv
<1>9. QED
  BY <1>1, <1>2, <1>3, <1>4, <1>5, <1>6, <1>7, <1>8 DEF Next, LoopStep

\* A stop_sender that its timeout did not cut short has dealt with every message
\* accepted before it was called, retries that came back included.
THEOREM StopDrains == Spec => []GracefulDrain
<1>1. Init => DrainInv
  BY DEF Init, DrainInv
<1>2. DrainInv => GracefulDrain
  BY DEF DrainInv, GracefulDrain
<1>3. QED
  BY <1>1, <1>2, PlaceInit, PlaceNext, DrainNext, OutboundTyped, PTL DEF Spec

-----------------------------------------------------------------------------
(* The bot.                                                                *)

\* Where the two components that matter stand in the order of the shutdown.
LEMMA OrderOfStops ==
  ASSUME NEW s \in 0 .. 5
  PROVE  (StopOrder[s + 1] = "bot" <=> s = 0) /\ (StopOrder[s + 1] = "dispatcher" <=> s = 4)
<1>1. s \in {0, 1, 2, 3, 4, 5}
  OBVIOUS
<1>2. QED
  BY <1>1 DEF StopOrder

Fates == Settled \cup {"sent", "dropped", "lost"}

\* Writing one place of the history keeps it a history.
LEMMA FateWritten ==
  ASSUME NEW s \in Seq(Fates), NEW i, NEW f \in Fates
  PROVE  [s EXCEPT ![i] = f] \in Seq(Fates)
<1>1. s \in [1 .. Len(s) -> Fates] /\ Len(s) \in Nat
  OBVIOUS
<1>2. [s EXCEPT ![i] = f] \in [1 .. Len(s) -> Fates]
  BY <1>1
<1>3. QED
  BY <1>1, <1>2

Handlers == [update : Update, at : {"direct", "create", "command"}]

LEMMA BotTypeNext == BotTypeOK /\ [BotNext]_botVars => BotTypeOK'
<1> SUFFICES ASSUME BotTypeOK, [BotNext]_botVars PROVE BotTypeOK'
  OBVIOUS
<1> USE BotAssumption
<1>1. ASSUME NEW u \in Users, NEW kind \in {"text", "hatch", "command"}, Send(u, kind)
      PROVE  BotTypeOK'
  <2>1. Len(updateFate) \in Nat /\ "sent" \in Fates /\ updateFate \in Seq(Fates)
    BY DEF BotTypeOK, Fates
  <2>2. [id |-> Len(updateFate) + 1, user |-> u, kind |-> kind] \in Update
    BY <1>1, <2>1 DEF Send, Update
  <2>3. mail' \in Seq(Update)
    BY <1>1, <2>2 DEF Send, BotTypeOK
  <2>4. updateFate' \in Seq(Fates)
    BY <1>1, <2>1 DEF Send
  <2>5. QED
    BY <1>1, <2>3, <2>4 DEF Send, BotTypeOK, Fates, rest
<1>2. CASE Initialize \/ StartupComplete \/ PollingFails
  BY <1>2 DEF Initialize, MakeBot, MakeCommands, StartupComplete, PollingFails, updates,
     rest, BotTypeOK
<1>3. CASE StartComponent
  BY <1>3 DEF StartComponent, StartOrder, updates, rest, BotTypeOK
<1>4. CASE PollingBegins
  <2>1. /\ mail' = <<>> /\ bot' = "polling"
        /\ UNCHANGED <<phase, step, fetched, hands, shut, plane, hatched, waiting>>
    BY <1>4 DEF PollingBegins, rest
  <2>2. updateFate \in Seq(Fates) /\ DOMAIN updateFate = 1 .. Len(updateFate)
        /\ Len(updateFate) \in Nat
    BY DEF BotTypeOK, Fates
  <2>3. \A i \in DOMAIN updateFate : updateFate[i] \in Fates
    BY <2>2
  <2>4. updateFate' \in [1 .. Len(updateFate) -> Fates]
    BY <1>4, <2>2, <2>3 DEF PollingBegins, Fates
  <2>5. updateFate' \in Seq(Fates)
    BY <2>2, <2>4
  <2>6. QED
    BY <2>1, <2>5 DEF BotTypeOK, Fates
<1>5. CASE Fetch
  BY <1>5 DEF Fetch, rest, BotTypeOK
<1>6. CASE Handle
  <2>1. Head(fetched) \in Update /\ fetched' \in Seq(Update)
    BY <1>6 DEF Handle, BotTypeOK
  <2>2. hands' \subseteq Handlers
    BY <1>6, <2>1 DEF Handle, BotTypeOK, Handlers
  <2>3. QED
    BY <1>6, <2>1, <2>2 DEF Handle, rest, BotTypeOK, Handlers
<1>7. ASSUME NEW h \in hands, NEW f \in Fates, Done(h, f), HandlerStep(h),
             hatched' \subseteq Users, waiting' \in 0 .. QueueMaxSize
      PROVE  BotTypeOK'
  <2>1. updateFate' \in Seq(Fates)
    BY <1>7, FateWritten DEF Done, BotTypeOK, Fates
  <2>2. QED
    BY <1>7, <2>1 DEF Done, HandlerStep, BotTypeOK, Fates
<1>8. ASSUME NEW h \in hands,
             DirectAnswered(h) \/ CreateJob(h) \/ HandleCommand(h) \/ HandleHatch(h)
      PROVE  BotTypeOK'
  <2>1. h.update.user \in Users
    BY DEF BotTypeOK, Update
  <2>2. HandlerStep(h) /\ \E f \in Fates : Done(h, f)
    BY <1>8 DEF DirectAnswered, CreateJob, HandleCommand, HandleHatch, Fates, Settled
  <2>3. hatched' \subseteq Users /\ waiting' \in 0 .. QueueMaxSize
    BY <1>8, <2>1 DEF DirectAnswered, CreateJob, HandleCommand, HandleHatch, BotTypeOK
  <2>4. QED
    BY <1>7, <2>2, <2>3
<1>9. ASSUME NEW h \in hands, DirectFails(h) PROVE BotTypeOK'
  BY <1>9 DEF DirectFails, HandlerStep, BotTypeOK
<1>10. CASE WorkerTakes
  BY <1>10 DEF WorkerTakes, updates, BotTypeOK
<1>11. CASE Shutdown \/ End
  BY <1>11 DEF Shutdown, End, updates, rest, BotTypeOK
<1>12. CASE StopBot \/ StopBotFails
  BY <1>12 DEF StopBot, StopBotFails, NextStop, Stopping, StopOrder, updates, rest, BotTypeOK
<1>13. CASE StopDispatcher
  <2>1. UNCHANGED <<phase, bot, mail, fetched, hands, updateFate, plane, hatched, waiting>>
    BY <1>13 DEF StopDispatcher, NextStop, updates
  <2>2. Len(StopOrder) = 6
    BY DEF StopOrder
  <2>3. step' = step \/ step' = step + 1
    BY <1>13 DEF StopDispatcher, NextStop
  <2>4. step \in Nat /\ step < 6
    BY <1>13, <2>2 DEF StopDispatcher, Stopping, BotTypeOK
  <2>5. step' \in 0 .. 6
    BY <2>3, <2>4
  <2>6. shut' \in BOOLEAN
    BY <1>13 DEF StopDispatcher, BotTypeOK
  <2>7. QED
    BY <2>1, <2>5, <2>6 DEF BotTypeOK
<1>14. ASSUME NEW c \in {"sender", "pool", "outbound", "scheduler"}, StopComponent(c)
       PROVE  BotTypeOK'
  BY <1>14 DEF StopComponent, NextStop, Stopping, StopOrder, updates, BotTypeOK
<1>15. CASE UNCHANGED botVars
  BY <1>15 DEF botVars, BotTypeOK
<1>16. QED
  BY <1>1, <1>2, <1>3, <1>4, <1>5, <1>6, <1>8, <1>9, <1>10, <1>11, <1>12, <1>13, <1>14,
     <1>15 DEF BotNext

LEMMA BotTypeInit == BotInit => BotTypeOK
<1> SUFFICES ASSUME BotInit PROVE BotTypeOK
  OBVIOUS
<1>1. mail \in Seq(Update) /\ fetched \in Seq(Update) /\ updateFate \in Seq(Fates)
  BY DEF BotInit
<1>2. waiting \in 0 .. QueueMaxSize /\ step \in 0 .. 6
  BY BotAssumption DEF BotInit
<1>3. QED
  BY <1>1, <1>2 DEF BotInit, BotTypeOK, Fates

\* NothingLost is decided where nobody looks at it: in the order of the shutdown.
\* The dispatcher refuses jobs only after the bot has had its turn; a bot that was
\* stopped handles nothing, and one that failed to stop stays broken.
StoppedFirst ==
  /\ shut => (phase = "stopping" /\ step >= 4) \/ phase = "ended"
  /\ (phase = "stopping" /\ step >= 1) \/ phase = "ended" => bot \in {"off", "none", "broken"}
  /\ bot = "broken" => (phase = "stopping" /\ step >= 1) \/ phase = "ended"

LEMMA StoppedFirstNext ==
  BotTypeOK /\ StoppedFirst /\ [BotNext]_botVars => StoppedFirst'
<1> SUFFICES ASSUME BotTypeOK, StoppedFirst, [BotNext]_botVars PROVE StoppedFirst'
  OBVIOUS
<1>1. ASSUME UNCHANGED <<phase, step, bot, shut>> PROVE StoppedFirst'
  BY <1>1 DEF StoppedFirst
<1>2. ASSUME NEW u \in Users, NEW kind \in {"text", "hatch", "command"}, Send(u, kind)
      PROVE  StoppedFirst'
  BY <1>1, <1>2 DEF Send, rest
<1>3. CASE Initialize \/ StartComponent \/ StartupComplete
  BY <1>3 DEF Initialize, MakeBot, StartComponent, StartupComplete, rest, StoppedFirst
<1>4. CASE PollingBegins \/ PollingFails
  BY <1>4 DEF PollingBegins, PollingFails, rest, StoppedFirst
<1>5. CASE Fetch \/ Handle \/ WorkerTakes
  BY <1>1, <1>5 DEF Fetch, Handle, WorkerTakes, rest
<1>6. ASSUME NEW h \in hands,
             \/ DirectAnswered(h) \/ DirectFails(h) \/ CreateJob(h)
             \/ HandleCommand(h) \/ HandleHatch(h)
      PROVE  StoppedFirst'
  BY <1>1, <1>6 DEF DirectAnswered, DirectFails, CreateJob, HandleCommand, HandleHatch,
     HandlerStep
<1>7. CASE Shutdown
  BY <1>7 DEF Shutdown, rest, StoppedFirst
<1>8. ASSUME NEW c, Stopping(c)
      PROVE  phase = "stopping" /\ step \in 0 .. 5 /\ StopOrder[step + 1] = c
  BY <1>8 DEF Stopping, StopOrder, BotTypeOK
<1>9. CASE StopBot \/ StopBotFails
  <2>1. phase = "stopping" /\ step = 0
    BY <1>8, <1>9, OrderOfStops DEF StopBot, StopBotFails
  <2>2. ~shut /\ bot # "broken"
    BY <2>1 DEF StoppedFirst
  <2>3. CASE StopBot
    BY <2>1, <2>2, <2>3 DEF StopBot, StoppedFirst, rest
  <2>4. CASE StopBotFails
    BY <2>1, <2>2, <2>4 DEF StopBotFails, NextStop, StoppedFirst
  <2>5. QED
    BY <1>9, <2>3, <2>4
<1>10. CASE StopDispatcher
  <2>1. phase = "stopping" /\ step = 4
    BY <1>8, <1>10, OrderOfStops DEF StopDispatcher
  <2>2. QED
    BY <1>10, <2>1 DEF StopDispatcher, NextStop, StoppedFirst
<1>11. ASSUME NEW c \in {"sender", "pool", "outbound", "scheduler"}, StopComponent(c)
       PROVE  StoppedFirst'
  <2>1. phase = "stopping" /\ step \in 0 .. 5 /\ step # 0
    BY <1>8, <1>11, OrderOfStops DEF StopComponent
  <2>2. QED
    BY <1>11, <2>1 DEF StopComponent, NextStop, StoppedFirst
<1>12. CASE End
  BY <1>12 DEF End, StopOrder, rest, StoppedFirst, BotTypeOK
<1>13. CASE UNCHANGED botVars
  BY <1>1, <1>13 DEF botVars
<1>14. QED
  BY <1>2, <1>3, <1>4, <1>5, <1>6, <1>7, <1>9, <1>10, <1>11, <1>12, <1>13 DEF BotNext

LEMMA NothingLostNext ==
  BotTypeOK /\ StoppedFirst /\ NothingLost /\ [BotNext]_botVars => NothingLost'
<1> SUFFICES ASSUME BotTypeOK, StoppedFirst, NothingLost, [BotNext]_botVars,
                    bot' # "broken"
             PROVE  \A i \in DOMAIN updateFate' : updateFate'[i] # "lost"
  BY DEF NothingLost
\* A broken bot stays broken, so that nothing was lost before this step.
<1>1. \A i \in DOMAIN updateFate : updateFate[i] # "lost"
  <2>1. SUFFICES ASSUME bot = "broken" PROVE FALSE
    BY DEF NothingLost
  <2>2. (phase = "stopping" /\ step >= 1) \/ phase = "ended"
    BY <2>1 DEF StoppedFirst
  <2>3. ~StopBot
    BY <2>1, <2>2 DEF StopBot
  <2>4. QED
    BY <2>1, <2>2, <2>3
       DEF BotNext, Send, Initialize, StartComponent, StartupComplete, PollingBegins,
           PollingFails, Fetch, Handle, DirectAnswered, DirectFails, CreateJob,
           HandleCommand, HandleHatch, HandlerStep, WorkerTakes, Shutdown, StopBotFails,
           StopDispatcher, NextStop, StopComponent, End, botVars
<1>2. ASSUME UNCHANGED updateFate PROVE \A i \in DOMAIN updateFate' : updateFate'[i] # "lost"
  BY <1>1, <1>2
<1>3. ASSUME NEW h \in hands, NEW f \in Fates \ {"lost"}, Done(h, f)
      PROVE  \A i \in DOMAIN updateFate' : updateFate'[i] # "lost"
  BY <1>1, <1>3 DEF Done
<1>4. ASSUME NEW u \in Users, NEW kind \in {"text", "hatch", "command"}, Send(u, kind)
      PROVE  \A i \in DOMAIN updateFate' : updateFate'[i] # "lost"
  <2>1. /\ updateFate \in Seq(Fates) /\ "sent" \in Fates
        /\ updateFate' = Append(updateFate, "sent")
    BY <1>4 DEF Send, BotTypeOK, Fates
  <2>2. QED
    BY <1>1, <2>1
<1>5. CASE PollingBegins
  BY <1>1, <1>5 DEF PollingBegins
<1>6. ASSUME NEW h \in hands,
             DirectAnswered(h) \/ CreateJob(h) \/ HandleCommand(h) \/ HandleHatch(h)
      PROVE  \A i \in DOMAIN updateFate' : updateFate'[i] # "lost"
  <2>1. Handles /\ bot # "broken"
    BY <1>6 DEF DirectAnswered, CreateJob, HandleCommand, HandleHatch, HandlerStep
  <2>2. ~shut
    BY <2>1 DEF Handles, StoppedFirst, BotTypeOK
  <2>3. \E f \in Fates \ {"lost"} : Done(h, f)
    BY <1>6, <2>2
       DEF DirectAnswered, CreateJob, HandleCommand, HandleHatch, Fates, Settled
  <2>4. QED
    BY <1>3, <2>3
<1>7. ASSUME NEW h \in hands, DirectFails(h) PROVE UNCHANGED updateFate
  BY <1>7 DEF DirectFails
<1>8. CASE Initialize \/ StartComponent \/ StartupComplete \/ PollingFails \/ Fetch \/ Handle
  BY <1>2, <1>8 DEF Initialize, StartComponent, StartupComplete, PollingFails, Fetch, Handle,
     updates
<1>9. CASE WorkerTakes \/ Shutdown \/ StopBot \/ StopBotFails \/ StopDispatcher \/ End
  BY <1>2, <1>9 DEF WorkerTakes, Shutdown, StopBot, StopBotFails, StopDispatcher, NextStop,
     End, updates
<1>10. ASSUME NEW c \in {"sender", "pool", "outbound", "scheduler"}, StopComponent(c)
       PROVE  UNCHANGED updateFate
  BY <1>10 DEF StopComponent, NextStop, updates
<1>11. CASE UNCHANGED botVars
  BY <1>2, <1>11 DEF botVars
<1>12. QED
  BY <1>2, <1>4, <1>5, <1>6, <1>7, <1>8, <1>9, <1>10, <1>11 DEF BotNext

\* No message a handler took is lost without a word (_create_job_from_message
\* does not read the dispatcher's False): because _stop_queue_workers stops the
\* bot first, and a stop that works waits for the handlers, none ever asks a
\* dispatcher that refuses.
THEOREM NoUpdateLost == BotSpec => []NothingLost
<1>1. BotInit => StoppedFirst /\ NothingLost
  BY DEF BotInit, StoppedFirst, NothingLost
<1>2. QED
  BY <1>1, BotTypeInit, BotTypeNext, StoppedFirstNext, NothingLostNext, PTL DEF BotSpec
=============================================================================
