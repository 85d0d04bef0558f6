----------------------------- MODULE AgentProofs -----------------------------
(***************************************************************************)
(* Proofs about the client of the model with its circuit breaker; about one*)
(* job in the agent runtime, for all numbers of turns, calls, pauses and   *)
(* attempts; about the threads of all chats; and about the files of a      *)
(* workspace with the paths that lead to them.                             *)
(***************************************************************************)
EXTENDS OllamaClient, AgentRuntime, Threads, Files, Recursion, FiniteSetTheorems, TLAPS

-----------------------------------------------------------------------------
(* The client of the model, for any number of callers, calls, attempts and *)
(* thresholds.                                                             *)

\* What ties the breaker's counters to the history of results: in a closed
\* breaker every counted failure belongs to the current streak.
StreakCounted == state = "closed" => failures <= streak

\* Every request in flight went out in its call's first round, in a state
\* that admits calls, or in a later round.
ClientInv ==
  /\ TypeOK
  /\ BelowThresholds
  /\ StreakCounted
  /\ OpenAdmitsNoCall
  /\ RequestsBounded
  /\ \A c \in Callers : pc[c] = "backoff" => attempt[c] < MaxAttempts

LEMMA ClientStart == Init => ClientInv
<1> SUFFICES ASSUME Init PROVE ClientInv
  OBVIOUS
<1>1. BreakerType
  BY Zenon DEF Init, BreakerInit, BreakerType
<1>2. QED
  BY <1>1, ClientAssumption, BreakerAssumption
     DEF Init, BreakerInit, ClientInv, TypeOK, BelowThresholds, StreakCounted,
         OpenAdmitsNoCall, RequestsBounded

\* The breaker's own operations keep its counters below their thresholds and
\* the streak in step with them.
LEMMA BreakerStep ==
  ASSUME BreakerType, BelowThresholds, StreakCounted, streak \in Nat,
         \/ RecordSuccess /\ ClearStreak
         \/ RecordFailure /\ CountFailure
         \/ CanExecute /\ UNCHANGED streak
         \/ Elapse /\ UNCHANGED streak
         \/ ResetBreaker /\ ClearStreak
         \/ ForceOpen /\ UNCHANGED streak
         \/ UNCHANGED breakerVars /\ UNCHANGED streak
  PROVE  BreakerType' /\ BelowThresholds' /\ StreakCounted' /\ streak' \in Nat
<1> USE BreakerAssumption
<1> USE DEF BreakerType, BelowThresholds, StreakCounted
<1>1. CASE RecordSuccess /\ ClearStreak
  BY <1>1 DEF RecordSuccess, ClearStreak
<1>2. CASE RecordFailure /\ CountFailure
  <2>1. waited' \in BOOLEAN
    BY <1>2, Zenon DEF RecordFailure
  <2>2. QED
    BY <1>2, <2>1 DEF RecordFailure, CountFailure
<1>3. CASE CanExecute /\ UNCHANGED streak
  BY <1>3 DEF CanExecute, breakerVars
<1>4. CASE Elapse /\ UNCHANGED streak
  <2>1. waited' \in BOOLEAN
    BY <1>4, Zenon DEF Elapse
  <2>2. QED
    BY <1>4, <2>1 DEF Elapse
<1>5. CASE ForceOpen /\ UNCHANGED streak
  BY <1>5 DEF ForceOpen
<1>6. CASE UNCHANGED breakerVars /\ UNCHANGED streak
  BY <1>6 DEF breakerVars
<1>7. CASE ResetBreaker /\ ClearStreak
  BY <1>7 DEF ResetBreaker, ClearStreak
<1>8. QED
  BY <1>1, <1>2, <1>3, <1>4, <1>5, <1>6, <1>7

LEMMA ClientSteps == ClientInv /\ [Next]_vars => ClientInv'
<1> SUFFICES ASSUME ClientInv, [Next]_vars PROVE ClientInv'
  OBVIOUS
<1> USE ClientAssumption, BreakerAssumption
<1>1. BreakerType' /\ BelowThresholds' /\ StreakCounted' /\ streak' \in Nat
  BY BreakerStep
     DEF ClientInv, TypeOK, Next, Timer, Manual, CallerStep, Call, CallBlocked, Answered,
         Unavailable, Rejected, Escaped, Retry, vars
<1>2. ASSUME NEW c \in Callers, CallerStep(c) PROVE ClientInv'
  <2>1. CASE Call(c)
    BY <1>1, <2>1 DEF ClientInv, TypeOK, OpenAdmitsNoCall, RequestsBounded, Call, Send,
                      CanExecute, Admits, BreakerType, breakerVars
  <2>2. CASE Retry(c)
    BY <1>1, <2>2 DEF ClientInv, TypeOK, OpenAdmitsNoCall, RequestsBounded, Retry, Send,
                      BreakerType, breakerVars
  <2>3. CASE Unavailable(c)
    BY <1>1, <2>3 DEF ClientInv, TypeOK, OpenAdmitsNoCall, RequestsBounded, Unavailable,
                      CanSleep, Leave
  <2>4. CASE Answered(c) \/ Rejected(c) \/ Escaped(c)
    BY <1>1, <2>4 DEF ClientInv, TypeOK, OpenAdmitsNoCall, RequestsBounded, Answered,
                      Rejected, Escaped, Leave
  <2>5. CASE CallBlocked(c)
    BY <1>1, <2>5 DEF ClientInv, TypeOK, OpenAdmitsNoCall, RequestsBounded, CallBlocked
  <2>6. QED
    BY <1>2, <2>1, <2>2, <2>3, <2>4, <2>5 DEF CallerStep
<1>3. CASE Timer \/ Manual \/ UNCHANGED vars
  BY <1>1, <1>3 DEF ClientInv, TypeOK, OpenAdmitsNoCall, RequestsBounded, Timer, Manual,
                    clientVars, vars
<1>4. QED
  BY <1>2, <1>3 DEF Next

LEMMA ClientAlways == Spec => []ClientInv
BY ClientStart, ClientSteps, PTL DEF Spec

\* The counters of the breaker and of every call keep their types.
THEOREM ClientTyped == Spec => []TypeOK
<1>1. ClientInv => TypeOK
  BY DEF ClientInv
<1>2. QED
  BY <1>1, ClientAlways, PTL

\* A call that meets an open breaker sends nothing (_request_with_retry,
\* attempt == 0), whatever other calls and late results do meanwhile.
THEOREM OpenBlocksNewCalls == Spec => []OpenAdmitsNoCall
<1>1. ClientInv => OpenAdmitsNoCall
  BY DEF ClientInv
<1>2. QED
  BY <1>1, ClientAlways, PTL

\* A call makes at most max_attempts requests.
THEOREM AtMostMaxAttempts == Spec => []RequestsBounded
<1>1. ClientInv => RequestsBounded
  BY DEF ClientInv
<1>2. QED
  BY <1>1, ClientAlways, PTL

\* "CLOSED -> OPEN: After failure_threshold consecutive failures"
\* (circuit_breaker.py): concurrent results never open it earlier.
THEOREM OpensOnlyOnStreak == Spec => OpensOnStreak
<1>1. ASSUME ClientInv, [Next]_vars, state = "closed", state' = "open", manual' = manual
      PROVE  streak' >= FailureThreshold
  <2>1. ~(Timer \/ Manual \/ UNCHANGED vars)
    BY <1>1 DEF Timer, Manual, Elapse, vars, breakerVars, ClientInv, TypeOK
  <2>2. PICK c \in Callers : CallerStep(c)
    BY <1>1, <2>1 DEF Next
  <2>3. RecordFailure /\ CountFailure
    BY <1>1, <2>2 DEF CallerStep, Call, CallBlocked, Answered, Unavailable, Rejected,
       Escaped, Retry, CanExecute, RecordSuccess, breakerVars
  <2>4. failures + 1 >= FailureThreshold
    BY <1>1, <2>3 DEF RecordFailure
  <2>5. QED
    BY <1>1, <2>3, <2>4, BreakerAssumption
       DEF CountFailure, ClientInv, StreakCounted, TypeOK, BreakerType
<1>2. ClientInv /\ [Next]_vars =>
        [state = "closed" /\ state' = "open" /\ manual' = manual
           => streak' >= FailureThreshold]_vars
  BY <1>1
<1>3. QED
  BY <1>2, ClientAlways, PTL DEF Spec, OpensOnStreak

\* An open breaker is left, short of a reset, only by the call that finds its
\* timeout over, and only for HALF_OPEN (can_execute, circuit_breaker.py): the
\* late results of requests sent earlier do not close it.
THEOREM LeavesOpenForProbe == Spec => ReopensThroughProbe
<1>1. ASSUME ClientInv, [Next]_vars, state = "open", state' # "open", manual' = manual
      PROVE  state' = "half_open" /\ waited
  <2>1. ~(Timer \/ Manual \/ UNCHANGED vars)
    BY <1>1 DEF Timer, Manual, Elapse, vars, breakerVars, ClientInv, TypeOK
  <2>2. PICK c \in Callers : CallerStep(c)
    BY <1>1, <2>1 DEF Next
  <2>3. CanExecute
    BY <1>1, <2>2 DEF CallerStep, Call, CallBlocked, Answered, Unavailable, Rejected,
       Escaped, Retry, RecordSuccess, RecordFailure, breakerVars
  <2>4. QED
    BY <1>1, <2>3 DEF CanExecute, breakerVars
<1>2. ClientInv /\ [Next]_vars =>
        [state = "open" /\ state' # "open" /\ manual' = manual
           => state' = "half_open" /\ waited]_vars
  BY <1>1
<1>3. QED
  BY <1>2, ClientAlways, PTL DEF Spec, ReopensThroughProbe

-----------------------------------------------------------------------------
(* The tool loop.                                                          *)

RuntimeShape ==
  /\ phase \in {"skill", "user", "context", "model", "execute", "tool", "answer", "done"}
  /\ message \in Seq(ToolCall)
  /\ malformed \in Nat
  /\ receipts \in Seq([call : Nat, verdict : Verdicts])
  /\ ran \in Seq(ToolCall)

\* The receipts in their order: the malformed pieces, the calls beyond the cap, the
\* calls that were handled.  Only while calls are handled some are missing.
Received ==
  /\ malformed + Overflow <= Len(receipts)
  /\ Len(receipts) <= malformed + Len(message)
  /\ \A i \in 1 .. malformed : receipts[i].call = 0 /\ receipts[i].verdict = "parse_error"
  /\ \A i \in 1 .. Overflow :
       /\ receipts[malformed + i].call = Capped + i
       /\ receipts[malformed + i].verdict = "limit_exceeded"
  /\ \A i \in malformed + Overflow + 1 .. Len(receipts) :
       receipts[i].call = i - malformed - Overflow
  /\ phase = "tool" => Len(receipts) < malformed + Len(message)
  /\ phase \notin {"execute", "tool"} => Len(receipts) = malformed + Len(message)

\* An answer is in the transcript only when the job has ended with it.
Transcript ==
  /\ transcript \in Seq({"user", "assistant"})
  /\ phase # "done" => result = "none"
  /\ OneAnswer

RuntimeInv == RuntimeShape /\ Received /\ Transcript

\* How a message divides into the calls within the cap and those beyond it.
LEMMA CapDivides ==
  ASSUME NEW n \in Nat, Len(message) = n
  PROVE  /\ Capped \in 0 .. n /\ Capped <= Cap /\ Overflow = n - Capped /\ Overflow \in Nat
         /\ n = 0 => Capped = 0 /\ Overflow = 0
<1>1. Cap \in Nat \ {0}
  BY RuntimeAssumption DEF Cap
<1> QED
  BY <1>1 DEF Capped, Overflow

LEMMA MessageDivides ==
  ASSUME RuntimeShape
  PROVE  /\ Len(message) \in Nat /\ Len(receipts) \in Nat
         /\ Capped \in 0 .. Len(message) /\ Capped <= Cap
         /\ Overflow = Len(message) - Capped /\ Overflow \in Nat
<1>1. Len(message) \in Nat /\ Len(receipts) \in Nat
  BY DEF RuntimeShape
<1> QED
  BY <1>1, CapDivides

\* What is told of the malformed pieces, and then of the calls.
LEMMA FeedbackGives ==
  ASSUME NEW broken \in Nat, NEW events \in Seq([call : Nat, verdict : Verdicts])
  PROVE  /\ Feedback(broken, events) \in Seq([call : Nat, verdict : Verdicts])
         /\ Len(Feedback(broken, events)) = broken + Len(events)
         /\ \A i \in 1 .. broken :
              /\ Feedback(broken, events)[i].call = 0
              /\ Feedback(broken, events)[i].verdict = "parse_error"
         /\ \A i \in 1 .. Len(events) : Feedback(broken, events)[broken + i] = events[i]
<1> DEFINE R == [call : Nat, verdict : Verdicts]
<1> DEFINE told1 == [i \in 1 .. broken |-> [call |-> 0, verdict |-> "parse_error"]]
<1>1. [call |-> 0, verdict |-> "parse_error"] \in R
  BY DEF Verdicts
<1>2. told1 \in Seq(R) /\ Len(told1) = broken
  BY <1>1
<1>3. \A i \in 1 .. broken : told1[i].call = 0 /\ told1[i].verdict = "parse_error"
  OBVIOUS
<1>4. Feedback(broken, events) = told1 \o events
  BY DEF Feedback
<1> HIDE DEF told1
<1>5. told1 \o events \in Seq(R) /\ Len(told1 \o events) = broken + Len(events)
  BY <1>2, SMTT(30)
<1>6. \A i \in 1 .. broken : (told1 \o events)[i] = told1[i]
  BY <1>2
<1>7. \A i \in 1 .. Len(events) : (told1 \o events)[broken + i] = events[i]
  BY <1>2
<1> QED
  BY <1>3, <1>4, <1>5, <1>6, <1>7

\* The inductive invariant says what the property asks.
LEMMA ReceivedGives ==
  ASSUME RuntimeShape, Received, phase \notin {"execute", "tool"}
  PROVE  ReceiptPerCall
<1>1. /\ Len(message) \in Nat /\ Len(receipts) \in Nat /\ malformed \in Nat
      /\ Capped \in 0 .. Len(message) /\ Capped <= Cap
      /\ Overflow = Len(message) - Capped /\ Overflow \in Nat
      /\ DOMAIN receipts = 1 .. Len(receipts) /\ DOMAIN message = 1 .. Len(message)
  BY MessageDivides DEF RuntimeShape
<1>2. Len(receipts) = malformed + Len(message)
  BY DEF Received
<1>3. {receipts[i].call : i \in DOMAIN receipts} \ {0} = DOMAIN message
  <2>1. ASSUME NEW i \in DOMAIN receipts, receipts[i].call # 0 PROVE receipts[i].call \in DOMAIN message
    <3>1. CASE i \in 1 .. malformed
      BY <2>1, <3>1 DEF Received
    <3>2. CASE i - malformed \in 1 .. Overflow
      <4>1. receipts[malformed + (i - malformed)].call = Capped + (i - malformed)
        BY <3>2 DEF Received
      <4> QED
        BY <1>1, <3>2, <4>1
    <3>3. CASE i \in malformed + Overflow + 1 .. Len(receipts)
      <4>1. receipts[i].call = i - malformed - Overflow
        BY <3>3 DEF Received
      <4> QED
        BY <1>1, <1>2, <3>3, <4>1
    <3> QED
      BY <1>1, <3>1, <3>2, <3>3
  <2>2. ASSUME NEW n \in DOMAIN message PROVE \E i \in DOMAIN receipts : receipts[i].call = n
    <3>1. CASE n <= Capped
      <4> DEFINE i == malformed + Overflow + n
      <4>1. i \in malformed + Overflow + 1 .. Len(receipts) /\ i \in DOMAIN receipts
        BY <1>1, <1>2, <3>1
      <4>2. receipts[i].call = i - malformed - Overflow
        BY <4>1 DEF Received
      <4>3. receipts[i].call = n
        BY <1>1, <4>2
      <4> QED
        BY <4>1, <4>3
    <3>2. CASE n > Capped
      <4>1. n - Capped \in 1 .. Overflow
        BY <1>1, <3>2
      <4>2. receipts[malformed + (n - Capped)].call = Capped + (n - Capped)
        BY <4>1 DEF Received
      <4>3. malformed + (n - Capped) \in DOMAIN receipts
        BY <1>1, <1>2, <4>1
      <4> QED
        BY <1>1, <4>2, <4>3
    <3> QED
      BY <1>1, <3>1, <3>2
  <2>3. 0 \notin DOMAIN message
    BY <1>1
  <2> QED
    BY <2>1, <2>2, <2>3
<1>4. Cardinality({i \in DOMAIN receipts : receipts[i].verdict \in Ran}) <= Cap
  <2> DEFINE run == {i \in DOMAIN receipts : receipts[i].verdict \in Ran}
  <2> DEFINE from == malformed + Overflow + 1
  <2>1. run \subseteq from .. Len(receipts)
    <3> SUFFICES ASSUME NEW i \in run PROVE i \in from .. Len(receipts)
      OBVIOUS
    <3>1. i \notin 1 .. malformed
      BY DEF Received, Ran
    <3>2. i - malformed \notin 1 .. Overflow
      <4> SUFFICES ASSUME i - malformed \in 1 .. Overflow PROVE FALSE
        OBVIOUS
      <4>1. receipts[malformed + (i - malformed)].verdict = "limit_exceeded"
        BY DEF Received
      <4>2. malformed + (i - malformed) = i
        BY <1>1
      <4> QED
        BY <4>1, <4>2 DEF Ran
    <3> QED
      BY <1>1, <3>1, <3>2
  <2>2. from \in Int /\ Len(receipts) \in Int
    BY <1>1
  <2> HIDE DEF run, from
  <2>3. IsFiniteSet(from .. Len(receipts))
    BY <2>2, FS_Interval
  <2>4. Cardinality(from .. Len(receipts)) = IF from > Len(receipts) THEN 0 ELSE Len(receipts) - from + 1
    BY <2>2, FS_Interval
  <2>5. Cardinality(run) <= Cardinality(from .. Len(receipts)) /\ IsFiniteSet(run)
    BY <2>1, <2>3, FS_Subset
  <2>6. Cardinality(run) \in Nat
    BY <2>5, FS_CardinalityType
  <2>7. Cardinality(from .. Len(receipts)) <= Capped
    BY <1>1, <1>2, <2>4 DEF from
  <2>8. Cap \in Nat
    BY RuntimeAssumption DEF Cap
  <2>9. Cardinality(from .. Len(receipts)) \in Nat
    BY <2>3, FS_CardinalityType
  <2>10. Cardinality(run) <= Cap
    BY <1>1, <2>5, <2>6, <2>7, <2>8, <2>9
  <2> QED
    BY <2>10 DEF run
<1> QED
  BY <1>2, <1>3, <1>4 DEF ReceiptPerCall

\* Steps that leave the message and its receipts alone, away from the calls.
LEMMA ReceiptsStay ==
  ASSUME RuntimeShape, Received, UNCHANGED <<message, malformed, receipts>>,
         phase \notin {"execute", "tool"} \/ Len(receipts) = malformed + Len(message),
         phase' # "tool"
  PROVE  Received'
BY DEF Received, Overflow, Capped, Cap

LEMMA RuntimeStart == RuntimeInit => RuntimeInv
<1> SUFFICES ASSUME RuntimeInit PROVE RuntimeInv
  OBVIOUS
<1>1. /\ message = <<>> /\ receipts = <<>> /\ ran = <<>> /\ transcript = <<>>
      /\ malformed = 0 /\ phase = "skill" /\ result = "none"
  BY DEF RuntimeInit
<1>2. RuntimeShape
  BY <1>1 DEF RuntimeShape
<1>3. Capped = 0 /\ Overflow = 0
  BY <1>1, CapDivides
<1>4. Received
  BY <1>1, <1>3 DEF Received
<1>5. Transcript
  BY <1>1 DEF Transcript, OneAnswer
<1> QED
  BY <1>2, <1>4, <1>5 DEF RuntimeInv

\* A message of the model, with calls or without.
LEMMA RepliesTyped ==
  ASSUME NEW reply \in Replies
  PROVE  reply.calls \in Seq(ToolCall) /\ reply.failures \in Nat
<1>1. reply \in Reply /\ MaxMessage \in Nat
  BY RuntimeAssumption DEF Replies
<1>2. reply.calls \in BoundedSeq(ToolCall, MaxMessage) /\ reply.failures \in Nat
  BY <1>1 DEF Reply
<1> QED
  BY <1>1, <1>2 DEF BoundedSeq, SeqOf

LEMMA AnswersKeeps ==
  ASSUME RuntimeInv, ModelAnswers
  PROVE  RuntimeInv'
<1> PICK reply \in Replies : reply.calls = <<>> /\ malformed' = reply.failures
                             /\ receipts' = Feedback(reply.failures, <<>>)
  BY DEF ModelAnswers
<1>1. message' = <<>> /\ phase = "model" /\ phase' = "answer" /\ UNCHANGED <<ran, transcript, result>>
  BY DEF ModelAnswers, tools
<1>2. reply.failures \in Nat
  BY RepliesTyped
<1> DEFINE f == reply.failures
<1>3. <<>> \in Seq([call : Nat, verdict : Verdicts]) /\ Len(<<>>) = 0 /\ f \in Nat
      /\ receipts' = Feedback(f, <<>>) /\ malformed' = f
  BY <1>2
<1> HIDE DEF f
<1>4. /\ Feedback(f, <<>>) \in Seq([call : Nat, verdict : Verdicts])
      /\ Len(Feedback(f, <<>>)) = f + Len(<<>>)
      /\ \A i \in 1 .. f : Feedback(f, <<>>)[i].call = 0 /\ Feedback(f, <<>>)[i].verdict = "parse_error"
  BY ONLY <1>3, FeedbackGives
<1>5. /\ receipts' \in Seq([call : Nat, verdict : Verdicts])
      /\ Len(receipts') = malformed'
      /\ \A i \in 1 .. malformed' : receipts'[i].call = 0 /\ receipts'[i].verdict = "parse_error"
  BY <1>3, <1>4
<1>6. RuntimeShape'
  BY <1>1, <1>2, <1>5 DEF RuntimeInv, RuntimeShape
<1>7. Len(message') = 0 /\ Capped' = 0 /\ Overflow' = 0
  BY <1>1, RuntimeAssumption DEF Capped, Overflow, Cap
<1>8. Received'
  BY <1>1, <1>2, <1>5, <1>7 DEF Received
<1>9. Transcript'
  BY <1>1 DEF RuntimeInv, Transcript, OneAnswer
<1> QED
  BY <1>6, <1>8, <1>9 DEF RuntimeInv

LEMMA CallsToolsKeeps ==
  ASSUME RuntimeInv, ModelCallsTools
  PROVE  RuntimeInv'
<1> DEFINE events(c, o) == [i \in 1 .. o |-> [call |-> c + i, verdict |-> "limit_exceeded"]]
<1> DEFINE R == [call : Nat, verdict : Verdicts]
<1>1. PICK reply \in Replies : message' = reply.calls /\ malformed' = reply.failures
                               /\ receipts' = Feedback(reply.failures, events(Capped', Overflow'))
  BY DEF ModelCallsTools
<1>2. phase = "model" /\ phase' = "execute" /\ UNCHANGED <<ran, transcript, result>>
  BY DEF ModelCallsTools, tools
<1>3. message' \in Seq(ToolCall) /\ malformed' \in Nat /\ Len(message') \in Nat
  BY <1>1, RepliesTyped
<1>4. Capped' \in 0 .. Len(message') /\ Overflow' = Len(message') - Capped' /\ Overflow' \in Nat
  BY <1>3, RuntimeAssumption DEF Capped, Overflow, Cap
<1>5. PICK c \in Nat : c = Capped'
  BY <1>3, <1>4
<1>6. PICK o \in Nat : o = Overflow'
  BY <1>4
<1> DEFINE late == events(c, o)
<1>7. late \in Seq(R) /\ Len(late) = o
  <2>1. \A i \in 1 .. o : [call |-> c + i, verdict |-> "limit_exceeded"] \in R
    BY DEF Verdicts
  <2> QED
    BY <2>1
<1>8. \A i \in 1 .. o : late[i].call = c + i /\ late[i].verdict = "limit_exceeded"
  OBVIOUS
<1>9. receipts' = Feedback(malformed', late)
  BY <1>1, <1>5, <1>6
<1> HIDE DEF late
<1>10. PICK f \in Nat : f = malformed'
  BY <1>3
<1>11. /\ Feedback(f, late) \in Seq(R)
       /\ Len(Feedback(f, late)) = f + Len(late)
       /\ \A i \in 1 .. f : Feedback(f, late)[i].call = 0 /\ Feedback(f, late)[i].verdict = "parse_error"
       /\ \A i \in 1 .. Len(late) : Feedback(f, late)[f + i] = late[i]
  BY <1>7, FeedbackGives
<1>12. /\ receipts' \in Seq(R) /\ Len(receipts') = f + o
       /\ \A i \in 1 .. f : receipts'[i].call = 0 /\ receipts'[i].verdict = "parse_error"
       /\ \A i \in 1 .. o : receipts'[f + i].call = c + i /\ receipts'[f + i].verdict = "limit_exceeded"
  BY <1>7, <1>8, <1>9, <1>10, <1>11, ZenonT(30)
<1>13. RuntimeShape'
  BY <1>2, <1>3, <1>12 DEF RuntimeInv, RuntimeShape
<1>14. f + o <= f + Len(message')
  BY <1>3, <1>4, <1>5, <1>6
<1>15. Received'
  <2>1. \A i \in f + o + 1 .. Len(receipts') : receipts'[i].call = i - f - o
    BY <1>12
  <2>2. malformed' + Overflow' <= Len(receipts')
    <3>1. f + o <= Len(receipts')
      BY <1>12
    <3> QED
      BY <1>6, <1>10, <3>1
  <2>3. Len(receipts') <= malformed' + Len(message')
    BY <1>10, <1>12, <1>14
  <2> QED
    BY <1>2, <1>5, <1>6, <1>10, <1>12, <2>1, <2>2, <2>3 DEF Received
<1>16. Transcript'
  BY <1>2 DEF RuntimeInv, Transcript, OneAnswer
<1> QED
  BY <1>13, <1>15, <1>16 DEF RuntimeInv

\* The model does not answer: what was received stays.
LEMMA LostKeeps ==
  ASSUME RuntimeInv, ModelUnreachable \/ ModelFails
  PROVE  RuntimeInv'
<1>1. /\ phase = "model" /\ phase' \in {"model", "done"} /\ UNCHANGED <<message, malformed, receipts, ran, transcript>>
      /\ phase' = "model" => result' = result
  BY DEF ModelUnreachable, ModelFails, Return, tools
<1>2. result = "none" /\ \A i \in DOMAIN transcript : transcript[i] # "assistant"
  BY <1>1 DEF RuntimeInv, Transcript, OneAnswer
<1>3. RuntimeShape'
  BY <1>1 DEF RuntimeInv, RuntimeShape
<1>4. Received'
  BY <1>1, ReceiptsStay DEF RuntimeInv
<1>5. Transcript'
  BY <1>1, <1>2 DEF RuntimeInv, Transcript, OneAnswer
<1> QED
  BY <1>3, <1>4, <1>5 DEF RuntimeInv

\* One more receipt, for the call whose turn it is.
LEMMA ReceiptKeeps ==
  ASSUME RuntimeShape, Received, NEW verdict \in Verdicts, NextCall <= Capped,
         receipts' = Receipt(verdict), UNCHANGED <<message, malformed, ran>>, phase' = "execute"
  PROVE  RuntimeShape' /\ Received'
<1>1. /\ Len(message) \in Nat /\ Len(receipts) \in Nat /\ malformed \in Nat
      /\ Capped \in 0 .. Len(message) /\ Overflow = Len(message) - Capped /\ Overflow \in Nat
  BY MessageDivides DEF RuntimeShape
<1>2. malformed + Overflow <= Len(receipts)
  BY DEF Received
<1>3. NextCall \in Nat /\ NextCall = Len(receipts) + 1 - malformed - Overflow
  BY <1>1, <1>2 DEF NextCall
<1> DEFINE e == [call |-> NextCall, verdict |-> verdict]
<1>4. e \in [call : Nat, verdict : Verdicts] /\ e.call = NextCall
  BY <1>3
<1>5. receipts' = Append(receipts, e)
  BY DEF Receipt
<1> HIDE DEF e
<1>6. receipts' \in Seq([call : Nat, verdict : Verdicts]) /\ Len(receipts') = Len(receipts) + 1
  BY <1>4, <1>5 DEF RuntimeShape
<1>7. \A i \in 1 .. Len(receipts) : receipts'[i] = receipts[i]
  BY <1>5 DEF RuntimeShape
<1>8. receipts'[Len(receipts) + 1] = e
  BY <1>5 DEF RuntimeShape
<1>9. Capped' = Capped /\ Overflow' = Overflow
  BY DEF Capped, Overflow, Cap
<1>10. RuntimeShape'
  BY <1>6 DEF RuntimeShape
<1>11. \A i \in malformed + Overflow + 1 .. Len(receipts) + 1 :
         receipts'[i].call = i - malformed - Overflow
  <2> SUFFICES ASSUME NEW i \in malformed + Overflow + 1 .. Len(receipts) + 1
               PROVE  receipts'[i].call = i - malformed - Overflow
    OBVIOUS
  <2>1. CASE i = Len(receipts) + 1
    BY <1>1, <1>3, <1>4, <1>8, <2>1
  <2>2. CASE i # Len(receipts) + 1
    <3>1. i \in malformed + Overflow + 1 .. Len(receipts) /\ i \in 1 .. Len(receipts)
      BY <1>1, <2>2
    <3> QED
      BY <1>7, <3>1 DEF Received
  <2> QED
    BY <2>1, <2>2
<1>12. /\ malformed + Overflow <= Len(receipts)
       /\ \A i \in 1 .. malformed : receipts'[i].call = 0 /\ receipts'[i].verdict = "parse_error"
  BY <1>1, <1>7 DEF Received
<1>13. \A i \in 1 .. Overflow :
         /\ receipts'[malformed + i].call = Capped + i
         /\ receipts'[malformed + i].verdict = "limit_exceeded"
  <2> SUFFICES ASSUME NEW i \in 1 .. Overflow
               PROVE  /\ receipts'[malformed + i].call = Capped + i
                      /\ receipts'[malformed + i].verdict = "limit_exceeded"
    OBVIOUS
  <2>1. malformed + i \in 1 .. Len(receipts)
    BY <1>1, <1>12
  <2> QED
    BY <1>7, <2>1 DEF Received
<1>14. Len(receipts) + 1 <= malformed + Len(message)
  BY <1>1, <1>3
<1>15. Received'
  BY <1>1, <1>6, <1>9, <1>11, <1>12, <1>13, <1>14 DEF Received
<1> QED
  BY <1>10, <1>15

\* The calls of a message one after the other.
LEMMA CallKeepsRuntime ==
  ASSUME RuntimeInv, Deny \/ ExecuteSingle \/ ToolEnds
  PROVE  RuntimeInv'
<1>1. /\ RuntimeShape /\ Received
      /\ UNCHANGED <<message, malformed, transcript, result>> /\ phase \in {"execute", "tool"}
      /\ phase' \in {"execute", "tool"}
  BY DEF RuntimeInv, Deny, ExecuteSingle, ToolEnds, tools
<1>2. Transcript'
  BY <1>1 DEF RuntimeInv, Transcript, OneAnswer
<1>3. /\ Len(message) \in Nat /\ Len(receipts) \in Nat /\ malformed \in Nat
      /\ Capped \in 0 .. Len(message) /\ Overflow = Len(message) - Capped /\ Overflow \in Nat
  BY <1>1, MessageDivides DEF RuntimeShape
<1>4. CASE Deny
  <2>1. /\ receipts' = Receipt("not_allowed") /\ NextCall <= Capped /\ phase' = "execute"
        /\ UNCHANGED ran /\ "not_allowed" \in Verdicts
    BY <1>4 DEF Deny, Verdicts
  <2> QED
    BY <1>1, <1>2, <2>1, ReceiptKeeps DEF RuntimeInv
<1>5. CASE ToolEnds
  <2>1. phase = "tool" /\ phase' = "execute" /\ UNCHANGED ran
    BY <1>5 DEF ToolEnds
  <2>2. PICK verdict \in Ran : receipts' = Receipt(verdict)
    BY <1>5 DEF ToolEnds
  <2>3. verdict \in Verdicts
    BY <2>2 DEF Verdicts
  <2>4. NextCall <= Capped
    BY <1>1, <1>3, <2>1 DEF Received, NextCall
  <2> QED
    BY <1>1, <1>2, <2>1, <2>2, <2>3, <2>4, ReceiptKeeps DEF RuntimeInv
<1>6. CASE ExecuteSingle
  <2>1. ran' = Append(ran, message[NextCall]) /\ NextCall <= Capped /\ phase' = "tool" /\ UNCHANGED receipts
    BY <1>6 DEF ExecuteSingle
  <2>2. NextCall \in 1 .. Len(message)
    BY <1>1, <1>3, <2>1 DEF Received, NextCall
  <2>3. ran' \in Seq(ToolCall)
    BY <1>1, <2>1, <2>2 DEF RuntimeShape
  <2>4. RuntimeShape'
    BY <1>1, <2>1, <2>3 DEF RuntimeShape
  <2>5. Capped' = Capped /\ Overflow' = Overflow
    BY <1>1 DEF Capped, Overflow, Cap
  <2>6. Len(receipts) < malformed + Len(message)
    BY <1>3, <2>1 DEF NextCall
  <2>7. Received'
    BY <1>1, <2>1, <2>5, <2>6 DEF Received
  <2> QED
    BY <1>2, <2>4, <2>7 DEF RuntimeInv
<1> QED
  BY <1>4, <1>5, <1>6

LEMMA TurnEndsKeeps ==
  ASSUME RuntimeInv, TurnEnds
  PROVE  RuntimeInv'
<1>1. /\ phase = "execute" /\ NextCall > Capped /\ phase' \in {"model", "answer", "done"}
      /\ UNCHANGED <<message, malformed, receipts, ran, transcript>>
      /\ phase' # "done" => result' = result
  BY DEF TurnEnds, Return, tools
<1>2. RuntimeShape /\ Received /\ result = "none"
  BY <1>1 DEF RuntimeInv, Transcript
<1>3. Len(receipts) = malformed + Len(message)
  <2>1. /\ Len(message) \in Nat /\ Len(receipts) \in Nat /\ malformed \in Nat
        /\ Overflow = Len(message) - Capped /\ Capped \in Nat
    BY <1>2, MessageDivides DEF RuntimeShape
  <2> QED
    BY <1>1, <1>2, <2>1 DEF Received, NextCall
<1>4. RuntimeShape'
  BY <1>1, <1>2 DEF RuntimeShape
<1>5. Received'
  BY <1>1, <1>2, <1>3, ReceiptsStay
<1>6. \A i \in DOMAIN transcript : transcript[i] # "assistant"
  BY <1>2 DEF RuntimeInv, Transcript, OneAnswer
<1>7. Transcript'
  BY <1>1, <1>2, <1>6 DEF RuntimeInv, Transcript, OneAnswer
<1> QED
  BY <1>4, <1>5, <1>7 DEF RuntimeInv

\* Before and after the loop: the transcript grows, the receipts do not change.
LEMMA AroundKeeps ==
  ASSUME RuntimeInv,
         \/ CheckSkillTrigger \/ PersistUserMessage \/ BuildInitialContext
         \/ PersistAssistantMessage \/ PauseTools \/ JobCompleted
  PROVE  RuntimeInv'
<1>1. UNCHANGED <<message, malformed, receipts, ran>>
  BY DEF CheckSkillTrigger, PersistUserMessage, BuildInitialContext,
         PersistAssistantMessage, PauseTools, JobCompleted, loop, tools, pool
<1>2. CASE CheckSkillTrigger \/ BuildInitialContext
  <2>1. /\ phase \in {"skill", "context"} /\ phase' \in {"user", "model", "done"}
        /\ UNCHANGED transcript
        /\ phase' # "done" => result' = result
    BY <1>2 DEF CheckSkillTrigger, BuildInitialContext, Return
  <2>2. RuntimeShape'
    BY <1>1, <2>1 DEF RuntimeInv, RuntimeShape
  <2>3. Received'
    BY <1>1, <2>1, ReceiptsStay DEF RuntimeInv
  <2>4. result = "none" /\ \A i \in DOMAIN transcript : transcript[i] # "assistant"
    BY <2>1 DEF RuntimeInv, Transcript, OneAnswer
  <2>5. transcript' = transcript /\ \A i \in DOMAIN transcript' : transcript'[i] # "assistant"
    BY <2>1, <2>4
  <2>6. OneAnswer'
    BY <2>5 DEF OneAnswer
  <2>7. Transcript'
    BY <2>1, <2>4, <2>5, <2>6 DEF RuntimeInv, Transcript
  <2> QED
    BY <2>2, <2>3, <2>7 DEF RuntimeInv
<1>3. CASE PersistUserMessage
  <2>1. /\ phase = "user" /\ phase' = "context" /\ UNCHANGED result
        /\ transcript' \in {transcript, Append(transcript, "user")}
    BY <1>3 DEF PersistUserMessage
  <2>2. RuntimeShape'
    BY <1>1, <2>1 DEF RuntimeInv, RuntimeShape
  <2>3. Received'
    BY <1>1, <2>1, ReceiptsStay DEF RuntimeInv
  <2>4. result = "none" /\ transcript \in Seq({"user", "assistant"})
    BY <2>1 DEF RuntimeInv, Transcript
  <2>5. \A i \in DOMAIN transcript : transcript[i] # "assistant"
    BY <2>4 DEF RuntimeInv, Transcript, OneAnswer
  <2>6. \A i \in DOMAIN transcript' : transcript'[i] # "assistant"
    BY <2>1, <2>4, <2>5
  <2>7. Transcript'
    BY <2>1, <2>4, <2>6 DEF Transcript, OneAnswer
  <2> QED
    BY <2>2, <2>3, <2>7 DEF RuntimeInv
<1>4. CASE PersistAssistantMessage
  <2>1. /\ phase = "answer" /\ phase' = "done" /\ result' = "OK"
        /\ transcript' \in {transcript, Append(transcript, "assistant")}
    BY <1>4 DEF PersistAssistantMessage, Return
  <2>2. RuntimeShape'
    BY <1>1, <2>1 DEF RuntimeInv, RuntimeShape
  <2>3. Received'
    BY <1>1, <2>1, ReceiptsStay DEF RuntimeInv
  <2>4. result = "none" /\ transcript \in Seq({"user", "assistant"})
    BY <2>1 DEF RuntimeInv, Transcript
  <2>5. \A i \in DOMAIN transcript : transcript[i] # "assistant"
    BY <2>4 DEF RuntimeInv, Transcript, OneAnswer
  <2>6. \A i \in DOMAIN transcript' : transcript'[i] = "assistant" => i = Len(transcript')
    BY <2>1, <2>4, <2>5
  <2>7. Transcript'
    BY <2>1, <2>4, <2>6 DEF Transcript, OneAnswer
  <2> QED
    BY <2>2, <2>3, <2>7 DEF RuntimeInv
<1>5. CASE PauseTools \/ JobCompleted
  <2>1. UNCHANGED <<phase, transcript, result>>
    BY <1>5 DEF PauseTools, JobCompleted
  <2> QED
    BY <1>1, <2>1 DEF RuntimeInv, RuntimeShape, Received, Overflow, Capped, Cap, Transcript, OneAnswer
<1> QED
  BY <1>2, <1>3, <1>4, <1>5

\* A new attempt starts with nothing, but the transcript of the ones before.
LEMMA JobFailedKeeps ==
  ASSUME RuntimeInv, JobFailed
  PROVE  RuntimeInv'
<1>1. phase = "done" /\ result = "raised" /\ UNCHANGED transcript
  BY DEF JobFailed
<1>2. \A i \in DOMAIN transcript : transcript[i] # "assistant"
  BY <1>1 DEF RuntimeInv, Transcript, OneAnswer
<1>3. CASE attempts < JobAttempts
  <2>1. /\ phase' = "skill" /\ result' = "none" /\ malformed' = 0
        /\ message' = <<>> /\ receipts' = <<>> /\ ran' = <<>>
    BY <1>3 DEF JobFailed
  <2>2. RuntimeShape'
    BY <2>1 DEF RuntimeShape
  <2>3. Capped' = 0 /\ Overflow' = 0
    BY <2>1, RuntimeAssumption DEF Capped, Overflow, Cap
  <2>4. Received'
    BY <2>1, <2>3 DEF Received
  <2>5. Transcript'
    BY <1>1, <1>2, <2>1 DEF RuntimeInv, Transcript, OneAnswer
  <2> QED
    BY <2>2, <2>4, <2>5 DEF RuntimeInv
<1>4. CASE ~(attempts < JobAttempts)
  <2>1. UNCHANGED <<phase, message, malformed, receipts, ran, transcript, result>>
    BY <1>4 DEF JobFailed, loop
  <2> QED
    BY <2>1 DEF RuntimeInv, RuntimeShape, Received, Overflow, Capped, Cap, Transcript, OneAnswer
<1> QED
  BY <1>3, <1>4

LEMMA RuntimeSteps == RuntimeInv /\ [RuntimeNext]_runtimeVars => RuntimeInv'
<1> SUFFICES ASSUME RuntimeInv, [RuntimeNext]_runtimeVars PROVE RuntimeInv'
  OBVIOUS
<1>1. CASE UNCHANGED runtimeVars
  <2>1. UNCHANGED <<phase, message, malformed, receipts, ran, transcript, result>>
    BY <1>1 DEF runtimeVars
  <2> QED
    BY <2>1 DEF RuntimeInv, RuntimeShape, Received, Overflow, Capped, Cap, Transcript, OneAnswer
<1> QED
  BY <1>1, AnswersKeeps, CallsToolsKeeps, LostKeeps, CallKeepsRuntime, TurnEndsKeeps,
     AroundKeeps, JobFailedKeeps DEF RuntimeNext, Run

\* What the model is told covers its whole message: every piece has one receipt when
\* the model is asked again or the job ends (run_tool_loop, app/tools/loop.py), and no
\* more calls than the cap are run, for all messages and any pauses between calls.
THEOREM EveryCallAnswered == RuntimeSpec => []ReceiptPerCall
<1>1. RuntimeInv => ReceiptPerCall
  <2>1. RuntimeInv /\ phase \in {"execute", "tool"} => ReceiptPerCall
    BY DEF ReceiptPerCall
  <2> QED
    BY <2>1, ReceivedGives DEF RuntimeInv
<1> QED
  BY <1>1, RuntimeStart, RuntimeSteps, PTL DEF RuntimeSpec

\* The transcript of a job has one answer at most, at its end and only if the job
\* succeeded (AgentRuntime.run), over all attempts of the pool.
THEOREM AnsweredOnce == RuntimeSpec => []OneAnswer
<1>1. RuntimeInv => OneAnswer
  BY DEF RuntimeInv, Transcript
<1> QED
  BY <1>1, RuntimeStart, RuntimeSteps, PTL DEF RuntimeSpec

\* A job that raised has started no tool: what comes before the loop may raise, and
\* what comes after the loop's first request is caught (AgentRuntime.run).
Unstarted ==
  /\ phase \in {"skill", "user", "context"} => ran = <<>>
  /\ phase # "done" => result = "none"
  /\ result = "raised" => ran = <<>>
  /\ job = "dead" => result = "raised"
  /\ job = "dead" => phase = "done"

LEMMA UnstartedStart == RuntimeInit => Unstarted
BY DEF RuntimeInit, Unstarted

LEMMA UnstartedStep == Unstarted /\ [RuntimeNext]_runtimeVars => Unstarted'
<1> SUFFICES ASSUME Unstarted, [RuntimeNext]_runtimeVars PROVE Unstarted'
  OBVIOUS
<1>1. CASE UNCHANGED runtimeVars
  BY <1>1 DEF runtimeVars, Unstarted
<1>2. CASE CheckSkillTrigger \/ PersistUserMessage \/ BuildInitialContext
  BY <1>2 DEF CheckSkillTrigger, PersistUserMessage, BuildInitialContext, Return, loop, tools, pool,
              Unstarted
<1>3. CASE ModelAnswers \/ ModelCallsTools
  BY <1>3 DEF ModelAnswers, ModelCallsTools, tools, pool, Unstarted
<1>4. CASE ModelUnreachable \/ ModelFails
  BY <1>4 DEF ModelUnreachable, ModelFails, Return, LoopErrors, tools, pool, Unstarted
<1>5. CASE Deny \/ ExecuteSingle \/ ToolEnds
  BY <1>5 DEF Deny, ExecuteSingle, ToolEnds, tools, pool, Unstarted
<1>6. CASE TurnEnds \/ PersistAssistantMessage
  BY <1>6 DEF TurnEnds, PersistAssistantMessage, Return, loop, tools, pool, Unstarted
<1>7. CASE PauseTools \/ JobCompleted \/ JobFailed
  BY <1>7 DEF PauseTools, JobCompleted, JobFailed, loop, tools, pool, Unstarted
<1> QED
  BY <1>1, <1>2, <1>3, <1>4, <1>5, <1>6, <1>7 DEF RuntimeNext, Run

\* What tools did is not done again: a job whose tools were started is neither
\* repeated by the pool (_process_job, workers.py) nor kept to be replayed.
THEOREM NoToolRepeated == RuntimeSpec => NothingRepeated
<1>1. Unstarted /\ [RuntimeNext]_runtimeVars
        => [(attempts' # attempts \/ job' = "dead") => ran = <<>>]_runtimeVars
  <2> SUFFICES ASSUME Unstarted, RuntimeNext, attempts' # attempts \/ job' = "dead"
               PROVE  ran = <<>>
    OBVIOUS
  <2>1. CASE JobFailed
    BY <2>1 DEF JobFailed, Unstarted
  <2>2. CASE ~JobFailed
    <3>1. attempts' = attempts /\ (job' = job \/ job' = "completed")
      BY <2>2 DEF RuntimeNext, Run, CheckSkillTrigger, PersistUserMessage, BuildInitialContext,
                  ModelAnswers, ModelCallsTools, ModelUnreachable, ModelFails, Deny, ExecuteSingle,
                  ToolEnds, TurnEnds, PersistAssistantMessage, JobCompleted, PauseTools, pool
    <3> QED
      BY <3>1 DEF Unstarted
  <2> QED
    BY <2>1, <2>2
<1> QED
  BY <1>1, UnstartedStart, UnstartedStep, PTL DEF RuntimeSpec, NothingRepeated

-----------------------------------------------------------------------------
(* The work of an attempt: turns, requests and retries.                    *)

\* The requests of t turns that each use up their retries.
Requests(t) == t * MaxRetries

LEMMA RequestsGrow ==
  ASSUME NEW t \in Nat, NEW u \in Nat
  PROVE  /\ Requests(t) \in Nat /\ Requests(t + 1) = Requests(t) + MaxRetries
         /\ t <= u => Requests(t) <= Requests(u)
<1>1. MaxRetries \in Nat
  BY RuntimeAssumption
<1> QED
  BY <1>1 DEF Requests

\* Before the loop nothing was asked; a turn asks once and once more for each retry;
\* only while the model is asked the turn has retries left.
Spent ==
  /\ turn \in 1 .. LoopTurns /\ retry \in 0 .. MaxRetries - 1 /\ requests \in Nat
  /\ phase \in {"skill", "user", "context"} => turn = 1 /\ retry = 0 /\ requests = 0
  /\ phase \in {"execute", "tool"} => retry = 0
  /\ phase = "model" => requests <= Requests(turn - 1) + retry
  /\ requests <= Requests(turn)

Bounded ==
  /\ Len(message) <= MaxMessage /\ malformed \in 0 .. MaxMessage
  /\ paused \in BOOLEAN /\ pauses \in 0 .. MaxPauses
  /\ result \in Results /\ attempts \in 1 .. JobAttempts
  /\ job \in {"running", "completed", "dead"}

LEMMA TurnsArePositive == LoopTurns \in Nat \ {0}
BY RuntimeAssumption DEF LoopTurns

LEMMA SpentStart ==
  ASSUME RuntimeInit PROVE Spent /\ Bounded
<1>1. 0 <= Requests(1)
  BY RequestsGrow
<1> QED
  BY <1>1, TurnsArePositive, RuntimeAssumption DEF RuntimeInit, Spent, Bounded, Results

\* The model is asked: once more than before, and within the retries of the turn.
LEMMA AskSpends ==
  ASSUME Spent, phase = "model", requests' = requests + 1, UNCHANGED turn,
         phase' # "model" \/ retry' = retry + 1,
         retry' \in 0 .. MaxRetries - 1,
         phase' \in {"model", "execute", "answer", "done"},
         phase' = "execute" => retry' = 0
  PROVE  Spent'
<1>1. turn - 1 \in Nat /\ turn \in Nat /\ retry \in Nat /\ MaxRetries \in Nat /\ retry <= MaxRetries - 1
  BY TurnsArePositive, RuntimeAssumption DEF Spent
<1>2. Requests(turn) = Requests(turn - 1) + MaxRetries /\ Requests(turn - 1) \in Nat
  <2>1. \A t \in Nat : Requests(t + 1) = Requests(t) + MaxRetries /\ Requests(t) \in Nat
    BY RequestsGrow
  <2>2. turn - 1 + 1 = turn
    BY <1>1
  <2> QED
    BY <1>1, <2>1, <2>2
<1>3. requests <= Requests(turn - 1) + retry /\ requests \in Nat
  BY DEF Spent
<1>4. requests' <= Requests(turn - 1) + retry + 1 /\ requests' <= Requests(turn)
  BY <1>1, <1>2, <1>3
<1>5. Requests(turn)' = Requests(turn) /\ Requests(turn - 1)' = Requests(turn - 1) /\ LoopTurns' = LoopTurns
  BY DEF Requests, LoopTurns
<1>6. phase' = "model" => requests' <= Requests(turn - 1) + retry'
  BY <1>1, <1>2, <1>4
<1> HIDE DEF Requests
<1> QED
  BY <1>3, <1>4, <1>5, <1>6 DEF Spent

LEMMA WorkSteps ==
  ASSUME Spent, Bounded, RuntimeShape, [RuntimeNext]_runtimeVars
  PROVE  Spent' /\ Bounded'
<1> USE DEF Return, loop, tools, pool
<1>1. Requests(turn)' = turn' * MaxRetries /\ Requests(turn - 1)' = (turn' - 1) * MaxRetries /\ LoopTurns' = LoopTurns
  BY DEF Requests, LoopTurns
<1>2. 0 \in 0 .. MaxRetries - 1 /\ {"OK", "skill_error", "raised", "none", "TRANSPORT_ERROR", "MAX_TURNS_EXCEEDED"} \subseteq Results
  BY RuntimeAssumption DEF Results, LoopErrors
<1>3. CASE ModelAnswers
  <2>1. PICK reply \in Replies : malformed' = reply.failures
    BY <1>3 DEF ModelAnswers
  <2>2. malformed' \in 0 .. MaxMessage /\ message' = <<>>
    BY <1>3, <2>1 DEF ModelAnswers, Replies, Reply
  <2>3. Spent'
    BY <1>2, <1>3, AskSpends DEF ModelAnswers
  <2> QED
    BY <1>3, <2>2, <2>3, RuntimeAssumption DEF ModelAnswers, Bounded
<1>4. CASE ModelCallsTools
  <2>1. PICK reply \in Replies : malformed' = reply.failures /\ message' = reply.calls
    BY <1>4 DEF ModelCallsTools
  <2>2. malformed' \in 0 .. MaxMessage /\ message' \in BoundedSeq(ToolCall, MaxMessage)
    BY <2>1 DEF Replies, Reply
  <2>3. Len(message') <= MaxMessage
    BY <2>2, RuntimeAssumption DEF BoundedSeq, SeqOf
  <2>4. Spent'
    BY <1>2, <1>4, AskSpends DEF ModelCallsTools
  <2> QED
    BY <1>4, <2>2, <2>3, <2>4 DEF ModelCallsTools, Bounded
<1>5. CASE ModelUnreachable
  <2>1. /\ retry' \in 0 .. MaxRetries - 1 /\ result' \in Results
        /\ \/ phase' = "model" /\ retry' = retry + 1
           \/ phase' = "done" /\ retry' = retry
    <3>1. retry \in 0 .. MaxRetries - 1 /\ result \in Results /\ MaxRetries \in Nat
      BY RuntimeAssumption DEF Spent, Bounded
    <3>2. CASE retry < MaxRetries - 1
      BY <1>5, <3>1, <3>2 DEF ModelUnreachable
    <3>3. CASE ~(retry < MaxRetries - 1)
      BY <1>2, <1>5, <3>1, <3>3 DEF ModelUnreachable
    <3> QED
      BY <3>2, <3>3
  <2>2. /\ phase = "model" /\ requests' = requests + 1 /\ turn' = turn
        /\ UNCHANGED <<message, malformed, paused, pauses, attempts, job>>
    BY <1>5 DEF ModelUnreachable
  <2>3. Spent'
    BY <1>2, <2>1, <2>2, AskSpends
  <2> QED
    BY <2>1, <2>2, <2>3 DEF Bounded
<1>6. CASE ModelFails
  <2>1. retry' = retry /\ phase' = "done" /\ retry' \in 0 .. MaxRetries - 1 /\ result' \in Results
    BY <1>6 DEF ModelFails, Spent, Results
  <2>2. Spent'
    BY <1>6, <2>1, AskSpends DEF ModelFails
  <2> QED
    BY <1>6, <2>1, <2>2 DEF ModelFails, Bounded
<1>7. CASE TurnEnds
  <2>1. phase = "execute" /\ retry' = 0 /\ retry = 0 /\ UNCHANGED requests
    BY <1>7 DEF TurnEnds, Spent
  <2>2. result' \in Results /\ Bounded'
    BY <1>2, <1>7 DEF TurnEnds, Bounded
  <2>3. CASE turn < LoopTurns
    <3>1. turn' = turn + 1 /\ phase' = "model"
      BY <1>7, <2>3 DEF TurnEnds
    <3>2. turn \in Nat /\ turn' \in 1 .. LoopTurns /\ turn' - 1 = turn
      BY <2>3, <3>1, TurnsArePositive DEF Spent
    <3>3. Requests(turn + 1) = Requests(turn) + MaxRetries /\ Requests(turn) \in Nat /\ MaxRetries \in Nat
      BY <3>2, RequestsGrow, RuntimeAssumption
    <3>4. Requests(turn)' = Requests(turn + 1) /\ Requests(turn - 1)' = Requests(turn)
      BY <3>1, <3>2 DEF Requests
    <3>5. requests \in Nat /\ requests <= Requests(turn)
      BY DEF Spent
    <3>6. requests' <= Requests(turn - 1)' + retry' /\ requests' <= Requests(turn)'
      BY <2>1, <3>3, <3>4, <3>5
    <3>7. Spent'
      BY <1>1, <1>2, <2>1, <3>1, <3>2, <3>5, <3>6 DEF Spent
    <3> QED
      BY <2>2, <3>7
  <2>4. CASE ~(turn < LoopTurns)
    <3>1. turn' = turn /\ phase' \in {"answer", "done"}
      BY <1>7, <2>4 DEF TurnEnds
    <3>2. Requests(turn)' = Requests(turn)
      BY <3>1 DEF Requests
    <3>3. Spent'
      BY <1>1, <1>2, <2>1, <3>1, <3>2 DEF Spent
    <3> QED
      BY <2>2, <3>3
  <2> QED
    BY <2>3, <2>4
<1>8. CASE JobFailed
  <2>1. CASE attempts < JobAttempts
    <3>1. /\ turn' = 1 /\ retry' = 0 /\ requests' = 0 /\ phase' = "skill" /\ message' = <<>> /\ malformed' = 0
          /\ result' = "none" /\ attempts' = attempts + 1 /\ UNCHANGED <<paused, pauses, job>>
      BY <1>8, <2>1 DEF JobFailed
    <3>2. 0 <= Requests(1) /\ Requests(turn)' = Requests(1)
      BY <3>1, RequestsGrow DEF Requests
    <3>3. Spent'
      BY <1>1, <1>2, <3>1, <3>2, TurnsArePositive DEF Spent
    <3>4. Bounded'
      BY <1>2, <2>1, <3>1, RuntimeAssumption DEF Bounded
    <3> QED
      BY <3>3, <3>4
  <2>2. CASE ~(attempts < JobAttempts)
    <3>1. /\ UNCHANGED <<turn, retry, requests, phase, message, malformed, result, attempts, paused, pauses>>
          /\ job' = "dead"
      BY <1>8, <2>2 DEF JobFailed
    <3> QED
      BY <3>1, <1>1 DEF Spent, Bounded, Requests
  <2> QED
    BY <2>1, <2>2
\* The other steps leave the counts alone and do not go back to the model.
<1>9. ASSUME UNCHANGED <<turn, retry, requests>>,
             \/ phase' = phase
             \/ phase \in {"skill", "user", "context"} /\ phase' \in {"user", "context", "model", "done"}
             \/ phase \in {"execute", "tool"} /\ phase' \in {"execute", "tool"}
             \/ phase' = "done"
      PROVE  Spent'
  <2>1. Requests(turn)' = Requests(turn) /\ Requests(turn - 1)' = Requests(turn - 1)
    BY <1>9 DEF Requests
  <2>2. phase \in {"skill", "user", "context"} => requests <= Requests(turn - 1) + retry
    <3>1. Requests(0) \in Nat
      BY RequestsGrow
    <3>2. phase \in {"skill", "user", "context"} => turn - 1 = 0 /\ requests = 0 /\ retry = 0
      BY DEF Spent
    <3> QED
      BY <3>1, <3>2
  <2> QED
    BY <1>1, <1>9, <2>1, <2>2 DEF Spent
<1>10. CASE UNCHANGED runtimeVars
  BY <1>9, <1>10 DEF runtimeVars, Bounded
<1>11. CASE CheckSkillTrigger \/ PersistUserMessage \/ BuildInitialContext \/ PersistAssistantMessage
  BY <1>2, <1>9, <1>11 DEF CheckSkillTrigger, PersistUserMessage, BuildInitialContext,
     PersistAssistantMessage, Bounded
<1>12. CASE Deny \/ ExecuteSingle \/ ToolEnds
  BY <1>9, <1>12 DEF Deny, ExecuteSingle, ToolEnds, Bounded
<1>13. CASE PauseTools \/ JobCompleted
  <2>1. Spent'
    BY <1>9, <1>13 DEF PauseTools, JobCompleted
  <2>2. CASE PauseTools
    <3>1. /\ UNCHANGED <<message, malformed, result, attempts, job>>
          /\ pauses < MaxPauses /\ pauses' = pauses + 1
      BY <2>2 DEF PauseTools
    <3>2. paused' \in BOOLEAN
      BY <2>2, Zenon DEF PauseTools, Bounded
    <3>3. pauses' \in 0 .. MaxPauses
      BY <3>1, RuntimeAssumption DEF Bounded
    <3> QED
      BY <2>1, <3>1, <3>2, <3>3 DEF Bounded
  <2>3. CASE JobCompleted
    <3>1. UNCHANGED <<message, malformed, paused, pauses, result, attempts>> /\ job' = "completed"
      BY <2>3 DEF JobCompleted
    <3> QED
      BY <2>1, <3>1 DEF Bounded
  <2> QED
    BY <1>13, <2>1, <2>2, <2>3
<1> QED
  BY <1>3, <1>4, <1>5, <1>6, <1>7, <1>8, <1>10, <1>11, <1>12, <1>13 DEF RuntimeNext, Run

\* Who is named in a receipt.
LEMMA ReceiptsNamed ==
  ASSUME RuntimeShape, Received, Bounded
  PROVE  receipts \in Seq([call : 0 .. MaxMessage, verdict : Verdicts])
<1>1. /\ Len(message) \in Nat /\ Len(receipts) \in Nat /\ malformed \in Nat /\ MaxMessage \in Nat
      /\ Capped \in 0 .. Len(message) /\ Overflow = Len(message) - Capped /\ Overflow \in Nat
  BY MessageDivides, RuntimeAssumption DEF RuntimeShape
<1>2. Len(message) <= MaxMessage
  BY DEF Bounded
<1>3. ASSUME NEW i \in 1 .. Len(receipts) PROVE receipts[i].call \in 0 .. MaxMessage
  <2>1. CASE i \in 1 .. malformed
    BY <1>1, <2>1 DEF Received
  <2>2. CASE i \in malformed + 1 .. malformed + Overflow
    <3>1. i - malformed \in 1 .. Overflow /\ malformed + (i - malformed) = i
      BY <1>1, <2>2
    <3>2. receipts[i].call = Capped + (i - malformed)
      BY <3>1 DEF Received
    <3>3. PICK k \in 1 .. Overflow : k = i - malformed
      BY <3>1
    <3>4. receipts[i].call = Capped + k
      BY <3>2, <3>3
    <3>5. Capped + k \in 0 .. MaxMessage
      <4> HIDE DEF Capped, Overflow
      <4> QED
        BY <1>1, <1>2, <3>3
    <3> QED
      BY <3>4, <3>5
  <2>3. CASE i \in malformed + Overflow + 1 .. Len(receipts)
    <3>1. receipts[i].call = i - malformed - Overflow /\ Len(receipts) <= malformed + Len(message)
      BY <2>3 DEF Received
    <3> QED
      BY <1>1, <1>2, <2>3, <3>1
  <2> QED
    BY <1>1, <2>1, <2>2, <2>3
<1> DEFINE T == [call : Nat, verdict : Verdicts]
           U == [call : 0 .. MaxMessage, verdict : Verdicts]
<1>4. receipts \in Seq(T)
  BY DEF RuntimeShape
<1>5. \A e \in T : e.call \in 0 .. MaxMessage => e \in U
  OBVIOUS
<1> HIDE DEF T, U
<1>6. \A i \in 1 .. Len(receipts) : receipts[i] \in T
  BY <1>4
<1>7. \A i \in 1 .. Len(receipts) : receipts[i] \in U
  BY <1>3, <1>5, <1>6
<1>8. receipts \in Seq(U)
  BY <1>4, <1>7
<1> QED
  BY <1>8 DEF U

\* The work of a job is bounded, whatever the model answers: an attempt asks it at most
\* MAX_RETRIES times in each turn and ends after the turns of its persona or of the
\* runtime (run_tool_loop, _call_ollama_with_retry), and there are at most max_attempts.
THEOREM RuntimeTyped == RuntimeSpec => []RuntimeTypeOK
<1> DEFINE I == RuntimeInv /\ Spent /\ Bounded
<1>1. RuntimeInit => I
  BY RuntimeStart, SpentStart
<1>2. I /\ [RuntimeNext]_runtimeVars => I'
  BY RuntimeSteps, WorkSteps DEF RuntimeInv
<1>3. I => RuntimeTypeOK
  <2> SUFFICES ASSUME I PROVE RuntimeTypeOK
    OBVIOUS
  <2>1. requests \in 0 .. LoopTurns * MaxRetries
    <3>1. turn \in Nat /\ LoopTurns \in Nat /\ turn <= LoopTurns /\ requests \in Nat /\ requests <= Requests(turn)
      BY TurnsArePositive DEF Spent
    <3>2. Requests(turn) <= Requests(LoopTurns) /\ Requests(turn) \in Nat /\ Requests(LoopTurns) \in Nat
      BY <3>1, RequestsGrow
    <3>3. requests <= Requests(LoopTurns)
      BY <3>1, <3>2
    <3>4. requests \in 0 .. Requests(LoopTurns)
      BY <3>1, <3>2, <3>3
    <3> QED
      BY <3>4 DEF Requests
  <2>2. message \in BoundedSeq(ToolCall, MaxMessage)
    <3>1. message \in [1 .. Len(message) -> ToolCall] /\ Len(message) \in 0 .. MaxMessage
      BY RuntimeAssumption DEF RuntimeInv, RuntimeShape, Bounded
    <3> QED
      BY <3>1 DEF BoundedSeq, SeqOf
  <2>3. receipts \in Seq([call : 0 .. MaxMessage, verdict : Verdicts])
    BY ReceiptsNamed DEF RuntimeInv
  <2> QED
    BY <2>1, <2>2, <2>3 DEF RuntimeTypeOK, RuntimeInv, RuntimeShape, Transcript, Spent, Bounded
<1> QED
  BY <1>1, <1>2, <1>3, PTL DEF RuntimeSpec

-----------------------------------------------------------------------------
(* Threads.                                                                *)

Thread == [chat : Chats, active : BOOLEAN, memory : BOOLEAN, persona : Persona]

\* No two active threads of one chat.
OneActive ==
  \A t, u \in DOMAIN threads :
    threads[t].active = TRUE /\ threads[u].active = TRUE /\ threads[t].chat = threads[u].chat
      => t = u

\* What holds of the table of threads, and what a step may make of it: threads are
\* added and never change their chat.
TableShape == threads \in Seq(Thread) /\ Len(threads) <= MaxThreads
TableGrows ==
  /\ TableShape' /\ OneActive'
  /\ Len(threads) <= Len(threads')
  /\ \A t \in DOMAIN threads : threads'[t].chat = threads[t].chat

FirstPersona == [mode |-> DefaultMode, locked |-> FALSE, soul |-> FALSE]

LEMMA PersonaTyped == FirstPersona \in Persona
BY ThreadsAssumption DEF FirstPersona, Persona

LEMMA ThreadWith ==
  ASSUME NEW th \in Thread, NEW b \in BOOLEAN, NEW p \in Persona
  PROVE  /\ [th EXCEPT !.active = b] \in Thread
         /\ [th EXCEPT !.active = b].chat = th.chat /\ [th EXCEPT !.active = b].active = b
         /\ [th EXCEPT !.memory = b] \in Thread
         /\ [th EXCEPT !.memory = b].chat = th.chat /\ [th EXCEPT !.memory = b].active = th.active
         /\ [th EXCEPT !.persona = p] \in Thread
         /\ [th EXCEPT !.persona = p].chat = th.chat /\ [th EXCEPT !.persona = p].active = th.active
BY DEF Thread

LEMMA Deactivated ==
  ASSUME TableShape, NEW c \in Chats
  PROVE  /\ Deactivate(c) \in Seq(Thread) /\ Len(Deactivate(c)) = Len(threads)
         /\ \A t \in DOMAIN threads :
              /\ Deactivate(c)[t].chat = threads[t].chat
              /\ Deactivate(c)[t].active = TRUE => threads[t].active = TRUE /\ threads[t].chat # c
<1>1. Len(threads) \in Nat /\ DOMAIN threads = 1 .. Len(threads)
  BY DEF TableShape
<1>2. \A t \in DOMAIN threads : threads[t] \in Thread
  BY DEF TableShape
<1>3. \A t \in DOMAIN threads : (threads[t].active /\ threads[t].chat # c) \in BOOLEAN
  OBVIOUS
<1>4. \A t \in DOMAIN threads : Deactivate(c)[t] = [threads[t] EXCEPT !.active = threads[t].active /\ threads[t].chat # c]
  BY DEF Deactivate
<1>5. FirstPersona \in Persona
  BY PersonaTyped
<1>6. ASSUME NEW t \in DOMAIN threads
      PROVE  /\ Deactivate(c)[t] \in Thread /\ Deactivate(c)[t].chat = threads[t].chat
             /\ Deactivate(c)[t].active = (threads[t].active /\ threads[t].chat # c)
  <2> DEFINE b == threads[t].active /\ threads[t].chat # c
  <2>1. b \in BOOLEAN /\ threads[t] \in Thread /\ Deactivate(c)[t] = [threads[t] EXCEPT !.active = b]
    BY <1>2, <1>4
  <2> HIDE DEF b
  <2>2. PICK th \in Thread : th = threads[t]
    BY <2>1
  <2>3. /\ [th EXCEPT !.active = b] \in Thread
        /\ [th EXCEPT !.active = b].chat = th.chat
        /\ [th EXCEPT !.active = b].active = b
    <3>1. b \in BOOLEAN
      BY <2>1
    <3>2. PICK p \in Persona : p = FirstPersona
      BY <1>5
    <3> QED
      BY ONLY th \in Thread, p \in Persona, <3>1, ThreadWith, ZenonT(30)
  <2>4. /\ [threads[t] EXCEPT !.active = b] \in Thread
        /\ [threads[t] EXCEPT !.active = b].chat = threads[t].chat
        /\ [threads[t] EXCEPT !.active = b].active = b
    BY <2>2, <2>3
  <2> QED
    BY <2>1, <2>4 DEF b
<1>7. Deactivate(c) = [t \in 1 .. Len(threads) |-> Deactivate(c)[t]]
  BY <1>1 DEF Deactivate
<1>8. Deactivate(c) \in [1 .. Len(threads) -> Thread]
  BY <1>1, <1>6, <1>7
<1>9. Deactivate(c) \in Seq(Thread) /\ Len(Deactivate(c)) = Len(threads)
  BY <1>1, <1>8
<1>10. ASSUME NEW t \in DOMAIN threads, Deactivate(c)[t].active = TRUE
      PROVE  threads[t].active = TRUE /\ threads[t].chat # c
  <2>1. (threads[t].active /\ threads[t].chat # c) = TRUE /\ threads[t].active \in BOOLEAN
    BY <1>2, <1>6, <1>10 DEF Thread
  <2> QED
    BY <2>1
<1> QED
  BY <1>6, <1>9, <1>10

\* A thread becomes the active one of its chat: no other of the chat is.
LEMMA SetActiveGrows ==
  ASSUME TableShape, OneActive, NEW c \in Chats, NEW u \in DOMAIN threads,
         threads' = SetActiveThread(c, u)
  PROVE  threads[u].chat = c => TableGrows
<1> SUFFICES ASSUME threads[u].chat = c PROVE TableGrows
  OBVIOUS
<1> DEFINE d == Deactivate(c)
<1>1. Len(threads) \in Nat /\ DOMAIN threads = 1 .. Len(threads)
  BY DEF TableShape
<1>2. d \in Seq(Thread) /\ Len(d) = Len(threads)
  BY Deactivated
<1>3. \A t \in DOMAIN threads :
         /\ d[t].chat = threads[t].chat
         /\ d[t].active = TRUE => threads[t].active = TRUE /\ threads[t].chat # c
  BY Deactivated
<1>4. DOMAIN d = DOMAIN threads
  BY ONLY <1>1, <1>2
<1>5. /\ d \in Seq(Thread) /\ Len(d) = Len(threads) /\ Len(threads) \in Nat
      /\ DOMAIN d = DOMAIN threads /\ DOMAIN threads = 1 .. Len(threads)
      /\ \A t \in DOMAIN threads :
           /\ d[t].chat = threads[t].chat
           /\ d[t].active = TRUE => threads[t].active = TRUE /\ threads[t].chat # c
  BY <1>1, <1>2, <1>3, <1>4
<1>6. threads' = [d EXCEPT ![u].active = ~threads[u].active]
  BY DEF SetActiveThread
<1> HIDE DEF d
<1>7. FirstPersona \in Persona
  BY PersonaTyped
<1>8. PICK b \in BOOLEAN : b = ~threads[u].active
  OBVIOUS
<1>9. d[u] \in Thread
  BY <1>5
<1>10. /\ [d[u] EXCEPT !.active = b] \in Thread
      /\ [d[u] EXCEPT !.active = b].chat = d[u].chat
  BY <1>7, <1>9, ThreadWith, ZenonT(30)
<1>11. threads' = [d EXCEPT ![u] = [d[u] EXCEPT !.active = b]]
  BY <1>6, <1>8
<1>12. \A t \in DOMAIN threads : t # u => threads'[t] = d[t]
  BY <1>5, <1>11
<1>13. threads'[u] = [d[u] EXCEPT !.active = b]
  BY <1>5, <1>11
<1>14. threads' \in Seq(Thread) /\ Len(threads') = Len(threads)
  BY <1>5, <1>10, <1>11
<1>15. DOMAIN threads' = DOMAIN threads
  BY <1>5, <1>11
<1>16. \A t \in DOMAIN threads : threads'[t].chat = threads[t].chat
  BY <1>5, <1>10, <1>12, <1>13
<1>17. OneActive'
  <2> SUFFICES ASSUME NEW t \in DOMAIN threads', NEW v \in DOMAIN threads',
                      threads'[t].active = TRUE, threads'[v].active = TRUE,
                      threads'[t].chat = threads'[v].chat
               PROVE  t = v
    BY ZenonT(30) DEF OneActive
  <2>1. t \in DOMAIN threads /\ v \in DOMAIN threads /\ threads[t].chat = threads[v].chat
    BY <1>15, <1>16
  <2>2. \A x \in DOMAIN threads : x # u /\ threads'[x].active = TRUE => threads[x].active = TRUE /\ threads[x].chat # c
    BY <1>5, <1>12
  <2>3. CASE t = u \/ v = u
    BY <2>1, <2>2, <2>3
  <2>4. CASE t # u /\ v # u
    BY <2>1, <2>2, <2>4 DEF OneActive
  <2> QED
    BY <2>3, <2>4
<1>18. TableShape'
  BY <1>14 DEF TableShape
<1> QED
  BY <1>5, <1>14, <1>16, <1>17, <1>18 DEF TableGrows

\* The table as create_thread leaves it: one thread more, of the chat.
LEMMA Created ==
  ASSUME TableShape, NEW c \in Chats
  PROVE  /\ CreateThread(c) \in Seq(Thread) /\ Len(CreateThread(c)) = Len(threads) + 1
         /\ \A t \in DOMAIN threads : CreateThread(c)[t] = Deactivate(c)[t]
         /\ CreateThread(c)[Len(threads) + 1].chat = c
<1> DEFINE d == Deactivate(c)
<1> DEFINE first == [chat |-> c, active |-> TRUE, memory |-> TRUE, persona |-> FirstPersona]
<1>1. Len(threads) \in Nat /\ DOMAIN threads = 1 .. Len(threads)
  BY DEF TableShape
<1>2. d \in Seq(Thread) /\ Len(d) = Len(threads)
  BY Deactivated
<1>3. CreateThread(c) = Append(d, first)
  BY DEF CreateThread, FirstPersona
<1>4. first \in Thread /\ first.chat = c
  BY PersonaTyped DEF Thread
<1> HIDE DEF d, first
<1>5. /\ Append(d, first) \in Seq(Thread) /\ Len(Append(d, first)) = Len(threads) + 1
      /\ Append(d, first)[Len(threads) + 1] = first
      /\ \A t \in 1 .. Len(threads) : Append(d, first)[t] = d[t]
  BY ONLY <1>1, <1>2, <1>4
<1> QED
  BY <1>1, <1>3, <1>4, <1>5 DEF d

\* A new thread is the active one of its chat.
LEMMA CreateGrows ==
  ASSUME TableShape, OneActive, NEW c \in Chats, Creates,
         threads' \in Seq(Thread), Len(threads') = Len(threads) + 1,
         \A t \in DOMAIN threads : threads'[t] = Deactivate(c)[t],
         threads'[Len(threads) + 1].chat = c
  PROVE  TableGrows
<1>1. Len(threads) \in Nat /\ DOMAIN threads = 1 .. Len(threads)
  BY DEF TableShape
<1>2. \A t \in DOMAIN threads :
         /\ Deactivate(c)[t].chat = threads[t].chat
         /\ Deactivate(c)[t].active = TRUE => threads[t].active = TRUE /\ threads[t].chat # c
  BY Deactivated
<1>3. \A t \in DOMAIN threads :
        /\ threads'[t].chat = threads[t].chat
        /\ threads'[t].active = TRUE => threads[t].active = TRUE /\ threads[t].chat # c
  BY <1>2
<1>4. DOMAIN threads' = DOMAIN threads \cup {Len(threads) + 1}
  BY <1>1
<1>5. OneActive'
  <2> SUFFICES ASSUME NEW t \in DOMAIN threads', NEW u \in DOMAIN threads',
                      threads'[t].active = TRUE, threads'[u].active = TRUE,
                      threads'[t].chat = threads'[u].chat
               PROVE  t = u
    BY DEF OneActive
  <2>1. CASE t \in DOMAIN threads /\ u \in DOMAIN threads
    BY <1>3, <2>1 DEF OneActive
  <2>2. CASE t = Len(threads) + 1 \/ u = Len(threads) + 1
    BY <1>3, <1>4, <2>2
  <2> QED
    BY <1>4, <2>1, <2>2
<1>6. TableShape'
  <2>1. Len(threads) < MaxThreads /\ MaxThreads \in Nat
    BY ThreadsAssumption DEF Creates
  <2> QED
    BY <1>1, <2>1 DEF TableShape
<1> QED
  BY <1>1, <1>3, <1>5, <1>6 DEF TableGrows

\* A field that is neither the chat nor whether it is active.
LEMMA EditGrows ==
  ASSUME TableShape, OneActive, NEW u \in DOMAIN threads, NEW th \in Thread,
         th.chat = threads[u].chat, th.active = threads[u].active,
         threads' = [threads EXCEPT ![u] = th]
  PROVE  TableGrows
<1>1. Len(threads) \in Nat /\ DOMAIN threads = 1 .. Len(threads) /\ threads \in Seq(Thread)
  BY DEF TableShape
<1>2. threads' \in Seq(Thread) /\ Len(threads') = Len(threads) /\ DOMAIN threads' = DOMAIN threads
  BY <1>1
<1>3. \A t \in DOMAIN threads : threads'[t].chat = threads[t].chat /\ threads'[t].active = threads[t].active
  BY <1>1
<1>4. OneActive'
  BY <1>2, <1>3 DEF OneActive
<1>5. TableShape'
  BY <1>2 DEF TableShape
<1> QED
  BY <1>1, <1>2, <1>3, <1>4, <1>5 DEF TableGrows

LEMMA TableStays ==
  ASSUME TableShape, OneActive, UNCHANGED threads
  PROVE  TableGrows
<1>1. Len(threads) \in Nat
  BY DEF TableShape
<1> QED
  BY <1>1 DEF TableGrows, TableShape, OneActive

\* A reference resolves to a thread of the chat.
LEMMA Resolved ==
  ASSUME TableShape, OneActive, NEW c \in Chats, NEW ref \in 0 .. MaxThreads,
         ref # 0 => ref \in DOMAIN threads, NEW t, Resolve(c, ref, t)
  PROVE  /\ TableGrows
         /\ t \in DOMAIN threads' /\ threads'[t].chat = c /\ (ref # 0 => t = ref)
<1>1. Len(threads) \in Nat /\ DOMAIN threads = 1 .. Len(threads)
  BY DEF TableShape
<1>2. CASE ref # 0
  <2>1. threads[ref].chat = c /\ t = ref /\ threads' = SetActiveThread(c, ref)
    BY <1>2 DEF Resolve
  <2>2. TableGrows
    BY <1>2, <2>1, SetActiveGrows
  <2> QED
    BY <1>1, <1>2, <2>1, <2>2 DEF TableGrows, TableShape
<1>3. CASE ref = 0 /\ HasCurrent(c) /\ t = Current(c) /\ UNCHANGED threads
  <2>1. Current(c) \in ActiveOf(c)
    BY <1>3 DEF HasCurrent, Current
  <2>2. t \in DOMAIN threads /\ threads[t].chat = c
    BY <1>3, <2>1 DEF ActiveOf
  <2> QED
    BY <1>3, <2>2, TableStays
<1>4. CASE ref = 0 /\ ~HasCurrent(c) /\ Creates /\ t = Len(threads) + 1 /\ threads' = CreateThread(c)
  <2>1. TableGrows
    BY <1>4, Created, CreateGrows
  <2>2. Len(threads') = Len(threads) + 1 /\ threads'[Len(threads) + 1].chat = c
    BY <1>4, Created
  <2>3. t \in DOMAIN threads'
    BY <1>1, <1>4, <2>1, <2>2 DEF TableGrows, TableShape
  <2> QED
    BY <1>4, <2>1, <2>2, <2>3
<1> QED
  BY <1>2, <1>3, <1>4 DEF Resolve

JobRecord == [at : {"queued", "model", "done", "dead"},
              thread : 0 .. MaxThreads, attempts : 1 .. ThreadAttempts]
Entry == [thread : Ids, role : {"user", "assistant"}]
Card == [thread : Ids, key : Keys, value : Jobs, deleted : BOOLEAN]

JobsShape == jobs \in [Jobs -> JobRecord] /\ said \in [Jobs -> Seq(Entry)]

\* The thread of a job is one of its chat.
JobsPlaced ==
  \A j \in Jobs :
    jobs[j].thread # 0 =>
      jobs[j].thread \in DOMAIN threads /\ threads[jobs[j].thread].chat = ChatOf[j]

\* What a job put into transcripts is in one thread of its chat: the job's own, until
\* the answer of a job without a thread.
SaidPlaced ==
  \A j \in Jobs : \A i \in DOMAIN said[j] :
    /\ said[j][i].thread \in DOMAIN threads
    /\ threads[said[j][i].thread].chat = ChatOf[j]
    /\ said[j][i].thread = said[j][1].thread
    /\ jobs[j].at # "done" => said[j][i].thread = jobs[j].thread

CardsShape == cards \subseteq Card /\ told \in [Ids \X Keys -> SUBSET Jobs]

\* A key has one live card in a thread.
Live(t, k) == {d \in cards : d.thread = t /\ d.key = k /\ ~d.deleted}
OneLive == \A t \in Ids, k \in Keys : \A d, e \in Live(t, k) : d = e

TableInv == TableShape /\ OneActive
JobsInv == JobsShape /\ JobsPlaced /\ SaidPlaced
CardsInv == CardsShape /\ OneLive /\ CardsCurrent
ThreadsInv == TableInv /\ JobsInv /\ CardsInv

LEMMA ThreadsStart == ThreadsInit => ThreadsInv
<1> SUFFICES ASSUME ThreadsInit PROVE ThreadsInv
  OBVIOUS
<1>1. TableInv
  BY ThreadsAssumption DEF ThreadsInit, TableInv, TableShape, OneActive
<1>2. JobsShape
  <2>1. [at |-> "queued", thread |-> 0, attempts |-> 1] \in JobRecord
    BY ThreadsAssumption DEF JobRecord
  <2>2. jobs \in [Jobs -> JobRecord]
    BY <2>1 DEF ThreadsInit
  <2>3. said \in [Jobs -> Seq(Entry)]
    BY DEF ThreadsInit
  <2> QED
    BY <2>2, <2>3 DEF JobsShape
<1>3. JobsPlaced /\ SaidPlaced
  BY DEF ThreadsInit, JobsPlaced, SaidPlaced
<1>4. CardsInv
  BY DEF ThreadsInit, CardsInv, CardsShape, OneLive, Live, CardsCurrent
<1> QED
  BY <1>1, <1>2, <1>3, <1>4 DEF ThreadsInv, JobsInv

\* The current thread is a thread of the chat.
LEMMA CurrentGives ==
  ASSUME NEW c, HasCurrent(c)
  PROVE  Current(c) \in DOMAIN threads /\ threads[Current(c)].chat = c
<1>1. Current(c) \in ActiveOf(c)
  BY DEF HasCurrent, Current
<1> QED
  BY <1>1 DEF ActiveOf

\* A table that grows leaves what is placed in it where it is.
LEMMA StaysPlaced ==
  ASSUME TableInv, JobsInv, TableGrows, UNCHANGED <<jobs, said>>
  PROVE  JobsInv'
<1>1. \A t \in DOMAIN threads : t \in DOMAIN threads' /\ threads'[t].chat = threads[t].chat
  BY DEF TableInv, TableShape, TableGrows
<1>2. JobsShape'
  BY DEF JobsInv, JobsShape
<1>3. JobsPlaced'
  BY <1>1 DEF JobsInv, JobsPlaced
<1>4. SaidPlaced'
  BY <1>1 DEF JobsInv, SaidPlaced
<1> QED
  BY <1>2, <1>3, <1>4 DEF JobsInv

LEMMA CardsStay ==
  ASSUME CardsInv, UNCHANGED <<cards, told>>
  PROVE  CardsInv'
BY DEF CardsInv, CardsShape, OneLive, Live, CardsCurrent

\* The commands that change the table leave the jobs, the transcripts and the cards.
LEMMA CommandKeeps ==
  ASSUME ThreadsInv, TableGrows, UNCHANGED onlyThreads
  PROVE  ThreadsInv'
<1>1. UNCHANGED <<jobs, said>> /\ UNCHANGED <<cards, told>>
  BY DEF onlyThreads
<1> QED
  BY <1>1, StaysPlaced, CardsStay DEF ThreadsInv, TableInv, TableGrows

\* However the attempt goes on, the job keeps the thread it was given.
LEMMA ProceedGives ==
  ASSUME JobsShape, NEW j \in Jobs, jobs[j].at = "queued",
         NEW t \in 0 .. MaxThreads, Proceed(j, t)
  PROVE  \E r \in JobRecord :
           r.thread = t /\ r.at # "done" /\ jobs' = [jobs EXCEPT ![j] = r]
<1>1. jobs[j] \in JobRecord /\ jobs \in [Jobs -> JobRecord]
  BY DEF JobsShape
<1>2. ThreadAttempts \in Nat
  BY ThreadsAssumption
<1>3. CASE jobs' = [jobs EXCEPT ![j] = [@ EXCEPT !.at = "model", !.thread = t]]
  <2> DEFINE r == [jobs[j] EXCEPT !.at = "model", !.thread = t]
  <2>1. r \in JobRecord /\ r.thread = t /\ r.at # "done"
    BY <1>1 DEF JobRecord
  <2>2. jobs' = [jobs EXCEPT ![j] = r]
    BY <1>3
  <2> QED
    BY <2>1, <2>2
<1>4. CASE /\ jobs[j].attempts < ThreadAttempts
           /\ jobs' = [jobs EXCEPT ![j] = [@ EXCEPT !.thread = t, !.attempts = jobs[j].attempts + 1]]
  <2> DEFINE r == [jobs[j] EXCEPT !.thread = t, !.attempts = jobs[j].attempts + 1]
  <2>1. jobs[j].attempts + 1 \in 1 .. ThreadAttempts
    BY <1>1, <1>2, <1>4 DEF JobRecord
  <2>2. r \in JobRecord /\ r.thread = t /\ r.at # "done"
    BY <1>1, <2>1 DEF JobRecord
  <2>3. jobs' = [jobs EXCEPT ![j] = r]
    BY <1>4
  <2> QED
    BY <2>2, <2>3
<1>5. CASE jobs' = [jobs EXCEPT ![j] = [@ EXCEPT !.at = "dead", !.thread = t]]
  <2> DEFINE r == [jobs[j] EXCEPT !.at = "dead", !.thread = t]
  <2>1. r \in JobRecord /\ r.thread = t /\ r.at # "done"
    BY <1>1 DEF JobRecord
  <2>2. jobs' = [jobs EXCEPT ![j] = r]
    BY <1>5
  <2> QED
    BY <2>1, <2>2
<1> QED
  BY <1>3, <1>4, <1>5 DEF Proceed

\* A job with a new record and what it has said by then.
LEMMA JobMoves ==
  ASSUME TableInv, JobsInv, TableGrows, NEW j \in Jobs, NEW r \in JobRecord, NEW s \in Seq(Entry),
         jobs' = [jobs EXCEPT ![j] = r], said' = [said EXCEPT ![j] = s],
         r.thread # 0 => r.thread \in DOMAIN threads' /\ threads'[r.thread].chat = ChatOf[j],
         \A i \in DOMAIN s :
           /\ s[i].thread \in DOMAIN threads' /\ threads'[s[i].thread].chat = ChatOf[j]
           /\ s[i].thread = s[1].thread
           /\ r.at # "done" => s[i].thread = r.thread
  PROVE  JobsInv'
<1>1. \A t \in DOMAIN threads : t \in DOMAIN threads' /\ threads'[t].chat = threads[t].chat
  BY DEF TableInv, TableShape, TableGrows
<1>2. jobs \in [Jobs -> JobRecord] /\ said \in [Jobs -> Seq(Entry)]
  BY DEF JobsInv, JobsShape
<1>3. /\ jobs'[j] = r /\ said'[j] = s
      /\ \A x \in Jobs : x # j => jobs'[x] = jobs[x] /\ said'[x] = said[x]
  BY <1>2
<1>4. JobsShape'
  BY <1>2 DEF JobsShape
<1>5. JobsPlaced'
  <2> SUFFICES ASSUME NEW x \in Jobs, jobs'[x].thread # 0
               PROVE  jobs'[x].thread \in DOMAIN threads' /\ threads'[jobs'[x].thread].chat = ChatOf[x]
    BY DEF JobsPlaced
  <2>1. CASE x = j
    BY <1>3, <2>1
  <2>2. CASE x # j
    BY <1>1, <1>3, <2>2 DEF JobsInv, JobsPlaced
  <2> QED
    BY <2>1, <2>2
<1>6. SaidPlaced'
  <2> SUFFICES ASSUME NEW x \in Jobs, NEW i \in DOMAIN said'[x]
               PROVE  /\ said'[x][i].thread \in DOMAIN threads'
                      /\ threads'[said'[x][i].thread].chat = ChatOf[x]
                      /\ said'[x][i].thread = said'[x][1].thread
                      /\ jobs'[x].at # "done" => said'[x][i].thread = jobs'[x].thread
    BY DEF SaidPlaced
  <2>1. CASE x = j
    BY <1>3, <2>1
  <2>2. CASE x # j
    BY <1>1, <1>3, <2>2 DEF JobsInv, SaidPlaced
  <2> QED
    BY <2>1, <2>2
<1> QED
  BY <1>4, <1>5, <1>6 DEF JobsInv

\* One more message of a job, in the thread of those before.
LEMMA SaysMore ==
  ASSUME JobsInv, NEW j \in Jobs, NEW e \in Entry,
         \A i \in DOMAIN said[j] : said[j][i].thread = e.thread
  PROVE  /\ Append(said[j], e) \in Seq(Entry)
         /\ \A i \in DOMAIN Append(said[j], e) : Append(said[j], e)[i].thread = e.thread
<1>1. said[j] \in Seq(Entry)
  BY DEF JobsInv, JobsShape
<1> QED
  BY <1>1

\* The live card of a key gets a value, or a new card does.
LEMMA UpsertKeeps ==
  ASSUME CardsInv, NEW t \in Ids, NEW k \in Keys, NEW v \in Jobs,
         cards' = Upsert(t, k, v), told' = [told EXCEPT ![<<t, k>>] = {v}]
  PROVE  CardsInv'
<1> DEFINE card == [thread |-> t, key |-> k, value |-> v, deleted |-> FALSE]
<1>1. cards' = (cards \ Live(t, k)) \cup {card}
  BY DEF Upsert, Live
<1>2. card \in Card /\ card.thread = t /\ card.key = k /\ card.value = v /\ card.deleted = FALSE
  BY DEF Card
<1> HIDE DEF card
<1>3. told \in [Ids \X Keys -> SUBSET Jobs] /\ cards \subseteq Card
  BY DEF CardsInv, CardsShape
<1>4. CardsShape'
  BY <1>1, <1>2, <1>3 DEF CardsShape
<1>5. Live(t, k)' = {card}
  BY <1>1, <1>2 DEF Live
<1>6. ASSUME NEW u \in Ids, NEW l \in Keys, <<u, l>> # <<t, k>>
      PROVE  Live(u, l)' = Live(u, l) /\ told'[<<u, l>>] = told[<<u, l>>]
  <2>1. u # t \/ l # k
    BY <1>6
  <2>2. Live(u, l)' = Live(u, l)
    BY <1>1, <1>2, <2>1 DEF Live
  <2> QED
    BY <1>3, <1>6, <2>2
<1>7. told'[<<t, k>>] = {v}
  BY <1>3
<1>8. OneLive'
  <2> SUFFICES ASSUME NEW u \in Ids, NEW l \in Keys, NEW d \in Live(u, l)', NEW e \in Live(u, l)'
               PROVE  d = e
    BY DEF OneLive
  <2>1. CASE <<u, l>> = <<t, k>>
    BY <1>5, <2>1
  <2>2. CASE <<u, l>> # <<t, k>>
    <3>1. Live(u, l)' = Live(u, l)
      BY <1>6, <2>2
    <3>2. d \in Live(u, l) /\ e \in Live(u, l)
      BY <3>1
    <3>3. OneLive
      BY DEF CardsInv
    <3> QED
      BY <3>2, <3>3 DEF OneLive
  <2> QED
    BY <2>1, <2>2
<1>9. ASSUME NEW u \in Ids, NEW l \in Keys
      PROVE  {d.value : d \in Live(u, l)'} = told'[<<u, l>>]
  <2>1. CASE <<u, l>> = <<t, k>>
    BY <1>2, <1>5, <1>7, <2>1
  <2>2. CASE <<u, l>> # <<t, k>>
    BY <1>6, <2>2 DEF CardsInv, CardsCurrent, Live
  <2> QED
    BY <2>1, <2>2
<1>10. CardsCurrent'
  BY <1>9 DEF CardsCurrent, Live
<1> QED
  BY <1>4, <1>8, <1>10 DEF CardsInv

\* A card is forgotten, and with it what was last told for its key.
LEMMA ForgetGives ==
  ASSUME CardsInv, NEW card \in cards, ~card.deleted,
         cards' = (cards \ {card}) \cup {[card EXCEPT !.deleted = TRUE]},
         told' = [told EXCEPT ![<<card.thread, card.key>>] = {}]
  PROVE  CardsInv'
<1>1. card \in Card /\ told \in [Ids \X Keys -> SUBSET Jobs] /\ cards \subseteq Card
  BY DEF CardsInv, CardsShape
<1> DEFINE gone == [card EXCEPT !.deleted = TRUE]
<1>2. gone \in Card /\ gone.deleted = TRUE
  BY <1>1 DEF Card
<1> HIDE DEF gone
<1>3. cards' = (cards \ {card}) \cup {gone}
  BY DEF gone
<1> DEFINE t == card.thread
<1> DEFINE k == card.key
<1>4. t \in Ids /\ k \in Keys
  BY <1>1 DEF Card
<1>5. card \in Live(t, k)
  BY DEF Live
<1>6. told' = [told EXCEPT ![<<t, k>>] = {}]
  OBVIOUS
<1>7. \A d \in Live(t, k) : d = card
  BY <1>4, <1>5 DEF CardsInv, OneLive
<1>8. Live(t, k)' = {}
  BY <1>2, <1>3, <1>7 DEF Live
<1>9. ASSUME NEW u \in Ids, NEW l \in Keys, <<u, l>> # <<t, k>>
      PROVE  Live(u, l)' = Live(u, l) /\ told'[<<u, l>>] = told[<<u, l>>]
  <2>1. u # t \/ l # k
    BY <1>9
  <2>2. Live(u, l)' = Live(u, l)
    BY <1>2, <1>3, <2>1 DEF Live
  <2> QED
    BY <1>1, <1>6, <1>9, <2>2
<1> HIDE DEF t, k
<1>10. told'[<<t, k>>] = {}
  BY <1>1, <1>4, <1>6
<1>11. CardsShape'
  BY <1>1, <1>2, <1>3, <1>4, <1>6 DEF CardsShape
<1>12. OneLive'
  <2> SUFFICES ASSUME NEW u \in Ids, NEW l \in Keys, NEW d \in Live(u, l)', NEW e \in Live(u, l)'
               PROVE  d = e
    BY DEF OneLive
  <2>1. CASE <<u, l>> = <<t, k>>
    BY <1>8, <2>1
  <2>2. CASE <<u, l>> # <<t, k>>
    <3>1. Live(u, l)' = Live(u, l)
      BY <1>9, <2>2
    <3>2. d \in Live(u, l) /\ e \in Live(u, l)
      BY <3>1
    <3>3. OneLive
      BY DEF CardsInv
    <3> QED
      BY <3>2, <3>3 DEF OneLive
  <2> QED
    BY <2>1, <2>2
<1>13. ASSUME NEW u \in Ids, NEW l \in Keys
       PROVE  {d.value : d \in Live(u, l)'} = told'[<<u, l>>]
  <2>1. CASE <<u, l>> = <<t, k>>
    BY <1>8, <1>10, <2>1
  <2>2. CASE <<u, l>> # <<t, k>>
    BY <1>9, <2>2 DEF CardsInv, CardsCurrent, Live
  <2> QED
    BY <2>1, <2>2
<1>14. CardsCurrent'
  BY <1>13 DEF CardsCurrent, Live
<1> QED
  BY <1>11, <1>12, <1>14 DEF CardsInv

LEMMA PersistAndExtractKeeps ==
  ASSUME ThreadsInv, NEW j \in Jobs, PersistAndExtract(j)
  PROVE  ThreadsInv'
<1>1. jobs[j] \in JobRecord /\ said[j] \in Seq(Entry) /\ ChatOf[j] \in Chats /\ JobsShape
  BY ThreadsAssumption DEF ThreadsInv, JobsInv, JobsShape
<1>2. PICK t \in Ids :
        /\ Resolve(ChatOf[j], jobs[j].thread, t)
        /\ said' = [said EXCEPT ![j] = Append(said[j], [thread |-> t, role |-> "user"])]
        /\ Extract(j, t)
        /\ Proceed(j, t)
  BY DEF PersistAndExtract
<1>3. jobs[j].thread \in 0 .. MaxThreads
  BY <1>1 DEF JobRecord
<1>4. jobs[j].thread # 0 => jobs[j].thread \in DOMAIN threads
  BY DEF ThreadsInv, JobsInv, JobsPlaced
<1>5. TableShape /\ OneActive
  BY DEF ThreadsInv, TableInv
<1>6. /\ TableGrows /\ t \in DOMAIN threads' /\ threads'[t].chat = ChatOf[j]
      /\ jobs[j].thread # 0 => t = jobs[j].thread
  BY <1>1, <1>2, <1>3, <1>4, <1>5, Resolved
<1>7. t \in 0 .. MaxThreads /\ t # 0
  BY DEF Ids
<1>8. PICK r \in JobRecord : r.thread = t /\ r.at # "done" /\ jobs' = [jobs EXCEPT ![j] = r]
  BY <1>1, <1>2, <1>7, ProceedGives DEF PersistAndExtract
<1> DEFINE e == [thread |-> t, role |-> "user"]
<1>9. e \in Entry /\ e.thread = t
  BY DEF Entry
<1> HIDE DEF e
<1>10. \A i \in DOMAIN said[j] : said[j][i].thread = t
  <2>1. \A i \in DOMAIN said[j] : said[j][i].thread = jobs[j].thread
    BY DEF PersistAndExtract, ThreadsInv, JobsInv, SaidPlaced
  <2>2. \A i \in DOMAIN said[j] : said[j][i].thread # 0
    <3>1. \A i \in DOMAIN said[j] : said[j][i] \in Entry
      BY <1>1
    <3>2. \A entry \in Entry : entry.thread # 0
      BY DEF Entry, Ids
    <3> QED
      BY <3>1, <3>2
  <2> QED
    BY <1>6, <2>1, <2>2
<1> DEFINE s == Append(said[j], e)
<1>11. s \in Seq(Entry) /\ \A i \in DOMAIN s : s[i].thread = t
  BY <1>9, <1>10, SaysMore DEF ThreadsInv
<1>12. said' = [said EXCEPT ![j] = s]
  BY <1>2 DEF e
<1> HIDE DEF s
<1>13. \A i \in DOMAIN s : s[i].thread = s[1].thread
  BY <1>11
<1>14. JobsInv'
  <2>1. \A i \in DOMAIN s :
          /\ s[i].thread \in DOMAIN threads' /\ threads'[s[i].thread].chat = ChatOf[j]
          /\ s[i].thread = s[1].thread
          /\ r.at # "done" => s[i].thread = r.thread
    BY <1>6, <1>8, <1>11, <1>13
  <2>2. r.thread # 0 => r.thread \in DOMAIN threads' /\ threads'[r.thread].chat = ChatOf[j]
    BY <1>6, <1>8
  <2>3. TableInv /\ JobsInv
    BY DEF ThreadsInv
  <2> QED
    BY <1>6, <1>8, <1>11, <1>12, <2>1, <2>2, <2>3, JobMoves
<1>15. CardsInv'
  <2>1. CASE UNCHANGED <<cards, told>>
    BY <2>1, CardsStay DEF ThreadsInv
  <2>2. CASE /\ KeyOf[j] # NoKey
             /\ cards' = Upsert(t, KeyOf[j], j)
             /\ told' = [told EXCEPT ![<<t, KeyOf[j]>>] = {j}]
    <3>1. KeyOf[j] \in Keys
      BY <2>2, ThreadsAssumption
    <3> QED
      BY <2>2, <3>1, UpsertKeeps DEF ThreadsInv
  <2> QED
    BY <1>2, <2>1, <2>2 DEF Extract, Remembers
<1> QED
  BY <1>6, <1>14, <1>15 DEF ThreadsInv, TableInv, TableGrows

LEMMA PersistUserFailsKeeps ==
  ASSUME ThreadsInv, NEW j \in Jobs, PersistUserFails(j)
  PROVE  ThreadsInv'
<1>1. jobs[j] \in JobRecord /\ said[j] \in Seq(Entry) /\ ChatOf[j] \in Chats /\ JobsShape
  BY ThreadsAssumption DEF ThreadsInv, JobsInv, JobsShape
<1>2. jobs[j].thread \in 0 .. MaxThreads
  BY <1>1 DEF JobRecord
<1>3. jobs[j].thread # 0 => jobs[j].thread \in DOMAIN threads
  BY DEF ThreadsInv, JobsInv, JobsPlaced
<1>4. TableShape /\ OneActive
  BY DEF ThreadsInv, TableInv
<1>5. TableGrows
  <2>1. CASE UNCHANGED threads
    BY <1>4, <2>1, TableStays
  <2>2. ASSUME NEW t \in Ids, Resolve(ChatOf[j], jobs[j].thread, t) PROVE TableGrows
    BY <1>1, <1>2, <1>3, <1>4, <2>2, Resolved
  <2> QED
    BY <2>1, <2>2 DEF PersistUserFails
<1>6. PICK r \in JobRecord :
        r.thread = jobs[j].thread /\ r.at # "done" /\ jobs' = [jobs EXCEPT ![j] = r]
  BY <1>1, <1>2, ProceedGives DEF PersistUserFails
<1>7. said' = [said EXCEPT ![j] = said[j]] /\ UNCHANGED <<cards, told>>
  BY DEF PersistUserFails, ThreadsInv, JobsInv, JobsShape
<1>8. \A t \in DOMAIN threads : t \in DOMAIN threads' /\ threads'[t].chat = threads[t].chat
  BY <1>5 DEF ThreadsInv, TableInv, TableShape, TableGrows
<1>9. r.thread # 0 => r.thread \in DOMAIN threads' /\ threads'[r.thread].chat = ChatOf[j]
  BY <1>6, <1>8 DEF ThreadsInv, JobsInv, JobsPlaced
<1>10. \A i \in DOMAIN said[j] :
         /\ said[j][i].thread \in DOMAIN threads' /\ threads'[said[j][i].thread].chat = ChatOf[j]
         /\ said[j][i].thread = said[j][1].thread /\ said[j][i].thread = r.thread
  BY <1>6, <1>8 DEF PersistUserFails, ThreadsInv, JobsInv, SaidPlaced
<1>11. JobsInv'
  BY <1>1, <1>5, <1>6, <1>7, <1>9, <1>10, JobMoves DEF ThreadsInv
<1>12. CardsInv'
  BY <1>7, CardsStay DEF ThreadsInv
<1> QED
  BY <1>5, <1>11, <1>12 DEF ThreadsInv, TableInv, TableGrows

LEMMA AnswerKeeps ==
  ASSUME ThreadsInv, NEW j \in Jobs, Answer(j)
  PROVE  ThreadsInv'
<1>1. jobs[j] \in JobRecord /\ said[j] \in Seq(Entry) /\ jobs \in [Jobs -> JobRecord]
  BY DEF ThreadsInv, JobsInv, JobsShape
<1>2. TableGrows
  BY TableStays DEF Answer, ThreadsInv, TableInv
<1>3. PICK r \in JobRecord :
        r.thread = jobs[j].thread /\ r.at = "done" /\ jobs' = [jobs EXCEPT ![j] = r]
  <2> DEFINE r == [jobs[j] EXCEPT !.at = "done"]
  <2>1. r \in JobRecord /\ r.thread = jobs[j].thread /\ r.at = "done"
    BY <1>1 DEF JobRecord
  <2> QED
    BY <2>1 DEF Answer
<1>4. r.thread # 0 => r.thread \in DOMAIN threads' /\ threads'[r.thread].chat = ChatOf[j]
  BY <1>3 DEF Answer, ThreadsInv, JobsInv, JobsPlaced
<1>5. \A i \in DOMAIN said[j] :
        /\ said[j][i].thread \in DOMAIN threads' /\ threads'[said[j][i].thread].chat = ChatOf[j]
        /\ said[j][i].thread = said[j][1].thread /\ said[j][i].thread = jobs[j].thread
  BY DEF Answer, ThreadsInv, JobsInv, SaidPlaced
<1>6. JobsInv'
  <2>1. CASE UNCHANGED said
    <3>1. said' = [said EXCEPT ![j] = said[j]]
      BY <2>1 DEF ThreadsInv, JobsInv, JobsShape
    <3> DEFINE s == said[j]
    <3>2. s \in Seq(Entry) /\ said' = [said EXCEPT ![j] = s]
      BY <1>1, <3>1
    <3>3. \A i \in DOMAIN s :
            /\ s[i].thread \in DOMAIN threads' /\ threads'[s[i].thread].chat = ChatOf[j]
            /\ s[i].thread = s[1].thread
            /\ r.at # "done" => s[i].thread = r.thread
      BY <1>3, <1>5
    <3>4. TableInv /\ JobsInv
      BY DEF ThreadsInv
    <3> HIDE DEF s
    <3> QED
      BY <1>2, <1>3, <1>4, <3>2, <3>3, <3>4, JobMoves
  <2>2. CASE /\ AnswerThread(j) # 0
             /\ said' = [said EXCEPT ![j] =
                           Append(@, [thread |-> AnswerThread(j), role |-> "assistant"])]
    <3>1. PICK t : t = AnswerThread(j)
      OBVIOUS
    <3>2. t \in DOMAIN threads /\ threads[t].chat = ChatOf[j] /\ (jobs[j].thread # 0 => t = jobs[j].thread)
      BY <2>2, <3>1, CurrentGives DEF AnswerThread, ThreadsInv, JobsInv, JobsPlaced
    <3>3. t \in Ids
      BY <3>2, ThreadsAssumption DEF Ids, ThreadsInv, TableInv, TableShape
    <3> DEFINE e == [thread |-> t, role |-> "assistant"]
    <3>4. e \in Entry /\ e.thread = t
      BY <3>3 DEF Entry
    <3>5. said' = [said EXCEPT ![j] = Append(said[j], e)]
      BY <2>2, <3>1
    <3> HIDE DEF e
    <3>6. \A i \in DOMAIN said[j] : said[j][i].thread = t
      <4>1. \A i \in DOMAIN said[j] : said[j][i].thread # 0
        <5>1. \A i \in DOMAIN said[j] : said[j][i] \in Entry
          BY <1>1
        <5>2. \A entry \in Entry : entry.thread # 0
          BY DEF Entry, Ids
        <5> QED
          BY <5>1, <5>2
      <4> QED
        BY <1>5, <3>2, <4>1
    <3> DEFINE s == Append(said[j], e)
    <3>7. s \in Seq(Entry) /\ \A i \in DOMAIN s : s[i].thread = t
      BY <3>4, <3>6, SaysMore DEF ThreadsInv
    <3>8. said' = [said EXCEPT ![j] = s]
      BY <3>5
    <3> HIDE DEF s
    <3>9. t \in DOMAIN threads' /\ threads'[t].chat = ChatOf[j]
      BY <3>2 DEF Answer
    <3>10. \A i \in DOMAIN s : s[i].thread = s[1].thread
      BY <3>7
    <3>11. \A i \in DOMAIN s :
             /\ s[i].thread \in DOMAIN threads' /\ threads'[s[i].thread].chat = ChatOf[j]
             /\ s[i].thread = s[1].thread
             /\ r.at # "done" => s[i].thread = r.thread
      BY <1>3, <3>7, <3>9, <3>10
    <3>12. TableInv /\ JobsInv
      BY DEF ThreadsInv
    <3> QED
      BY <1>2, <1>3, <1>4, <3>7, <3>8, <3>11, <3>12, JobMoves
  <2> QED
    BY <2>1, <2>2 DEF Answer
<1>7. CardsInv'
  BY CardsStay DEF Answer, ThreadsInv
<1> QED
  BY <1>2, <1>6, <1>7 DEF ThreadsInv, TableInv, TableGrows

\* A field of the current thread, neither the chat nor whether it is active.
LEMMA EditCurrent ==
  ASSUME ThreadsInv, NEW c \in Chats, HasCurrent(c), NEW th \in Thread,
         th.chat = threads[Current(c)].chat, th.active = threads[Current(c)].active,
         threads' = [threads EXCEPT ![Current(c)] = th]
  PROVE  TableGrows
<1>1. PICK u \in DOMAIN threads : u = Current(c)
  BY CurrentGives
<1>2. TableShape /\ OneActive
  BY DEF ThreadsInv, TableInv
<1> QED
  BY <1>1, <1>2, EditGrows

\* A new thread, as it is created or with another persona.
LEMMA NewThreadGrows ==
  ASSUME ThreadsInv, NEW c \in Chats, Creates,
         threads' = CreateThread(c) \/ \E p \in Persona :
           threads' = [CreateThread(c) EXCEPT ![Len(threads) + 1] =
                         [CreateThread(c)[Len(threads) + 1] EXCEPT !.persona = p]]
  PROVE  TableGrows
<1> DEFINE f == CreateThread(c)
<1> DEFINE n == Len(threads) + 1
<1>1. TableShape /\ OneActive
  BY DEF ThreadsInv, TableInv
<1>2. Len(threads) \in Nat /\ DOMAIN threads = 1 .. Len(threads)
  BY <1>1 DEF TableShape
<1>3. f \in Seq(Thread) /\ Len(f) = n /\ f[n].chat = c /\ \A t \in DOMAIN threads : f[t] = Deactivate(c)[t]
  BY <1>1, Created
<1>4. CASE threads' = f
  BY <1>1, <1>3, <1>4, CreateGrows
<1>5. ASSUME NEW p \in Persona, threads' = [f EXCEPT ![n] = [f[n] EXCEPT !.persona = p]]
      PROVE  TableGrows
  <2> DEFINE th == [f[n] EXCEPT !.persona = p]
  <2>1. f[n] \in Thread
    BY <1>2, <1>3
  <2>2. th \in Thread /\ th.chat = f[n].chat
    BY <2>1 DEF Thread
  <2>3. threads' = [f EXCEPT ![n] = th]
    BY <1>5
  <2> HIDE DEF f, th
  <2>4. threads' \in Seq(Thread) /\ Len(threads') = n
    BY <1>2, <1>3, <2>2, <2>3
  <2>5. threads'[n] = th /\ \A t \in DOMAIN threads : threads'[t] = f[t]
    BY <1>2, <1>3, <2>3
  <2> QED
    BY <1>1, <1>3, <2>2, <2>4, <2>5, CreateGrows
<1> QED
  BY <1>4, <1>5

\* /thread new, /thread use, /memory pause and resume.
LEMMA ThreadCommandsKeep ==
  ASSUME ThreadsInv, NEW c \in Chats, NEW t, NEW enabled \in BOOLEAN,
         NewThread(c) \/ UseThread(c, t) \/ SetMemory(c, enabled)
  PROVE  ThreadsInv'
<1>1. TableShape /\ OneActive /\ \A u \in DOMAIN threads : threads[u] \in Thread
  BY DEF ThreadsInv, TableInv, TableShape
<1>2. CASE NewThread(c)
  <2>1. TableGrows
    BY <1>2, NewThreadGrows DEF NewThread
  <2> QED
    BY <1>2, <2>1, CommandKeeps DEF NewThread
<1>3. CASE UseThread(c, t)
  <2>1. t \in DOMAIN threads /\ threads[t].chat = c /\ threads' = SetActiveThread(c, t)
    BY <1>3 DEF UseThread
  <2>2. TableGrows
    BY <1>1, <2>1, SetActiveGrows
  <2> QED
    BY <1>3, <2>2, CommandKeeps DEF UseThread
<1>4. CASE SetMemory(c, enabled)
  <2>1. HasCurrent(c) /\ threads' = [threads EXCEPT ![Current(c)] = [threads[Current(c)] EXCEPT !.memory = enabled]]
    BY <1>4 DEF SetMemory
  <2>2. threads[Current(c)] \in Thread
    BY <1>1, <2>1, CurrentGives
  <2> DEFINE th == [threads[Current(c)] EXCEPT !.memory = enabled]
  <2>3. th \in Thread /\ th.chat = threads[Current(c)].chat /\ th.active = threads[Current(c)].active
    BY <2>2 DEF Thread
  <2>4. threads' = [threads EXCEPT ![Current(c)] = th]
    BY <2>1
  <2> HIDE DEF th
  <2>5. TableGrows
    BY <2>1, <2>3, <2>4, EditCurrent
  <2> QED
    BY <1>4, <2>5, CommandKeeps DEF SetMemory
<1> QED
  BY <1>2, <1>3, <1>4

\* /mode, /mode lock and /soul.
LEMMA PersonaCommandsKeep ==
  ASSUME ThreadsInv, NEW c \in Chats, NEW m \in Modes, NEW enabled \in BOOLEAN,
         SetMode(c, m) \/ SetModeLock(c, enabled) \/ SetSoul(c)
  PROVE  ThreadsInv'
<1>1. \A u \in DOMAIN threads : threads[u] \in Thread
  BY DEF ThreadsInv, TableInv, TableShape
<1>2. \A p \in Persona :
        /\ (IF p.locked THEN p ELSE [p EXCEPT !.mode = m]) \in Persona
        /\ [p EXCEPT !.locked = enabled] \in Persona
        /\ [p EXCEPT !.soul = TRUE] \in Persona
  BY DEF Persona
<1>3. UNCHANGED onlyThreads
  BY DEF SetMode, SetModeLock, SetSoul, OnCurrent
<1>4. CASE HasCurrent(c) /\ \E p \in Persona : threads' = [threads EXCEPT ![Current(c)] = [threads[Current(c)] EXCEPT !.persona = p]]
  <2>1. PICK p \in Persona : threads' = [threads EXCEPT ![Current(c)] = [threads[Current(c)] EXCEPT !.persona = p]]
    BY <1>4
  <2>2. threads[Current(c)] \in Thread
    BY <1>1, <1>4, CurrentGives
  <2> DEFINE th == [threads[Current(c)] EXCEPT !.persona = p]
  <2>3. th \in Thread /\ th.chat = threads[Current(c)].chat /\ th.active = threads[Current(c)].active
    BY <2>2 DEF Thread
  <2>4. threads' = [threads EXCEPT ![Current(c)] = th]
    BY <2>1
  <2> HIDE DEF th
  <2>5. TableGrows
    BY <1>4, <2>3, <2>4, EditCurrent
  <2> QED
    BY <1>3, <2>5, CommandKeeps
<1>5. ASSUME NEW p \in Persona, Creates, threads' = [CreateThread(c) EXCEPT ![Len(threads) + 1].persona = p]
      PROVE  ThreadsInv'
  <2>1. threads' = [CreateThread(c) EXCEPT ![Len(threads) + 1] =
                      [CreateThread(c)[Len(threads) + 1] EXCEPT !.persona = p]]
    BY <1>5
  <2>2. TableGrows
    BY <1>5, <2>1, NewThreadGrows
  <2> QED
    BY <1>3, <2>2, CommandKeeps
<1>6. HasCurrent(c) => threads[Current(c)].persona \in Persona
  BY <1>1, CurrentGives DEF Thread
<1>7. CreateThread(c)[Len(threads) + 1].persona \in Persona
  <2>1. TableShape /\ Len(threads) \in Nat
    BY DEF ThreadsInv, TableInv, TableShape
  <2>2. CreateThread(c)[Len(threads) + 1] \in Thread
    BY <2>1, Created
  <2> QED
    BY <2>2 DEF Thread
<1>8. CASE SetMode(c, m)
  <2> DEFINE Change(p) == IF p.locked THEN p ELSE [p EXCEPT !.mode = m]
  <2>1. \/ HasCurrent(c) /\ threads' = [threads EXCEPT ![Current(c)].persona = Change(threads[Current(c)].persona)]
        \/ /\ Creates
           /\ threads' = [CreateThread(c) EXCEPT ![Len(threads) + 1].persona =
                            Change(CreateThread(c)[Len(threads) + 1].persona)]
    BY <1>8 DEF SetMode, OnCurrent
  <2>2. \A p \in Persona : Change(p) \in Persona
    BY <1>2
  <2> HIDE DEF Change
  <2> QED
    BY <1>4, <1>5, <1>6, <1>7, <2>1, <2>2
<1>9. CASE SetModeLock(c, enabled)
  <2> DEFINE Change(p) == [p EXCEPT !.locked = enabled]
  <2>1. \/ HasCurrent(c) /\ threads' = [threads EXCEPT ![Current(c)].persona = Change(threads[Current(c)].persona)]
        \/ /\ Creates
           /\ threads' = [CreateThread(c) EXCEPT ![Len(threads) + 1].persona =
                            Change(CreateThread(c)[Len(threads) + 1].persona)]
    BY <1>9 DEF SetModeLock, OnCurrent
  <2>2. \A p \in Persona : Change(p) \in Persona
    BY <1>2
  <2> HIDE DEF Change
  <2> QED
    BY <1>4, <1>5, <1>6, <1>7, <2>1, <2>2
<1>10. CASE SetSoul(c)
  <2> DEFINE Change(p) == [p EXCEPT !.soul = TRUE]
  <2>1. \/ HasCurrent(c) /\ threads' = [threads EXCEPT ![Current(c)].persona = Change(threads[Current(c)].persona)]
        \/ /\ Creates
           /\ threads' = [CreateThread(c) EXCEPT ![Len(threads) + 1].persona =
                            Change(CreateThread(c)[Len(threads) + 1].persona)]
    BY <1>10 DEF SetSoul, OnCurrent
  <2>2. \A p \in Persona : Change(p) \in Persona
    BY <1>2
  <2> HIDE DEF Change
  <2> QED
    BY <1>4, <1>5, <1>6, <1>7, <2>1, <2>2
<1> QED
  BY <1>8, <1>9, <1>10

LEMMA ForgetKeeps ==
  ASSUME ThreadsInv, NEW c \in Chats, NEW card \in cards, Forget(c, card)
  PROVE  ThreadsInv'
<1>1. CardsInv'
  BY ForgetGives DEF Forget, ThreadsInv
<1>2. TableGrows
  BY TableStays DEF Forget, ThreadsInv, TableInv
<1>3. JobsInv'
  BY <1>2, StaysPlaced DEF Forget, ThreadsInv
<1> QED
  BY <1>1, <1>2, <1>3 DEF ThreadsInv, TableInv, TableGrows

LEMMA ThreadsSteps == ThreadsInv /\ [ThreadsNext]_threadVars => ThreadsInv'
<1> SUFFICES ASSUME ThreadsInv, [ThreadsNext]_threadVars PROVE ThreadsInv'
  OBVIOUS
<1>1. CASE UNCHANGED threadVars
  <2>1. UNCHANGED threads /\ UNCHANGED onlyThreads
    BY <1>1 DEF threadVars, onlyThreads
  <2>2. TableGrows
    BY <2>1, TableStays DEF ThreadsInv, TableInv
  <2> QED
    BY <2>1, <2>2, CommandKeeps
<1>2. ASSUME NEW j \in Jobs, PersistAndExtract(j) \/ PersistUserFails(j) \/ Answer(j)
      PROVE  ThreadsInv'
  BY <1>2, PersistAndExtractKeeps, PersistUserFailsKeeps, AnswerKeeps
<1>3. ASSUME NEW c \in Chats, NEW card \in cards, Forget(c, card)
      PROVE  ThreadsInv'
  BY <1>3, ForgetKeeps
<1>4. ASSUME NEW c \in Chats, NewThread(c) \/ \E t \in Ids : UseThread(c, t)
      PROVE  ThreadsInv'
  <2>1. TRUE \in BOOLEAN
    OBVIOUS
  <2>2. PICK t : NewThread(c) \/ UseThread(c, t)
    BY <1>4
  <2> QED
    BY <2>1, <2>2, ThreadCommandsKeep
<1>5. ASSUME NEW c \in Chats, NEW enabled \in BOOLEAN, SetMemory(c, enabled) PROVE ThreadsInv'
  BY <1>5, ThreadCommandsKeep
<1>6. ASSUME NEW c \in Chats,
             \/ \E m \in Modes : SetMode(c, m)
             \/ \E enabled \in BOOLEAN : SetModeLock(c, enabled)
             \/ SetSoul(c)
      PROVE  ThreadsInv'
  <2>1. PICK m \in Modes, enabled \in BOOLEAN : SetMode(c, m) \/ SetModeLock(c, enabled) \/ SetSoul(c)
    BY <1>6, ThreadsAssumption
  <2> QED
    BY <2>1, PersonaCommandsKeep
<1> QED
  BY <1>1, <1>2, <1>3, <1>4, <1>5, <1>6 DEF ThreadsNext

\* The table of threads, the jobs, their transcripts and the cards keep their types: no
\* job is attempted more than max_attempts times, no command or message names a thread
\* that was never created.
THEOREM ThreadsTyped == ThreadsSpec => []ThreadsTypeOK
<1> DEFINE I == ThreadsInv /\ commands \in 0 .. MaxCommands
<1>1. ThreadsInit => I
  BY ThreadsStart, ThreadsAssumption DEF ThreadsInit
<1>2. I /\ [ThreadsNext]_threadVars => I'
  <2> SUFFICES ASSUME commands \in 0 .. MaxCommands, [ThreadsNext]_threadVars
      PROVE  commands' \in 0 .. MaxCommands
    BY ThreadsSteps
  <2>1. Command => commands' \in 0 .. MaxCommands
    BY ThreadsAssumption DEF Command
  <2>2. \A j \in Jobs : PersistAndExtract(j) \/ PersistUserFails(j) \/ Answer(j) =>
          UNCHANGED commands
    BY DEF PersistAndExtract, PersistUserFails, Answer
  <2>3. \A c \in Chats : NewThread(c) \/ SetSoul(c) => Command
    BY DEF NewThread, SetSoul, OnCurrent
  <2>4. \A c \in Chats, t \in Ids : UseThread(c, t) => Command
    BY DEF UseThread
  <2>5. \A c \in Chats, enabled \in BOOLEAN : SetMemory(c, enabled) \/ SetModeLock(c, enabled) => Command
    BY DEF SetMemory, SetModeLock, OnCurrent
  <2>6. \A c \in Chats, card \in cards : Forget(c, card) => Command
    BY DEF Forget
  <2>7. \A c \in Chats, m \in Modes : SetMode(c, m) => Command
    BY DEF SetMode, OnCurrent
  <2> QED
    BY <2>1, <2>2, <2>3, <2>4, <2>5, <2>6, <2>7 DEF ThreadsNext, threadVars
<1>3. I => ThreadsTypeOK
  BY DEF ThreadsInv, TableInv, TableShape, JobsInv, JobsShape, CardsInv, CardsShape,
         ThreadsTypeOK, Thread, JobRecord, Entry, Card
<1> QED
  BY <1>1, <1>2, <1>3, PTL DEF ThreadsSpec

\* Everything a job puts into transcripts is in one thread of its chat, however the
\* user changes threads between its attempts and while the model works on it.
THEOREM JobsKeepThread == ThreadsSpec => []JobStaysInThread
<1>1. ThreadsInv => JobStaysInThread
  BY DEF ThreadsInv, JobsInv, SaidPlaced, JobStaysInThread
<1> QED
  BY <1>1, ThreadsStart, ThreadsSteps, PTL DEF ThreadsSpec

\* The live cards of a thread show what was last extracted for each key and not
\* forgotten since (upsert_memory, /memory forget).
THEOREM CardsShowLast == ThreadsSpec => []CardsCurrent
<1>1. ThreadsInv => CardsCurrent
  BY DEF ThreadsInv, CardsInv
<1> QED
  BY <1>1, ThreadsStart, ThreadsSteps, PTL DEF ThreadsSpec

\* A chat never has two active threads (create_thread and set_active_thread each
\* deactivate the others first), though it may have none (ExactlyOneActive).
THEOREM OneThreadActive == ThreadsSpec => []AtMostOneActive
<1>1. ThreadsInv => AtMostOneActive
  <2> SUFFICES ASSUME ThreadsInv, NEW c \in Chats PROVE Cardinality(ActiveOf(c)) <= 1
    BY DEF AtMostOneActive
  <2>1. \A t, u \in ActiveOf(c) : t = u
    <3>1. \A t \in ActiveOf(c) : t \in DOMAIN threads /\ threads[t].active = TRUE /\ threads[t].chat = c
      BY DEF ActiveOf, ThreadsInv, TableInv, TableShape, Thread
    <3> QED
      BY <3>1 DEF ThreadsInv, TableInv, OneActive
  <2>2. CASE ActiveOf(c) = {}
    BY <2>2, FS_EmptySet
  <2>3. CASE ActiveOf(c) # {}
    <3>1. PICK t \in ActiveOf(c) : ActiveOf(c) = {t}
      BY <2>1, <2>3
    <3> QED
      BY <3>1, FS_Singleton
  <2> QED
    BY <2>2, <2>3
<1> QED
  BY <1>1, ThreadsStart, ThreadsSteps, PTL DEF ThreadsSpec

-----------------------------------------------------------------------------
(* What a path is normalized to.                                           *)

\* How many of the first j parts of a path satisfy what n does not count.
LEMMA CountNext ==
  ASSUME NEW n \in Nat, NEW S
  PROVE  /\ Cardinality((1 .. n) \cap S) \in Nat
         /\ Cardinality((1 .. n + 1) \cap S)
              = Cardinality((1 .. n) \cap S) + (IF n + 1 \in S THEN 1 ELSE 0)
<1>1. IsFiniteSet((1 .. n) \cap S)
  <2>1. IsFiniteSet(1 .. n)
    BY FS_Interval
  <2> QED
    BY <2>1, FS_Subset
<1>2. (1 .. n + 1) \cap S = IF n + 1 \in S THEN ((1 .. n) \cap S) \cup {n + 1} ELSE (1 .. n) \cap S
  OBVIOUS
<1>3. n + 1 \notin (1 .. n) \cap S
  OBVIOUS
<1>4. Cardinality(((1 .. n) \cap S) \cup {n + 1}) = Cardinality((1 .. n) \cap S) + 1
  BY <1>1, <1>3, FS_AddElement
<1>5. Cardinality((1 .. n) \cap S) \in Nat
  BY <1>1, FS_CardinalityType
<1> QED
  BY <1>2, <1>4, <1>5

\* A part leads a step down, a step up or nowhere.
LEMMA DepthNext ==
  ASSUME NEW path
  PROVE  /\ Depth(path, 0) = 0
         /\ \A n \in Nat :
              /\ Depth(path, n) \in Int
              /\ Depth(path, n + 1) = CASE path[n + 1] = "." -> Depth(path, n)
                                        [] path[n + 1] = ".." -> Depth(path, n) - 1
                                        [] OTHER -> Depth(path, n) + 1
<1> DEFINE down == {i \in Nat : IsName(path[i])}
           up == {i \in Nat : path[i] = ".."}
           upto(S, j) == (1 .. j) \cap S
<1>1. \A j \in Nat : Depth(path, j) = Cardinality(upto(down, j)) - Cardinality(upto(up, j))
  <2> SUFFICES ASSUME NEW j \in Nat
               PROVE  Depth(path, j) = Cardinality(upto(down, j)) - Cardinality(upto(up, j))
    OBVIOUS
  <2>1. upto(down, j) = {i \in 1 .. j : IsName(path[i])} /\ upto(up, j) = {i \in 1 .. j : path[i] = ".."}
    OBVIOUS
  <2> QED
    BY <2>1 DEF Depth
<1>2. upto(down, 0) = {} /\ upto(up, 0) = {}
  OBVIOUS
<1>3. \A S : \A n \in Nat :
        /\ Cardinality(upto(S, n)) \in Nat
        /\ Cardinality(upto(S, n + 1)) = Cardinality(upto(S, n)) + (IF n + 1 \in S THEN 1 ELSE 0)
  <2> SUFFICES ASSUME NEW S, NEW n \in Nat
               PROVE  /\ Cardinality(upto(S, n)) \in Nat
                      /\ Cardinality(upto(S, n + 1))
                           = Cardinality(upto(S, n)) + (IF n + 1 \in S THEN 1 ELSE 0)
    OBVIOUS
  <2> QED
    BY CountNext
<1>4. ASSUME NEW n \in Nat
      PROVE  /\ n + 1 \in down <=> path[n + 1] # "." /\ path[n + 1] # ".."
             /\ n + 1 \in up <=> path[n + 1] = ".."
  BY DEF IsName
<1>5. Depth(path, 0) = 0
  BY <1>1, <1>2, FS_EmptySet
<1>6. ASSUME NEW n \in Nat
      PROVE  /\ Depth(path, n) \in Int
             /\ Depth(path, n + 1) = CASE path[n + 1] = "." -> Depth(path, n)
                                       [] path[n + 1] = ".." -> Depth(path, n) - 1
                                       [] OTHER -> Depth(path, n) + 1
  <2> HIDE DEF upto, down, up
  <2>1. /\ Depth(path, n) = Cardinality(upto(down, n)) - Cardinality(upto(up, n))
        /\ Depth(path, n + 1) = Cardinality(upto(down, n + 1)) - Cardinality(upto(up, n + 1))
    BY <1>1
  <2> QED
    BY <2>1, <1>3, <1>4
<1> QED
  BY <1>5, <1>6

\* The parts entered so far, one after the other.
LEMMA NormalizeSteps ==
  ASSUME NEW R, NEW path \in Seq(R)
  PROVE  \E parts \in [0 .. Len(path) -> Seq(R \cup {".."})] :
           /\ Normalize(path) = parts[Len(path)]
           /\ parts[0] = <<>>
           /\ \A i \in 1 .. Len(path) : parts[i] = Entered(parts[i - 1], path[i])
<1> DEFINE T == Seq(R \cup {".."})
           step == [i \in 1 .. Len(path) |-> [s \in T |-> Entered(s, path[i])]]
           F(g) == [i \in 0 .. Len(path) |-> IF i = 0 THEN <<>> ELSE Entered(g[i - 1], path[i])]
<1>1. \A s \in T : \A c \in R : Entered(s, c) \in T
  <2> SUFFICES ASSUME NEW s \in T, NEW c \in R PROVE Entered(s, c) \in T
    OBVIOUS
  <2>1. Append(s, c) \in T /\ <<"..">> \in T
    OBVIOUS
  <2>2. s # <<>> => Front(s) \in T
    BY DEF Front
  <2> QED
    BY <2>1, <2>2 DEF Entered
<1> HIDE DEF T, step, F
<1>2. step \in [1 .. Len(path) -> [T -> T]]
  <2> SUFFICES ASSUME NEW i \in 1 .. Len(path), NEW t \in T PROVE Entered(t, path[i]) \in T
    BY DEF step
  <2>1. path[i] \in R
    OBVIOUS
  <2> QED
    BY <1>1, <2>1
<1>3. PICK f : Iterates(f, Len(path), T, <<>>, step)
  <2>1. <<>> \in T
    BY DEF T
  <2>2. Len(path) \in Nat
    OBVIOUS
  <2> QED
    BY <1>2, <2>1, <2>2, RecursionExists
<1>4. f = F(f)
  <2>1. ASSUME NEW i \in 1 .. Len(path) PROVE f[i] = Entered(f[i - 1], path[i])
    <3>1. f[i] = step[i][f[i - 1]] /\ f[i - 1] \in T
      BY <1>3 DEF Iterates
    <3> QED
      BY <3>1 DEF step
  <2> QED
    BY <1>3, <2>1 DEF F, Iterates
<1> DEFINE parts == CHOOSE g : g = F(g)
<1>5. parts = F(parts)
  BY <1>4
<1>6. Normalize(path) = parts[Len(path)]
  BY DEF Normalize, F
<1> HIDE DEF parts
<1>7. /\ parts[0] = <<>>
      /\ \A i \in 1 .. Len(path) : parts[i] = Entered(parts[i - 1], path[i])
  BY <1>5 DEF F
<1>8. \A n \in 0 .. Len(path) : n \in {m \in 0 .. Len(path) : parts[m] \in T}
  <2> DEFINE S == {m \in 0 .. Len(path) : parts[m] \in T}
  <2>1. 0 \in S
    <3>1. <<>> \in T /\ 0 \in 0 .. Len(path)
      BY DEF T
    <3> QED
      BY <1>7, <3>1
  <2>2. \A n \in 0 .. Len(path) - 1 : n \in S => n + 1 \in S
    <3> SUFFICES ASSUME NEW n \in 0 .. Len(path) - 1, n \in S PROVE parts[n + 1] \in T
      OBVIOUS
    <3>1. path[n + 1] \in R /\ parts[n + 1] = Entered(parts[n], path[n + 1])
      BY <1>7
    <3> QED
      BY <1>1, <3>1
  <2> HIDE DEF S
  <2>3. \A n \in 0 .. Len(path) : n \in S
    <3>1. Len(path) \in Nat
      OBVIOUS
    <3> QED
      BY <2>1, <2>2, <3>1, Induction
  <2> QED
    BY <2>3 DEF S
<1>9. parts \in [0 .. Len(path) -> T]
  BY <1>5, <1>8 DEF F
<1> QED
  BY <1>6, <1>7, <1>9 DEF T

\* What the first n parts come to, once they are entered: an error if a step led out,
\* and otherwise one name for each depth, the last that led there.
Overruns(path, n) == \E j \in 1 .. n : Depth(path, j) < 0
At(path, n, m) == {i \in 1 .. n : IsName(path[i]) /\ Depth(path, i) = m}
Follows(parts, path, n) ==
  /\ Len(parts) = Depth(path, n)
  /\ \A m \in 1 .. Len(parts) :
       \E i \in At(path, n, m) : parts[m] = path[i] /\ \A k \in At(path, n, m) : k <= i

\* Names are not the mark of an error.
LEMMA NotTheError ==
  ASSUME NEW parts, NEW path, NEW n, Follows(parts, path, n), parts = <<"..">>
  PROVE  FALSE
<1>1. Len(parts) = 1 /\ parts[1] = ".."
  OBVIOUS
<1>2. \E i \in At(path, n, 1) : parts[1] = path[i]
  BY <1>1 DEF Follows
<1> QED
  BY <1>1, <1>2 DEF At, IsName

LEMMA FollowsNext ==
  ASSUME NEW R, NEW path \in Seq(R), NEW n \in 0 .. Len(path) - 1, NEW parts \in Seq(R \cup {".."}),
         Follows(parts, path, n), Depth(path, n + 1) >= 0
  PROVE  Follows(Entered(parts, path[n + 1]), path, n + 1)
<1> DEFINE c == path[n + 1]
<1>1. parts # <<"..">>
  BY NotTheError
<1>2. /\ Depth(path, n) \in Int
      /\ Depth(path, n + 1) = CASE c = "." -> Depth(path, n)
                                [] c = ".." -> Depth(path, n) - 1
                                [] OTHER -> Depth(path, n) + 1
  BY DepthNext
<1>3. Len(parts) = Depth(path, n) /\ Len(parts) \in Nat
  BY DEF Follows
<1>4. \A m \in Int : At(path, n + 1, m) =
         At(path, n, m) \cup (IF IsName(c) /\ Depth(path, n + 1) = m THEN {n + 1} ELSE {})
  BY DEF At
<1>5. CASE c = "."
  <2>1. \A m \in Int : At(path, n + 1, m) = At(path, n, m)
    BY <1>4, <1>5 DEF IsName
  <2>2. Entered(parts, c) = parts /\ Depth(path, n + 1) = Depth(path, n)
    BY <1>2, <1>5 DEF Entered
  <2> QED
    BY <2>1, <2>2 DEF Follows
<1>6. CASE c = ".."
  <2>1. \A m \in Int : At(path, n + 1, m) = At(path, n, m)
    BY <1>4, <1>6 DEF IsName
  <2>2. Depth(path, n + 1) = Len(parts) - 1 /\ Len(parts) > 0
    BY <1>2, <1>3, <1>6
  <2>3. Entered(parts, c) = Front(parts)
    BY <1>1, <1>6, <2>2 DEF Entered
  <2>4. Len(Front(parts)) = Len(parts) - 1 /\ \A m \in 1 .. Len(parts) - 1 : Front(parts)[m] = parts[m]
    <3>1. Front(parts) = [m \in 1 .. Len(parts) - 1 |-> parts[m]]
      BY DEF Front
    <3>2. Len(parts) - 1 \in Nat
      BY <1>3, <2>2
    <3> QED
      BY <3>1, <3>2
  <2> QED
    BY <1>3, <2>1, <2>2, <2>3, <2>4 DEF Follows
<1>7. CASE c # "." /\ c # ".."
  <2>1. IsName(c) /\ Depth(path, n + 1) = Len(parts) + 1
    BY <1>2, <1>3, <1>7 DEF IsName
  <2>2. Entered(parts, c) = Append(parts, c)
    BY <1>1, <1>7 DEF Entered
  <2>3. \A m \in 1 .. Len(parts) : At(path, n + 1, m) = At(path, n, m)
    <3>1. Len(parts) + 1 \notin 1 .. Len(parts) /\ 1 .. Len(parts) \subseteq Int
      BY <1>3
    <3> QED
      BY <1>4, <2>1, <3>1
  <2>4. n + 1 \in At(path, n + 1, Len(parts) + 1) /\ \A k \in At(path, n + 1, Len(parts) + 1) : k <= n + 1
    BY <2>1 DEF At
  <2> DEFINE longer == Append(parts, c)
  <2>5. c \in R
    OBVIOUS
  <2>6. /\ Len(longer) = Len(parts) + 1 /\ longer[Len(parts) + 1] = c
        /\ \A m \in 1 .. Len(parts) : longer[m] = parts[m]
    BY <2>5
  <2> HIDE DEF longer
  <2>7. ASSUME NEW m \in 1 .. Len(longer)
        PROVE  \E i \in At(path, n + 1, m) :
                 longer[m] = path[i] /\ \A k \in At(path, n + 1, m) : k <= i
    <3>1. CASE m = Len(parts) + 1
      BY <2>4, <2>6, <3>1
    <3>2. CASE m \in 1 .. Len(parts)
      <4>1. PICK i \in At(path, n, m) : parts[m] = path[i] /\ \A k \in At(path, n, m) : k <= i
        BY <3>2 DEF Follows
      <4> QED
        BY <2>3, <2>6, <3>2, <4>1
    <3> QED
      BY <1>3, <2>6, <3>1, <3>2
  <2> QED
    BY <2>1, <2>2, <2>6, <2>7 DEF Follows, longer
<1> QED
  BY <1>5, <1>6, <1>7

\* The code makes of a path what it means, whatever its length (normalize_user_path,
\* workspace_paths.py).
THEOREM NamesAgree ==
  ASSUME NEW R, NEW path \in Seq(R)
  PROVE  Normalize(path) = Means(path)
<1>1. PICK parts \in [0 .. Len(path) -> Seq(R \cup {".."})] :
        /\ Normalize(path) = parts[Len(path)]
        /\ parts[0] = <<>>
        /\ \A i \in 1 .. Len(path) : parts[i] = Entered(parts[i - 1], path[i])
  BY NormalizeSteps
<1> DEFINE Inv(n) == IF Overruns(path, n) THEN parts[n] = <<"..">> ELSE Follows(parts[n], path, n)
           S == {n \in 0 .. Len(path) : Inv(n)}
<1>2. 0 \in S
  <2>1. ~Overruns(path, 0)
    BY DEF Overruns
  <2>2. Follows(<<>>, path, 0)
    BY DepthNext DEF Follows
  <2>3. 0 \in 0 .. Len(path)
    OBVIOUS
  <2> QED
    BY <1>1, <2>1, <2>2, <2>3
<1>3. ASSUME NEW n \in 0 .. Len(path) - 1, n \in S PROVE n + 1 \in S
  <2>1. parts[n + 1] = Entered(parts[n], path[n + 1]) /\ n + 1 \in 0 .. Len(path)
    BY <1>1
  <2>2. Overruns(path, n + 1) <=> Overruns(path, n) \/ Depth(path, n + 1) < 0
    BY DEF Overruns
  <2>3. /\ Depth(path, n) \in Int /\ Depth(path, n + 1) \in Int
        /\ Depth(path, n + 1) < 0 /\ Depth(path, n) >= 0 => Depth(path, n) = 0 /\ path[n + 1] = ".."
    <3>1. n \in Nat /\ n + 1 \in Nat
      OBVIOUS
    <3>2. /\ Depth(path, n) \in Int /\ Depth(path, n + 1) \in Int
          /\ Depth(path, n + 1) = CASE path[n + 1] = "." -> Depth(path, n)
                                    [] path[n + 1] = ".." -> Depth(path, n) - 1
                                    [] OTHER -> Depth(path, n) + 1
      BY <3>1, DepthNext
    <3> QED
      BY <3>2
  <2>4. CASE Overruns(path, n)
    <3>1. parts[n + 1] = <<"..">>
      BY <1>3, <2>1, <2>4 DEF Entered
    <3> QED
      BY <2>1, <2>2, <2>4, <3>1
  <2>5. CASE ~Overruns(path, n) /\ Depth(path, n + 1) >= 0
    <3>1. ~(Depth(path, n + 1) < 0)
      BY <2>5, DepthNext
    <3>2. Follows(parts[n], path, n) /\ parts[n] \in Seq(R \cup {".."})
      BY <1>1, <1>3, <2>5
    <3>3. Follows(parts[n + 1], path, n + 1)
      BY <2>1, <2>5, <3>2, FollowsNext
    <3> QED
      BY <2>1, <2>2, <2>5, <3>1, <3>3
  <2>6. CASE ~Overruns(path, n) /\ Depth(path, n + 1) < 0
    <3>1. Follows(parts[n], path, n) /\ parts[n] \in Seq(R \cup {".."})
      BY <1>1, <1>3, <2>6
    <3>2. Len(parts[n]) = Depth(path, n) /\ Len(parts[n]) \in Nat
      BY <3>1 DEF Follows
    <3>3. Depth(path, n) = 0 /\ path[n + 1] = ".."
      BY <2>6, <2>3, <3>2
    <3>4. parts[n] = <<>>
      BY <3>1, <3>2, <3>3
    <3>5. parts[n + 1] = <<"..">>
      BY <2>1, <3>3, <3>4 DEF Entered
    <3> QED
      BY <2>1, <2>2, <2>6, <3>5
  <2> QED
    BY <2>4, <2>5, <2>6, <2>3
<1>4. Inv(Len(path))
  <2> HIDE DEF Inv
  <2>1. Len(path) \in Nat
    OBVIOUS
  <2>2. \A n \in 0 .. Len(path) : n \in S
    <3> HIDE DEF S
    <3> QED
      BY <1>2, <1>3, <2>1, Induction
  <2> QED
    BY <2>1, <2>2
<1>5. (\E j \in DOMAIN path : Depth(path, j) < 0) <=> Overruns(path, Len(path))
  BY DEF Overruns
<1>6. CASE Overruns(path, Len(path))
  BY <1>1, <1>4, <1>5, <1>6 DEF Means
<1>7. CASE ~Overruns(path, Len(path))
  <2> DEFINE last == parts[Len(path)]
             At0(m) == {i \in DOMAIN path : IsName(path[i]) /\ Depth(path, i) = m}
  <2>1. Follows(last, path, Len(path)) /\ last \in Seq(R \cup {".."})
    BY <1>1, <1>4, <1>7
  <2>2. last = [m \in 1 .. Depth(path, Len(path)) |-> last[m]]
    <3>1. last = [m \in 1 .. Len(last) |-> last[m]]
      BY <2>1
    <3> QED
      BY <2>1, <3>1 DEF Follows
  <2>3. ASSUME NEW m \in 1 .. Depth(path, Len(path)) PROVE last[m] = path[Max(At0(m))]
    <3>1. PICK i \in At(path, Len(path), m) :
            last[m] = path[i] /\ \A k \in At(path, Len(path), m) : k <= i
      BY <2>1 DEF Follows
    <3>2. At0(m) = At(path, Len(path), m) /\ At0(m) \subseteq Nat
      BY DEF At
    <3>3. Max(At0(m)) = i
      <4> HIDE DEF At0
      <4>1. i \in At0(m) /\ \A k \in At0(m) : i >= k
        BY <3>1, <3>2
      <4> QED
        BY <3>2, <4>1 DEF Max
    <3> QED
      BY <3>1, <3>3
  <2>4. Means(path) = [m \in 1 .. Depth(path, Len(path)) |-> path[Max(At0(m))]]
    BY <1>5, <1>7 DEF Means
  <2> QED
    BY <1>1, <2>2, <2>3, <2>4
<1> QED
  BY <1>6, <1>7

-----------------------------------------------------------------------------
(* Files.                                                                  *)

\* The two ways to read the path of a call agree.
LEMMA MeantAsNamed ==
  ASSUME NEW path \in Paths
  PROVE  Means(path) = Normalize(path)
<1>1. path \in Seq(Dirs \cup Names \cup {".", ".."})
  BY FilesAssumption
<1> QED
  BY <1>1, NamesAgree

Task == [op : {"idle", "write", "replaced", "read", "delete"},
         path : Paths \cup {<<>>}, text : Texts \cup {"none"}, wide : BOOLEAN]
Temp == [owner : Programs, at : Places, orphan : BOOLEAN]

FilesShape ==
  /\ files \in [Places -> Held \cup {NoFile}]
  /\ temps \subseteq Temp
  /\ task \in [Programs -> Task]

HistoriesShape ==
  /\ stored \in [Places -> Held \cup {NoFile}]
  /\ answer \in [Programs -> Held \cup {NoFile}] /\ meant \in [Programs -> Held \cup {NoFile}]

\* A call that has passed its checks is at a place.
InPlace ==
  \A p \in Programs :
    task[p].op # "idle" => task[p].path \in Paths /\ Normalize(task[p].path) \in Places

\* A write has a text.
Texted == \A p \in Programs : task[p].op = "write" => task[p].text \in Texts

\* A temporary file that is no orphan is of a write in hand.
TempsOwned == \A t \in temps : t.orphan = TRUE \/ task[t.owner].op = "write"

FilesInv == FilesShape /\ InPlace /\ Texted /\ TempsOwned
TextsInv == HistoriesShape /\ WholeTexts

LEMMA IdleTyped == Idle \in Task /\ Idle.op = "idle"
BY DEF Idle, Task

\* The record of a call that begins, and of a write that has replaced its file.
LEMMA Begun ==
  ASSUME NEW o \in {"read", "delete"}, NEW path \in Paths
  PROVE  /\ [Idle EXCEPT !.op = o, !.path = path] \in Task
         /\ [Idle EXCEPT !.op = o, !.path = path].op = o
         /\ [Idle EXCEPT !.op = o, !.path = path].path = path
BY DEF Idle, Task

LEMMA BegunWrite ==
  ASSUME NEW path \in Paths, NEW text \in Texts, NEW wide \in BOOLEAN
  PROVE  /\ [Idle EXCEPT !.op = "write", !.path = path, !.text = text, !.wide = wide] \in Task
         /\ [Idle EXCEPT !.op = "write", !.path = path, !.text = text, !.wide = wide].op = "write"
         /\ [Idle EXCEPT !.op = "write", !.path = path, !.text = text, !.wide = wide].path = path
         /\ [Idle EXCEPT !.op = "write", !.path = path, !.text = text, !.wide = wide].text = text
BY DEF Idle, Task

\* The call of a program becomes another one; the temporary files that are not
\* orphans afterwards are those of the writes still in hand.
LEMMA TaskMoves ==
  ASSUME FilesInv, NEW p \in Programs, NEW t \in Task, Becomes(p, t),
         t.op # "idle" => t.path \in Paths /\ Normalize(t.path) \in Places,
         t.op = "write" => t.text \in Texts,
         temps' \subseteq Temp,
         \A m \in temps' : m.orphan = TRUE \/ task'[m.owner].op = "write",
         files' \in [Places -> Held \cup {NoFile}]
  PROVE  FilesInv'
<1>1. task \in [Programs -> Task] /\ task' = [task EXCEPT ![p] = t]
  BY DEF FilesInv, FilesShape, Becomes
<1>2. task' \in [Programs -> Task] /\ task'[p] = t /\ \A x \in Programs : x # p => task'[x] = task[x]
  BY <1>1
<1>3. FilesShape'
  BY <1>2 DEF FilesShape
<1>4. InPlace'
  <2> SUFFICES ASSUME NEW x \in Programs, task'[x].op # "idle"
               PROVE  task'[x].path \in Paths /\ Normalize(task'[x].path) \in Places
    BY DEF InPlace
  <2>1. CASE x = p
    BY <1>2, <2>1
  <2>2. CASE x # p
    BY <1>2, <2>2 DEF FilesInv, InPlace
  <2> QED
    BY <2>1, <2>2
<1>5. Texted'
  BY <1>2 DEF FilesInv, Texted
<1>6. TempsOwned'
  BY DEF TempsOwned
<1> QED
  BY <1>3, <1>4, <1>5, <1>6 DEF FilesInv

\* The temporary files of the others; its own are no orphans only during its write.
LEMMA TempsStay ==
  ASSUME FilesInv, NEW p \in Programs, NEW t \in Task, Becomes(p, t),
         task[p].op # "write" \/ t.op = "write", UNCHANGED temps
  PROVE  temps' \subseteq Temp /\ \A m \in temps' : m.orphan = TRUE \/ task'[m.owner].op = "write"
<1>1. task \in [Programs -> Task] /\ task' = [task EXCEPT ![p] = t] /\ temps' = temps /\ temps \subseteq Temp
  BY DEF FilesInv, FilesShape, Becomes
<1>2. \A m \in temps : m.owner \in Programs
  BY <1>1 DEF Temp
<1>3. \A m \in temps : m.orphan = TRUE \/ task[m.owner].op = "write"
  BY DEF FilesInv, TempsOwned
<1>4. task'[p] = t /\ \A x \in Programs : x # p => task'[x] = task[x]
  BY <1>1
<1> QED
  BY <1>1, <1>2, <1>3, <1>4

LEMMA TempsUnlinked ==
  ASSUME FilesInv, NEW p \in Programs, NEW t \in Task, Becomes(p, t), Unlink(p)
  PROVE  temps' \subseteq Temp /\ \A m \in temps' : m.orphan = TRUE \/ task'[m.owner].op = "write"
<1>1. /\ task \in [Programs -> Task] /\ task' = [task EXCEPT ![p] = t] /\ temps \subseteq Temp
      /\ temps' = {m \in temps : m.owner # p \/ m.orphan}
  BY DEF FilesInv, FilesShape, Becomes, Unlink
<1>2. \A m \in temps : m.owner \in Programs /\ m.orphan \in BOOLEAN
  BY <1>1 DEF Temp
<1>3. \A m \in temps : m.orphan = TRUE \/ task[m.owner].op = "write"
  BY DEF FilesInv, TempsOwned
<1>4. \A x \in Programs : x # p => task'[x] = task[x]
  BY <1>1
<1>5. \A m \in temps' : m \in temps /\ (m.owner # p \/ m.orphan = TRUE)
  BY <1>1, <1>2
<1> QED
  BY <1>1, <1>2, <1>3, <1>4, <1>5

\* What a step leaves alone keeps its type.
LEMMA FilesTyped ==
  ASSUME FilesInv
  PROVE  /\ files \in [Places -> Held \cup {NoFile}] /\ temps \subseteq Temp
         /\ task \in [Programs -> Task]
         /\ \A p \in Programs : task[p] \in Task
BY DEF FilesInv, FilesShape

LEMMA WriteBeginsKeeps ==
  ASSUME FilesInv, NEW p \in Programs, WriteBegins(p)
  PROVE  FilesInv' /\ UNCHANGED <<files, stored, answer, meant>>
<1>1. PICK path \in Paths, text \in Texts, wide \in BOOLEAN, over \in Overrides :
        /\ Normalize(path) \in Places
        /\ \/ /\ OpenTemp(p, Normalize(path), [text |-> text, wide |-> wide, whole |-> TRUE])
              /\ Becomes(p, [Idle EXCEPT !.op = "write", !.path = path, !.text = text, !.wide = wide])
           \/ UNCHANGED <<files, temps, task>>
  BY DEF WriteBegins
<1>2. UNCHANGED <<files, stored, answer, meant>>
  BY <1>1 DEF WriteBegins, Answers, OpenTemp
<1>3. CASE UNCHANGED <<files, temps, task>>
  BY <1>2, <1>3 DEF FilesInv, FilesShape, InPlace, Texted, TempsOwned
<1>4. CASE /\ OpenTemp(p, Normalize(path), [text |-> text, wide |-> wide, whole |-> TRUE])
           /\ Becomes(p, [Idle EXCEPT !.op = "write", !.path = path, !.text = text, !.wide = wide])
  <2> DEFINE t == [Idle EXCEPT !.op = "write", !.path = path, !.text = text, !.wide = wide]
  <2> DEFINE new == [owner |-> p, at |-> Normalize(path), orphan |-> FALSE]
  <2>1. t \in Task /\ t.op = "write" /\ t.path = path /\ t.text = text
    BY DEF Idle, Task
  <2>2. t \in Task /\ t.op = "write" /\ t.path = path /\ t.text = text /\ Becomes(p, t)
    BY <1>4, <2>1
  <2>3. temps' = temps \cup {new} /\ new \in Temp /\ new.owner = p
    BY <1>1, <1>4 DEF OpenTemp, Temp
  <2> HIDE DEF t, new
  <2>4. /\ task \in [Programs -> Task] /\ task' = [task EXCEPT ![p] = t]
        /\ temps \subseteq Temp /\ \A m \in temps : m.owner \in Programs
    BY <2>2, FilesTyped DEF Becomes, Temp
  <2>5. task'[p] = t /\ \A x \in Programs : x # p => task'[x] = task[x]
    BY <2>4
  <2>6. \A m \in temps' : m.orphan = TRUE \/ task'[m.owner].op = "write"
    <3>1. \A m \in temps : m.orphan = TRUE \/ task[m.owner].op = "write"
      BY DEF FilesInv, TempsOwned
    <3> QED
      BY <2>2, <2>3, <2>4, <2>5, <3>1
  <2>7. temps' \subseteq Temp
    BY <2>3, <2>4
  <2>8. files' \in [Places -> Held \cup {NoFile}]
    BY <1>2, FilesTyped
  <2>9. /\ t.op # "idle" => t.path \in Paths /\ Normalize(t.path) \in Places
        /\ t.op = "write" => t.text \in Texts
    BY <1>1, <2>2
  <2>10. FilesInv'
    BY <2>2, <2>6, <2>7, <2>8, <2>9, TaskMoves
  <2> QED
    BY <1>2, <2>10
<1> QED
  BY <1>1, <1>2, <1>3, <1>4

LEMMA ReplacesKeeps ==
  ASSUME FilesInv, NEW p \in Programs, Replaces(p)
  PROVE  /\ FilesInv' /\ UNCHANGED <<answer, meant>>
         /\ \E c \in Held, l \in Places :
              files' = [files EXCEPT ![l] = c] /\ stored' = [stored EXCEPT ![l] = c]
<1> DEFINE c == [text |-> task[p].text, wide |-> task[p].wide, whole |-> TRUE]
<1> DEFINE t == [task[p] EXCEPT !.op = "replaced"]
<1>1. /\ task[p].op = "write" /\ files' = [files EXCEPT ![Place(p)] = c]
      /\ stored' = [stored EXCEPT ![Means(task[p].path)] = c] /\ Unlink(p) /\ Becomes(p, t)
      /\ UNCHANGED <<answer, meant>>
  BY DEF Replaces, In, Answers
<1>2. task[p] \in Task /\ task[p].path \in Paths /\ Normalize(task[p].path) \in Places
  BY <1>1, FilesTyped DEF FilesInv, InPlace
<1>3. Means(task[p].path) = Normalize(task[p].path)
  BY <1>2, MeantAsNamed
<1>4. PICK l \in Places : l = Normalize(task[p].path)
  BY <1>2
<1>5. /\ files' = [files EXCEPT ![l] = c]
      /\ stored' = [stored EXCEPT ![l] = c]
  BY <1>1, <1>3, <1>4 DEF Place
<1>6. t \in Task /\ t.op = "replaced" /\ t.path = task[p].path
  BY <1>2 DEF Task
<1>7. c \in Held
  <2>1. task[p].text \in Texts
    BY <1>1 DEF FilesInv, Texted
  <2> QED
    BY <1>2, <2>1 DEF Task, Held
<1> HIDE DEF c, t
<1>8. temps' \subseteq Temp /\ \A m \in temps' : m.orphan = TRUE \/ task'[m.owner].op = "write"
  BY <1>1, <1>6, TempsUnlinked
<1>9. files' \in [Places -> Held \cup {NoFile}]
  BY <1>1, <1>5, <1>7, FilesTyped
<1>10. t.op # "idle" => t.path \in Paths /\ Normalize(t.path) \in Places
  BY <1>2, <1>6
<1>11. FilesInv'
  BY <1>1, <1>6, <1>8, <1>9, <1>10, TaskMoves
<1> QED
  BY <1>1, <1>5, <1>7, <1>11

LEMMA DeleteEndsKeeps ==
  ASSUME FilesInv, NEW p \in Programs, DeleteEnds(p)
  PROVE  /\ FilesInv' /\ UNCHANGED <<answer, meant>>
         /\ \E l \in Places :
              files' = [files EXCEPT ![l] = NoFile] /\ stored' = [stored EXCEPT ![l] = NoFile]
<1>1. /\ task[p].op = "delete" /\ files' = [files EXCEPT ![Place(p)] = NoFile]
      /\ stored' = [stored EXCEPT ![Means(task[p].path)] = NoFile] /\ Becomes(p, Idle)
      /\ UNCHANGED <<answer, meant, temps>>
  BY DEF DeleteEnds, In, Answers
<1>2. task[p] \in Task /\ task[p].path \in Paths /\ Normalize(task[p].path) \in Places
  BY <1>1, FilesTyped DEF FilesInv, InPlace
<1>3. Means(task[p].path) = Normalize(task[p].path)
  BY <1>2, MeantAsNamed
<1>4. PICK l \in Places : l = Normalize(task[p].path)
  BY <1>2
<1>5. /\ files' = [files EXCEPT ![l] = NoFile]
      /\ stored' = [stored EXCEPT ![l] = NoFile]
  BY <1>1, <1>3, <1>4 DEF Place
<1>6. temps' \subseteq Temp /\ \A m \in temps' : m.orphan = TRUE \/ task'[m.owner].op = "write"
  BY <1>1, IdleTyped, TempsStay
<1>7. files' \in [Places -> Held \cup {NoFile}]
  BY <1>1, <1>5, FilesTyped
<1>8. FilesInv'
  BY <1>1, <1>6, <1>7, IdleTyped, TaskMoves
<1> QED
  BY <1>1, <1>5, <1>8

LEMMA ReadAnswersKeeps ==
  ASSUME FilesInv, NEW p \in Programs, ReadAnswers(p)
  PROVE  /\ FilesInv' /\ UNCHANGED <<files, stored>>
         /\ \/ UNCHANGED <<answer, meant>>
            \/ \E l \in Places :
                 answer' = [answer EXCEPT ![p] = files[l]] /\ meant' = [meant EXCEPT ![p] = stored[l]]
<1>1. task[p].op = "read" /\ Becomes(p, Idle) /\ UNCHANGED <<files, temps, stored>>
  BY DEF ReadAnswers, In
<1>2. \/ UNCHANGED <<answer, meant>>
      \/ /\ answer' = [answer EXCEPT ![p] = files[Place(p)]]
         /\ meant' = [meant EXCEPT ![p] = stored[Means(task[p].path)]]
  BY DEF ReadAnswers, Answers
<1>3. task[p].path \in Paths /\ Normalize(task[p].path) \in Places
  BY <1>1 DEF FilesInv, InPlace
<1>4. PICK l \in Places : l = Place(p) /\ l = Means(task[p].path)
  BY <1>3, MeantAsNamed DEF Place
<1>5. \/ UNCHANGED <<answer, meant>>
      \/ answer' = [answer EXCEPT ![p] = files[l]] /\ meant' = [meant EXCEPT ![p] = stored[l]]
  BY <1>2, <1>4
<1>6. temps' \subseteq Temp /\ \A m \in temps' : m.orphan = TRUE \/ task'[m.owner].op = "write"
  BY <1>1, IdleTyped, TempsStay
<1>7. files' \in [Places -> Held \cup {NoFile}]
  BY <1>1, <1>5, FilesTyped
<1>8. FilesInv'
  BY <1>1, <1>6, <1>7, IdleTyped, TaskMoves
<1> QED
  BY <1>1, <1>5, <1>8

\* A call that is checked, fails, is answered or is killed leaves files and answers.
LEMMA AroundCallKeeps ==
  ASSUME FilesInv, NEW p \in Programs,
         WriteFails(p) \/ WriteAnswers(p) \/ ReadBegins(p) \/ DeleteBegins(p) \/ Killed(p)
  PROVE  FilesInv' /\ UNCHANGED <<files, stored, answer, meant>>
<1>1. UNCHANGED <<files, stored, answer, meant>>
  BY DEF WriteFails, WriteAnswers, ReadBegins, DeleteBegins, Killed, Answers
<1>2. files' \in [Places -> Held \cup {NoFile}]
  BY <1>1, FilesTyped
<1>3. CASE WriteFails(p)
  <2>1. Becomes(p, Idle) /\ Unlink(p)
    BY <1>3 DEF WriteFails
  <2>2. temps' \subseteq Temp /\ \A m \in temps' : m.orphan = TRUE \/ task'[m.owner].op = "write"
    BY <2>1, IdleTyped, TempsUnlinked
  <2> QED
    BY <1>1, <1>2, <2>1, <2>2, IdleTyped, TaskMoves
<1>4. CASE WriteAnswers(p)
  <2>1. Becomes(p, Idle) /\ UNCHANGED temps /\ task[p].op # "write"
    BY <1>4 DEF WriteAnswers, In
  <2>2. temps' \subseteq Temp /\ \A m \in temps' : m.orphan = TRUE \/ task'[m.owner].op = "write"
    BY <2>1, IdleTyped, TempsStay
  <2> QED
    BY <1>1, <1>2, <2>1, <2>2, IdleTyped, TaskMoves
<1>5. CASE ReadBegins(p) \/ DeleteBegins(p)
  <2>1. PICK o \in {"read", "delete"}, path \in Paths :
          Exists(Normalize(path)) /\ Becomes(p, [Idle EXCEPT !.op = o, !.path = path])
    BY <1>5 DEF ReadBegins, DeleteBegins
  <2>2. UNCHANGED temps /\ task[p].op # "write"
    BY <1>5, IdleTyped DEF ReadBegins, DeleteBegins, FileCall
  <2> DEFINE t == [Idle EXCEPT !.op = o, !.path = path]
  <2>3. t \in Task /\ t.op = o /\ t.path = path /\ Becomes(p, t)
    BY <2>1, Begun
  <2>4. Normalize(path) \in Places
    BY <2>1 DEF Exists
  <2> HIDE DEF t
  <2>5. temps' \subseteq Temp /\ \A m \in temps' : m.orphan = TRUE \/ task'[m.owner].op = "write"
    BY <2>2, <2>3, TempsStay
  <2>6. t.op # "idle" => t.path \in Paths /\ Normalize(t.path) \in Places
    BY <2>3, <2>4
  <2>7. FilesInv'
    BY <1>2, <2>3, <2>5, <2>6, TaskMoves
  <2> QED
    BY <1>1, <2>7
<1>6. CASE Killed(p)
  <2>1. /\ Becomes(p, Idle) /\ task' = [task EXCEPT ![p] = Idle]
        /\ temps' = {[t EXCEPT !.orphan = t.orphan \/ t.owner = p] : t \in temps}
    BY <1>6 DEF Killed, Becomes
  <2>2. \A m \in temps' : m \in Temp /\ (m.orphan = TRUE \/ task'[m.owner].op = "write")
    <3> SUFFICES ASSUME NEW t \in temps, NEW m, m = [t EXCEPT !.orphan = t.orphan \/ t.owner = p]
                 PROVE  m \in Temp /\ (m.orphan = TRUE \/ task'[m.owner].op = "write")
      BY <2>1
    <3>1. t \in Temp /\ task \in [Programs -> Task]
      BY FilesTyped
    <3>2. t.owner \in Programs /\ t.orphan \in BOOLEAN
      BY <3>1 DEF Temp
    <3>3. PICK b \in BOOLEAN : b = (t.orphan \/ t.owner = p)
      BY <3>2
    <3>4. m = [t EXCEPT !.orphan = b]
      BY <3>3
    <3>5. m \in Temp /\ m.owner = t.owner /\ m.orphan = b
      BY <3>1, <3>4 DEF Temp
    <3>6. CASE b = TRUE
      BY <3>5, <3>6
    <3>7. CASE b = FALSE
      <4>1. t.orphan # TRUE /\ t.owner # p
        BY <3>3, <3>7
      <4>2. task[t.owner].op = "write"
        BY <4>1 DEF FilesInv, TempsOwned
      <4> QED
        BY <2>1, <3>1, <3>2, <3>5, <4>1, <4>2
    <3> QED
      BY <3>6, <3>7
  <2>3. temps' \subseteq Temp /\ \A m \in temps' : m.orphan = TRUE \/ task'[m.owner].op = "write"
    BY <2>2
  <2> QED
    BY <1>1, <1>2, <2>1, <2>3, IdleTyped, TaskMoves
<1> QED
  BY <1>3, <1>4, <1>5, <1>6

LEMMA FilesStart == FilesInit => FilesInv
<1> SUFFICES ASSUME FilesInit PROVE FilesInv
  OBVIOUS
<1>1. FilesShape
  BY IdleTyped DEF FilesInit, FilesShape
<1>2. InPlace /\ Texted /\ TempsOwned
  BY IdleTyped DEF FilesInit, InPlace, Texted, TempsOwned
<1> QED
  BY <1>1, <1>2 DEF FilesInv

LEMMA FilesSteps == FilesInv /\ [FilesNext]_fileVars => FilesInv'
<1> SUFFICES ASSUME FilesInv, [FilesNext]_fileVars PROVE FilesInv'
  OBVIOUS
<1>1. CASE UNCHANGED fileVars
  BY <1>1 DEF fileVars, FilesInv, FilesShape, InPlace, Texted, TempsOwned
<1> QED
  BY <1>1, WriteBeginsKeeps, AroundCallKeeps, ReplacesKeeps, DeleteEndsKeeps, ReadAnswersKeeps
     DEF FilesNext

LEMMA TextsSteps ==
  FilesInv /\ TextsInv /\ [FilesNext]_fileVars => TextsInv'
<1> SUFFICES ASSUME FilesInv, TextsInv, [FilesNext]_fileVars PROVE TextsInv'
  OBVIOUS
<1>1. /\ files \in [Places -> Held \cup {NoFile}] /\ stored \in [Places -> Held \cup {NoFile}]
      /\ answer \in [Programs -> Held \cup {NoFile}] /\ meant \in [Programs -> Held \cup {NoFile}]
  BY FilesTyped DEF TextsInv, HistoriesShape
<1>2. CASE UNCHANGED <<files, stored, answer, meant>>
  BY <1>2 DEF TextsInv, HistoriesShape, WholeTexts
<1>3. CASE UNCHANGED fileVars
  BY <1>2, <1>3 DEF fileVars
<1>4. ASSUME NEW p \in Programs,
             \/ WriteBegins(p) \/ WriteFails(p) \/ WriteAnswers(p)
             \/ ReadBegins(p) \/ DeleteBegins(p) \/ Killed(p)
      PROVE  TextsInv'
  BY <1>2, <1>4, WriteBeginsKeeps, AroundCallKeeps
<1>5. ASSUME NEW p \in Programs, Replaces(p) \/ DeleteEnds(p) PROVE TextsInv'
  <2>1. PICK c \in Held \cup {NoFile}, l \in Places :
          files' = [files EXCEPT ![l] = c] /\ stored' = [stored EXCEPT ![l] = c]
    BY <1>5, ReplacesKeeps, DeleteEndsKeeps
  <2>2. UNCHANGED <<answer, meant>>
    BY <1>5, ReplacesKeeps, DeleteEndsKeeps
  <2> QED
    BY <1>1, <2>1, <2>2 DEF TextsInv, HistoriesShape, WholeTexts
<1>6. ASSUME NEW p \in Programs, ReadAnswers(p) PROVE TextsInv'
  <2>1. UNCHANGED <<files, stored>>
    BY <1>6, ReadAnswersKeeps
  <2>2. ASSUME NEW l \in Places,
               answer' = [answer EXCEPT ![p] = files[l]], meant' = [meant EXCEPT ![p] = stored[l]]
        PROVE  TextsInv'
    <3>1. files[l] = stored[l] /\ files[l] \in Held \cup {NoFile}
      BY <1>1 DEF TextsInv, WholeTexts
    <3> QED
      BY <1>1, <2>1, <2>2, <3>1 DEF TextsInv, HistoriesShape, WholeTexts
  <2> QED
    BY <1>2, <1>6, <2>1, <2>2, ReadAnswersKeeps
<1> QED
  BY <1>3, <1>4, <1>5, <1>6 DEF FilesNext

\* Each file holds whole the text last written to it, and a read returns that text,
\* whatever the paths in the calls, through kills, errors and the calls of other
\* programs (mkstemp and os.replace in write_text_file, read_text_file, delete).
THEOREM TextsWhole == FilesSpec => []WholeTexts
<1>1. FilesInit => TextsInv
  BY DEF FilesInit, TextsInv, HistoriesShape, WholeTexts
<1>2. FilesInv /\ TextsInv /\ [FilesNext]_fileVars => TextsInv'
  BY TextsSteps
<1>3. TextsInv => WholeTexts
  BY DEF TextsInv
<1> QED
  BY <1>1, <1>2, <1>3, FilesStart, FilesSteps, PTL DEF FilesSpec

\* The workspace keeps its types: calls are of paths in use and put files and temporary
\* files at places of the workspace only, and only names without an extension become
\* directories (write_text_file).
THEOREM WorkspaceTyped == FilesSpec => []FilesTypeOK
<1> DEFINE D == dirs \subseteq Dirs /\ fileCalls \in 0 .. MaxFileCalls
<1>1. FilesInit => D /\ TextsInv
  BY FilesAssumption DEF FilesInit, TextsInv, HistoriesShape, WholeTexts
<1>2. D /\ [FilesNext]_fileVars => D'
  <2> SUFFICES ASSUME D, [FilesNext]_fileVars PROVE D'
    OBVIOUS
  <2>1. CASE UNCHANGED fileVars
    BY <2>1 DEF fileVars
  <2>2. ASSUME NEW p \in Programs, FileCall(p) PROVE fileCalls' \in 0 .. MaxFileCalls
    BY <2>2, FilesAssumption DEF FileCall
  <2>3. ASSUME NEW p \in Programs, WriteBegins(p) PROVE D'
    <3>1. PICK place \in Places : dirs' = dirs \cup {place[i] : i \in 1 .. Len(place) - 1}
      BY <2>3 DEF WriteBegins
    <3>2. ASSUME NEW i \in 1 .. Len(place) - 1 PROVE place[i] \in Dirs
      <4>1. CASE \E n \in Names : place = <<n>>
        BY <4>1
      <4>2. ASSUME NEW d \in Dirs, NEW n \in Names, place = <<d, n>> PROVE place[i] \in Dirs
        BY <4>2
      <4> QED
        BY <4>1, <4>2 DEF Places
    <3> QED
      BY <2>2, <2>3, <3>1, <3>2 DEF WriteBegins
  <2>4. ASSUME NEW p \in Programs, ReadBegins(p) \/ DeleteBegins(p) PROVE D'
    BY <2>2, <2>4 DEF ReadBegins, DeleteBegins
  <2>5. ASSUME NEW p \in Programs,
               \/ Replaces(p) \/ WriteFails(p) \/ WriteAnswers(p)
               \/ ReadAnswers(p) \/ DeleteEnds(p) \/ Killed(p)
        PROVE  D'
    BY <2>5 DEF Replaces, WriteFails, WriteAnswers, ReadAnswers, DeleteEnds, Killed, In
  <2> QED
    BY <2>1, <2>3, <2>4, <2>5 DEF FilesNext
<1>3. FilesInv /\ TextsInv /\ D => FilesTypeOK
  BY DEF FilesInv, FilesShape, TextsInv, HistoriesShape, FilesTypeOK, Task, Temp
<1> QED
  BY <1>1, <1>2, <1>3, FilesStart, FilesSteps, TextsSteps, PTL DEF FilesSpec

\* A temporary file stays only if the program was killed while it wrote (the unlink in
\* write_text_file's finally).
THEOREM OnlyOrphansStay == FilesSpec => []NoLitter
<1>1. FilesInv => NoLitter
  BY DEF FilesInv, TempsOwned, NoLitter
<1> QED
  BY <1>1, FilesStart, FilesSteps, PTL DEF FilesSpec
=============================================================================
