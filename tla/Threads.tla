------------------------------- MODULE Threads -------------------------------
(***************************************************************************)
(* The threads of a chat and what is remembered in them: ThreadStore and   *)
(* ThreadState (app/memory/thread_store.py, thread_state.py), the cards of *)
(* MemoryStoreV15, the extraction from a message (extractor.py), the part  *)
(* of AgentRuntime that writes both (app/agent/runtime.py) and the commands*)
(* /thread, /memory, /mode and /soul (app/interfaces/telegram_commands.py).*)
(*                                                                         *)
(* All of these are synchronous, so each is one step of the event loop.    *)
(* Commands come between the attempts of a job and while it awaits the     *)
(* model.  A job is a user message; what it asks to remember is one key,   *)
(* with the job itself as the value.                                       *)
(***************************************************************************)
EXTENDS Integers, Sequences, FiniteSets

CONSTANTS
  Chats,
  Jobs,
  ChatOf,       \* [Jobs -> Chats]
  KeyOf,        \* [Jobs -> Keys \cup {NoKey}], the candidate in the message
  Keys, NoKey,
  Modes, DefaultMode,
  ThreadAttempts,  \* Job.max_attempts
  MaxThreads,   \* bound: threads ever created
  MaxCommands   \* bound: commands that change something

ASSUME ThreadsAssumption ==
  /\ ChatOf \in [Jobs -> Chats]
  /\ NoKey \notin Keys /\ KeyOf \in [Jobs -> Keys \cup {NoKey}]
  /\ DefaultMode \in Modes
  /\ ThreadAttempts \in Nat \ {0} /\ {MaxThreads, MaxCommands} \subseteq Nat

VARIABLES
  threads,   \* the table of threads, in the order of their creation
  jobs,      \* where each job is, its thread_id (0 for None), its attempts
  said,      \* [Jobs -> the messages it put into the transcripts]
  cards,     \* rows of memory_items
  told,      \* history: the last value extracted and not forgotten since
  commands   \* counts commands, for the bound

threadVars == <<threads, jobs, said, cards, told, commands>>

Ids == 1 .. MaxThreads
Persona == [mode : Modes, locked : BOOLEAN, soul : BOOLEAN]

ThreadsTypeOK ==
  /\ threads \in Seq([chat : Chats, active : BOOLEAN, memory : BOOLEAN, persona : Persona])
  /\ Len(threads) <= MaxThreads
  /\ jobs \in [Jobs -> [at : {"queued", "model", "done", "dead"},
                        thread : 0 .. MaxThreads, attempts : 1 .. ThreadAttempts]]
  /\ said \in [Jobs -> Seq([thread : Ids, role : {"user", "assistant"}])]
  /\ cards \subseteq [thread : Ids, key : Keys, value : Jobs, deleted : BOOLEAN]
  /\ told \in [Ids \X Keys -> SUBSET Jobs]
  /\ commands \in 0 .. MaxCommands

ThreadsInit ==
  /\ threads = <<>>
  /\ jobs = [j \in Jobs |-> [at |-> "queued", thread |-> 0, attempts |-> 1]]
  /\ said = [j \in Jobs |-> <<>>]
  /\ cards = {}
  /\ told = [tk \in Ids \X Keys |-> {}]
  /\ commands = 0

-----------------------------------------------------------------------------
\* ThreadStore: each operator is the table after the call.
ActiveOf(c) == {t \in DOMAIN threads : threads[t].chat = c /\ threads[t].active}
HasCurrent(c) == ActiveOf(c) # {}
\* The active thread used last: there is at most one (AtMostOneActive).
Current(c) == CHOOSE t \in ActiveOf(c) : TRUE

\* The bulk UPDATE of is_active, which leaves loaded objects as they are.
Deactivate(c) ==
  [t \in DOMAIN threads |-> [threads[t] EXCEPT !.active = @ /\ threads[t].chat # c]]

CreateThread(c) ==
  Append(Deactivate(c),
         [chat |-> c, active |-> TRUE, memory |-> TRUE,
          persona |-> [mode |-> DefaultMode, locked |-> FALSE, soul |-> FALSE]])

\* The object read before the UPDATE already has is_active when u is the current
\* thread: assigning True changes nothing and is not written.
SetActiveThread(c, u) ==
  [Deactivate(c) EXCEPT ![u].active = ~threads[u].active]

Creates == Len(threads) < MaxThreads

\* resolve_thread(c, ref), ref 0 for None, gives t.  A reference to a thread of
\* another chat raises.
Resolve(c, ref, t) ==
  \/ ref # 0 /\ threads[ref].chat = c /\ t = ref /\ threads' = SetActiveThread(c, ref)
  \/ ref = 0 /\ HasCurrent(c) /\ t = Current(c) /\ UNCHANGED threads
  \/ ref = 0 /\ ~HasCurrent(c) /\ Creates /\ t = Len(threads) + 1 /\ threads' = CreateThread(c)

-----------------------------------------------------------------------------
\* Mutant of Upsert: the query finds a forgotten card as well.
UpsertForgotten(t, k, v) ==
  LET same == {c \in cards : c.thread = t /\ c.key = k}
  IN IF same # {}
     THEN (cards \ same) \cup {[c EXCEPT !.value = v] : c \in same}
     ELSE cards \cup {[thread |-> t, key |-> k, value |-> v, deleted |-> FALSE]}

\* upsert_memory: the live card of the key gets the value, or a new card does.
Upsert(t, k, v) ==
  LET same == {c \in cards : c.thread = t /\ c.key = k /\ ~c.deleted}
  IN (cards \ same) \cup {[thread |-> t, key |-> k, value |-> v, deleted |-> FALSE]}

\* process_user_message, on the thread as resolve_thread left it: paused and
\* not eligible messages leave the cards alone.
Remembers(j, t) == threads'[t].memory /\ KeyOf[j] # NoKey

\* A message may also be blocked, and a write that fails is only logged.
Extract(j, t) ==
  \/ UNCHANGED <<cards, told>>
  \/ /\ Remembers(j, t)
     /\ cards' = Upsert(t, KeyOf[j], j)
     /\ told' = [told EXCEPT ![<<t, KeyOf[j]>>] = {j}]

\* What the attempt comes to before the model is asked: an exception outside
\* the tries (persona, context, tools) is a failed attempt of the pool, which
\* keeps the thread_id (increment_attempts) for the next.
Proceed(j, t) ==
  \/ jobs' = [jobs EXCEPT ![j] = [@ EXCEPT !.at = "model", !.thread = t]]
  \/ /\ jobs[j].attempts < ThreadAttempts
     /\ jobs' = [jobs EXCEPT ![j] = [@ EXCEPT !.thread = t, !.attempts = jobs[j].attempts + 1]]
  \/ /\ jobs[j].attempts = ThreadAttempts
     /\ jobs' = [jobs EXCEPT ![j] = [@ EXCEPT !.at = "dead", !.thread = t]]

\* The chat lock: one job of a chat at a time.
Free(c) == \A j \in Jobs : ChatOf[j] = c => jobs[j].at # "model"

\* _persist_user_message and _trigger_memory_extraction.
PersistAndExtract(j) ==
  /\ jobs[j].at = "queued"
  /\ Free(ChatOf[j])
  /\ \E t \in Ids :
       /\ Resolve(ChatOf[j], jobs[j].thread, t)
       /\ said' = [said EXCEPT ![j] = Append(@, [thread |-> t, role |-> "user"])]
       /\ Extract(j, t)
       /\ Proceed(j, t)
  /\ UNCHANGED commands

\* The same with an error before the message is stored: the job goes on without,
\* whether or not the thread was resolved.
PersistUserFails(j) ==
  /\ jobs[j].at = "queued"
  /\ Free(ChatOf[j])
  /\ \/ UNCHANGED threads
     \/ \E t \in Ids : Resolve(ChatOf[j], jobs[j].thread, t)
  /\ Proceed(j, jobs[j].thread)
  /\ UNCHANGED <<said, cards, told, commands>>

\* Mutant of AnswerThread: the answer goes where the user is now.
AnswerThreadCurrent(j) == IF HasCurrent(ChatOf[j]) THEN Current(ChatOf[j]) ELSE 0

\* _persist_assistant_message: the thread of the job, or else the current one.
AnswerThread(j) ==
  IF jobs[j].thread # 0 THEN jobs[j].thread
  ELSE IF HasCurrent(ChatOf[j]) THEN Current(ChatOf[j]) ELSE 0

\* The answer is stored unless there is no thread or the write fails.
Answer(j) ==
  /\ jobs[j].at = "model"
  /\ jobs' = [jobs EXCEPT ![j].at = "done"]
  /\ \/ UNCHANGED said
     \/ /\ AnswerThread(j) # 0
        /\ said' = [said EXCEPT ![j] =
                      Append(@, [thread |-> AnswerThread(j), role |-> "assistant"])]
  /\ UNCHANGED <<threads, cards, told, commands>>

-----------------------------------------------------------------------------
\* The commands of a chat.
Command == commands < MaxCommands /\ commands' = commands + 1
onlyThreads == <<jobs, said, cards, told>>

NewThread(c) ==
  /\ Command
  /\ Creates
  /\ threads' = CreateThread(c)
  /\ UNCHANGED onlyThreads

UseThread(c, t) ==
  /\ Command
  /\ t \in DOMAIN threads
  /\ threads[t].chat = c
  /\ threads' = SetActiveThread(c, t)
  /\ UNCHANGED onlyThreads

\* /memory pause and resume; without a current thread they answer an error.
SetMemory(c, enabled) ==
  /\ Command
  /\ HasCurrent(c)
  /\ threads' = [threads EXCEPT ![Current(c)].memory = enabled]
  /\ UNCHANGED onlyThreads

\* /memory forget, with a card of the current thread.
Forget(c, card) ==
  /\ Command
  /\ HasCurrent(c)
  /\ card \in cards
  /\ card.thread = Current(c)
  /\ ~card.deleted
  /\ cards' = (cards \ {card}) \cup {[card EXCEPT !.deleted = TRUE]}
  /\ told' = [told EXCEPT ![<<card.thread, card.key>>] = {}]
  /\ UNCHANGED <<threads, jobs, said>>

\* /mode and /soul create a thread when there is none.
OnCurrent(c, Change(_)) ==
  /\ Command
  /\ \/ HasCurrent(c) /\ threads' = [threads EXCEPT ![Current(c)].persona = Change(@)]
     \/ /\ ~HasCurrent(c)
        /\ Creates
        /\ threads' = [CreateThread(c) EXCEPT ![Len(threads) + 1].persona = Change(@)]
  /\ UNCHANGED onlyThreads

SetMode(c, m) ==
  OnCurrent(c, LAMBDA p : IF p.locked THEN p ELSE [p EXCEPT !.mode = m])
SetModeLock(c, locked) == OnCurrent(c, LAMBDA p : [p EXCEPT !.locked = locked])
SetSoul(c) == OnCurrent(c, LAMBDA p : [p EXCEPT !.soul = TRUE])

ThreadsNext ==
  \/ \E j \in Jobs : PersistAndExtract(j) \/ PersistUserFails(j) \/ Answer(j)
  \/ \E c \in Chats :
       \/ NewThread(c)
       \/ \E t \in Ids : UseThread(c, t)
       \/ \E enabled \in BOOLEAN : SetMemory(c, enabled) \/ SetModeLock(c, enabled)
       \/ \E card \in cards : Forget(c, card)
       \/ \E m \in Modes : SetMode(c, m)
       \/ SetSoul(c)

ThreadsSpec == ThreadsInit /\ [][ThreadsNext]_threadVars

-----------------------------------------------------------------------------
\* Whatever the user does between the attempts of a job and while the model
\* works on it, everything the job puts into transcripts is in one thread, and
\* in a thread of its own chat.
JobStaysInThread ==
  \A j \in Jobs : \A i \in DOMAIN said[j] :
    /\ said[j][i].thread = said[j][1].thread
    /\ threads[said[j][i].thread].chat = ChatOf[j]

\* A thread shows, for each key, exactly what was last extracted for it and not
\* forgotten since: nothing twice, nothing forgotten, nothing older.
CardsCurrent ==
  \A t \in Ids, k \in Keys :
    {c.value : c \in {d \in cards : d.thread = t /\ d.key = k /\ ~d.deleted}} = told[<<t, k>>]

\* A chat never has two active threads.
AtMostOneActive == \A c \in Chats : Cardinality(ActiveOf(c)) <= 1

\* A chat with threads has exactly one active thread (thread_store.py:140).
ExactlyOneActive ==
  \A c \in Chats :
    (\E t \in DOMAIN threads : threads[t].chat = c) => Cardinality(ActiveOf(c)) = 1
=============================================================================
