---------------------------- MODULE ContextWindow ----------------------------
(***************************************************************************)
(* What the model is shown of a thread (agent/context_builder.py): the     *)
(* system prompt with the memory cards and the transcript of the thread,   *)
(* the newest of the stored messages that fit beside it, and the message   *)
(* of the user.  The message was stored before the context is built, so it *)
(* ends the transcript and the stored messages too.                        *)
(*                                                                         *)
(* A text is its estimate in tokens, which is at least one.                *)
(***************************************************************************)
EXTENDS Integers, SequencesExt, FiniteSetsExt

CONSTANTS
  Sizes,          \* estimates of a text
  Available,      \* tokens of the window less those reserved for the answer
  PromptSize,     \* the parts of the system prompt that do not grow
  HeaderSize,     \* the lines that name the thread and the prompt
  MaxMessages,    \* MEMORY_CONTEXT_MAX_MESSAGES
  MaxItems,       \* MEMORY_CONTEXT_MAX_ITEMS
  MaxStored,      \* bound: messages of the thread
  MaxCards        \* bound: cards of the thread

ASSUME ContextAssumption ==
  /\ Sizes \subseteq Nat \ {0}
  /\ {Available, PromptSize, HeaderSize, MaxStored, MaxCards} \subseteq Nat
  /\ {MaxMessages, MaxItems} \subseteq Nat \ {0}

VARIABLES
  history,  \* the stored messages of the thread, oldest first
  cards,    \* its memory cards, oldest first
  shown     \* the messages of the last request to the model

contextVars == <<history, cards, shown>>

StoredMessage == [from : {"user", "assistant"}, id : 1 .. MaxStored, size : Sizes]
Card == [wanted : BOOLEAN, size : Sizes]

ContextTypeOK ==
  /\ history \in Seq(StoredMessage)
  /\ cards \in Seq(Card)
  /\ shown # <<>> =>
       shown \in [prompt : Int, budget : Int, messages : Seq(StoredMessage), user : StoredMessage]

ContextInit == history = <<>> /\ cards = <<>> /\ shown = <<>>

SizeOf(texts) ==
  LET sum[i \in 0 .. Len(texts)] == IF i = 0 THEN 0 ELSE sum[i - 1] + texts[i].size
  IN sum[Len(texts)]

\* get_recent_messages.
LastOf(messages) == SubSeq(messages, Max({1, Len(messages) - MaxMessages + 1}), Len(messages))

\* _get_relevant_memories: the request names no words to look for, so that the
\* cards of preferences and project settings come first, then the newest.
Before(c, d) ==
  (cards[c].wanted /\ ~cards[d].wanted) \/ (cards[c].wanted = cards[d].wanted /\ c > d)
Relevant(c) == Cardinality({d \in DOMAIN cards : Before(d, c)}) < MaxItems
InPrompt == [c \in DOMAIN cards |-> IF Relevant(c) THEN cards[c] ELSE [cards[c] EXCEPT !.size = 0]]

\* The system prompt holds the whole transcript, whatever its length; a persona
\* that cannot be resolved leaves neither cards nor transcript in it.
SystemSize(transcript, resolved) ==
  IF resolved
  THEN PromptSize + SizeOf(transcript) + SizeOf(InPrompt)
  ELSE PromptSize

\* Mutant of Take: a message that does not fit is left out and older ones taken.
TakeSmaller(m, kept) ==
  IF m.size > kept.left THEN kept
  ELSE [kept EXCEPT !.left = @ - m.size, !.messages = <<m>> \o @]

\* _truncate_messages, from the newest back, up to the first that does not fit.
Take(m, kept) ==
  IF kept.full \/ m.size > kept.left
  THEN [kept EXCEPT !.full = TRUE]
  ELSE [kept EXCEPT !.left = @ - m.size, !.messages = <<m>> \o @]
Truncate(messages, budget) ==
  LET kept[i \in 0 .. Len(messages)] ==
        IF i = 0 THEN [left |-> budget, full |-> FALSE, messages |-> <<>>]
        ELSE Take(messages[Len(messages) - i + 1], kept[i - 1])
  IN kept[Len(messages)].messages

\* build_with_user_message: the user's message is appended, fit or not.
Built(stored, resolved) ==
  LET transcript == LastOf(stored)
      budget == Available - SystemSize(transcript, resolved) - HeaderSize
  IN [prompt |-> SystemSize(transcript, resolved), budget |-> budget,
      messages |-> Truncate(transcript, budget), user |-> Last(stored)]

Store(from, n) == Append(history, [from |-> from, id |-> Len(history) + 1, size |-> n])

\* A chat job: the message is stored, then the context is built.
Ask(n, resolved) ==
  /\ Len(history) < MaxStored
  /\ history' = Store("user", n)
  /\ shown' = Built(history', resolved)
  /\ UNCHANGED cards

\* The answer is stored at the end of the run.
Reply(n) ==
  /\ Len(history) < MaxStored /\ shown # <<>>
  /\ history' = Store("assistant", n)
  /\ UNCHANGED <<cards, shown>>

AddCard(wanted, n) ==
  /\ Len(cards) < MaxCards
  /\ cards' = Append(cards, [wanted |-> wanted, size |-> n])
  /\ UNCHANGED <<history, shown>>

ContextNext ==
  \E n \in Sizes :
    \/ \E resolved \in BOOLEAN : Ask(n, resolved)
    \/ Reply(n)
    \/ \E wanted \in BOOLEAN : AddCard(wanted, n)

ContextSpec == ContextInit /\ [][ContextNext]_contextVars

-----------------------------------------------------------------------------
Fits(messages, budget) == messages = <<>> \/ SizeOf(messages) <= budget

\* The conversation the model is shown has no gap: the stored messages in the
\* request are the newest ones, in their order, and as many as fit.
ShownWithoutGap ==
  shown # <<>> =>
    LET stored == SubSeq(history, 1, shown.user.id)
        taken == Len(shown.messages)
        Newest(k) == SubSeq(stored, Len(stored) - k + 1, Len(stored))
    IN /\ shown.messages = Newest(taken) /\ Fits(shown.messages, shown.budget)
       /\ \A k \in taken + 1 .. Len(LastOf(stored)) : ~Fits(Newest(k), shown.budget)
=============================================================================
