---------------------------- MODULE MessageSplit ----------------------------
(***************************************************************************)
(* How the Telegram sender sends one text (send_message, _split_message and*)
(* _find_split_point, app/interfaces/telegram_sender.py): a text within the*)
(* limit as it is, a longer one in chunks cut at a paragraph, a line or a  *)
(* word, with the blanks at the cut removed.  The initial states are all   *)
(* texts up to a length; Outbound says what becomes of the chunks.         *)
(***************************************************************************)
EXTENDS Integers, Sequences, SequencesExt, FiniteSetsExt

CONSTANTS
  Limit,    \* MAX_MESSAGE_LENGTH
  MaxText   \* bound: length of the texts

ASSUME SplitAssumption == Limit \in Nat \ {0} /\ MaxText \in Nat

\* What the code tells apart in a text: a letter, a space and a newline.
Characters == {"x", " ", "\n"}
Blank(c) == c # "x"

VARIABLES
  text,       \* the text without its profile envelope
  remaining,  \* what is still to be cut
  chunks,     \* what was cut
  begins,     \* history: how many characters of the text precede each chunk
  sending     \* "new", "cutting", "skipped" or "cut"

splitVars == <<text, remaining, chunks, begins, sending>>

SplitTypeOK ==
  /\ {text, remaining} \subseteq BoundedSeq(Characters, MaxText)
  /\ chunks \in Seq(BoundedSeq(Characters, Limit))
  /\ begins \in Seq(Nat)
  /\ sending \in {"new", "cutting", "skipped", "cut"}

SplitInit ==
  /\ text \in BoundedSeq(Characters, MaxText)
  /\ remaining = <<>> /\ chunks = <<>> /\ begins = <<>> /\ sending = "new"

Visible(s) == {i \in DOMAIN s : ~Blank(s[i])}
\* str.lstrip and str.rstrip.
LStrip(s) == IF Visible(s) = {} THEN <<>> ELSE SubSeq(s, Min(Visible(s)), Len(s))
RStrip(s) == IF Visible(s) = {} THEN <<>> ELSE SubSeq(s, 1, Max(Visible(s)))

\* str.rfind in the first Limit characters: how many precede the last
\* occurrence, -1 without one.
RFind(s, sub) ==
  LET found == {i \in 0 .. Limit - Len(sub) : SubSeq(s, i + 1, i + Len(sub)) = sub}
  IN IF found = {} THEN -1 ELSE Max(found)

\* Mutant of FindSplitPoint: a break is taken wherever it is.
FindSplitPointAnywhere(s) == RFind(s, <<" ">>) + 1

\* A break in the first half of the limit is no good.
CutAfter(s, sub) == IF RFind(s, sub) > Limit \div 2 THEN RFind(s, sub) + Len(sub) ELSE 0

FindSplitPoint(s) ==
  LET cuts == <<CutAfter(s, <<"\n", "\n">>), CutAfter(s, <<"\n">>), CutAfter(s, <<" ">>), Limit>>
  IN cuts[Min({i \in DOMAIN cuts : cuts[i] > 0})]

-----------------------------------------------------------------------------
\* send_message: an empty text is not sent at all.
SendMessage ==
  /\ sending = "new"
  /\ UNCHANGED text
  /\ IF Visible(text) = {} THEN sending' = "skipped" /\ UNCHANGED <<remaining, chunks, begins>>
     ELSE IF Len(text) <= Limit
     THEN sending' = "cut" /\ chunks' = <<text>> /\ begins' = <<0>> /\ UNCHANGED remaining
     ELSE sending' = "cutting" /\ remaining' = text /\ UNCHANGED <<chunks, begins>>

\* One round of the loop of _split_message.
SplitMessage ==
  /\ sending = "cutting" /\ remaining # <<>>
  /\ UNCHANGED text
  /\ begins' = Append(begins, Len(text) - Len(remaining))
  /\ IF Len(remaining) <= Limit
     THEN /\ chunks' = Append(chunks, remaining)
          /\ remaining' = <<>>
          /\ sending' = "cut"
     ELSE LET point == FindSplitPoint(remaining) IN
          /\ chunks' = Append(chunks, RStrip(SubSeq(remaining, 1, point)))
          /\ remaining' = LStrip(SubSeq(remaining, point + 1, Len(remaining)))
          /\ UNCHANGED sending

NothingLeft ==
  /\ sending = "cutting" /\ remaining = <<>>
  /\ sending' = "cut"
  /\ UNCHANGED <<text, remaining, chunks, begins>>

SplitNext == SendMessage \/ SplitMessage \/ NothingLeft

SplitSpec == SplitInit /\ [][SplitNext]_splitVars

-----------------------------------------------------------------------------
\* The cutting ends; every chunk is a stretch of the text within the limit, they
\* follow each other, between them there are only blanks, and none is empty, which
\* Telegram would refuse, unless the text begins with more blanks than half the limit.
Stretch(i) == begins[i] + 1 .. begins[i] + Len(chunks[i])

ChunksWhole ==
  /\ Len(chunks) <= Len(text) /\ Len(begins) = Len(chunks)
  /\ \A i \in DOMAIN chunks :
       /\ Len(chunks[i]) <= Limit
       /\ chunks[i] = SubSeq(text, begins[i] + 1, begins[i] + Len(chunks[i]))
       /\ chunks[i] = <<>> => i = 1 /\ Visible(SubSeq(text, 1, Limit \div 2 + 1)) = {}
       /\ i > 1 => begins[i - 1] + Len(chunks[i - 1]) <= begins[i]
  /\ sending # "new" =>
       Visible(text) \subseteq (UNION {Stretch(i) : i \in DOMAIN chunks})
                                 \cup (Len(text) - Len(remaining) + 1 .. Len(text))
=============================================================================
