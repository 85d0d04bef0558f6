--------------------------- MODULE HatchOnboarding ---------------------------
(***************************************************************************)
(* The record of one agent while it is hatched and asks its user for names:*)
(* HatchBootService.run_boot, AgentConversationService                     *)
(* ._maybe_process_onboarding_reply (app/control_plane/services) and the   *)
(* commands /hatch, /onboard, /rename and chat around them.                *)
(*                                                                         *)
(* The Telegram bot and the screens are two programs on one database; each *)
(* handles one command at a time, and suspends where it awaits the model.  *)
(* What it writes then is computed from the record it read before.         *)
(***************************************************************************)
EXTENDS Integers, FiniteSets

CONSTANTS
  Bot, Screens,      \* the two programs
  Names, Assistant,  \* names a user may give, and the default
  NoName,
  MaxCommands        \* bound: commands given

ASSUME OnboardingAssumption ==
  /\ Bot # Screens
  /\ Assistant \notin Names /\ NoName \notin Names \cup {Assistant}
  /\ MaxCommands \in Nat

Programs == {Bot, Screens}
Display == Names \cup {Assistant, NoName}

VARIABLES
  record,     \* the agent's record in the table
  session,    \* onboarding_status of the session each program has with it
  task,       \* what each program is suspended in
  named,      \* history: the name a user gave last, as acknowledged
  overlapped, \* history: a command was carried out within another one
  commands    \* counts commands, for the bound

onboardingVars == <<record, session, task, named, overlapped, commands>>

\* display and profile are of profile_json: its agent_display_name, and whether
\* it holds anything; name is agent_profile_agent_name.
Rows == [display : Display, profile : BOOLEAN, name : Names \cup {NoName}, fresh : BOOLEAN,
         state : {"NEW", "WAITING_USER_PREFS", "ACTIVE"},
         status : {"running", "degraded"}, reason : BOOLEAN]

OnboardingTypeOK ==
  /\ record \in Rows
  /\ session \in [Programs -> {"none", "pending", "in_progress", "complete"}]
  /\ task \in [Programs -> [at : {"idle", "boot", "rewrite", "reply"}, read : Rows,
                          overwrite : BOOLEAN, attempt : 1 .. 2, parsed : BOOLEAN]]
  /\ named \in Names \cup {NoName}
  /\ overlapped \in BOOLEAN
  /\ commands \in 0 .. MaxCommands

Hatched == [display |-> NoName, profile |-> FALSE, name |-> NoName, fresh |-> TRUE,
            state |-> "NEW", status |-> "running", reason |-> FALSE]
NoTask == [at |-> "idle", read |-> Hatched, overwrite |-> FALSE, attempt |-> 1, parsed |-> FALSE]

OnboardingInit ==
  /\ record = Hatched
  /\ session = [p \in Programs |-> "none"]
  /\ task = [p \in Programs |-> NoTask]
  /\ named = NoName
  /\ overlapped = FALSE
  /\ commands = 0

\* A program takes its next command.
Command(p) ==
  /\ commands < MaxCommands
  /\ commands' = commands + 1
  /\ task[p].at = "idle"
  /\ overlapped' = (overlapped \/ \E q \in Programs : task[q].at # "idle")

Resumed(p, at) == task[p].at = at /\ UNCHANGED <<overlapped, commands>>
Ends(p) == task' = [task EXCEPT ![p] = NoTask]

\* AgentRepository.update: the fields of the patch, over what the row is by now.
Updated(patch) ==
  record' = [field \in DOMAIN record |-> IF field \in DOMAIN patch THEN patch[field] ELSE record[field]]

-----------------------------------------------------------------------------
\* run_boot reads the agent and awaits the model.
Boot(p, read, overwrite) ==
  task' = [task EXCEPT ![p] = [NoTask EXCEPT !.at = "boot", !.read = read, !.overwrite = overwrite]]

\* /hatch and the hatch screen: the runtime is started, with a new session.
Hatch(p) ==
  /\ Command(p)
  /\ Updated([status |-> "running"])
  /\ session' = [session EXCEPT ![p] = "pending"]
  /\ Boot(p, record', TRUE)
  /\ UNCHANGED named

\* /onboard goes back to the questions and keeps the profile.
Onboard ==
  /\ Command(Bot)
  /\ session[Bot] # "none"
  /\ Updated([fresh |-> TRUE, state |-> "WAITING_USER_PREFS", reason |-> FALSE])
  /\ Boot(Bot, record', FALSE)
  /\ UNCHANGED <<session, named>>

Degraded(r) == [r EXCEPT !.status = "degraded", !.reason = TRUE]

\* An exception of the model, or of the memory cards of the identity: the
\* caller marks the agent.
BootFails(p) ==
  /\ \E at \in {"boot", "rewrite"} : Resumed(p, at)
  /\ record' = Degraded(record)
  /\ Ends(p)
  /\ UNCHANGED <<session, named>>

\* Mutant of Normalize: the name the model made up for itself is taken.
NormalizeNot(read) == Assistant

\* _normalize_profile_payload: whatever the model called itself.
Normalize(read) ==
  IF read.name # NoName THEN read.name
  ELSE IF read.display # NoName THEN read.display ELSE Assistant

\* The rest of run_boot, without an await: profile, state, message, session.
FinishBoot(p, good) ==
  LET read == task[p].read
      kept == ~task[p].overwrite /\ read.profile
  IN /\ record' = [(IF good THEN record ELSE Degraded(record)) EXCEPT
                  !.display = IF kept THEN read.display ELSE Normalize(read),
                  !.profile = TRUE, !.fresh = TRUE, !.state = "WAITING_USER_PREFS",
                  !.reason = FALSE]
     /\ session' = [session EXCEPT ![p] = "in_progress"]
     /\ Ends(p)

\* An answer of the model: with or without a profile that parses, and a message
\* that is empty or passes the linter or not.  A bad one is rewritten; an empty
\* one degrades the agent unless there is no profile at all and both are made up.
\* (Keeping an empty profile needs a profile_json of {}: the column is NULL until
\* it holds something, nobody writes an empty one.)
BootAnswered(p) ==
  /\ Resumed(p, "boot")
  /\ \E answered \in BOOLEAN, message \in {"empty", "bad", "good"} :
       LET parsed == answered \/ task[p].parsed
           last == task[p].attempt = 2 \/ (parsed /\ message # "empty")
       IN \/ /\ ~last
             /\ task' = [task EXCEPT ![p].attempt = 2, ![p].parsed = parsed]
             /\ UNCHANGED <<record, session>>
          \/ /\ last /\ message # "bad"
             /\ FinishBoot(p, message = "good" \/ ~(parsed \/ task[p].read.profile))
          \/ /\ last /\ message = "bad"
             /\ task' = [task EXCEPT ![p].at = "rewrite", ![p].parsed = parsed]
             /\ UNCHANGED <<record, session>>
  /\ UNCHANGED named

\* _rewrite_boot_message: a good message, or the fallback and a degraded agent.
Rewritten(p) ==
  /\ Resumed(p, "rewrite")
  /\ \E good \in BOOLEAN : FinishBoot(p, good)
  /\ UNCHANGED named

-----------------------------------------------------------------------------
\* What a message tells: the agent's name, other facts that end the
\* onboarding, tone or profanity.
Preferences == [name : Names \cup {NoName}, facts : BOOLEAN, style : BOOLEAN]
Tells(v) == v.name # NoName \/ v.facts \/ v.style

\* The session is updated, then the record unless that raises, which is logged.
StorePreferences(p, read, v) ==
  LET answers == v.name # NoName \/ v.facts
      display == IF v.name # NoName THEN v.name ELSE read.display
      profile == read.profile \/ v.name # NoName \/ v.style
      patched == [record EXCEPT !.name = IF v.name # NoName THEN v.name ELSE @,
                             !.display = IF profile THEN display ELSE @,
                             !.profile = IF profile THEN TRUE ELSE @,
                             !.fresh = @ /\ ~answers,
                             !.state = IF answers THEN "ACTIVE" ELSE @]
  IN /\ session' = [session EXCEPT ![p] = IF answers THEN "complete" ELSE "in_progress"]
     /\ \/ UNCHANGED <<record, named>>
        \/ record' = patched /\ named' = IF v.name # NoName THEN v.name ELSE named

\* A message to an agent that waits for preferences, which the rules find in it ...
Reply(p) ==
  /\ Command(p)
  /\ session[p] # "none"
  /\ record.state = "WAITING_USER_PREFS"
  /\ \E v \in Preferences : Tells(v) /\ StorePreferences(p, record, v)
  /\ UNCHANGED task

\* ... or for which the model has to be asked.
ReplyAsks(p) ==
  /\ Command(p)
  /\ session[p] # "none"
  /\ record.state = "WAITING_USER_PREFS"
  /\ task' = [task EXCEPT ![p] = [NoTask EXCEPT !.at = "reply", !.read = record]]
  /\ UNCHANGED <<record, session, named>>

\* The model found something, or nothing, or failed.
ReplyExtracted(p) ==
  /\ Resumed(p, "reply")
  /\ Ends(p)
  /\ \/ UNCHANGED <<record, session, named>>
     \/ \E v \in Preferences : Tells(v) /\ StorePreferences(p, task[p].read, v)

\* /rename, on the record it has just read.
Rename ==
  /\ Command(Bot)
  /\ session[Bot] # "none"
  /\ \E name \in Names :
       /\ Updated([name |-> name, display |-> name, profile |-> TRUE])
       /\ named' = name
  /\ UNCHANGED <<session, task>>

OnboardingNext ==
  \/ Onboard \/ Rename
  \/ \E p \in Programs :
       \/ Hatch(p) \/ BootAnswered(p) \/ Rewritten(p) \/ BootFails(p)
       \/ Reply(p) \/ ReplyAsks(p) \/ ReplyExtracted(p)

OnboardingSpec == OnboardingInit /\ [][OnboardingNext]_onboardingVars

-----------------------------------------------------------------------------
\* The agent goes by the name its user gave it last, whatever was hatched,
\* onboarded or degraded since, as long as no command ran within another one.
NameKept ==
  ~overlapped /\ named # NoName => record.name = named /\ record.display = named

\* The same after a /rename, whatever runs beside it: "Updated identity name to"
\* (telegram_commands.py).
RenameSticks == named # NoName => record.display = named
=============================================================================
