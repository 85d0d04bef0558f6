-------------------------------- MODULE Files --------------------------------
(***************************************************************************)
(* The files of one agent's workspace: FileOperationsService               *)
(* (app/tools/files_service.py) under the files tools, with the resolution *)
(* of paths (app/security/workspace_paths.py).                             *)
(*                                                                         *)
(* The service does not await, so the calls of one program follow each     *)
(* other; the bot and the control plane are two programs on the same       *)
(* workspace, and each may be killed within a call.  A text written in     *)
(* another encoding than UTF-8 is "wide": longer, and not readable again.  *)
(***************************************************************************)
EXTENDS Integers, SequencesExt

CONSTANTS
  Programs,
  Texts, SizeOf, Widening,  \* what is written, its length, the factor of wide ones
  Dirs, Names,              \* names without an extension, and with one
  ExtOf, Base, Overrides,   \* the extensions; those the settings and the personas allow
  WriteCap, ReadCap,
  AllowOverwrite,
  Paths,                    \* the paths given in calls: names, "." and ".."
  MaxFileCalls              \* bound: calls

ASSUME FilesAssumption ==
  /\ SizeOf \in [Texts -> Nat \ {0}] /\ ExtOf \in [Names -> UNION Overrides \cup Base]
  /\ {Widening, WriteCap, ReadCap, MaxFileCalls} \subseteq Nat
  /\ Base # {} /\ Dirs \cap Names = {} /\ AllowOverwrite \in BOOLEAN
  /\ \A path \in Paths : path \in Seq(Dirs \cup Names \cup {".", ".."})

VARIABLES
  files,   \* what each file holds
  dirs,    \* directories that exist
  temps,   \* temporary files, with the program that made them
  task,    \* the call each program is in
  stored,  \* history: the text last put at each place and not deleted since
  answer,  \* the last text a read of each program returned ...
  meant,   \* history: ... and what was stored there then
  fileCalls    \* counts calls, for the bound

fileVars == <<files, dirs, temps, task, stored, answer, meant, fileCalls>>

Places == {<<n>> : n \in Names} \cup {<<d, n>> : d \in Dirs, n \in Names}
Held == [text : Texts, wide : BOOLEAN, whole : BOOLEAN]
NoFile == [text |-> "none", wide |-> FALSE, whole |-> TRUE]
Idle == [op |-> "idle", path |-> <<>>, text |-> "none", wide |-> FALSE]

FilesTypeOK ==
  /\ files \in [Places -> Held \cup {NoFile}] /\ stored \in [Places -> Held \cup {NoFile}]
  /\ dirs \subseteq Dirs
  /\ temps \subseteq [owner : Programs, at : Places, orphan : BOOLEAN]
  /\ task \in [Programs -> [op : {"idle", "write", "replaced", "read", "delete"},
                            path : Paths \cup {<<>>}, text : Texts \cup {"none"},
                            wide : BOOLEAN]]
  /\ answer \in [Programs -> Held \cup {NoFile}] /\ meant \in [Programs -> Held \cup {NoFile}]
  /\ fileCalls \in 0 .. MaxFileCalls

FilesInit ==
  /\ files = [l \in Places |-> NoFile] /\ stored = files
  /\ dirs = {} /\ temps = {}
  /\ task = [p \in Programs |-> Idle]
  /\ answer = [p \in Programs |-> NoFile] /\ meant = answer
  /\ fileCalls = 0

-----------------------------------------------------------------------------
\* Mutant of Entered: at the root ".." is dropped as "." is.
EnteredLenient(parts, c) ==
  IF c = "." \/ (c = ".." /\ parts = <<>>) THEN parts
  ELSE IF c = ".." THEN Front(parts)
  ELSE Append(parts, c)

\* One part of a path after those before it; <<"..">> stands for the error.
Entered(parts, c) ==
  IF parts = <<"..">> \/ c = "." THEN parts
  ELSE IF c # ".." THEN Append(parts, c)
  ELSE IF parts = <<>> THEN <<"..">> ELSE Front(parts)

\* normalize_user_path.
Normalize(path) ==
  LET parts[i \in 0 .. Len(path)] ==
        IF i = 0 THEN <<>> ELSE Entered(parts[i - 1], path[i])
  IN parts[Len(path)]

\* What a path means, for the histories: at each depth the last name that led there,
\* as long as no step leads out of the workspace.
IsName(c) == c \notin {".", ".."}
Depth(path, j) ==
  Cardinality({i \in 1 .. j : IsName(path[i])}) - Cardinality({i \in 1 .. j : path[i] = ".."})
Means(path) ==
  IF \E j \in DOMAIN path : Depth(path, j) < 0 THEN <<"..">>
  ELSE [m \in 1 .. Depth(path, Len(path)) |->
          path[Max({i \in DOMAIN path : IsName(path[i]) /\ Depth(path, i) = m})]]

\* _effective_policy: the extensions of settings and persona; all those of the
\* settings when they have none in common.
Allowed(over) == IF Base \cap over = {} THEN Base ELSE Base \cap over

Bytes(c) == SizeOf[c.text] * (IF c.wide THEN Widening ELSE 1)
Exists(place) == place \in Places /\ files[place] # NoFile

-----------------------------------------------------------------------------
FileCall(p) == task[p] = Idle /\ fileCalls < MaxFileCalls /\ fileCalls' = fileCalls + 1
In(p, op) == task[p].op = op /\ UNCHANGED fileCalls
Becomes(p, t) == task' = [task EXCEPT ![p] = t]
Place(p) == Normalize(task[p].path)
Answers == UNCHANGED <<answer, meant>>

\* Mutant of OpenTemp: the file itself is opened and truncated.
OpenTarget(p, place, c) ==
  /\ temps' = temps
  /\ files' = [files EXCEPT ![place] = [c EXCEPT !.whole = FALSE]]

\* mkstemp in the directory of the file.
OpenTemp(p, place, c) ==
  /\ temps' = temps \cup {[owner |-> p, at |-> place, orphan |-> FALSE]}
  /\ UNCHANGED files

\* write_text_file up to the temporary file, after all its checks; one that does
\* not pass answers an error, and so may the file system.
WriteBegins(p) ==
  /\ FileCall(p)
  /\ \E path \in Paths, text \in Texts, wide \in BOOLEAN, over \in Overrides :
       LET place == Normalize(path) IN
       /\ place \in Places
       /\ SizeOf[text] <= WriteCap
       /\ ExtOf[Last(place)] \in Allowed(over)
       /\ Exists(place) => AllowOverwrite
       /\ dirs' = dirs \cup {place[i] : i \in 1 .. Len(place) - 1}
       /\ \/ /\ OpenTemp(p, place, [text |-> text, wide |-> wide, whole |-> TRUE])
             /\ Becomes(p, [Idle EXCEPT !.op = "write", !.path = path, !.text = text, !.wide = wide])
          \/ UNCHANGED <<files, temps, task>>
  /\ UNCHANGED stored /\ Answers

Unlink(p) == temps' = {t \in temps : t.owner # p \/ t.orphan}

\* The text goes to the temporary file, which replaces the file ...
Replaces(p) ==
  LET c == [text |-> task[p].text, wide |-> task[p].wide, whole |-> TRUE]
  IN /\ In(p, "write")
     /\ files' = [files EXCEPT ![Place(p)] = c]
     /\ stored' = [stored EXCEPT ![Means(task[p].path)] = c]
     /\ Unlink(p)
     /\ Becomes(p, [task[p] EXCEPT !.op = "replaced"])
     /\ UNCHANGED dirs /\ Answers

\* ... or an error of the file system or the encoding leaves it as it was.
WriteFails(p) ==
  /\ In(p, "write")
  /\ Unlink(p)
  /\ Becomes(p, Idle)
  /\ UNCHANGED <<files, dirs, stored>> /\ Answers

\* The receipt: the size of the file, or an error if it has been deleted since.
WriteAnswers(p) ==
  /\ In(p, "replaced")
  /\ Becomes(p, Idle)
  /\ UNCHANGED <<files, dirs, temps, stored>> /\ Answers

-----------------------------------------------------------------------------
\* read_text_file: the file is there and its size within the cap ...
ReadBegins(p) ==
  /\ FileCall(p)
  /\ \E path \in Paths :
       /\ Exists(Normalize(path))
       /\ Bytes(files[Normalize(path)]) <= ReadCap
       /\ Becomes(p, [Idle EXCEPT !.op = "read", !.path = path])
  /\ UNCHANGED <<files, dirs, temps, stored>> /\ Answers

\* ... when it is read, it may be another one, or gone: an error, as for one that
\* is not UTF-8.
ReadAnswers(p) ==
  /\ In(p, "read")
  /\ Becomes(p, Idle)
  /\ IF Exists(Place(p)) /\ ~files[Place(p)].wide
     THEN /\ answer' = [answer EXCEPT ![p] = files[Place(p)]]
          /\ meant' = [meant EXCEPT ![p] = stored[Means(task[p].path)]]
     ELSE Answers
  /\ UNCHANGED <<files, dirs, temps, stored>>

\* delete: the file is there, and is unlinked unless it is gone by then.
DeleteBegins(p) ==
  /\ FileCall(p)
  /\ \E path \in Paths :
       /\ Exists(Normalize(path))
       /\ Becomes(p, [Idle EXCEPT !.op = "delete", !.path = path])
  /\ UNCHANGED <<files, dirs, temps, stored>> /\ Answers

DeleteEnds(p) ==
  /\ In(p, "delete")
  /\ files' = [files EXCEPT ![Place(p)] = NoFile]
  /\ stored' = [stored EXCEPT ![Means(task[p].path)] = NoFile]
  /\ Becomes(p, Idle)
  /\ UNCHANGED <<dirs, temps>> /\ Answers

\* A program is killed and started again: what it was writing stays behind.
Killed(p) ==
  /\ task[p] # Idle
  /\ Becomes(p, Idle)
  /\ temps' = {[t EXCEPT !.orphan = @ \/ t.owner = p] : t \in temps}
  /\ UNCHANGED <<files, dirs, stored, fileCalls>> /\ Answers

FilesNext ==
  \E p \in Programs :
    \/ WriteBegins(p) \/ Replaces(p) \/ WriteFails(p) \/ WriteAnswers(p)
    \/ ReadBegins(p) \/ ReadAnswers(p) \/ DeleteBegins(p) \/ DeleteEnds(p)
    \/ Killed(p)

FilesSpec == FilesInit /\ [][FilesNext]_fileVars

-----------------------------------------------------------------------------
\* Through kills, errors and the calls of the other program, every file holds
\* whole the text last written to it by any spelling of its path, and a read
\* returns that text.
WholeTexts ==
  /\ \A l \in Places : files[l] = stored[l]
  /\ \A p \in Programs : answer[p] = meant[p]

\* A temporary file is there only while its write is in hand, or for ever if the
\* program was killed in it.
NoLitter == \A t \in temps : t.orphan \/ task[t.owner].op = "write"
=============================================================================
