---------------------------- MODULE SkillLibrary ----------------------------
(***************************************************************************)
(* Where skills come from: the files of a directory, the loaders that read *)
(* them once (app/skills/loader.py, schema.py) and their users, which hold *)
(* two different loaders.  /skills asks the one of app.skills; the router  *)
(* and the engine share the one of app.skills.loader.                      *)
(*                                                                         *)
(* What the router prefers is in SkillRouter, what the engine does with a  *)
(* skill it found is in SkillEngine.                                       *)
(***************************************************************************)
EXTENDS Integers, FiniteSets

CONSTANTS
  Stems,        \* names of files, without the extension
  Definitions,  \* valid definitions: [name, keywords]
  Broken,       \* a file that is empty, no YAML, or refused by the schema
  Lower,        \* str.lower on what a user may write
  NoDefinition, \* get_skill returned None
  MaxEdits      \* bound: changes of the directory

SkillNames == {d.name : d \in Definitions}
Written == DOMAIN Lower
Loaders == {"commands", "engine"}
Extensions == {"yaml", "yml"}

ASSUME LibraryAssumption ==
  /\ Broken \notin Definitions /\ NoDefinition \notin Definitions
  /\ SkillNames \cup UNION {d.keywords : d \in Definitions} \subseteq Written
  /\ MaxEdits \in Nat

VARIABLES
  disk,     \* content of the files that are there, by stem and extension
  loaders,  \* _loaded and _skills of each loader
  edits,    \* how often the directory changed after the start
  started,  \* the application has loaded its skills
  used      \* the last use of a skill: how it was asked for, and its end

libraryVars == <<disk, loaders, edits, started, used>>

Places == Stems \X Extensions
Directories == UNION {[there -> Definitions \cup {Broken}] : there \in SUBSET Places}
\* _skills, by the name in the definition.
Registries == {s \in SUBSET Definitions : \A d, e \in s : d.name = e.name => d = e}
Ends == {"listed", "agent", "unknown", "not_found", "executed"}

LibraryTypeOK ==
  /\ disk \in Directories
  /\ loaders \in [Loaders -> [loaded : BOOLEAN, skills : Registries]]
  /\ edits \in 0 .. MaxEdits
  /\ started \in BOOLEAN
  /\ used \in [by : {"none", "direct", "keyword", "command"}, end : Ends \cup {"none"}]

LibraryInit ==
  /\ disk \in Directories
  /\ loaders = [l \in Loaders |-> [loaded |-> FALSE, skills |-> {}]]
  /\ edits = 0
  /\ started = FALSE
  /\ used = [by |-> "none", end |-> "none"]

-----------------------------------------------------------------------------
\* load_skill: always <name>.yaml, so that a .yml file is read only by that name.
LoadSkill(stem) ==
  IF <<stem, "yaml">> \in DOMAIN disk /\ disk[<<stem, "yaml">>] # Broken
  THEN disk[<<stem, "yaml">>] ELSE NoDefinition

Found == {LoadSkill(place[1]) : place \in DOMAIN disk} \ {NoDefinition}

\* Of several files that define one name the last one read stays; glob promises
\* no order.
Readings ==
  {s \in SUBSET Found : s \in Registries /\ {d.name : d \in s} = {d.name : d \in Found}}

\* What a loader may be after load_all_skills: an empty one reads again.
LoadAll(loader) ==
  IF loader.loaded /\ loader.skills # {} THEN {loader}
  ELSE {[loaded |-> TRUE, skills |-> s] : s \in Readings}

\* Mutant of Ensured: a lookup that does not load.
EnsuredNot(loader) == {loader}
\* get_skill and list_skills load only what was never loaded.
Ensured(loader) == IF loader.loaded THEN {loader} ELSE LoadAll(loader)

GetSkill(loader, name) ==
  IF \E d \in loader.skills : d.name = name
  THEN CHOOSE d \in loader.skills : d.name = name ELSE NoDefinition

-----------------------------------------------------------------------------
\* main.py loads the loader of the commands at the start.
Startup ==
  /\ ~started
  /\ started' = TRUE
  /\ \E loader \in LoadAll(loaders["commands"]) :
       loaders' = [loaders EXCEPT !["commands"] = loader]
  /\ UNCHANGED <<disk, edits, used>>

\* Somebody changes the files; reload has no caller.
EditFiles ==
  /\ started
  /\ edits < MaxEdits
  /\ edits' = edits + 1
  /\ disk' \in Directories \ {disk}
  /\ UNCHANGED <<loaders, started, used>>

Uses(by, end) == used' = [by |-> by, end |-> end]
\* execute_skill finds the definition, or reports that there is none.
Executes(by, loader, name) ==
  Uses(by, IF GetSkill(loader, name) = NoDefinition THEN "not_found" ELSE "executed")

\* _check_skill_trigger with "/skill name", "/run name" or "skill: name".
DirectInvocation(name) ==
  /\ started
  /\ \E loader \in Ensured(loaders["engine"]) :
       /\ loaders' = [loaders EXCEPT !["engine"] = loader]
       /\ Executes("direct", loader, Lower[name])
  /\ UNCHANGED <<disk, edits, started>>

\* get_skill_by_keyword and the keywords of match_trigger; router.load_all_skills
\* has read the files before.
SkillsByKeyword(loader, word) == {d \in loader.skills : Lower[word] \in d.keywords}

\* _check_skill_trigger with any other text: the skill of a keyword, or the agent.
Message(word) ==
  /\ started
  /\ \E routed \in LoadAll(loaders["engine"]) :
       \/ /\ SkillsByKeyword(routed, word) = {}
          /\ loaders' = [loaders EXCEPT !["engine"] = routed]
          /\ Uses("keyword", "agent")
       \/ \E d \in SkillsByKeyword(routed, word), loader \in Ensured(routed) :
            /\ loaders' = [loaders EXCEPT !["engine"] = loader]
            /\ Executes("keyword", loader, d.name)
  /\ UNCHANGED <<disk, edits, started>>

\* suggest_skills reads the files, too; a suggestion is no use of a skill.
SuggestSkills(shown, routed) ==
  /\ \E loader \in LoadAll(routed) : loaders' = [commands |-> shown, engine |-> loader]
  /\ Uses("command", "unknown")

\* handle_skills with a name: the loader of the commands knows it, or the router
\* knows it for a keyword, and the engine executes it.
SkillsCommand(word) ==
  /\ started
  /\ \E shown \in Ensured(loaders["commands"]) :
       \/ /\ GetSkill(shown, Lower[word]) # NoDefinition
          /\ \E loader \in Ensured(loaders["engine"]) :
               /\ loaders' = [commands |-> shown, engine |-> loader]
               /\ Executes("command", loader, Lower[word])
       \/ /\ GetSkill(shown, Lower[word]) = NoDefinition
          /\ \E routed \in LoadAll(loaders["engine"]) :
               \/ SkillsByKeyword(routed, word) = {} /\ SuggestSkills(shown, routed)
               \/ \E d \in SkillsByKeyword(routed, word), loader \in Ensured(routed) :
                    /\ loaders' = [commands |-> shown, engine |-> loader]
                    /\ Executes("command", loader, d.name)
  /\ UNCHANGED <<disk, edits, started>>

ListSkills ==
  /\ started
  /\ \E loader \in Ensured(loaders["commands"]) :
       loaders' = [loaders EXCEPT !["commands"] = loader]
  /\ Uses("command", "listed")
  /\ UNCHANGED <<disk, edits, started>>

LibraryNext ==
  \/ Startup \/ EditFiles \/ ListSkills
  \/ \E word \in Written : DirectInvocation(word) \/ Message(word) \/ SkillsCommand(word)

LibrarySpec == LibraryInit /\ [][LibraryNext]_libraryVars

-----------------------------------------------------------------------------
\* A skill that was found is there when it is executed: a message routed by a
\* keyword always runs it, and so does /skills as long as nobody changed the
\* directory between the loading of the two loaders.
FoundIsExecuted ==
  used.end = "not_found" => used.by = "direct" \/ (used.by = "command" /\ edits > 0)
=============================================================================
