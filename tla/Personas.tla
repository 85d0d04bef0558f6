------------------------------- MODULE Personas ------------------------------
(***************************************************************************)
(* Which tools a request may use: the registries of modes and souls        *)
(* (app/modes/registry.py, app/souls/registry.py), /mode and /soul         *)
(* (app/interfaces/telegram_commands.py), the persona of a request         *)
(* (app/persona/resolve.py), the tools it is offered (app/tools/registry.py)*)
(* and the checks of a call (app/tools/executor.py, registry, policies).   *)
(*                                                                         *)
(* One path per behaviour: "job" is a message of a chat, whose payload has *)
(* the refs of its sending until the runtime puts those of its thread in   *)
(* their place; "conversation" is the chat with an agent of the control    *)
(* plane.  The pause of the tools is part of AgentRuntime.                 *)
(***************************************************************************)
EXTENDS Integers, FiniteSets

CONSTANTS
  Registered,   \* keys of ToolRegistry._tools
  Policy,       \* [Registered -> ToolPolicy]
  ModeFiles, SoulFiles,   \* contents the two directories may have
  FirstModes, FirstSouls,
  Refs,         \* what a user may name: [name, version], version 0 for none
  DefaultMode, DefaultSoul,   \* DEFAULT_MODE_REF, DEFAULT_SOUL_REF
  HotReload     \* DEBUG and MODES_HOT_RELOAD, SOULS_HOT_RELOAD

\* A version stands for its place in the order of the strings (sorted(refs)).
ModeDefinition == [name : STRING, version : Nat \ {0}, avoid : SUBSET STRING]
\* The validator of SoulDefinition leaves "*" alone, or names.
SoulDefinition == [name : STRING, version : Nat \ {0}, allowed : SUBSET STRING]
ToolPolicy == [enabled : BOOLEAN, admin_only : BOOLEAN, allowed_chats : SUBSET STRING]

ASSUME PersonasAssumption ==
  /\ Policy \in [Registered -> ToolPolicy]
  /\ FirstModes \in ModeFiles /\ FirstSouls \in SoulFiles
  /\ HotReload \in BOOLEAN

VARIABLES
  path,      \* "job" or "conversation"
  profile,   \* the agent's tool_profile
  library,   \* the items of both registries
  scope,     \* the thread's or session's active_mode, active_soul, mode_locked
  request,   \* the request at hand
  last,      \* the last call: its tool and its verdict
  barred     \* history: what the chat's mode avoided when its request began to run

personaVars == <<path, profile, library, scope, request, last, barred>>

Aliases == [default |-> "builder", operator |-> "builder", coder |-> "builder",
            researcher |-> "research", coding |-> "builder", analysis |-> "architect",
            precise |-> "minimal", creative |-> "research"]
ModeName(name) == IF name \in DOMAIN Aliases THEN Aliases[name] ELSE name

\* get_mode and get_soul: the ref, or the last version of the name.
Named(items, ref) == {d \in items : d.name = ref.name /\ ref.version \in {0, d.version}}
Newest(found) == CHOOSE d \in found : \A e \in found : e.version <= d.version
RefOf(d) == [name |-> d.name, version |-> d.version]
NoSoul == [name |-> "", version |-> 0]   \* active_soul is None: no /soul yet
SoulOf(soul) == IF soul = NoSoul THEN DefaultSoul ELSE soul

Modes(ref) == Named(library.modes, [ref EXCEPT !.name = ModeName(@)])
Souls(ref) == Named(library.souls, ref)
Resolves(mode, soul) == Modes(mode) # {} /\ Souls(soul) # {}

-----------------------------------------------------------------------------
\* TOOL_NAME_ALIASES, in the resolution and in the executor.
Canonical(tool) == IF tool = "web.search" THEN "web" ELSE tool
Canonicals(tools) == {Canonical(t) : t \in tools}

\* PLATFORM_PROFILE_TOOL_ALLOWLIST, with "safe" for profiles it does not have.
SafeTools == {"echo", "time", "status", "files.read", "files.list", "files.exists", "web"}
PlatformTools(p) ==
  IF p = "balanced" THEN SafeTools \cup {"files.write", "exec"} ELSE SafeTools

\* Mutant of ProfileTools: the lists drift apart.
ProfileToolsOlder(p) == IF p = "balanced" THEN SafeTools \cup {"exec"} ELSE SafeTools

\* DEFAULT_PROFILE_ALLOWLIST, the executor's own list.
ProfileTools(p) ==
  IF p = "balanced"
  THEN {"echo", "time", "status", "files.read", "files.list", "files.exists",
        "files.write", "web", "exec"}
  ELSE {"echo", "time", "status", "files.read", "files.list", "files.exists", "web"}

All == {"*"}   \* effective_allowed_tools is None

\* _build_effective_allowed_tools
Effective(soul, mode) ==
  LET wanted == Canonicals(soul.allowed)
  IN CASE profile = "dangerous" /\ "*" \in wanted -> All
       [] profile = "dangerous" /\ "*" \notin wanted -> wanted \ Canonicals(mode.avoid)
       [] profile # "dangerous" /\ "*" \in wanted -> PlatformTools(profile) \ Canonicals(mode.avoid)
       [] OTHER -> (PlatformTools(profile) \cap wanted) \ Canonicals(mode.avoid)

\* A conversation is held as an admin, with a chat of its own, by profile.
IsAdmin == path = "conversation" /\ profile = "dangerous"
ChatId == IF path = "job" THEN "chat" ELSE "cp"

\* check_tool_permission
Permitted(tool) ==
  /\ Policy[tool].enabled
  /\ Policy[tool].admin_only => IsAdmin
  /\ Policy[tool].allowed_chats # {} => ChatId \in Policy[tool].allowed_chats

Allows(allowed, tool) == allowed = All \/ tool \in allowed

\* get_allowed_schemas: the tools in the request to the model.  A conversation
\* names its allowed tools in the prompt instead.
Offered(allowed) ==
  IF path = "job" THEN {t \in Registered : Permitted(t) /\ Allows(allowed, t)} ELSE allowed

\* _deny_reason
Denied(tool, allowed) ==
  \/ tool \notin Registered
  \/ profile # "dangerous" /\ tool \notin ProfileTools(profile)
  \/ ~Permitted(tool)
  \/ ~Allows(allowed, tool)

-----------------------------------------------------------------------------
NoRequest == [at |-> "none", mode |-> DefaultMode, soul |-> DefaultSoul,
              allowed |-> {}, offered |-> {}]
NoCall == [tool |-> "", verdict |-> "none"]
Asked == Registered \cup {"web.search", "unknown"}

PersonasInit ==
  /\ \/ path = "job" /\ profile = "balanced"   \* no payload names another
     \/ path = "conversation" /\ profile \in {"safe", "balanced", "dangerous"}
  /\ library = [modes |-> FirstModes, souls |-> FirstSouls]
  /\ scope = [mode |-> DefaultMode, soul |-> NoSoul, locked |-> FALSE]
  /\ request = NoRequest
  /\ last = NoCall
  /\ barred = {}

\* load of one registry, with hot reload: a definition was edited, added or
\* removed.  An error in a file leaves the registry as it was.
ReloadModes ==
  /\ HotReload
  /\ \E files \in ModeFiles \ {library.modes} : library' = [library EXCEPT !.modes = files]
  /\ UNCHANGED <<path, profile, scope, request, last, barred>>

ReloadSouls ==
  /\ HotReload
  /\ \E files \in SoulFiles \ {library.souls} : library' = [library EXCEPT !.souls = files]
  /\ UNCHANGED <<path, profile, scope, request, last, barred>>

SetMode(ref) ==
  /\ Modes(ref) # {}
  /\ ~scope.locked
  /\ scope' = [scope EXCEPT !.mode = RefOf(Newest(Modes(ref)))]
  /\ UNCHANGED <<path, profile, library, request, last, barred>>

SetSoul(ref) ==
  /\ Souls(ref) # {}
  /\ scope' = [scope EXCEPT !.soul = RefOf(Newest(Souls(ref)))]
  /\ UNCHANGED <<path, profile, library, request, last, barred>>

SetModeLock(locked) ==
  /\ scope.locked # locked
  /\ scope' = [scope EXCEPT !.locked = locked]
  /\ UNCHANGED <<path, profile, library, request, last, barred>>

ScopeRefs == [mode |-> scope.mode, soul |-> SoulOf(scope.soul)]
Defaults == [mode |-> DefaultMode, soul |-> DefaultSoul]

\* get_chat_persona_payload: the defaults when the chat's refs do not resolve.
PersonaPayload ==
  IF Resolves(ScopeRefs.mode, ScopeRefs.soul)
  THEN [mode |-> RefOf(Newest(Modes(ScopeRefs.mode))), soul |-> RefOf(Newest(Souls(ScopeRefs.soul)))]
  ELSE Defaults

\* A message of the chat becomes a job.
Send ==
  /\ path = "job"
  /\ request.at = "none"
  /\ request' = [NoRequest EXCEPT !.at = "queued", !.mode = PersonaPayload.mode,
                                  !.soul = PersonaPayload.soul]
  /\ last' = NoCall
  /\ UNCHANGED <<path, profile, library, scope, barred>>

\* The persona and the tools of a request are kept to its end.
Begin(refs) ==
  LET allowed == Effective(Newest(Souls(refs.soul)), Newest(Modes(refs.mode)))
  IN request' = [request EXCEPT !.at = "running", !.allowed = allowed, !.offered = Offered(allowed)]

\* Mutant of JobRefs: the job keeps the refs of its sending.
JobRefsOfSending(persisted) == [mode |-> request.mode, soul |-> request.soul]

\* _persist_user_message puts the refs of the thread into the payload, the soul
\* only if one was set; when it fails, those of the sending stay.
JobRefs(persisted) ==
  IF persisted
  THEN [mode |-> scope.mode, soul |-> IF scope.soul = NoSoul THEN request.soul ELSE scope.soul]
  ELSE [mode |-> request.mode, soul |-> request.soul]

\* History: what the mode of the chat avoids now.
Avoided == IF Modes(scope.mode) = {} THEN {} ELSE Canonicals(Newest(Modes(scope.mode)).avoid)

\* _resolve_job_persona falls back to both defaults; when they are missing too
\* the attempt fails, and after the last one the job is dead.
RunJob ==
  /\ path = "job"
  /\ request.at = "queued"
  /\ \E persisted \in BOOLEAN :
       LET refs == JobRefs(persisted)
           found == Resolves(refs.mode, refs.soul)
       IN /\ \/ found /\ Begin(refs)
             \/ ~found /\ Resolves(DefaultMode, DefaultSoul) /\ Begin(Defaults)
             \/ ~found /\ ~Resolves(DefaultMode, DefaultSoul) /\ request' = NoRequest
          /\ barred' = IF persisted /\ found /\ request'.allowed # All THEN Avoided ELSE {}
  /\ UNCHANGED <<path, profile, library, scope, last>>

\* generate_response: without a fallback, an unknown ref is an error of the chat.
Converse ==
  /\ path = "conversation"
  /\ request.at = "none"
  /\ Resolves(ScopeRefs.mode, ScopeRefs.soul)
  /\ Begin(ScopeRefs)
  /\ barred' = IF request'.allowed # All THEN Avoided ELSE {}
  /\ last' = NoCall
  /\ UNCHANGED <<path, profile, library, scope>>

\* execute_tool_call, which repeats some of the checks, and then those of the
\* arguments; a tool that is started may end or be stopped by its timeout.
Executed(tool) ==
  IF tool \in Registered /\ Permitted(tool) THEN {"invalid", "ran"} ELSE {"denied"}

\* execute_calls for one call of the model, which may ask for what it was not offered.
Call(tool) ==
  /\ request.at = "running"
  /\ \E verdict \in IF Denied(Canonical(tool), request.allowed) THEN {"denied"}
                     ELSE Executed(Canonical(tool)) :
       last' = [tool |-> Canonical(tool), verdict |-> verdict]
  /\ UNCHANGED <<path, profile, library, scope, request, barred>>

Finish ==
  /\ request.at = "running"
  /\ request' = NoRequest
  /\ last' = NoCall
  /\ barred' = {}
  /\ UNCHANGED <<path, profile, library, scope>>

PersonasNext ==
  \/ ReloadModes \/ ReloadSouls
  \/ \E ref \in Refs : SetMode(ref) \/ SetSoul(ref)
  \/ \E locked \in BOOLEAN : SetModeLock(locked)
  \/ Send \/ RunJob \/ Converse \/ Finish
  \/ \E tool \in Asked : Call(tool)

PersonasSpec == PersonasInit /\ [][PersonasNext]_personaVars

-----------------------------------------------------------------------------
PersonasTypeOK ==
  /\ library \in [modes : ModeFiles, souls : SoulFiles]
  /\ scope.locked \in BOOLEAN
  /\ request.at \in {"none", "queued", "running"}
  /\ request.allowed = All \/ "*" \notin request.allowed
  /\ last.verdict \in {"none", "denied", "invalid", "ran"}

\* The two ways the code decides on a tool agree: what a job is offered it may
\* call, and what any request runs it was offered, through aliases, both lists
\* of the profiles, soul, mode and the policy of the tool.
OfferedRuns ==
  request.at = "running" /\ last.tool # "" =>
    /\ last.verdict # "denied" => Allows(request.offered, last.tool)
    /\ path = "job" /\ last.tool \in request.offered => last.verdict # "denied"

\* No request runs a tool that the mode avoided which its chat had when it began to
\* run, though it was sent under another mode, or another one is set, or the files
\* are edited, before it ends.  Not for a job whose message could not be stored, or
\* whose persona fell back to the defaults, and not where all tools are allowed.
ModeHolds == last.verdict = "ran" => last.tool \notin barred
=============================================================================
