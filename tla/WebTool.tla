------------------------------- MODULE WebTool -------------------------------
(***************************************************************************)
(* The web tool (app/tools/web_tool.py) behind the registry's validation   *)
(* of its arguments (app/tools/validators.py).  A search runs in a thread  *)
(* of the loop's default pool; a fetch or an extraction is one request.    *)
(* The deadline of a call is the loop's or the registry's: it withdraws a  *)
(* search that waits for a thread, but one that runs keeps its thread to   *)
(* its end, so that searches given up can leave none for the next.  The    *)
(* lookup of a host's name, which the request's library makes in the same  *)
(* pool, is left out.                                                      *)
(*                                                                         *)
(* An argument is the class it belongs to for the validation.              *)
(***************************************************************************)
EXTENDS Integers, Sequences, FiniteSets, SequencesExt

CONSTANTS
  WebCalls,    \* calls of the tool
  PoolSize,    \* threads of the default pool
  Searchable   \* duckduckgo-search is installed

WebAssumption == PoolSize \in Nat \ {0} /\ Searchable \in BOOLEAN

VARIABLES
  calls,    \* call -> how far it is, what it asks for and its answer
  threads,  \* calls whose search has a thread, those given up included
  line      \* calls whose search waits for one, in order

webVars == <<calls, threads, line>>

Actions == {"search", "fetch", "extract", "search_and_extract"}

\* "unfit" is what cannot be made the argument's type or is out of its range; a
\* url "bracketed" is one that cannot be parsed once https:// is put before it.
Queries == {"absent", "unfit", "given"}
Counts == {"unfit", "given"}
Urls == {"absent", "unfit", "long", "malformed", "bracketed", "dangerous", "credentials",
         "suspicious", "unknown_scheme", "blank", "plain"}

\* An argument the action does not use is left out.
Asked ==
  [action : {"absent", "other"}, query : {"absent"}, url : {"absent"}, results : {"absent"}]
    \cup [action : {"search", "search_and_extract"}, query : Queries, url : {"absent"},
          results : Counts]
    \cup [action : {"fetch", "extract"}, query : {"absent"}, url : Urls, results : {"absent"}]

Types == {"html", "text", "binary"}

\* A response: its body against max_response_size, its type, and whether the
\* body can be parsed.
Responses == [over : BOOLEAN, type : Types, parses : BOOLEAN]

Answers == {"INVALID_ARGUMENTS", "MISSING_QUERY", "MISSING_URL", "INVALID_URL",
            "DEPENDENCY_MISSING", "SEARCH_ERROR", "EXECUTION_ERROR", "TIMEOUT",
            "RESPONSE_TOO_LARGE", "BINARY_CONTENT", "NOT_HTML", "FETCH_ERROR",
            "EXTRACT_ERROR", "ok", "overdue", "cancelled"}

NoCall == [stage |-> "idle", action |-> "search", reachable |-> TRUE, answer |-> "none"]

WebTypeOK ==
  /\ calls \in [WebCalls -> [stage : {"idle", "searching", "requesting", "answered"},
                             action : Actions, reachable : BOOLEAN,
                             answer : Answers \cup {"none"}]]
  /\ threads \subseteq WebCalls /\ Cardinality(threads) <= PoolSize
  /\ line \in Seq(WebCalls) /\ IsInjective(line) /\ ToSet(line) \cap threads = {}

WebInit ==
  /\ calls = [c \in WebCalls |-> NoCall]
  /\ threads = {}
  /\ line = <<>>

\* validate_tool_args: a missing action or any argument that cannot be coerced.
\* The other arguments may be absent; max_results is then the schema's 5, also
\* where the code's own default is 3.
CanCoerce(q) == q.action \in Actions /\ "unfit" \notin {q.query, q.url, q.results}

\* sanitize_url, as the tool makes its sanitizer (not strict): "refused", "raised"
\* or "accepted".  A scheme nobody knows and a foreign domain are accepted.
Sanitized(url) ==
  CASE url \in {"long", "malformed", "dangerous", "credentials", "suspicious"} -> "refused"
    [] url = "bracketed" -> "raised"
    [] OTHER -> "accepted"

\* What a call is answered before it searches or requests anything, or "run".
Verdict(q) ==
  CASE ~CanCoerce(q) -> "INVALID_ARGUMENTS"
    [] q.action \in {"search", "search_and_extract"} ->
         (CASE q.query = "absent" -> "MISSING_QUERY"
            [] ~Searchable -> "DEPENDENCY_MISSING"
            [] OTHER -> "run")
    [] OTHER ->
         (CASE q.url = "absent" -> "MISSING_URL"
            [] Sanitized(q.url) = "refused" -> "INVALID_URL"
            [] Sanitized(q.url) = "raised" -> "EXECUTION_ERROR"
            [] OTHER -> "run")

Answered(c, answer) == calls' = [calls EXCEPT ![c].stage = "answered", ![c].answer = answer]

Started(c, q, stage) ==
  calls' = [calls EXCEPT ![c] = [stage |-> stage, action |-> q.action,
                                 reachable |-> q.url = "plain", answer |-> "none"]]

Refuse(c, q) ==
  /\ calls[c].stage = "idle" /\ Verdict(q) # "run"
  /\ Answered(c, Verdict(q))
  /\ UNCHANGED <<threads, line>>

\* _search: run_in_executor takes a free thread or puts the search in the line.
StartSearch(c, q) ==
  /\ calls[c].stage = "idle" /\ Verdict(q) = "run"
  /\ q.action \in {"search", "search_and_extract"}
  /\ Started(c, q, "searching")
  /\ IF Cardinality(threads) < PoolSize
     THEN threads' = threads \cup {c} /\ UNCHANGED line
     ELSE line' = Append(line, c) /\ UNCHANGED threads

StartRequest(c, q) ==
  /\ calls[c].stage = "idle" /\ Verdict(q) = "run"
  /\ q.action \in {"fetch", "extract"}
  /\ Started(c, q, "requesting")
  /\ UNCHANGED <<threads, line>>

\* A search ends in its thread, which takes the next of the line.  The answer of
\* search_and_extract is the search's: the results it looks for in the metadata
\* are not put there, so that nothing is extracted.
SearchEnds(c) ==
  /\ c \in threads
  /\ IF calls[c].stage = "searching"
     THEN \E answer \in {"ok", "SEARCH_ERROR"} : Answered(c, answer)
     ELSE UNCHANGED calls
  /\ IF line = <<>>
     THEN threads' = threads \ {c} /\ UNCHANGED line
     ELSE threads' = (threads \ {c}) \cup {Head(line)} /\ line' = Tail(line)

\* _fetch: the size is looked at when the whole body is there; the status is not.
FetchAnswer(r) ==
  CASE r.over -> "RESPONSE_TOO_LARGE"
    [] r.type = "binary" -> "BINARY_CONTENT"
    [] OTHER -> "ok"

\* _extract: no limit of the size.
ExtractAnswer(r) ==
  CASE r.type # "html" -> "NOT_HTML"
    [] ~r.parses -> "EXTRACT_ERROR"
    [] OTHER -> "ok"

Failed(action) == IF action = "fetch" THEN "FETCH_ERROR" ELSE "EXTRACT_ERROR"

\* One operation of the request overran the client's timeout, or it failed; a
\* blank url or an unknown scheme is always a failure.
RequestFails(c) ==
  /\ calls[c].stage = "requesting"
  /\ \/ Answered(c, Failed(calls[c].action))
     \/ calls[c].reachable /\ Answered(c, "TIMEOUT")
  /\ UNCHANGED <<threads, line>>

RequestEnds(c) ==
  /\ calls[c].stage = "requesting" /\ calls[c].reachable
  /\ \E r \in Responses :
       Answered(c, IF calls[c].action = "fetch" THEN FetchAnswer(r) ELSE ExtractAnswer(r))
  /\ UNCHANGED <<threads, line>>

\* The deadline of the loop or of the registry, or the stop of the worker: it is
\* CancelledError in the tool, which none of its handlers takes.
GivenUp(c) ==
  /\ calls[c].stage \in {"searching", "requesting"}
  /\ \E answer \in {"overdue", "cancelled"} : Answered(c, answer)
  /\ line' = Remove(line, c)
  /\ UNCHANGED threads

WebNext ==
  \E c \in WebCalls :
    \/ \E q \in Asked : Refuse(c, q) \/ StartSearch(c, q) \/ StartRequest(c, q)
    \/ SearchEnds(c) \/ RequestFails(c) \/ RequestEnds(c) \/ GivenUp(c)

WebSpec == WebInit /\ [][WebNext]_webVars
=============================================================================
