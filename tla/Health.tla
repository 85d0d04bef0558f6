-------------------------------- MODULE Health --------------------------------
(***************************************************************************)
(* What the program tells of its own state: /health/ready and /status of   *)
(* the HTTP API (app/api), /status of the Telegram bot, and the doctor of  *)
(* the control plane, which is another process.  A reader asks its parts   *)
(* one after the other, and while it waits for the database or the model   *)
(* the queue, the workers and the scheduler start and stop.  What the      *)
(* database, the model's server and the disk answer is open each time.     *)
(***************************************************************************)
CONSTANT SchedulerEnabled   \* settings.SCHEDULER_ENABLED

ASSUME HealthAssumption == SchedulerEnabled \in BOOLEAN

VARIABLES
  app,        \* the queue, its workers and the scheduler
  served,     \* the HTTP API answers, with the parts it was given
  reader,     \* who is asking, and for what next
  report,     \* what each part asked so far is said to be
  overall     \* overall_status

healthVars == <<app, served, reader, report, overall>>

InMemory == {"queue", "workers", "scheduler"}
Parts == InMemory \cup {"database", "ollama"}
Checks == {"storage", "ollama_endpoint", "default_model", "dev_server", "model_validation"}
Nobody == [who |-> "nobody", step |-> "done"]
Silent == [p \in Parts \cup Checks |-> "unasked"]

HealthTypeOK ==
  /\ app \in [InMemory -> {"none", "stopped", "running"}]
  /\ served \in BOOLEAN
  /\ reader.who \in {"nobody", "ready", "status", "command", "doctor"}
  /\ report \in [Parts \cup Checks -> {"unasked", "none", "stopped", "running",
                                       "ok", "bad", "pass", "warn", "fail"}]
  /\ overall \in {"healthy", "degraded", "unhealthy"}

HealthInit ==
  /\ app = [p \in InMemory |-> "none"] /\ served = FALSE
  /\ reader = Nobody /\ report = Silent /\ overall = "healthy"

-----------------------------------------------------------------------------
(* The parts.                                                              *)

Made == {p \in InMemory : p = "scheduler" => SchedulerEnabled}

\* _initialize_queue_system: the queue takes jobs as soon as it exists.
Initialized ==
  /\ app["queue"] = "none"
  /\ app' = [p \in InMemory |-> IF p \notin Made THEN "none"
                                ELSE IF p = "queue" THEN "running" ELSE "stopped"]
  /\ UNCHANGED <<served, reader, report, overall>>

\* A part is started or stopped; the queue, once shut down, is not opened again.
PartMoves(p) ==
  /\ app[p] # "none"
  /\ p = "queue" => app[p] = "running"
  /\ app' = [app EXCEPT ![p] = IF @ = "running" THEN "stopped" ELSE "running"]
  /\ UNCHANGED <<served, reader, report, overall>>

\* _initialize_observability, the last step before requests are served.
InitializeObservability ==
  /\ ~served /\ app["queue"] # "none"
  /\ served' = TRUE
  /\ UNCHANGED <<app, reader, report, overall>>

-----------------------------------------------------------------------------
Begin(who, step) ==
  /\ reader = Nobody
  /\ reader' = [who |-> who, step |-> step]
  /\ report' = Silent /\ overall' = "healthy"
  /\ UNCHANGED <<app, served>>

Reading(who, step) == reader = [who |-> who, step |-> step] /\ UNCHANGED <<app, served>>
Then(step) == reader' = [reader EXCEPT !.step = step]
Tell(part, verdict) == report' = [report EXCEPT ![part] = verdict]
Verdict(fine) == IF fine THEN "ok" ELSE "bad"

\* verify_db makes a status of every exception but the one of having no engine.
VerifyDb == {"healthy", "issues_found", "error", "raises"}

\* The readiness of the database; only here may the answer become "unhealthy".
ReadyDatabase ==
  /\ Reading("ready", "database")
  /\ \E found \in VerifyDb :
       /\ Tell("database", Verdict(found = "healthy"))
       /\ overall' = CASE found = "healthy" -> overall
                       [] found = "raises" -> "unhealthy"
                       [] OTHER -> "degraded"
  /\ Then("ollama")

\* check_health: whether the models could be listed; an exception is a "no".
CheckHealth == BOOLEAN

\* The readiness of the model and then, without another await, of the parts in
\* memory.  A part that is not well makes the answer "degraded", even one that
\* was "unhealthy" before.
ReadyRest ==
  /\ Reading("ready", "ollama")
  /\ \E listed \in CheckHealth :
       /\ report' = [p \in DOMAIN report |->
                       CASE p = "ollama" -> Verdict(listed)
                         [] p \in InMemory -> Verdict(p \in Made => app[p] = "running")
                         [] OTHER -> report[p]]
       /\ overall' = IF listed /\ \A p \in Made : app[p] = "running" THEN overall ELSE "degraded"
  /\ reader' = Nobody

\* GET /status asks no part that has to be waited for.
StatusAnswers ==
  /\ Reading("status", "parts")
  /\ report' = [p \in DOMAIN report |-> IF p \in InMemory THEN app[p] ELSE report[p]]
  /\ reader' = Nobody
  /\ UNCHANGED overall

\* /status of the bot tells of the queue and the workers whether they exist, as
\* it was before it asks the model.
CommandReads ==
  /\ Reading("command", "parts")
  /\ report' = [p \in DOMAIN report |->
                  IF p \in {"queue", "workers"} THEN Verdict(app[p] # "none") ELSE report[p]]
  /\ Then("ollama")
  /\ UNCHANGED overall

CommandAnswers ==
  /\ Reading("command", "ollama")
  /\ \E listed \in CheckHealth : Tell("ollama", Verdict(listed))
  /\ reader' = Nobody
  /\ UNCHANGED overall

-----------------------------------------------------------------------------
(* The doctor: five checks in a row, three of them with a client and a      *)
(* question of their own to the model's server, so that their verdicts may *)
(* contradict each other.  An exception is the verdict of its check.       *)

Check(name, failing, following) ==
  /\ Reading("doctor", name)
  /\ \E verdict \in {"pass", failing} : Tell(name, verdict)
  /\ IF following = "done" THEN reader' = Nobody ELSE Then(following)
  /\ UNCHANGED overall

RunChecks ==
  \/ Check("storage", "fail", "ollama_endpoint")
  \/ Check("ollama_endpoint", "fail", "default_model")
  \/ Check("default_model", "warn", "dev_server")
  \/ Check("dev_server", "warn", "model_validation")
  \/ Check("model_validation", "fail", "done")

HealthNext ==
  \/ Initialized \/ InitializeObservability \/ \E p \in InMemory : PartMoves(p)
  \/ served /\ Begin("ready", "database")
  \/ served /\ Begin("status", "parts")
  \/ Begin("command", "parts") \/ Begin("doctor", "storage")
  \/ ReadyDatabase \/ ReadyRest \/ StatusAnswers \/ CommandReads \/ CommandAnswers \/ RunChecks

HealthSpec == HealthInit /\ [][HealthNext]_healthVars

=============================================================================
