# Teiken Claw: specifications, model checks and proofs

Teiken Claw is an agent server. Messages and scheduled jobs become jobs of a
queue; workers run an agent runtime that talks to a local language model
(Ollama) and calls tools; answers go out to Telegram; a control plane starts
and supervises agents on a developer's machine. It is one Python process on one
asyncio event loop (the control plane is a second program), so its races are
between tasks: what a coroutine read before an `await` may be stale after it.

This directory holds TLA+ modules of the parts that keep state, the TLC
configurations that check them, and theorems checked by TLAPS.

## 1. The system

| Component | State it keeps | Operations | Interacts with | Hard part |
|---|---|---|---|---|
| Job queue (`app/queue/dispatcher.py`, `jobs.py`) | priority queue, `_pending_jobs`, idempotency keys with their times, `_shutdown` | enqueue, dequeue, mark_complete, mark_failed, shutdown | workers, dead letters | a retry goes through the same enqueue as new jobs: capacity, duplicates, shutdown |
| Workers, locks (`workers.py`, `locks.py`) | tasks, chat locks with timeouts, Ollama semaphore, shutdown event | worker loop, process, stop | dispatcher, runtime, main | every exit path must release a lock and a permit and settle the job |
| Dead letters (`dead_letter.py`) | table of rows | add, replay | dispatcher, outbound, admin route | an insert that raises after the job left the queue |
| Outbound queue, limiter, sender (`throttles.py`, `telegram_sender.py`) | bounded queue, `_pending_messages`, times of last sends | enqueue, sender loop, retry, stop | Telegram (external) | the loop is the queue's only consumer and a producer |
| Ollama client, breaker (`ollama_client.py`, `circuit_breaker.py`) | breaker state, counters, time of last failure | request with retries, reset, force_open | Ollama (external) | results of requests sent in an earlier breaker state |
| Scheduler, control state (`app/scheduler`) | APScheduler's store (external), `_job_registry`, state file | job commands, start, stop | commands, dispatcher | two records of the same jobs, restarts between writes |
| Sub-agents (`app/subagents`) | `_runs`, `_parent_children` | spawn, execute, cancel, clear | tools, runtime | nested executions under timeouts, cancelled in the records only |
| Skills (`app/skills`) | definitions; a workflow's position | route, execute | runtime | which outcomes of a step count as failure |
| Agent runtime, tool loop (`runtime.py`, `tools/loop.py`, `tools/executor.py`) | transcript, receipts | run | client, tools, control state, pool | limits of three loops nested in each other |
| Control plane runtimes (`runtime_supervisor.py`, `runner_inprocess.py`) | `_runners`, queues and futures, semaphore, rows | start, stop, restart, delete, chat | screens, sessions | operations of two tasks on one agent |
| Chat sessions (`session_repo.py`, `tui/screens/chat.py`) | rows of sessions and messages, the active agent and session of a screen | open, send, delete | supervisor, agents screen | a message is under way while its session and its agent go |
| Subprocess runner (`runner_subprocess.py`, `subprocess_worker.py`) | a process, two pipes, `_pending` futures | start, send, stop, read | supervisor | late answers, a worker that dies or starts late |
| Control plane lock (`infra/lock.py`) | the lock file | acquire, release, force | entrypoint | processes that die anywhere |
| Dev server (`infra/server_process.py`, `entrypoint.py`) | pid file, the processes themselves | start, stop, restart, status, run | screens, console | a process boots, serves and drains while the file says one thing and the port another |
| Hatching and onboarding (`hatch_boot_service.py`, `agent_conversation_service.py`) | the agent's row and profile | boot, retry, reply, rename | model, commands, sessions | whole profiles written after awaits |
| Threads and cards (`thread_store.py`, `extractor.py`, `runtime.py`) | threads, the active one, cards | activate, append, extract, forget | commands, runtime, retries | attempts of a job against commands of its user |
| Memory store (`memory/store.py`, `memory_tool.py`) | rows, audit rows, one shared session | create, search, delete | boot, onboarding, tool | a commit that fails breaks the session for a later caller |
| Workspace files (`files_service.py`, `path_guard.py`) | files, temporary files | read, write, delete, list | file tools of two programs | kills and errors between the steps of a replacement |
| Command, web and scheduler tools (`exec_tool.py`, `web_tool.py`, `scheduler_tool.py`) | processes, threads, a table of jobs | execute | registry, tool loop | three deadlines around one call |
| Skills on disk (`skills/loader.py`, `skills/__init__.py`) | the directory and two loaders | load, find, execute | `/skills`, router, engine | two copies read at different times |
| Personas (`app/modes`, `app/souls`, `persona/resolve.py`) | the registries, a chat's choice | reload, set, resolve, offer, check | runtime, executor, conversation | the offer and the check are computed by different code |
| Context window (`context_builder.py`) | the stored messages, the cards | build | threads, client | sizes are estimates, the cut must be a suffix |
| Message splitting (`telegram_sender.py`) | text and position | split | outbound | cuts lose or repeat nothing |
| Bot and application (`telegram_bot.py`, `main.py`) | updates, handlers, what is started | poll, handle, start, stop | dispatcher, control plane | updates between two steps of the shutdown |
| Health and doctor (`app/api`, `main.py`, `doctor_service.py`) | none, reads others | checks | everything | a report is put together over several awaits |

What makes each correct:

- Queue: an accepted job is always in exactly one place; jobs of a chat run one
  at a time and start in order; every accepted job settles; the shutdown ends.
- Outbound: no message is lost or doubled between queue, retry and dead letter;
  a graceful stop drains. (The spacing of sends and the delivery of what is marked
  sent fail: section 7.)
- Breaker: it opens on consecutive failures only, leaves OPEN only for a probe,
  and a probe always comes.
- Scheduler: what was paused or deleted is not submitted, across restarts; the list
  shows what may be submitted; the control state survives restarts as far as it was
  acknowledged.
- Sub-agents and skills: who awaits a run outlives it, executions end, a skill
  does not report success over an unhandled error, routing is deterministic.
- Runtime: one receipt per call, bounded work, one answer, and nothing that tools
  did is done again by a retry or a replay.
- Control plane: no permit of the model is leaked or returned twice (the boot of an
  agent takes none), answers in order, each by the agent of its session and of its
  request, deleted agents stay deleted and leave no sessions, a chat is served unless its runner stopped; one instance; a dev
  server of ours that serves is the one in the pid file; an agent keeps the name
  its user gave it.
- Threads: a job stays in one thread of its chat through its retries; the cards
  of a thread are what was said last.
- Files: a file holds the whole of the last text written to it.
- Skills and personas: who found a skill can execute it; the tools offered are
  those that may be called, and no request runs one that the mode avoids which its
  chat had when the request began to run, unless its persona fell back to the
  defaults.
- Dead letters: a replay loses a job in two known ways only.
- Context, splitting, memory store: nothing missing between what is shown; a
  split text is the text; a failed commit costs what two calls had to store.
- Bot: no handler ends without an answer, a job that is taken or a refusal.

## 2. Modules

| Module | Models | State and actions against the code |
|---|---|---|
| `Dispatcher` | `JobDispatcher` | `queue`, `pending`, `seen` (key -> time), `down`. Operators for the effect of each method (`Enqueue`, `Take`, `MarkComplete`, `MarkFailed`), used by the actions of the next module; the verdict of a failure (`FailVerdict`) is one of retried, dead, dropped |
| `WorkerPool` | `WorkerPool`, `LockManager.acquire_chat_lock`, `_stop_queue_workers` | EXTENDS `Dispatcher`. One program counter per worker (`loop`, `dequeue`, `lockwait`, `semwait`, `running`, `dlqadd`, `stopped`); one action per suspension point; `ahead` is the FIFO order at a chat lock; stop, its timeout, cancellation, dispatcher shutdown |
| `JobLifecycle` | what the queue promises for a job | abstract: `places` is where each job is found, with its attempts; the arrows a job may take. `WorkerPool` implements it with the mapping `Places` |
| `CircuitBreaker` | `CircuitBreaker` | operators `CanExecute`, `RecordSuccess`, `RecordFailure`, `ResetBreaker`, `ForceOpen`; time is a flag "the timeout has passed" |
| `OllamaClient` | `_request_with_retry` | EXTENDS `CircuitBreaker`. Callers in flight, `sentIn` remembers the breaker's state at sending, `streak` the true run of failures |
| `Outbound` | `OutboundQueue`, `TelegramSender` | sender loop with chunks, tries, pause, put back, dead letter; `stop_sender` |
| `RateLimiter` | `RateLimiter` without aiolimiter, `send_chunked_message` | distances to the last messages instead of times; the one caller waits for both intervals, then sends the chunks of its message |
| `ControlState` | `ControlStateManager` | the state, the file ("torn" between truncation and write), what was promised to the operator |
| `Scheduler` | `SchedulerService`, the job and pause commands | EXTENDS `ControlState`. `store` is APScheduler's, `reg` the `_job_registry`; the store starts with any content, since nothing adds a job, and a job is submitted but never executed |
| `Subagents` | `SubAgentManager`, `SubAgentExecutor`, the spawn tool, the validation of a policy | records, children, the stack of who awaits whom (`above`), the turns left in the agent loop of every run; requested turns go past the validation |
| `SkillEngine` | `execute_skill`, `_execute_steps` | the workflow is chosen in `Init`, one step per action |
| `SkillRouter` | `route_intent` | the triggers are chosen in `Init`, one trigger per action, against a reference definition |
| `AgentRuntime` | `AgentRuntime.run`, `run_tool_loop`, the tool protocol, `ToolExecutor`, the pool's handling of a result | phases of one job; a message is a sequence of calls and malformed pieces; receipts, pauses of the tools at any time |
| `RuntimeSupervisor` | `RuntimeSupervisor`, `InProcessRunner` | runners are incarnations; their queues, the request in hand, futures, the order in which resumed tasks run |
| `InstanceLock` | `SingleInstanceLock` | reads and writes of the file as separate actions of every process; crashes between them; `seen` is what `os.kill` and `ps` tell others about a process, so that a live holder may look stale and a dead one alive |
| `ChatSessions` | `SessionRepository`, the chat screen, `chat`, the deletion of an agent | sessions, who answered in them, the active context of a screen and its message in hand; the deletion suspends in the stop of the runner |
| `SubprocessRunner` | `SubprocessRunner`, its worker, the supervisor's start, chat and stop | runners with their process, the lines in both pipes, `_ready_event`, `_pending`; what each caller awaits |
| `Threads` | `ThreadStore`, `MemoryStoreV15`, the extractor, the runtime's part, `/thread`, `/memory` | a table of threads, the jobs of a chat at their steps, cards; each command and each attempt is a step |
| `HatchOnboarding` | `run_boot`, onboarding reply, `/hatch`, `/onboard`, `/rename` | the agent's record, sessions, and what each of two programs had read when it suspended |
| `DevServer` | `ServerProcessManager`, `run_command` | processes that boot, serve, drain and die; the pid file; `restarting` is between the stop and the start |
| `Files` | `FileOperationsService`, the workspace's path checks | calls of two programs step by step (check, temporary file, replace), killed anywhere |
| `ToolJobs` | `SchedulerTool` | the table of jobs in memory; a call is a step |
| `ExecTool` | `ExecTool` under its deadlines | calls, processes, what a deadline leaves behind |
| `WebTool` | `WebTool`, `validate_tool_args`, `sanitize_url` | calls, the threads of the default pool with the line before them; arguments are classes of the validation |
| `MemoryStore` | `MemoryStore`, `MemoryTool` and the other writers | the session clean or broken, rows, batches of creations |
| `Bot` | `TelegramBot`, lifespan and the stop order in `main.py` | updates on their way, handlers, the steps of start and stop |
| `Health` | readiness, `/status` of both kinds, the doctor | a report that is put together part by part while the parts start and stop |
| `Personas` | both registries, `resolve_persona`, the offer and the checks of tools | registries that are reloaded, a chat's mode, soul and lock, one request, whose refs are those of its sending until the runtime puts the thread's in their place |
| `SkillLibrary` | `SkillLoader` twice, `/skills`, triggers, the engine's lookup | directory, two loaders, edits between their loads |
| `DeadLetters` | `DeadLetterQueue` with the dispatcher behind it | rows, replays of several operators in three steps each |
| `MessageSplit` | `_split_message`, `_find_split_point` | text and position; a step is a cut |
| `ContextWindow` | `ContextBuilder` | stored messages, cards, the request built from them |
| `WorkerPoolProofs`, `LifecycleProofs`, `DeliveryProofs`, `ServicesProofs`, `AgentProofs`, `AutomationProofs`, `ControlPlaneProofs` | | theorems, section 6; each EXTENDS the components it is about |
| `Recursion` | | lemmas: least and greatest elements, induction and functions defined by recursion, as statements about sets and functions |
| `MCWorkerPool`, `MCDelivery`, `MCServices`, `MCAutomation`, `MCAgent`, `MCControlPlane` | | instances for TLC |

`Dispatcher` is used by `WorkerPool`, `CircuitBreaker` by `OllamaClient`,
`ControlState` by `Scheduler`: the caller's actions call the callee's operators,
so a handler and everything it calls synchronously are one action. The other
components meet through calls that one model makes and the other answers
nondeterministically: a handler of `WorkerPool` returns or raises, `AgentRuntime`
is what such a handler does and contains the pool's reaction to its result. In
`ChatSessions` a message waits for its runner for any time; the order in which
runners serve is `RuntimeSupervisor`'s.

`MCDelivery`, `MCServices`, `MCAutomation`, `MCAgent` and `MCControlPlane` each
put components without shared state side by side. A variable `part`, chosen in the initial state, says
which of them runs; the others stay in one initial state. A behaviour of the
instance is therefore a behaviour of exactly one component, and the state space
is the sum, not the product, of theirs. Fairness is stated for the actions of
the part that runs. An instance EXTENDS the components that have theorems, so that
what TLC checks and what is proved is the same definition and TLC evaluates
their assumptions; the others (`ToolJobs`, `ExecTool`, `WebTool`) are instantiated,
and their assumptions are repeated in the instance.

Operators whose comment starts "Mutant of X" are X with a plausible bug; no
specification uses them. They exist to show that each property notices such a
bug.

## 3. Runs

| Run | Instance and bounds | Shows |
|---|---|---|
| `queue` | 3 jobs (2 of one chat), 2 workers, 1 permit, queue of 2, 2 attempts, 1 idempotency key that may expire | `ImplementsLifecycle`; `ChatMutex`, `ChatOrder`, `NoSilentDrop`; under fairness `JobsSettle`, `CleanShutdown` |
| `agent` (`MCAgent`) | client: 2 callers, 4 calls of 2 requests each, thresholds 2, one reset or force_open; runtime: 2 turns, up to 3 calls or malformed pieces in a message of which 2 calls are executed, 3 requests per turn, 2 attempts of the pool, 1 pause or resume; threads: 2 chats, 2 jobs of one, 2 threads, 2 commands; files: 2 programs, 3 calls, 7 spellings of paths; scheduler tool: 3 jobs, 3 other calls; 2 commands; 2 web calls and one thread | `OpensOnStreak`, `ProbeComes`; `OneAnswer`, `NothingRepeated`; `JobStaysInThread`, `CardsCurrent`; `WholeTexts` |
| `delivery` (`MCDelivery`) | outbound: 3 messages (one of 2 chunks), queue of 2, 2 attempts, 2 tries per chunk; limiter: 2 chats, intervals of 2 and 4 ticks, messages of up to 2 chunks a tick apart; bot: 2 users, 3 updates, start and stop; health: every order of starts, stops and reads | `OnePlace`, `GracefulDrain`, `StopEnds`; `NothingLost` |
| `services` (`MCServices`) | scheduler: any store of 2 jobs (alike: symmetry), 3 control states, unlimited commands, submissions, crashes and restarts; skills: all directories of 2 files, 1 edit; dead letters: 2 jobs, 2 operators, 3 rows, queue of 2; texts of up to 10 characters, twice the limit; 3 chats sharing a runner's queue; 4 messages of 2 sizes, of which the last 3 are looked at, and 2 cards, of which 1 is taken; batches of 3 memories, 3 memories, 2 failed commits; 1 chat screen, 2 agents, 3 sessions, 1 deletion at a time; 2 callers, 2 workers, 2 messages to a subprocess | `StoreRegistered`, `RestartKeepsState`; `FoundIsExecuted`; `ReplayKeepsJob`; `ChunksWhole`; `AnswersInOrder`; `ShownWithoutGap`; `FaultCostsTwoCalls`; `AnswersByOwner`, `SessionsHaveAgents`; `AnswersMatch` |
| `automation` (`MCAutomation`) | 3 runs, depth 1, 2 children, 0 to 2 turns; all workflows of 3 steps; all lists of up to 3 triggers of 2 skills; 5 tools, 3 profiles, files of modes and souls that are edited and reloaded | `CallerWaits`, `ExecutionsEnd`; `SuccessMeansHandled`; `RoutesToFirstBest`; `OfferedRuns`, `ModeHolds` |
| `control_plane` (`MCControlPlane`) | 2 chats, 2 operators with 2 operations, queue of 1, 1 permit, 3 runners; 3 starts of the program, at most one of which looks odd to the others; 2 programs with 4 commands and 2 names; 4 dev servers | `NoPermitLeaks`, `DeletedForGood`, `ServedUnlessStopped`; `ExclusiveAlone`, `RunningIsVisible`; `ServerKnown`; the onboarding is run for `rename` |
| `queue_shutdown` | 2 jobs of one chat | violated: `ShutdownCompletes` |
| `runtime_supervisor_hang` | 2 chats, 1 operator | violated: `ChatReturns` |
| `refused` | the outbound queue of `delivery` | violated: `SentIsDelivered` |
| `threads` | the threads of `agent`, 3 commands | violated: `ExactlyOneActive` |
| `rename` | the agent of `control_plane` | violated: `RenameSticks` |
| `exec_overrun` | the commands of `agent` | violated: `OverrunKilled` |

The number of runs is kept small by putting components side by side, so that a
run is as long as its largest part. Every module states a type invariant; the
runs spend their time on the properties that relate pieces of state, and the type
invariants are used in the proofs. `Health`, `ToolJobs`, `ExecTool` and `WebTool`
are explored by passing runs, in which every action happens, as is `RateLimiter`; what
`ExecTool` is about has the violated run, and the other four have no property of their
own in a run: their surprises are listed in section 7. `PendingIsHeld` (`RuntimeSupervisor`),
`AtMostOneActive` (`Threads`), `NoLitter` (`Files`), `HeldNeverFires` (`Scheduler`),
`ReceiptPerCall` (`AgentRuntime`) and `NameKept` (`HatchOnboarding`) are proved and not
repeated in a run. `SendsSpaced` (`RateLimiter`) and `JobSurvives` (`DeadLetters`) are
stated for the reader: they fail (section 7); `IdsStable` (`ToolJobs`) holds on the same instance and is stated for the reader.

Why these bounds are enough. Every limit of the code is reached with room for
one more contender: with three jobs, two workers and a queue of two, a retry
meets a full queue while another job is at the lock; two attempts make a job
fail, come back and die; three messages fill the outbound queue while the loop
holds one; two turns and three calls exceed each cap by one; two agents
and three sessions let a screen show the session of one and the name of the other; two
workers let one be replaced that still answers; two clients and a
runner with a queue of one fill it while another request is in hand; three
runners let an agent be replaced while its predecessor still works; three
processes let one read a file that a second left and a third writes. The
idempotency key may expire at cutoffs 0 and 2 only (nothing, or the first
mark). What the bounds do not reach, more chats than workers, longer queues, more
runners, threads, programs and operators, is where the theorems of section 6 take
over: every safety property of a run is proved for all constants.

Bounds that are not limits of the code: `Calls`, `Resets` (`OllamaClient`),
`MaxMessage`, `MaxPauses` (`AgentRuntime`), `MaxRunners`, `MaxAsks`, `MaxOps`
(`RuntimeSupervisor`), `SessionIds` (`ChatSessions`), `MaxWorkers`, `MaxRequests`
(`SubprocessRunner`), `MaxChunks` (`RateLimiter`), `N`, `MaxTriggers`, `MaxTurns` (of a request to
`Subagents`), `MaxThreads`, `MaxCommands` (`Threads`, `HatchOnboarding`), `MaxFileCalls`
(`Files`), `MaxJobs`, `MaxToolCalls` (`ToolJobs`), `MaxServers` (`DevServer`),
`MaxUpdates` (`Bot`), `MaxEdits` (`SkillLibrary`), `ModeFiles`, `SoulFiles`
(`Personas`), `MaxRows` (`DeadLetters`), `MaxText` (`MessageSplit`), `MaxStored`,
`MaxCards` (`ContextWindow`), `MaxBatch`, `MaxMemories`, `MaxFaults` (`MemoryStore`),
`LoopTimeout`, `ExecTimeout` (ticks, of which only the order matters); the sets of jobs, messages, runs and
processes are finite because each is submitted once.

`CHECK_DEADLOCK FALSE` stands where the system may stop: a process that has
shut down, jobs that are all done, executions that ended.

## 4. Fairness

- `WorkerPool`: weak fairness of every worker's own steps (the event loop runs
  every ready task; handlers and database calls are bounded by timeouts) and of
  the shutdown sequence once begun; strong fairness of getting a permit, because
  `asyncio.Semaphore` wakes its waiters in order. Submitting, stopping, and the
  timeouts of locks and of `stop` are not fair: nobody has to.
- `OllamaClient`: responses arrive or time out (httpx timeouts), sleeps end. The
  breaker's timeout is sure to pass only while no request is under way, since a
  late failure restarts it.
- `Outbound`: the loop runs, sends end, the timeout of `stop_sender` expires.
- `Subagents`: every await of the loop is bounded by a timeout.
- `RuntimeSupervisor`: as for the workers; strong fairness of the semaphore.
- `AgentRuntime` states the fairness of a job's own steps for whoever checks it
  alone. The other components have properties of safety only, and no fairness.

## 5. Type invariants and histories

Variables that exist for a property only are marked "history" in their
declarations: `streak` and `sentIn` (`OllamaClient`), `done`, `abandoned`
(`WorkerPool`), `fate`, `short` (`Outbound`), `sinceSend`, `sendGap` (`RateLimiter`), `begins`
(`MessageSplit`), `held`, `fired` (`Scheduler`), `promised` (`ControlState`), `above` (`Subagents`), `raised`
(`SkillEngine`), `ran`, `requests` (`AgentRuntime`), `disturbed` (`InstanceLock`),
`transcript` (`RuntimeSupervisor`), `told` (`Threads`), `named`, `overlapped`
(`HatchOnboarding`), `hurried` (`DevServer`), `stored`, `meant` (`Files`), `answered`
(`ToolJobs`), `updateFate` (`Bot`), `barred` (`Personas`), `letterState`, `refused`,
`raced` (`DeadLetters`), `lost` (`MemoryStore`), `belongs` of a deleted session, `voices`
and `unclean` (`ChatSessions`). `seen` (`InstanceLock`) is no history but a circumstance:
it is chosen in the initial state and never changes.

## 6. Theorems

All are statements about the specification for every value of the constants
that satisfies the named assumptions; none assumes fairness.

`WorkerPoolProofs` (assumptions: `DispatcherAssumption`, `WorkerPoolAssumption`).
Each invariant is proved from the type invariant and at most one
strengthening of its own:

- `ChatMutex` is not inductive, the next worker is let in by what the lock says.
  `LockHeld` carries it: the lock of a chat names whoever is inside.
- `NoSilentDrop` needs `StopsInOrder`: the dispatcher is down only once the pool
  has stopped and its workers have gone.
- `QueueBounded` needs `QueueFits`, which adds that the queue is finite.
- `PermitsConserved` needs `WaitersNeed`: who waits for a permit has a job that
  needs Ollama.
- `AttemptsLeft` is inductive: a retry is queued only with an attempt left, and
  what waits in the queue is what a worker takes.

Results:

- `TypeCorrect`, `Exclusive` (`ChatMutex`), `PermitsSafe` (`PermitsConserved`),
  `Backpressure` (`QueueBounded`), `AttemptsBounded` (`AttemptsLeft`),
  `NothingDropped` (`NoSilentDrop`).

`LifecycleProofs` (EXTENDS `WorkerPoolProofs`, same assumptions) shows that
`WorkerPool` implements `JobLifecycle`, for every number of jobs, workers, chats,
keys and permits. The mapping collects every place a job is found in, so it
would show a job that is in two; the abstract steps only move a job from a single
place to a single place. What makes that so is the invariant `Placed`: the jobs
that are queued, held by workers and settled are all different, and all were
accepted. Each action is first shown to be one of a few moves (`Idling`,
`Taking`, `Retrying`, `GivingUp`, `Ending`) or to move nothing; the invariant and
the refinement are then proved once per move. `NoSilentDrop` and
`AttemptsLeft` are used: without them a failed job could leave no trace, or a
retry could exceed its attempts.

- `Implements` (`ImplementsLifecycle`).
- `NeitherLostNorDoubled` (`OnePlace`): with `Somewhere` (an accepted job has a
  place) and `RowsOnce` (one dead-letter row at most) the place is exactly one.
- `PendingTold` (`PendingExact`): `_pending_jobs` is what the workers work on.

`LifecycleProofs` also shows the order of a chat's jobs. `ChatOrder` is not inductive:
it says who starts next, and that depends on everybody still on the way. `OrderInv`
follows the jobs from the queue to the lock: a first attempt that is queued has a later
stamp than whatever a worker has taken of its priority, the line before a lock is in
that order, and who waits there is behind whoever is inside.

- `ChatsInOrder` (`ChatOrder`).

`DeliveryProofs` (assumptions `OutboundAssumption`, `BotAssumption`).

- `OutboundTyped` (`TypeOK`), `MessagesInOnePlace` (`OnePlace`): a message that was not
  accepted has no fate (`Untouched`), and one on its way to the dead letters is no
  longer tracked, so that stop does not find it a second time.
- `StopDrains` (`GracefulDrain`): what `stop_sender` reports was decided when the loop
  ended, with an empty queue and nothing in hand; what is accepted after that is late
  (`DrainInv`).
- `NoUpdateLost` (`NothingLost`): decided where nobody looks at it, in the order of the
  shutdown. The dispatcher refuses jobs only after the bot has had its turn, and a bot
  that was stopped handles nothing (`StoppedFirst`).

`ServicesProofs` (`ControlStatesAssumption`, `SchedulerAssumption`, `LettersAssumption`,
`LibraryAssumption`, `MemoryAssumption`, `SplitAssumption`, `ContextAssumption`,
`SessionsAssumption`, `WorkersAssumption`).

- `SchedulerTyped`, `StoreListed` (`StoreRegistered`), `PausedStays` (`HeldNeverFires`): a
  job that is held is not due in the store either (`HeldNotDue`). That what is submitted
  also runs is not claimed; it does not (section 7).
- `RestartKeeps` (`RestartKeepsState`): `FileTells` says what the file is worth to the
  next process: while a process runs, what it promised is its state; a file whose write
  a crash cut off holds what was promised, what was attempted or nothing that counts.
- `FaultsCostTwo` (`FaultCostsTwoCalls`): an exception drops the rest of its caller's
  batch. A session that is broken now is a fault of which the loss of one more call is
  still to come (`LossToCome`).
- `ReplayKeeps` (`ReplayKeepsJob`): a job that was lost was refused by a closed
  dispatcher or failed again before its replay deleted the row. Besides the types of
  queue, rows and replays (`LettersShape`) it takes `QueuedWaits`: between the enqueue
  and the deletion of a replay its job waits, has ended well or has failed again.
- `FoundRuns` (`FoundIsExecuted`): as long as nobody edited the directory, a loader that
  has loaded holds a skill for every name found on disk, whichever of two files with
  one name it read last (`Holds`).
- `OwnersAnswer` (`AnswersByOwner`), `NoOrphanSessions` (`SessionsHaveAgents`): a message
  that its runner took up is in a session of its agent (`TakenUp`), which was looked at
  then; a session that was opened never changes its agent (`OpenKeeps`), so it still is
  when the answer is stored, rows or no rows.
- `OwnAnswer` (`AnswersMatch`): an answer is given to the request whose id it carries
  (`ReadKeeps`), which may be gone, but is no other.
- `CutsWhole` (`ChunksWhole`): the code keeps what remains, not where in the text it is.
  `Rest` says it: what remains is the end of the text, behind every chunk so far, and
  it begins with a letter once something was cut, so that no later chunk is empty and
  each round takes something away. `ChunkAdded` is one round, for any cut after a
  stretch and the blanks behind it; a round of the code is such a cut, wherever
  `FindSplitPoint` finds its break. The words of a text are not compared one by one:
  the history `begins` says where each chunk was taken from, and the property is that
  it is the text there and that what is in no chunk is blank.
- `SplitTyped`: no chunk is longer than `MAX_MESSAGE_LENGTH`.
- `NoGapShown` (`ShownWithoutGap`): a request holds what `_truncate_messages` keeps, so
  this is about that function. Sizes of parts of the transcript are differences of the
  sums of the sizes before each message (`SizeOfSums`, `SizeOfPart`). After each turn of
  the loop the newest messages so far are kept and the budget is less by their sizes,
  and once one did not fit, no longer part of the transcript fits either (`Kept`,
  `TakeKeeps`): sizes are not negative. `Transcript` carries over the requests that
  what was shown is still the beginning of what is stored.

`AgentProofs` (`BreakerAssumption`, `ClientAssumption`, `RuntimeAssumption`,
`ThreadsAssumption`, `FilesAssumption`).

- `ClientTyped`, `OpenBlocksNewCalls` (`OpenAdmitsNoCall`), `AtMostMaxAttempts`
  (`RequestsBounded`), and of the action properties `OpensOnlyOnStreak`
  (`OpensOnStreak`), `LeavesOpenForProbe` (`ReopensThroughProbe`): the invariant ties the
  breaker's failure counter to the true streak (`StreakCounted`) and keeps the counters
  below their thresholds (`ClientInv`).

- `EveryCallAnswered` (`ReceiptPerCall`): while a message is worked on, the receipts are
  those of its malformed pieces, of the calls beyond the cap and of a prefix of the
  others, in this order (`Received`).
- `AnsweredOnce` (`OneAnswer`): the transcript has an answer only in the last phase of a
  job that succeeded (`Transcript`), over all attempts.
- `NoToolRepeated` (`NothingRepeated`): a job is attempted again, or laid by, only when
  its run raised, and a run raises only before its loop has started a tool
  (`Unstarted`).
- `RuntimeTyped` (`RuntimeTypeOK`): the work of a job is bounded. What an attempt has
  asked the model is at most what its turns so far allow, less the retries the present
  one has left (`Spent`); the turns are those of the runtime or fewer of the persona.
- `JobsKeepThread` (`JobStaysInThread`): a retry is in the thread its job was given
  (`JobsPlaced`), and what a job has said is in that thread until its answer
  (`SaidPlaced`), which a job without a thread puts where its chat is. Threads are added
  and never change their chat (`TableGrows`), whatever the user commands.
- `CardsShowLast` (`CardsCurrent`): a key has one live card in a thread (`OneLive`), so
  that an update and `/memory forget` hit all there is.
- `OneThreadActive` (`AtMostOneActive`).
- `NamesAgree`: the code makes of a path what it means, for paths of any length.
  `Normalize` follows the loop of the code, part by part, on a stack; `Means` says what
  comes out without one, the last name at each depth. The proof carries along the path
  that the stack holds these names (`Follows`), as long as no `..` led out.
- `TextsWhole` (`WholeTexts`): two spellings of a file are the same place by
  `NamesAgree`, so kills, errors, other writers and other spellings between any two
  steps of a call leave every file whole. A temporary file that is no orphan belongs
  to a write in hand (`TempsOwned`).
- `OnlyOrphansStay` (`NoLitter`).
- `WorkspaceTyped` (`FilesTypeOK`): nothing is written outside the places of the
  workspace, and only names without an extension become directories.
- `ThreadsTyped`: no job has more attempts than allowed, and every thread named exists.

`AutomationProofs` (`SubagentsAssumption`, `SkillAssumption`, `RouterAssumption`,
`PersonasAssumption`).

- `SubagentsTyped`, `CallersWait` (`CallerWaits`): what a run awaits awaits in turn is
  awaited too (`Nested`), which is why the timeout of one ends all of them, and a run
  that was not spawned awaits nothing (`Unspawned`).
- `SuccessIsHandled` (`SuccessMeansHandled`): a step that raised had a branch unless the
  workflow ended there (`Branched`), and a workflow ends well only after a step
  (`Tried`). `EngineTyped` is the position of every workflow among its steps.
- `RoutedToFirstBest` (`RoutesToFirstBest`): the best match so far is the first of the
  highest confidence among the triggers tried (`BestSoFar`).
- `OfferedIsRun` (`OfferedRuns`), `ModeHeld` (`ModeHolds`): a request that runs has the
  tools of its profile and is offered what its policy leaves (`RequestInv`); what is
  barred from a request that runs is not among the tools it was given when it began,
  and what is set later does not change these (`BarredInv`).

`ControlPlaneProofs` (`SupervisorAssumption`, `OnboardingAssumption`, `ServerAssumption`,
`LockAssumption`).

- `SupervisorTyped`, `PermitsNeverLeak` (`NoPermitLeaks`), `DeletedStays`
  (`DeletedForGood`): `SupervisorShape` says that runners are created in order, that a
  worker has a request in hand exactly when it waits for a permit or for the model, and
  that the transcript names runners that exist.
- `AnswersStayInOrder` (`AnswersInOrder`), `PendingStaysHeld` (`PendingIsHeld`): the
  order of a runner's questions is found again in its queue (`InLine`), in the order in
  which the chats are woken (`Woken`) and in the answers stored (`Answered`).
- `ServerStaysKnown` (`ServerKnown`): a server of ours that serves, or will, is the one
  in the pid file, and a restart that has stopped knows of none (`ServerInv`).
- `NameStaysKept` (`NameKept`): as long as no command ran within another, at most one
  program is suspended, and what it has read is what the record says
  (`OnboardingInv`). `OnboardingTyped` needs no such condition.
- `LockTyped`, `LockExclusive` (`ExclusiveAlone`), `LockVisible` (`RunningIsVisible`). Exclusion is not
  inductive: a process that has read the file acts on what it saw. `Alone` says what
  saves it while nobody alive overlapped or forced, and `is_stale` recognises whoever
  runs: one process in acquire, the running one in the file, the reader saw it, beyond
  the decision nobody runs. `LeavesAlone` says that a disturbance ends with those it
  concerned.

`OnePlace` (of the queue), `PendingExact`, `PermitsConserved`, `QueueBounded`,
`AttemptsLeft`, `OpenAdmitsNoCall`, `RequestsBounded`, `ReopensThroughProbe`,
`PendingIsHeld`, `AtMostOneActive`, `NoLitter`, `HeldNeverFires`, `ReceiptPerCall` and
`NameKept` hold for every
instance by these theorems and are not repeated in a run.

`Recursion`. The library states induction for predicates, as operators that the
provers cannot instantiate. Its theorems on well-founded relations are about sets, and
from the least element of a set of naturals follow induction up to a bound
(`Induction`: a set that holds 0 and with each number the next) and the functions
defined by recursion on an interval (`RecursionExists`: a function with a first value
and a step, each given as a function, has the values the definition says). A proof
about a loop of the code names the set of turns after which its invariant holds. In
this way `Truncate`, `SizeOf` and `Normalize`, which are recursive functions and no
RECURSIVE operators, are proved about for inputs of every length.

Only model-checked: liveness (`JobsSettle`, `CleanShutdown`, `StopEnds`,
`ExecutionsEnd`, `ProbeComes`, `ServedUnlessStopped`), which is outside the prover's
reach, as is ENABLED. What `ProbeComes` and the others say of the fair scheduling of
section 4 therefore rests on the bounds of section 3.

## 7. Where the code departs from its words

Six departures have a run that TLC must find violated:

- `queue_shutdown`: a worker cancelled with a job leaves the id in
  `_pending_jobs`, and `shutdown(wait=True)` waits for it for ever.
- `runtime_supervisor_hang`: stopping a runner leaves the futures of its
  requests pending; `chat` awaits them for ever.
- `refused`: a message that Telegram refuses, or does not take in all its tries, is
  marked sent (`throttles.py:371`): nobody looks at the False of the sender.
- `threads`: activating the thread that is active already leaves the chat without
  an active one (`thread_store.py:181`).
- `rename`: an onboarding reply that read the record before a `/rename` writes
  the old name back (`agent_conversation_service.py:308`).
- `exec_overrun`: of the three deadlines around a command the one that kills is
  never the first (`exec_tool.py:388`).

Known departures found the same way, with properties that are not kept as runs.
The models contain each of these behaviours, and the kept properties hold in
spite of them:

- Queue. A keyed job's retry is a duplicate of itself and goes to the dead
  letters after its first failure (`dispatcher.py:298`). A job rejected by a full
  queue leaves its key behind (`:170`). The dead-letter row counts one attempt
  less than were made (`:318`).
- Client. The breaker is asked before the first request of a call only; retries
  go out while it is open (`ollama_client.py:312`).
- Outbound. The limiter is asked once per message, and the chunks of a long one
  follow each other 0.1 s apart (`telegram_sender.py:319`), its tries after their own
  delays: sends to one chat do not keep the chat's interval (`SendsSpaced` fails). If
  the queue fills during the pause before a retry, the loop's `put` waits for
  itself until `stop_sender` cancels it (`throttles.py:481`). Two concurrent
  callers of `acquire_global` would be granted at the same time (`:167`); the app has
  one, and the model too.
- Scheduler. After a restart a paused job is listed as enabled
  (`service.py:653`). A one-shot job that was submitted stays listed and cannot be
  removed (`:379`). Nothing asks `can_run_jobs` (`control_state.py:273`), but no job runs either:
  `add_job` hands the SQLAlchemy store a bound method, whose pickling raises
  (`:326`), and has no caller; what APScheduler's pool of threads calls is the
  coroutine function `_execute_job` (`:569`), whose coroutine nobody awaits. So the
  store holds what another program put there, and the executor, its retries, its dead
  letters and the parser of triggers are not modelled. A crash between truncation and
  write of the state file loses a pause (`control_state.py:409`). Pausing the
  tools lifts a pause of the jobs (`:206`).
- Sub-agents. The depth limit is not enforced for the first child
  (`manager.py:132`). Handlers of failures raise themselves, leaving the record
  RUNNING (`executor.py:151`), as does a timeout of the tool call around it
  (`:490`). A cancelled run executes on and is recorded completed
  (`manager.py:358`). A run spawned without waiting is never executed
  (`subagent_tool.py:224`).
- Skills. A condition that is false does not take its failure branch
  (`engine.py:211`); the value of a return step is dropped (`:201`); a backward
  reference loops without bound (`:195`); a trigger's priority decides nothing
  (`router.py:157`).
- Runtime. There is no detection of repeated calls on the path that runs
  (`runtime.py:253`). A result that is not ok completes the job
  (`workers.py:169`). With a persona of fewer turns than the runtime, running out
  of turns is reported as a success (`runtime.py:309`).
- Tool loop. A message whose envelopes are all malformed ends the loop as the
  answer, and the model is not told. `_process_tool_calls`, `_is_duplicate_call` and
  `_should_continue` of the runtime have no caller.
- Control plane. A crashed or late runner is dropped without being stopped and
  works on beside its successor (`runtime_supervisor.py:194`). The boot of an agent
  asks the model without the semaphore (`hatch_boot_service.py:102`), so that it may
  exceed the limit beside a chat.
- Lock. Two starts at the same time may both get it (`lock.py:203`), and a forced one
  leaves the other at work. A live holder counts as stale when `os.kill` may not ask for
  it (`:47`), when `ps` is missing or fails, and when name or command line differ
  (`:161`): the next start deletes its file. A dead holder counts as alive while its pid
  belongs to a process that looks like the program.
- Chat sessions. A message is sent to whatever agent and session are active when its
  task runs (`chat.py:125`). Where a start fails half way the screen has one agent and
  another's session (`OpenFails`): the next question is stored in that session and
  refused. A question that waits while its session, or its agent with all sessions, is
  deleted is stored without a session, and so is an answer that comes after the
  deletion. The console's `/new` opens a session for an agent id it does not look up
  again (`entrypoint.py:547`); it and the sessions of a new agent are outside
  `ChatSessions`.
- Subprocess runner. A start that times out (`runner_subprocess.py`, `start`), the
  drop of a late runner by `chat` and two starts at the same time leave a worker
  process that nobody stops. The stop of a worker that died raises in the write to its
  pipe and leaves a stopped entry registered.
- Sub-agents, requested limits. Overrides put only the allowlist into the policy
  that is validated, but the run uses the request: with no turns it ends at
  once in `SubAgentResult.error(error=...)`, which raises, and its record stays
  running. A run spawned without waiting is answered SUBAGENT_ERROR though it is
  recorded. `wait_for_subagent` has no caller.
- Threads. A retry activates its first thread again over a `/thread` command,
  extracts the older statement over a newer or forgotten one, and appends the
  user's message once more.
- Onboarding. `/onboard` whose boot fails leaves the session complete;
  `degraded_reason` is cleared at the end of a boot while the status stays
  degraded.
- Dev server. `stop` while the server boots removes the pid file without killing,
  and the orphan serves later; `start` meanwhile spawns a second; `restart` may
  spawn one that cannot bind while the old one drains. With a foreign server on the
  port `stop` says stopped and `restart` spawns a process that dies.
- Command tool. The kill and the TIMEOUT answer are unreachable; a process that
  prints more than the pipe holds blocks for ever once nobody reads. The python
  action always ends in EXECUTION_ERROR, because the wrapper's template has a
  brace that `format` takes for a field.
- Web tool. `search_and_extract` never extracts: it looks for results the search
  does not put in its metadata. INVALID_ACTION and HTTP_ERROR are unreachable, the
  first behind the schema, the second because no status is looked at: an error page
  is a success. A search that overran keeps its thread, so that abandoned searches
  can take the whole default pool. The size of a page is checked after it was read,
  and only by fetch. Unknown schemes and foreign domains pass the sanitizer; a
  harmless parameter whose name begins with `on` does not; a bracket in a URL
  without a scheme raises instead of being refused.
- Scheduler tool. Its identity arguments (`_chat_id`, `_is_admin`) are passed by
  nobody unless the model writes them, so that jobs have no owner; the jobs are
  previews and never run.
- Bot. Messages sent while it is off are dropped when polling starts. A message of
  a hatched chat whose answer is empty or whose reply fails is handled again as a
  job. The False of `enqueue` is not read. Updates are handled one at a
  time, so that a direct chat that hangs blocks the bot and its stop. An error
  while the bot is stopped leaves its handlers at work after the dispatcher refuses
  jobs. Queued jobs are lost at the shutdown; the answer to a chat job is only
  logged (`workers.py:158`).
- Personas. The newest version is the last string (1.10.0 before 1.9.0). Under the
  dangerous profile a soul that allows "*" drops the list of the mode. `exec` is listed
  as balanced and never permitted there. A job runs under the mode and soul
  its thread has when it runs, whatever it was sent under (`runtime.py:888`). A mode
  that was removed makes it fall back to both defaults, which lifts what the mode
  avoided, and a message that could not be stored keeps the refs of its sending; a
  conversation fails instead.
- Skills on disk. The coroutine of a tool step is never awaited; llm, subagent and
  schedule steps are placeholders; a triggered skill always answers "{}". A skill edited
  between the loads of the two loaders is listed and "not found". Of two
  files with one name the last of an unordered glob wins. Names with capitals or
  hyphens cannot be invoked directly.
- Dead letters. When the dispatcher is closed `enqueue`'s False is not read, the row
  is deleted and the job lost. A job that fails again between enqueue and delete
  loses both rows. These are the two ways of `ReplayKeepsJob`; `JobSurvives`, which
  allows none, fails. `replay` has no caller in the application. A job with two rows cannot be replayed. A full queue notes the
  key of the job, so that the next replay is a duplicate. Outbound messages are
  replayed as notification jobs.
- Health. The route of `main.py` for `/health/ready` is shadowed by the router's.
  "unhealthy" is overwritten by a later "degraded". The bot's `/status` looks for a
  key that does not exist and shows no workers. The doctor asks the model's server
  three times and may contradict itself.
- Context. The transcript is put whole into the system prompt and again as
  messages, so that a longer one leaves room for fewer; a request may exceed the
  window. The user's message is appended whatever the budget and may appear three
  times. The query for memories is always empty. The messages of the tool loop
  are not cut.
- Splitting. A text that begins with more blanks than half the limit may have an
  empty first chunk: the cut comes after a blank and the chunk is stripped.
- Memory tool and store. remember, search and review always end in an error (an
  argument and a method that do not exist); forget fails without the admin's
  privilege in the call; the pause of the automatic memory is not read. The creations of one
  caller stop at the first that raises, so that a failed commit costs its whole batch,
  and the next caller's, who finds the session broken (`FaultCostsTwoCalls`). A memory
  whose audit row fails is stored and reported as an error. `/rename` has stored
  the name when its memory fails. No embedding is ever stored.
- Files. A persona whose extensions have none in common with the settings falls back to
  all of the settings'. The receipt of a write may show another writer's size, or
  an error after a replacement that succeeded. Texts in UTF-16 may exceed the
  caps and cannot be read again. The loss of power is not modelled, only the end
  of a process.

## 8. Plan

What comes next, the most important first:

1. Proofs: `IdsStable` of the scheduler tool; the type invariants that no theorem
   states yet (among them those of `DeadLetters`, `MemoryStore` and `Bot`).
2. `FifoLock`, the promise of the chat lock (one holder, served in order), with
   `WorkerPool` shown to implement it as it implements `JobLifecycle`.
3. The inheritance of sub-agent policies and the listing of workspace directories
   against reference definitions.

## 9. Not modelled, and why

- No caller in the application: session locks and `retry_async`; retrieval by
  embeddings, deduplication and the extraction of memories by a model; sub-agent
  policy inheritance and the summariser; `main.readiness_check`, which the router
  shadows.
- Text without state: prompts, boot messages and their linter, help, lists and
  statistics of the commands, the formatting of results.
- I/O and library code: configuration, logging, migrations, the engine of the
  database, TUI and CLI, which show what the services answer; metrics, traces and audit
  rows, which nothing reads back; the installer scripts.
- Unreachable: `add_job`, `_execute_job` and with them the scheduler's executor, its rows
  of runs and the parser of triggers (section 7).
