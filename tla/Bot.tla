--------------------------------- MODULE Bot ---------------------------------
(***************************************************************************)
(* The Telegram bot (app/interfaces/telegram_bot.py) in the life of the    *)
(* application (lifespan, _start_queue_workers and _stop_queue_workers of  *)
(* app/main.py): what becomes of an update from the moment a user sends it *)
(* until its handler is done.                                              *)
(*                                                                         *)
(* The library behind the bot fetches updates in order and handles them    *)
(* one after the other; stopping it handles those it has fetched.  The     *)
(* queue is a number of jobs here, the workers take from it; the runs of   *)
(* the scheduler never reach it (Scheduler).                               *)
(***************************************************************************)
EXTENDS Integers, Sequences

CONSTANTS
  Users,        \* the chats that write to the bot
  QueueMaxSize, \* QUEUE_MAX_SIZE
  MaxUpdates    \* bound: updates ever sent

ASSUME BotAssumption == QueueMaxSize \in Nat \ {0} /\ MaxUpdates \in Nat

VARIABLES
  phase,     \* of the application
  step,      \* how many of StartOrder or StopOrder are done
  bot,       \* of the bot and its library
  shut,      \* the dispatcher refuses jobs
  mail,      \* updates sent and not fetched
  fetched,   \* updates fetched and not yet in a handler
  hands,     \* handlers at work
  plane,     \* the bot has the control plane's context
  hatched,   \* chats bound to an agent of the control plane
  waiting,   \* jobs in the queue
  updateFate \* history: what became of each update

botVars == <<phase, step, bot, shut, mail, fetched, hands, plane, hatched, waiting, updateFate>>

StartOrder == <<"pool", "outbound", "sender", "bot", "scheduler">>
\* Mutant of StopOrder: the dispatcher first.
StopDispatcherFirst == <<"dispatcher", "bot", "sender", "pool", "outbound", "scheduler">>
StopOrder == <<"bot", "sender", "pool", "outbound", "dispatcher", "scheduler">>

Update == [id : 1 .. MaxUpdates, user : Users, kind : {"text", "hatch", "command"}]
Settled == {"answered", "accepted", "refused"}

BotTypeOK ==
  /\ phase \in {"initializing", "starting", "running", "stopping", "ended", "failed"}
  /\ step \in 0 .. 6
  /\ bot \in {"none", "off", "started", "polling", "deaf", "draining", "broken"}
  /\ shut \in BOOLEAN
  /\ mail \in Seq(Update) /\ fetched \in Seq(Update)
  /\ hands \subseteq [update : Update, at : {"direct", "create", "command"}]
  /\ plane \in BOOLEAN /\ hatched \subseteq Users
  /\ waiting \in 0 .. QueueMaxSize
  /\ updateFate \in Seq(Settled \cup {"sent", "dropped", "lost"})

BotInit ==
  /\ phase = "initializing" /\ step = 0 /\ bot = "none" /\ shut = FALSE
  /\ mail = <<>> /\ fetched = <<>> /\ hands = {} /\ plane = FALSE /\ hatched = {}
  /\ waiting = 0 /\ updateFate = <<>>

-----------------------------------------------------------------------------
updates == <<mail, fetched, hands, updateFate>>
rest == <<shut, plane, hatched, waiting>>

\* A user writes to the bot, whether it runs or not.
Send(u, kind) ==
  LET update == [id |-> Len(updateFate) + 1, user |-> u, kind |-> kind] IN
  /\ Len(updateFate) < MaxUpdates
  /\ mail' = Append(mail, update)
  /\ updateFate' = Append(updateFate, "sent")
  /\ UNCHANGED <<phase, step, bot, fetched, hands, rest>>

\* The bot is made when it is enabled, its library is there and has a token.
MakeBot == bot' \in {"none", "off"}

\* Without the context of the control plane the commands are made all the same.
MakeCommands == plane' \in BOOLEAN

\* _initialize_queue_system makes all components; any other exception ends the
\* program, with nothing started.
Initialize ==
  /\ phase = "initializing"
  /\ \/ phase' = "starting" /\ MakeBot /\ MakeCommands
     \/ phase' = "failed" /\ UNCHANGED <<bot, plane>>
  /\ UNCHANGED <<step, updates, shut, hatched, waiting>>

\* _start_queue_workers, one component at a time; an exception of any of them
\* ends the program, whatever runs by then.
StartComponent ==
  /\ phase = "starting"
  /\ step < Len(StartOrder)
  /\ \/ /\ step' = step + 1
        /\ bot' = IF StartOrder[step'] = "bot" /\ bot = "off" THEN "started" ELSE bot
        /\ phase' = phase
     \/ step' = step /\ phase' = "failed" /\ bot' = "off"
  /\ UNCHANGED <<updates, rest>>

\* _initialize_observability: the metrics and the routes get their parts.
StartupComplete ==
  /\ phase = "starting"
  /\ step = Len(StartOrder)
  /\ phase' = "running"
  /\ UNCHANGED <<step, bot, updates, rest>>

\* The polling task, which nothing awaits: it drops what was sent while the bot
\* was off; if it fails the bot hears nothing.
PollingBegins ==
  /\ bot = "started"
  /\ bot' = "polling"
  /\ mail' = <<>>
  /\ updateFate' = [i \in DOMAIN updateFate |->
                IF \E k \in DOMAIN mail : mail[k].id = i THEN "dropped" ELSE updateFate[i]]
  /\ UNCHANGED <<phase, step, fetched, hands, rest>>

PollingFails ==
  /\ bot = "started"
  /\ bot' = "deaf"
  /\ UNCHANGED <<phase, step, updates, rest>>

Fetch ==
  /\ bot = "polling"
  /\ mail # <<>>
  /\ fetched' = fetched \o mail
  /\ mail' = <<>>
  /\ UNCHANGED <<phase, step, bot, hands, updateFate, rest>>

-----------------------------------------------------------------------------
Sequential == hands = {}

Handles == phase \notin {"ended", "failed"} /\ bot \notin {"none", "off"}
HandlerStep(h) == h \in hands /\ Handles /\ UNCHANGED <<phase, step, bot, shut, plane, mail, fetched>>
Done(h, f) == hands' = hands \ {h} /\ updateFate' = [updateFate EXCEPT ![h.update.id] = f]

\* _handle_message up to its first await: a chat with a session goes to its
\* agent, another message becomes a job; and the handlers of the commands.
Handle ==
  /\ Handles
  /\ Sequential
  /\ fetched # <<>>
  /\ fetched' = Tail(fetched)
  /\ LET u == Head(fetched) IN
     hands' = hands \cup {[update |-> u,
                           at |-> IF u.kind # "text" THEN "command"
                                  ELSE IF u.user \in hatched THEN "direct" ELSE "create"]}
  /\ UNCHANGED <<phase, step, bot, mail, updateFate, rest>>

\* The agent of the control plane answers.
DirectAnswered(h) ==
  /\ HandlerStep(h)
  /\ h.at = "direct"
  /\ Done(h, "answered")
  /\ UNCHANGED <<hatched, waiting>>

\* An empty answer, and an exception, the one of sending the answer included,
\* leave the message to the queue.
DirectFails(h) ==
  /\ HandlerStep(h)
  /\ h.at = "direct"
  /\ hands' = (hands \ {h}) \cup {[h EXCEPT !.at = "create"]}
  /\ UNCHANGED <<hatched, waiting, updateFate>>

\* _create_job_from_message: the False of a dispatcher that is shut down is not
\* looked at, a full queue raises and the user is told.
CreateJob(h) ==
  /\ HandlerStep(h)
  /\ h.at = "create"
  /\ \/ shut /\ Done(h, "lost") /\ UNCHANGED waiting
     \/ ~shut /\ waiting = QueueMaxSize /\ Done(h, "refused") /\ UNCHANGED waiting
     \/ /\ ~shut /\ waiting < QueueMaxSize
        /\ Done(h, "accepted")
        /\ waiting' = waiting + 1
  /\ UNCHANGED hatched

\* A command is answered, or raises and _handle_error tells the user.
HandleCommand(h) ==
  /\ HandlerStep(h)
  /\ h.at = "command"
  /\ Done(h, "answered") \/ Done(h, "refused")
  /\ UNCHANGED <<hatched, waiting>>

\* /hatch binds the chat to an agent before its answer can fail.
HandleHatch(h) ==
  /\ HandlerStep(h) /\ plane
  /\ h.at = "command" /\ h.update.kind = "hatch"
  /\ Done(h, "answered") \/ Done(h, "refused")
  /\ hatched' = hatched \cup {h.update.user}
  /\ UNCHANGED waiting

\* A worker takes a job.
WorkerTakes ==
  /\ waiting > 0
  /\ \/ phase = "starting" /\ step > 0
     \/ phase = "running"
     \/ phase = "stopping" /\ \A i \in 1 .. step : StopOrder[i] # "pool"
  /\ waiting' = waiting - 1
  /\ UNCHANGED <<phase, step, bot, shut, plane, hatched, updates>>

-----------------------------------------------------------------------------
Shutdown ==
  /\ phase = "running"
  /\ phase' = "stopping"
  /\ step' = 0
  /\ UNCHANGED <<bot, updates, rest>>

Stopping(c) == phase = "stopping" /\ step < Len(StopOrder) /\ StopOrder[step + 1] = c
NextStop == step' = step + 1 /\ UNCHANGED <<phase, updates, plane, hatched, waiting>>

\* TelegramBot.stop: no further update is fetched, those fetched are handled.
StopBot ==
  /\ Stopping("bot")
  /\ \/ bot \in {"started", "polling", "deaf"} /\ bot' = "draining" /\ UNCHANGED step
     \/ bot = "draining" /\ fetched = <<>> /\ hands = {} /\ bot' = "off" /\ step' = step + 1
     \/ bot = "none" /\ step' = step + 1 /\ UNCHANGED bot
  /\ UNCHANGED <<phase, updates, rest>>

\* An exception is logged and leaves the library as it is.
StopBotFails ==
  /\ Stopping("bot")
  /\ bot # "none"
  /\ bot' = "broken"
  /\ NextStop
  /\ UNCHANGED shut

\* shutdown: no more jobs; then it waits for those the workers had.
StopDispatcher ==
  /\ Stopping("dispatcher")
  /\ \/ ~shut /\ shut' = TRUE /\ UNCHANGED <<phase, step, updates, plane, hatched, waiting>>
     \/ shut /\ UNCHANGED shut /\ NextStop
  /\ UNCHANGED bot

StopComponent(c) ==
  /\ Stopping(c)
  /\ NextStop
  /\ UNCHANGED <<bot, shut>>

End ==
  /\ phase = "stopping"
  /\ step = Len(StopOrder)
  /\ phase' = "ended"
  /\ UNCHANGED <<step, bot, updates, rest>>

BotNext ==
  \/ \E u \in Users, kind \in {"text", "hatch", "command"} : Send(u, kind)
  \/ Initialize \/ StartComponent \/ StartupComplete \/ PollingBegins \/ PollingFails
  \/ Fetch \/ Handle
  \/ \E h \in hands :
       DirectAnswered(h) \/ DirectFails(h) \/ CreateJob(h) \/ HandleCommand(h) \/ HandleHatch(h)
  \/ WorkerTakes
  \/ Shutdown \/ StopBot \/ StopBotFails \/ StopDispatcher
  \/ \E c \in {"sender", "pool", "outbound", "scheduler"} : StopComponent(c)
  \/ End

BotSpec == BotInit /\ [][BotNext]_botVars

-----------------------------------------------------------------------------
\* Nothing a handler took is lost without a word: whenever the users write and
\* the application stops, a handler ends with an answer, a job in a queue that
\* takes jobs, or a refusal; and unless stopping the bot failed, the handlers
\* are through before the dispatcher refuses.
NothingLost == bot # "broken" => \A i \in DOMAIN updateFate : updateFate[i] # "lost"
=============================================================================
