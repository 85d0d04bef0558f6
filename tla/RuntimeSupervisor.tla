-------------------------- MODULE RuntimeSupervisor --------------------------
(***************************************************************************)
(* The agent runtimes of the control plane: RuntimeSupervisor              *)
(* (app/control_plane/services/runtime_supervisor.py) and the in-process   *)
(* runners it starts and stops (app/control_plane/infra/                   *)
(* runner_inprocess.py).  All tasks share one event loop: what a coroutine *)
(* does between two real suspensions is one action.                        *)
(*                                                                         *)
(* A runner is an incarnation, numbered in the order of creation; its task *)
(* may outlive its entry in _runners.                                      *)
(***************************************************************************)
EXTENDS Integers, Sequences, FiniteSets, SequencesExt

CONSTANTS
  Agents,
  Clients,      \* tasks that call chat(), one request at a time
  Operators,    \* tasks that start, stop, restart and delete agents
  Depth,        \* max_queue_depth
  Permits,      \* max_inflight_ollama_requests
  MaxRunners,   \* bound: runners created
  MaxAsks,      \* bound: requests of a client
  MaxOps        \* bound: operations of all operators

ASSUME SupervisorAssumption ==
  {Depth, Permits, MaxRunners, MaxAsks, MaxOps} \subseteq Nat \ {0}

Runners == 1 .. MaxRunners
None == 0
Kinds == {"stop", "restart", "delete"}

VARIABLES
  registry,    \* _runners: agent -> runner or None
  owner,       \* runner -> its agent, or "none" before it is created
  status,      \* runner -> _status
  worker,      \* runner -> what _worker_loop does
  current,     \* runner -> the request taken from the queue, or <<>>
  queue,       \* runner -> _queue, of requests
  permits,     \* free permits of the semaphore
  request,     \* client -> the request it awaits: [runner, ask, future]
  ready,       \* clients whose future is done, in the order they will run
  row,         \* agent -> status in the agents table, or "deleted"
  transcript,  \* history: [role, client, ask, runner] of all messages stored
  op,          \* operator -> the operation in progress
  ops          \* counts operations, for the bound

supervisorVars == <<registry, owner, status, worker, current, queue, permits, request, ready,
          row, transcript, op, ops>>

ChatRequests == [client : Clients, ask : 1 .. MaxAsks]
NoRequest == [runner |-> None, future |-> "none"]
NoOp == [kind |-> "none"]

SupervisorTypeOK ==
  /\ registry \in [Agents -> Runners \cup {None}]
  /\ owner \in [Runners -> Agents \cup {"none"}]
  /\ status \in [Runners -> {"new", "running", "stopping", "stopped", "crashed"}]
  /\ worker \in [Runners -> {"none", "get", "acquire", "chat", "cancelled"}]
  /\ current \in [Runners -> ChatRequests \cup {<<>>}]
  /\ \A r \in Runners : queue[r] \in Seq(ChatRequests) /\ Len(queue[r]) <= Depth
  /\ permits \in 0 .. Permits
  /\ request \in [Clients -> [runner : Runners \cup {None}, future : {"none", "pending", "result", "exception"}]]
  /\ ready \in Seq(Clients)
  /\ row \in [Agents -> {"running", "stopped", "degraded", "deleted"}]
  /\ \A o \in Operators : op[o] = NoOp \/ op[o] \in [kind : Kinds, agent : Agents, runner : Runners]
  /\ ops \in 0 .. MaxOps

SupervisorInit ==
  /\ registry = [a \in Agents |-> None]
  /\ owner = [r \in Runners |-> "none"]
  /\ status = [r \in Runners |-> "new"]
  /\ worker = [r \in Runners |-> "none"]
  /\ current = [r \in Runners |-> <<>>]
  /\ queue = [r \in Runners |-> <<>>]
  /\ permits = Permits
  /\ request = [c \in Clients |-> NoRequest]
  /\ ready = <<>>
  /\ row = [a \in Agents |-> "stopped"]
  /\ transcript = <<>>
  /\ op = [o \in Operators |-> NoOp]
  /\ ops = 0

-----------------------------------------------------------------------------
New == {r \in Runners : status[r] = "new"}
Fresh == CHOOSE r \in New : \A s \in New : r <= s

\* start_agent without an entry: the runner's tasks are created and it is
\* registered in one step, start() does not suspend.
Create(a) ==
  /\ New # {}
  /\ owner' = [owner EXCEPT ![Fresh] = a]
  /\ worker' = [worker EXCEPT ![Fresh] = "get"]
  /\ registry' = [registry EXCEPT ![a] = Fresh]
  /\ row' = [row EXCEPT ![a] = "running"]

StartAgent(o, a) ==
  /\ op[o] = NoOp
  /\ ops < MaxOps
  /\ ops' = ops + 1
  /\ row[a] # "deleted"
  /\ registry[a] = None
  /\ Create(a)
  /\ status' = [status EXCEPT ![Fresh] = "running"]
  /\ UNCHANGED <<current, queue, permits, request, ready, transcript, op>>

-----------------------------------------------------------------------------
Asked(c) == Cardinality({i \in DOMAIN transcript : transcript[i].role = "user" /\ transcript[i].client = c})
Entry(role, c, ask, r) == [role |-> role, client |-> c, ask |-> ask, runner |-> r]

Full(r) == Len(queue[r]) = Depth

\* What status() derives: a crashed or stopping runner says so, one whose heartbeat
\* is late looks DEGRADED.
LooksRunning(r, late) == status[r] = "running" /\ ~late

\* chat: a runner that does not look RUNNING is dropped and another one started;
\* the question is stored before send_message, which refuses it when the queue is
\* full.
Chat(c, a) ==
  /\ request[c] = NoRequest
  /\ Asked(c) < MaxAsks
  /\ row[a] # "deleted"
  /\ \E late \in BOOLEAN :
       LET r == registry[a]
           usable == r # None /\ LooksRunning(r, late)
           runner == IF usable THEN r ELSE Fresh
           ask == [client |-> c, ask |-> Asked(c) + 1]
           full == Full(runner)
       IN /\ late => r # None
          /\ IF usable
             THEN UNCHANGED <<registry, owner, worker, status, row>>
             ELSE Create(a) /\ status' = [status EXCEPT ![Fresh] = "running"]
          /\ transcript' = Append(transcript, Entry("user", c, ask.ask, runner))
          /\ queue' = IF full THEN queue ELSE [queue EXCEPT ![runner] = Append(@, ask)]
          /\ request' = IF full THEN request
                        ELSE [request EXCEPT ![c] = [runner |-> runner, future |-> "pending"]]
  /\ UNCHANGED <<current, permits, ready, op, ops>>

\* The chat resumes: the answer is stored, an exception goes to the caller.
Resume ==
  /\ ready # <<>>
  /\ LET c == Head(ready)
     IN /\ transcript' = IF request[c].future = "result"
                         THEN Append(transcript, Entry("assistant", c, Asked(c), request[c].runner))
                         ELSE transcript
        /\ request' = [request EXCEPT ![c] = NoRequest]
  /\ ready' = Tail(ready)
  /\ UNCHANGED <<registry, owner, status, worker, current, queue, permits, row, op, ops>>

-----------------------------------------------------------------------------
\* _worker_loop. A task that was cancelled does nothing but end.
Active(r) == status[r] \in {"running", "crashed"}

\* Mutant of Get: the newest message first.
GetNewest(r) ==
  /\ Active(r)
  /\ worker[r] = "get"
  /\ queue[r] # <<>>
  /\ current' = [current EXCEPT ![r] = Last(queue[r])]
  /\ queue' = [queue EXCEPT ![r] = Front(@)]
  /\ worker' = [worker EXCEPT ![r] = "acquire"]
  /\ UNCHANGED <<registry, owner, status, permits, request, ready, row, transcript, op, ops>>

Get(r) ==
  /\ Active(r)
  /\ worker[r] = "get"
  /\ queue[r] # <<>>
  /\ current' = [current EXCEPT ![r] = Head(queue[r])]
  /\ queue' = [queue EXCEPT ![r] = Tail(@)]
  /\ worker' = [worker EXCEPT ![r] = "acquire"]
  /\ UNCHANGED <<registry, owner, status, permits, request, ready, row, transcript, op, ops>>

Acquire(r) ==
  /\ Active(r)
  /\ worker[r] = "acquire"
  /\ permits > 0
  /\ permits' = permits - 1
  /\ worker' = [worker EXCEPT ![r] = "chat"]
  /\ UNCHANGED <<registry, owner, status, current, queue, request, ready, row, transcript, op, ops>>

\* Mutant of Resolve: only results are set.
ResolveResult(r, outcome) ==
  IF outcome = "result"
  THEN /\ request' = [request EXCEPT ![current[r].client].future = outcome]
       /\ ready' = Append(ready, current[r].client)
  ELSE UNCHANGED <<request, ready>>

Resolve(r, outcome) ==
  /\ request' = [request EXCEPT ![current[r].client].future = outcome]
  /\ ready' = Append(ready, current[r].client)

Done(r) ==
  /\ permits' = permits + 1
  /\ worker' = [worker EXCEPT ![r] = "get"]
  /\ current' = [current EXCEPT ![r] = <<>>]

\* Mutant of Answer: set_status inserts the row it does not find.
AnswerUpserts(r) ==
  /\ Active(r)
  /\ worker[r] = "chat"
  /\ row' = [row EXCEPT ![owner[r]] = "running"]
  /\ Resolve(r, "result")
  /\ Done(r)
  /\ UNCHANGED <<registry, owner, status, queue, transcript, op, ops>>

\* _chat_with_limits succeeds, which needs the agent's row.
Answer(r) ==
  /\ Active(r)
  /\ worker[r] = "chat"
  /\ row[owner[r]] # "deleted"
  /\ row' = [row EXCEPT ![owner[r]] = "running"]
  /\ Resolve(r, "result")
  /\ Done(r)
  /\ UNCHANGED <<registry, owner, status, queue, transcript, op, ops>>

\* It raises: the runner is CRASHED from here on, its loop goes on.
Fail(r) ==
  /\ Active(r)
  /\ worker[r] = "chat"
  /\ row' = [row EXCEPT ![owner[r]] = IF @ = "deleted" THEN @ ELSE "degraded"]
  /\ status' = [status EXCEPT ![r] = "crashed"]
  /\ Resolve(r, "exception")
  /\ Done(r)
  /\ UNCHANGED <<registry, owner, queue, transcript, op, ops>>

\* Mutant of Cancelled: a cancelled chat keeps its permit.
CancelledKeepsPermit(r) ==
  /\ status[r] = "stopping"
  /\ worker[r] # "cancelled"
  /\ worker' = [worker EXCEPT ![r] = "cancelled"]
  /\ UNCHANGED <<registry, owner, status, current, queue, permits, request, ready, row, transcript, op, ops>>

\* CancelledError in _worker_loop: the semaphore is released, no future is set.
Cancelled(r) ==
  /\ status[r] = "stopping"
  /\ worker[r] # "cancelled"
  /\ worker' = [worker EXCEPT ![r] = "cancelled"]
  /\ permits' = IF worker[r] = "chat" THEN permits + 1 ELSE permits
  /\ UNCHANGED <<registry, owner, status, current, queue, request, ready, row, transcript, op, ops>>

-----------------------------------------------------------------------------
\* stop_agent, also as the first half of restart_agent and of delete_agent.
StopBegins(o, a, kind) ==
  /\ op[o] = NoOp
  /\ ops < MaxOps
  /\ ops' = ops + 1
  /\ row[a] # "deleted"
  /\ registry[a] # None
  /\ status' = [status EXCEPT ![registry[a]] = "stopping"]
  /\ op' = [op EXCEPT ![o] = [kind |-> kind, agent |-> a, runner |-> registry[a]]]
  /\ UNCHANGED <<registry, owner, worker, current, queue, permits, request, ready, row, transcript>>

\* Without an entry there is nothing to wait for.
StopNothing(o, a, kind) ==
  /\ op[o] = NoOp
  /\ ops < MaxOps
  /\ ops' = ops + 1
  /\ row[a] # "deleted"
  /\ registry[a] = None
  /\ CASE kind = "stop" ->
            /\ row' = [row EXCEPT ![a] = "stopped"]
            /\ UNCHANGED <<registry, owner, worker, status>>
       [] kind = "restart" ->
            Create(a) /\ status' = [status EXCEPT ![Fresh] = "running"]
       [] kind = "delete" ->
            /\ row' = [row EXCEPT ![a] = "deleted"]
            /\ UNCHANGED <<registry, owner, worker, status>>
  /\ UNCHANGED <<current, queue, permits, request, ready, transcript, op>>

\* runner.stop() has returned: the entry of the agent is deleted, whatever it is by
\* now. `del` on no entry, and set_status on no row, raise: stop and restart end
\* there, delete goes on.
StopEnds(o) ==
  /\ op[o] # NoOp
  /\ worker[op[o].runner] = "cancelled"
  /\ LET a == op[o].agent
         stopped == [status EXCEPT ![op[o].runner] = "stopped"]
         raises == registry[a] = None \/ row[a] = "deleted"
     IN CASE op[o].kind = "delete" ->
               /\ registry' = [registry EXCEPT ![a] = None]
               /\ row' = [row EXCEPT ![a] = "deleted"]
               /\ status' = stopped
               /\ UNCHANGED <<owner, worker>>
          [] op[o].kind # "delete" /\ raises ->
               /\ registry' = [registry EXCEPT ![a] = None]
               /\ status' = stopped
               /\ UNCHANGED <<owner, worker, row>>
          [] op[o].kind = "stop" /\ ~raises ->
               /\ registry' = [registry EXCEPT ![a] = None]
               /\ row' = [row EXCEPT ![a] = "stopped"]
               /\ status' = stopped
               /\ UNCHANGED <<owner, worker>>
          [] op[o].kind = "restart" /\ ~raises ->
               Create(a) /\ status' = [stopped EXCEPT ![Fresh] = "running"]
  /\ op' = [op EXCEPT ![o] = NoOp]
  /\ UNCHANGED <<current, queue, permits, request, ready, transcript, ops>>

-----------------------------------------------------------------------------
Work(r) == Get(r) \/ Acquire(r) \/ Answer(r) \/ Fail(r) \/ Cancelled(r)

SupervisorNext ==
  \/ \E c \in Clients, a \in Agents : Chat(c, a)
  \/ Resume
  \/ \E r \in Runners : Work(r)
  \/ \E o \in Operators :
       \/ \E a \in Agents :
            \/ StartAgent(o, a)
            \/ \E kind \in Kinds : StopBegins(o, a, kind) \/ StopNothing(o, a, kind)
       \/ StopEnds(o)

SupervisorSpec == SupervisorInit /\ [][SupervisorNext]_supervisorVars

\* The event loop runs every task that can go on; asyncio.Semaphore serves its
\* waiters in order, so none of them is passed over for ever.
Fairness ==
  /\ WF_supervisorVars(Resume)
  /\ \A r \in Runners :
       /\ WF_supervisorVars(Get(r)) /\ SF_supervisorVars(Acquire(r))
       /\ WF_supervisorVars(Answer(r) \/ Fail(r))
       /\ WF_supervisorVars(Cancelled(r))
  /\ \A o \in Operators : WF_supervisorVars(StopEnds(o))

FairSpec == SupervisorSpec /\ Fairness

-----------------------------------------------------------------------------
Chatting == {r \in Runners : worker[r] = "chat"}

\* No crash, cancellation, stop or dropped runner keeps a permit of the semaphore or
\* returns one twice: the chats' requests in flight and the free permits add up to the
\* limit.  The boot of an agent (trigger_hatch_boot) asks the model without a permit.
NoPermitLeaks == permits + Cardinality(Chatting) = Permits

Has(r, c) ==
  \/ \E i \in DOMAIN queue[r] : queue[r][i].client = c
  \/ current[r] # <<>> /\ current[r].client = c

\* A chat waits only for a request its runner still has, queued or in hand; dropping
\* or deleting the runner does not lose it.
PendingIsHeld ==
  \A c \in Clients :
    request[c].future = "pending" => Has(request[c].runner, c)

Question(m) == CHOOSE i \in DOMAIN transcript :
  transcript[i] = [m EXCEPT !.role = "user"]

\* The answers of one runner are stored in the order of their questions, whatever
\* the number of chats that share it.
AnswersInOrder ==
  \A i, j \in DOMAIN transcript :
    /\ i < j
    /\ transcript[i].role = "assistant" /\ transcript[j].role = "assistant"
    /\ transcript[i].runner = transcript[j].runner
    => Question(transcript[i]) < Question(transcript[j])

\* An agent that was deleted does not come back, although chats, runners and
\* operations that knew it go on.
DeletedForGood ==
  [][\A a \in Agents : row[a] = "deleted" => row'[a] = "deleted"]_supervisorVars

\* A chat returns unless its runner is stopped.
ServedUnlessStopped ==
  \A c \in Clients, r \in Runners :
    request[c] = [runner |-> r, future |-> "pending"]
      ~> request[c].future # "pending" \/ status[r] \in {"stopping", "stopped"}

\* "Still working on the previous message. Please wait.": a chat that is pending
\* is being worked on, it returns.
ChatReturns ==
  \A c \in Clients : request[c].future = "pending" ~> request[c].future # "pending"
=============================================================================
