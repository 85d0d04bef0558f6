------------------------- MODULE ControlPlaneProofs -------------------------
(***************************************************************************)
(* Theorems about the control plane: the runtimes of its agents with their *)
(* queues, permits and transcripts, the dev server, the onboarding of an   *)
(* agent, and the lock file.  They share no state; each section proves     *)
(* about one.                                                              *)
(***************************************************************************)
EXTENDS RuntimeSupervisor, HatchOnboarding, DevServer, InstanceLock, FiniteSetTheorems, TLAPS

-----------------------------------------------------------------------------
(* The runtimes.                                                           *)

Created(r) == status[r] # "new"

\* Runners are created in the order of their numbers.
CreatedInOrder ==
  \E n \in 0 .. MaxRunners : \A r \in Runners : Created(r) <=> r <= n

\* Runners that were not created have nothing to do; a worker has a request in hand
\* when it waits for a permit or for the model, and none when it waits for a request;
\* whoever names a runner names one that was created.
RunnerShape ==
  /\ \A r \in Runners :
       /\ ~Created(r) => worker[r] = "none" /\ current[r] = <<>> /\ queue[r] = <<>>
       /\ worker[r] \in {"none", "get"} => current[r] = <<>>
       /\ worker[r] \in {"acquire", "chat"} => current[r] # <<>>
  /\ \A a \in Agents : registry[a] # None => Created(registry[a])
  /\ \A o \in Operators : op[o] # NoOp => Created(op[o].runner)

Transcribed ==
  [role : {"user", "assistant"}, client : Clients, ask : Nat, runner : Runners \cup {None}]

\* What the type invariant leaves to be said of the domains and the transcript, and
\* the shape of the runners.
SupervisorShape ==
  /\ SupervisorTypeOK
  /\ queue \in [Runners -> Seq(ChatRequests)] /\ DOMAIN op = Operators
  /\ transcript \in Seq(Transcribed)
  /\ CreatedInOrder /\ RunnerShape

LEMMA FreshIsNew ==
  ASSUME CreatedInOrder, New # {}
  PROVE  /\ Fresh \in Runners /\ ~Created(Fresh)
         /\ \A r \in Runners : Created(r) => r < Fresh
         /\ \A r \in Runners : r < Fresh => Created(r)
<1> USE SupervisorAssumption DEF Runners
<1>1. PICK n \in 0 .. MaxRunners : \A r \in Runners : Created(r) <=> r <= n
  BY DEF CreatedInOrder
<1>2. New = n + 1 .. MaxRunners
  BY <1>1 DEF New, Created
<1>3. n + 1 \in New /\ \A s \in New : n + 1 <= s
  BY <1>2
<1>4. Fresh \in New /\ \A s \in New : Fresh <= s
  BY <1>3 DEF Fresh
<1>5. Fresh = n + 1
  BY <1>2, <1>3, <1>4
<1> QED
  BY <1>1, <1>2, <1>3, <1>5

\* The runners stay in order when none is created, and when the next one is.
LEMMA StaysInOrder ==
  ASSUME CreatedInOrder, NEW r \in Runners, Created(r) \/ (New # {} /\ r = Fresh),
         \A q \in Runners : Created(q)' <=> Created(q) \/ q = r
  PROVE  CreatedInOrder'
<1> USE SupervisorAssumption DEF Runners
<1>1. PICK n \in 0 .. MaxRunners : \A q \in Runners : Created(q) <=> q <= n
  BY DEF CreatedInOrder
<1>2. CASE Created(r)
  BY <1>1, <1>2 DEF CreatedInOrder
<1>3. CASE New # {} /\ r = Fresh
  <2>1. /\ ~Created(r)
        /\ \A q \in Runners : (Created(q) => q < r) /\ (q < r => Created(q))
    BY <1>3, FreshIsNew
  <2>2. r = n + 1
    <3>1. r > n
      BY <1>1, <2>1
    <3>2. CASE r > n + 1
      <4>1. n + 1 \in Runners /\ n + 1 < r
        BY <3>2
      <4> QED
        BY <4>1, <1>1, <2>1
    <3> QED
      BY <3>1, <3>2
  <2>3. \A q \in Runners : Created(q)' <=> q <= n + 1
    BY <1>1, <2>2
  <2> QED
    BY <2>2, <2>3 DEF CreatedInOrder
<1> QED
  BY <1>2, <1>3

\* What an operation does to the runtimes, whatever it is: the queues, the requests,
\* the permits and the transcript are not touched; at most the next runner is created,
\* for an agent that is not deleted, and at most one other changes its status.
Operated ==
  /\ UNCHANGED <<current, queue, permits, request, ready, transcript>>
  /\ \/ UNCHANGED <<owner, worker>>
     \/ New # {} /\ worker' = [worker EXCEPT ![Fresh] = "get"]
  /\ \A a \in Agents : row[a] = "deleted" => row'[a] = "deleted"

OperatorStep(o) ==
  \/ \E a \in Agents : \/ StartAgent(o, a)
                       \/ \E kind \in Kinds : StopBegins(o, a, kind) \/ StopNothing(o, a, kind)
  \/ StopEnds(o)

\* A created runner is registered, works and runs; what else is a runner keeps being
\* one.
Creates(a, before) ==
  /\ Create(a) /\ status' = [before EXCEPT ![Fresh] = "running"]

LEMMA CreateShape ==
  ASSUME SupervisorShape, NEW a \in Agents, NEW before \in {status} \cup
           {[status EXCEPT ![r] = "stopped"] : r \in {q \in Runners : Created(q)}},
         Creates(a, before), UNCHANGED current,
         \A r \in Runners : r # Fresh => (queue[r] = <<>> => queue'[r] = <<>>),
         \A o \in Operators : op'[o] = op[o] \/ op'[o] = NoOp
  PROVE  /\ registry' \in [Agents -> Runners \cup {None}]
         /\ owner' \in [Runners -> Agents \cup {"none"}]
         /\ status' \in [Runners -> {"new", "running", "stopping", "stopped", "crashed"}]
         /\ worker' \in [Runners -> {"none", "get", "acquire", "chat", "cancelled"}]
         /\ row' \in [Agents -> {"running", "stopped", "degraded", "deleted"}]
         /\ CreatedInOrder' /\ RunnerShape'
<1> USE DEF SupervisorShape, SupervisorTypeOK
<1>1. Fresh \in Runners /\ ~Created(Fresh) /\ New # {}
  BY FreshIsNew DEF Creates, Create
<1>2. /\ before \in [Runners -> {"new", "running", "stopping", "stopped", "crashed"}]
      /\ \A r \in Runners : before[r] # "new" <=> Created(r)
  BY ZenonT(30) DEF Created
<1>3. /\ status' \in [Runners -> {"new", "running", "stopping", "stopped", "crashed"}]
      /\ \A r \in Runners : Created(r)' <=> Created(r) \/ r = Fresh
  BY <1>1, <1>2 DEF Creates, Created
<1>4. CreatedInOrder'
  BY <1>1, <1>3, StaysInOrder
<1>5. /\ registry' = [registry EXCEPT ![a] = Fresh]
      /\ owner' = [owner EXCEPT ![Fresh] = a]
      /\ worker' = [worker EXCEPT ![Fresh] = "get"]
      /\ row' = [row EXCEPT ![a] = "running"]
  BY DEF Creates, Create
<1>6. RunnerShape'
  BY <1>1, <1>3, <1>5 DEF RunnerShape
<1> QED
  BY <1>1, <1>3, <1>4, <1>5, <1>6

\* A request is a record, the empty sequence is none.
LEMMA RequestNotEmpty ==
  ASSUME NEW q \in ChatRequests
  PROVE  q # <<>>
<1>1. "client" \in DOMAIN q
  BY DEF ChatRequests
<1>2. \A s \in Seq({}) : DOMAIN s = 1 .. Len(s)
  OBVIOUS
<1>3. <<>> \in Seq({}) /\ Len(<<>>) = 0
  OBVIOUS
<1>4. \A x \in DOMAIN <<>> : FALSE
  BY <1>2, <1>3
<1> QED
  BY <1>1, <1>4

LEMMA AskedIsNat ==
  ASSUME transcript \in Seq(Transcribed), NEW c
  PROVE  Asked(c) \in Nat
<1> DEFINE asks == {i \in DOMAIN transcript : transcript[i].role = "user" /\ transcript[i].client = c}
<1>1. Len(transcript) \in Nat /\ asks \subseteq 1 .. Len(transcript)
  OBVIOUS
<1>2. IsFiniteSet(asks)
  BY <1>1, FS_Interval, FS_Subset
<1> QED
  BY <1>2, FS_CardinalityType DEF Asked

\* The operators.
LEMMA OperatorShape ==
  ASSUME SupervisorShape, NEW o \in Operators, OperatorStep(o)
  PROVE  SupervisorShape' /\ Operated
<1> USE SupervisorAssumption DEF SupervisorShape, SupervisorTypeOK
<1>1. ASSUME NEW a \in Agents, StartAgent(o, a) PROVE SupervisorShape' /\ Operated
  <2>1. Creates(a, status)
    BY <1>1 DEF StartAgent, Creates
  <2>2. /\ UNCHANGED <<current, queue, permits, request, ready, transcript, op>>
        /\ ops < MaxOps /\ ops' = ops + 1 /\ row[a] # "deleted"
    BY <1>1 DEF StartAgent
  <2>3. ops' \in 0 .. MaxOps
    BY <2>2
  <2>4. /\ registry' \in [Agents -> Runners \cup {None}]
        /\ owner' \in [Runners -> Agents \cup {"none"}]
        /\ status' \in [Runners -> {"new", "running", "stopping", "stopped", "crashed"}]
        /\ worker' \in [Runners -> {"none", "get", "acquire", "chat", "cancelled"}]
        /\ row' \in [Agents -> {"running", "stopped", "degraded", "deleted"}]
        /\ CreatedInOrder' /\ RunnerShape'
    BY <2>1, <2>2, CreateShape
  <2>5. SupervisorShape'
    BY <2>2, <2>3, <2>4
  <2> QED
    BY <2>1, <2>2, <2>5 DEF Operated, Creates, Create
<1>2. ASSUME NEW a \in Agents, NEW kind \in Kinds, StopBegins(o, a, kind)
      PROVE  SupervisorShape' /\ Operated
  <2> DEFINE r == registry[a]
  <2>1. /\ UNCHANGED <<registry, owner, worker, current, queue, permits, request, ready, row, transcript>>
        /\ status' = [status EXCEPT ![r] = "stopping"]
        /\ op' = [op EXCEPT ![o] = [kind |-> kind, agent |-> a, runner |-> r]]
        /\ registry[a] # None /\ ops < MaxOps /\ ops' = ops + 1
    BY <1>2 DEF StopBegins
  <2>2. r \in Runners /\ Created(r)
    BY <2>1 DEF RunnerShape
  <2>3. ops' \in 0 .. MaxOps
    BY <2>1
  <2>4. /\ status' \in [Runners -> {"new", "running", "stopping", "stopped", "crashed"}]
        /\ \A q \in Runners : Created(q)' <=> Created(q)
    BY <2>1, <2>2 DEF Created
  <2>5. CreatedInOrder'
    BY <2>2, <2>4, StaysInOrder
  <2>6. RunnerShape'
    BY <2>1, <2>2, <2>4 DEF RunnerShape
  <2>7. \A p \in Operators : op'[p] = NoOp \/ op'[p] \in [kind : Kinds, agent : Agents, runner : Runners]
    BY <2>1, <2>2
  <2> QED
    BY <2>1, <2>3, <2>4, <2>5, <2>6, <2>7 DEF Operated
<1>3. ASSUME NEW a \in Agents, NEW kind \in Kinds, StopNothing(o, a, kind)
      PROVE  SupervisorShape' /\ Operated
  <2>1. /\ UNCHANGED <<current, queue, permits, request, ready, transcript, op>>
        /\ ops < MaxOps /\ ops' = ops + 1 /\ row[a] # "deleted"
    BY <1>3 DEF StopNothing
  <2>2. ops' \in 0 .. MaxOps
    BY <2>1
  <2>3. CASE kind = "restart"
    <3>1. Creates(a, status)
      BY <1>3, <2>3 DEF StopNothing, Creates
    <3>2. /\ registry' \in [Agents -> Runners \cup {None}]
          /\ owner' \in [Runners -> Agents \cup {"none"}]
          /\ status' \in [Runners -> {"new", "running", "stopping", "stopped", "crashed"}]
          /\ worker' \in [Runners -> {"none", "get", "acquire", "chat", "cancelled"}]
          /\ row' \in [Agents -> {"running", "stopped", "degraded", "deleted"}]
          /\ CreatedInOrder' /\ RunnerShape'
      BY <3>1, <2>1, CreateShape
    <3>3. SupervisorShape'
      BY <2>1, <2>2, <3>2
    <3> QED
      BY <2>1, <3>1, <3>3 DEF Operated, Creates, Create
  <2>4. CASE kind # "restart"
    <3>1. /\ UNCHANGED <<registry, owner, worker, status>>
          /\ \E s \in {"stopped", "deleted"} : row' = [row EXCEPT ![a] = s]
      BY <1>3, <2>4 DEF StopNothing, Kinds
    <3>2. CreatedInOrder' /\ RunnerShape'
      BY <2>1, <3>1 DEF CreatedInOrder, RunnerShape, Created
    <3> QED
      BY <2>1, <2>2, <3>1, <3>2 DEF Operated
  <2> QED
    BY <2>3, <2>4
<1>4. CASE StopEnds(o)
  <2> DEFINE a == op[o].agent
             r == op[o].runner
             stopped == [status EXCEPT ![r] = "stopped"]
             raises == registry[a] = None \/ row[a] = "deleted"
  <2>1. /\ UNCHANGED <<current, queue, permits, request, ready, transcript, ops>>
        /\ op' = [op EXCEPT ![o] = NoOp] /\ op[o] # NoOp
    BY <1>4 DEF StopEnds
  <2>2. a \in Agents /\ r \in Runners /\ Created(r) /\ op[o].kind \in Kinds
    BY <2>1 DEF RunnerShape
  <2>3. CASE op[o].kind = "restart" /\ ~raises
    <3>1. Creates(a, stopped) /\ row[a] # "deleted"
      BY <1>4, <2>3 DEF StopEnds, Creates
    <3>2. /\ registry' \in [Agents -> Runners \cup {None}]
          /\ owner' \in [Runners -> Agents \cup {"none"}]
          /\ status' \in [Runners -> {"new", "running", "stopping", "stopped", "crashed"}]
          /\ worker' \in [Runners -> {"none", "get", "acquire", "chat", "cancelled"}]
          /\ row' \in [Agents -> {"running", "stopped", "degraded", "deleted"}]
          /\ CreatedInOrder' /\ RunnerShape'
      <4>1. stopped \in {[status EXCEPT ![q] = "stopped"] : q \in {q \in Runners : Created(q)}}
        BY <2>2
      <4>2. \A p \in Operators : op'[p] = op[p] \/ op'[p] = NoOp
        BY <2>1
      <4> QED
        BY <3>1, <2>1, <2>2, <4>1, <4>2, CreateShape
    <3>3. SupervisorShape'
      BY <2>1, <3>2
    <3>4. \A b \in Agents : row[b] = "deleted" => row'[b] = "deleted"
      BY <3>1, <2>2 DEF Creates, Create
    <3> QED
      BY <2>1, <3>1, <3>3, <3>4 DEF Operated, Creates, Create
  <2>4. CASE ~(op[o].kind = "restart" /\ ~raises)
    <3>1. /\ status' = stopped /\ UNCHANGED <<owner, worker>>
          /\ registry' = [registry EXCEPT ![a] = None]
          /\ \/ row' = row
             \/ row' = [row EXCEPT ![a] = "deleted"]
             \/ row[a] # "deleted" /\ row' = [row EXCEPT ![a] = "stopped"]
      BY <1>4, <2>2, <2>4 DEF StopEnds, Kinds
    <3>2. /\ status' \in [Runners -> {"new", "running", "stopping", "stopped", "crashed"}]
          /\ \A q \in Runners : Created(q)' <=> Created(q)
      BY <2>2, <3>1 DEF Created
    <3>3. CreatedInOrder'
      BY <2>2, <3>2, StaysInOrder
    <3>4. RunnerShape'
      BY <2>1, <3>1, <3>2 DEF RunnerShape
    <3>5. row' \in [Agents -> {"running", "stopped", "degraded", "deleted"}]
      BY <3>1
    <3>6. registry' \in [Agents -> Runners \cup {None}]
      BY <3>1
    <3>7. SupervisorShape'
      BY <2>1, <3>1, <3>2, <3>3, <3>4, <3>5, <3>6
    <3>8. \A b \in Agents : row[b] = "deleted" => row'[b] = "deleted"
      BY <3>1, <2>2
    <3> QED
      BY <2>1, <3>1, <3>7, <3>8 DEF Operated
  <2> QED
    BY <2>3, <2>4
<1> QED
  BY <1>1, <1>2, <1>3, <1>4 DEF OperatorStep

\* What chat does up to its await, to whichever runner it finds or creates: the question
\* is stored, and queued unless the queue is full.
Questions(c, runner) ==
  /\ request[c] = NoRequest
  /\ transcript' = Append(transcript, Entry("user", c, Asked(c) + 1, runner))
  /\ \/ UNCHANGED <<queue, request>>
     \/ /\ Len(queue[runner]) # Depth
        /\ queue' = [queue EXCEPT ![runner] = Append(@, [client |-> c, ask |-> Asked(c) + 1])]
        /\ request' = [request EXCEPT ![c] = [runner |-> runner, future |-> "pending"]]
  /\ UNCHANGED <<current, permits, ready>>

LEMMA ChatShape ==
  ASSUME SupervisorShape, NEW c \in Clients, NEW a \in Agents, Chat(c, a)
  PROVE  /\ SupervisorShape'
         /\ \E runner \in Runners : Questions(c, runner)
         /\ \/ UNCHANGED worker
            \/ New # {} /\ worker' = [worker EXCEPT ![Fresh] = "get"]
         /\ \A b \in Agents : row[b] = "deleted" => row'[b] = "deleted"
<1> USE SupervisorAssumption DEF SupervisorShape, SupervisorTypeOK
<1> DEFINE r == registry[a]
           ask == [client |-> c, ask |-> Asked(c) + 1]
<1>1. PICK late \in BOOLEAN :
        LET usable == r # None /\ LooksRunning(r, late)
            runner == IF usable THEN r ELSE Fresh
            full == Full(runner)
        IN /\ late => r # None
           /\ IF usable
              THEN UNCHANGED <<registry, owner, worker, status, row>>
              ELSE Create(a) /\ status' = [status EXCEPT ![Fresh] = "running"]
           /\ transcript' = Append(transcript, Entry("user", c, ask.ask, runner))
           /\ queue' = IF full THEN queue ELSE [queue EXCEPT ![runner] = Append(@, ask)]
           /\ request' = IF full THEN request
                         ELSE [request EXCEPT ![c] = [runner |-> runner, future |-> "pending"]]
  BY DEF Chat
<1>2. /\ UNCHANGED <<current, permits, ready, op, ops>> /\ request[c] = NoRequest
      /\ Asked(c) < MaxAsks /\ row[a] # "deleted"
  BY DEF Chat
<1>3. \/ r \in Runners /\ status[r] = "running" /\ UNCHANGED <<registry, owner, worker, status, row>>
      \/ Creates(a, status)
  BY <1>1 DEF Creates, LooksRunning
<1>4. PICK runner \in Runners :
        /\ \/ UNCHANGED <<registry, owner, worker, status, row>> /\ Created(runner)
           \/ Creates(a, status) /\ runner = Fresh
        /\ transcript' = Append(transcript, Entry("user", c, ask.ask, runner))
        /\ queue' = IF Full(runner) THEN queue ELSE [queue EXCEPT ![runner] = Append(@, ask)]
        /\ request' = IF Full(runner) THEN request
                      ELSE [request EXCEPT ![c] = [runner |-> runner, future |-> "pending"]]
  <2>1. CASE r # None /\ LooksRunning(r, late)
    BY <1>1, <2>1 DEF Created, LooksRunning
  <2>2. CASE ~(r # None /\ LooksRunning(r, late))
    <3>1. Creates(a, status)
      BY <1>1, <2>2 DEF Creates
    <3>2. Fresh \in Runners
      BY <3>1, FreshIsNew DEF Creates, Create
    <3> QED
      BY <1>1, <2>2, <3>1, <3>2
  <2> QED
    BY <2>1, <2>2
<1>5. Asked(c) \in Nat
  BY AskedIsNat
<1>6. Questions(c, runner)
  BY <1>2, <1>4 DEF Questions, Full
<1>7. ask \in ChatRequests
  BY <1>2, <1>5 DEF ChatRequests
<1>8. /\ queue' \in [Runners -> Seq(ChatRequests)]
      /\ \A q \in Runners : Len(queue'[q]) <= Depth
      /\ \A q \in Runners : q # runner => queue'[q] = queue[q]
  <2>1. CASE Full(runner)
    BY <1>4, <2>1
  <2>2. CASE ~Full(runner)
    <3>1. queue' = [queue EXCEPT ![runner] = Append(queue[runner], ask)]
      BY <1>4, <2>2
    <3>2. queue[runner] \in Seq(ChatRequests) /\ Len(queue[runner]) < Depth
      BY <2>2 DEF Full
    <3>3. Append(queue[runner], ask) \in Seq(ChatRequests) /\ Len(Append(queue[runner], ask)) <= Depth
      BY <1>7, <3>2
    <3> QED
      BY <3>1, <3>3
  <2> QED
    BY <2>1, <2>2
<1>9. transcript' \in Seq(Transcribed)
  <2>1. Entry("user", c, ask.ask, runner) \in Transcribed
    BY <1>2, <1>5 DEF Entry, Transcribed
  <2> QED
    BY <1>4, <2>1
<1>10. request' \in [Clients -> [runner : Runners \cup {None}, future : {"none", "pending", "result", "exception"}]]
  <2>1. [runner |-> runner, future |-> "pending"]
          \in [runner : Runners \cup {None}, future : {"none", "pending", "result", "exception"}]
    OBVIOUS
  <2>2. CASE request' = request
    BY <2>2
  <2>3. CASE request' = [request EXCEPT ![c] = [runner |-> runner, future |-> "pending"]]
    BY <2>1, <2>3
  <2> QED
    BY <1>4, <2>2, <2>3
<1>11. CASE UNCHANGED <<registry, owner, worker, status, row>> /\ Created(runner)
  <2>1. CreatedInOrder' /\ RunnerShape'
    BY <1>2, <1>8, <1>11 DEF CreatedInOrder, RunnerShape, Created
  <2> QED
    BY <1>2, <1>6, <1>8, <1>9, <1>10, <1>11, <2>1
<1>12. CASE Creates(a, status) /\ runner = Fresh
  <2>1. /\ registry' \in [Agents -> Runners \cup {None}]
        /\ owner' \in [Runners -> Agents \cup {"none"}]
        /\ status' \in [Runners -> {"new", "running", "stopping", "stopped", "crashed"}]
        /\ worker' \in [Runners -> {"none", "get", "acquire", "chat", "cancelled"}]
        /\ row' \in [Agents -> {"running", "stopped", "degraded", "deleted"}]
        /\ CreatedInOrder' /\ RunnerShape'
    BY <1>2, <1>8, <1>12, CreateShape
  <2>2. SupervisorShape'
    BY <1>2, <1>8, <1>9, <1>10, <2>1
  <2> QED
    BY <1>2, <1>6, <1>12, <2>2 DEF Creates, Create
<1> QED
  BY <1>4, <1>11, <1>12

\* A chat is answered: its client is woken, the permit returned.
Resolves(r, outcome) ==
  /\ worker[r] = "chat"
  /\ Resolve(r, outcome) /\ Done(r)
  /\ UNCHANGED <<queue, transcript>>

LEMMA ResolveShape ==
  ASSUME SupervisorShape, NEW r \in Runners,
         NEW outcome \in {"result", "exception"}, Resolves(r, outcome)
  PROVE  /\ current[r] \in ChatRequests /\ current[r].client \in Clients
         /\ request' = [request EXCEPT ![current[r].client] = [@ EXCEPT !.future = outcome]]
         /\ request' \in [Clients -> [runner : Runners \cup {None}, future : {"none", "pending", "result", "exception"}]]
         /\ ready' = Append(ready, current[r].client) /\ ready' \in Seq(Clients)
         /\ current' = [current EXCEPT ![r] = <<>>]
         /\ current' \in [Runners -> ChatRequests \cup {<<>>}]
<1> USE DEF SupervisorShape, SupervisorTypeOK
<1>1. current[r] \in ChatRequests /\ current[r].client \in Clients
  BY DEF RunnerShape, Resolves, ChatRequests
<1> DEFINE c == current[r].client
<1>2. request' = [request EXCEPT ![c] = [request[c] EXCEPT !.future = outcome]]
  BY DEF Resolves, Resolve
<1>3. ready' = Append(ready, c) /\ ready' \in Seq(Clients)
  BY <1>1 DEF Resolves, Resolve
<1>4. [request[c] EXCEPT !.future = outcome]
          \in [runner : Runners \cup {None}, future : {"none", "pending", "result", "exception"}]
  <2>1. request[c] \in [runner : Runners \cup {None}, future : {"none", "pending", "result", "exception"}]
    BY <1>1
  <2> QED
    BY <2>1
<1>5. request' \in [Clients -> [runner : Runners \cup {None}, future : {"none", "pending", "result", "exception"}]]
  BY <1>1, <1>2, <1>4
<1> QED
  BY <1>1, <1>2, <1>3, <1>5 DEF Resolves, Done

\* A permit is taken by a worker that begins a chat and given back by one that ends it;
\* nothing else touches them.
LEMMA PermitsKept ==
  ASSUME permits \in 0 .. Permits, NoPermitLeaks,
         \/ Chatting' = Chatting /\ permits' = permits
         \/ /\ \E r \in Runners \ Chatting : Chatting' = Chatting \cup {r}
            /\ permits > 0 /\ permits' = permits - 1
         \/ /\ \E r \in Chatting : Chatting' = Chatting \ {r}
            /\ permits' = permits + 1
  PROVE  permits' \in 0 .. Permits /\ NoPermitLeaks'
<1> USE SupervisorAssumption DEF NoPermitLeaks
<1>1. IsFiniteSet(Chatting) /\ Cardinality(Chatting) \in Nat
  <2>1. IsFiniteSet(Runners) /\ Chatting \subseteq Runners
    BY FS_Interval DEF Runners, Chatting
  <2> QED
    BY <2>1, FS_Subset, FS_CardinalityType
<1>2. CASE Chatting' = Chatting /\ permits' = permits
  BY <1>2
<1>3. ASSUME NEW r \in Runners \ Chatting, Chatting' = Chatting \cup {r},
             permits > 0, permits' = permits - 1
      PROVE  permits' \in 0 .. Permits /\ NoPermitLeaks'
  <2>1. Cardinality(Chatting') = Cardinality(Chatting) + 1
    BY <1>1, <1>3, FS_AddElement
  <2> QED
    BY <1>1, <1>3, <2>1
<1>4. ASSUME NEW r \in Chatting, Chatting' = Chatting \ {r}, permits' = permits + 1
      PROVE  permits' \in 0 .. Permits /\ NoPermitLeaks'
  <2>1. Cardinality(Chatting') = Cardinality(Chatting) - 1
    BY <1>1, <1>4, FS_RemoveElement
  <2>2. IsFiniteSet(Chatting') /\ Cardinality(Chatting') \in Nat
    BY <1>1, <1>4, FS_Subset, FS_CardinalityType
  <2> QED
    BY <1>1, <1>4, <2>1, <2>2
<1> QED
  BY <1>2, <1>3, <1>4

\* A runner that is created was not chatting.
LEMMA CreateKeepsPermits ==
  ASSUME SupervisorShape, UNCHANGED permits,
         UNCHANGED worker \/ (New # {} /\ worker' = [worker EXCEPT ![Fresh] = "get"])
  PROVE  Chatting' = Chatting /\ permits' = permits
<1>1. CASE UNCHANGED worker
  BY <1>1 DEF Chatting
<1>2. CASE New # {} /\ worker' = [worker EXCEPT ![Fresh] = "get"]
  <2>1. Fresh \in Runners /\ worker[Fresh] = "none"
    BY <1>2, FreshIsNew DEF SupervisorShape, RunnerShape
  <2> QED
    BY <1>2, <2>1 DEF Chatting, SupervisorShape, SupervisorTypeOK
<1> QED
  BY <1>1, <1>2

LEMMA WorkKeepsPermits ==
  ASSUME SupervisorShape, NoPermitLeaks, NEW r \in Runners, Work(r)
  PROVE  permits' \in 0 .. Permits /\ NoPermitLeaks'
<1> USE DEF Chatting
<1>1. permits \in 0 .. Permits /\ worker \in [Runners -> {"none", "get", "acquire", "chat", "cancelled"}]
  BY DEF SupervisorShape, SupervisorTypeOK
<1>2. CASE Get(r)
  <2>1. Chatting' = Chatting /\ permits' = permits
    BY <1>1, <1>2 DEF Get
  <2> QED
    BY <1>1, <2>1, PermitsKept
<1>3. CASE Acquire(r)
  <2>1. /\ r \in Runners \ Chatting /\ Chatting' = Chatting \cup {r}
        /\ permits > 0 /\ permits' = permits - 1
    BY <1>1, <1>3 DEF Acquire
  <2> QED
    BY <1>1, <2>1, PermitsKept
<1>4. CASE Answer(r) \/ Fail(r) \/ (Cancelled(r) /\ worker[r] = "chat")
  <2>1. r \in Chatting /\ Chatting' = Chatting \ {r} /\ permits' = permits + 1
    BY <1>1, <1>4 DEF Answer, Fail, Cancelled, Done
  <2> QED
    BY <1>1, <2>1, PermitsKept
<1>5. CASE Cancelled(r) /\ worker[r] # "chat"
  <2>1. Chatting' = Chatting /\ permits' = permits
    BY <1>1, <1>5 DEF Cancelled
  <2> QED
    BY <1>1, <2>1, PermitsKept
<1> QED
  BY <1>2, <1>3, <1>4, <1>5 DEF Work

LEMMA WorkShape ==
  ASSUME SupervisorShape, NEW r \in Runners, Work(r), permits' \in 0 .. Permits
  PROVE  SupervisorShape' /\ \A a \in Agents : row[a] = "deleted" => row'[a] = "deleted"
<1> USE DEF SupervisorShape, SupervisorTypeOK
<1>1. CASE Get(r)
  <2>1. queue[r] \in Seq(ChatRequests) /\ queue[r] # <<>> /\ Len(queue[r]) <= Depth /\ Depth \in Nat
    BY <1>1, SupervisorAssumption DEF Get
  <2>2. /\ Head(queue[r]) \in ChatRequests /\ Tail(queue[r]) \in Seq(ChatRequests)
        /\ Len(Tail(queue[r])) <= Depth
    BY <2>1
  <2>3. /\ queue' \in [Runners -> Seq(ChatRequests)]
        /\ \A q \in Runners : Len(queue'[q]) <= Depth
        /\ current' \in [Runners -> ChatRequests \cup {<<>>}]
    BY <1>1, <2>2 DEF Get
  <2>4. Head(queue[r]) # <<>>
    BY <2>2, RequestNotEmpty
  <2>5. UNCHANGED status /\ Created(r)
    BY <1>1 DEF Get, Active, Created
  <2>6. RunnerShape'
    BY <1>1, <2>4, <2>5 DEF Get, RunnerShape, Created
  <2>7. CreatedInOrder'
    BY <2>5 DEF CreatedInOrder, Created
  <2> QED
    BY <1>1, <2>3, <2>6, <2>7 DEF Get
<1>2. CASE Acquire(r)
  <2>1. CreatedInOrder' /\ RunnerShape'
    BY <1>2 DEF Acquire, CreatedInOrder, RunnerShape, Created, Active
  <2> QED
    BY <1>2, <2>1 DEF Acquire
<1>3. CASE Cancelled(r)
  <2>1. CreatedInOrder' /\ RunnerShape'
    BY <1>3 DEF Cancelled, CreatedInOrder, RunnerShape, Created
  <2> QED
    BY <1>3, <2>1 DEF Cancelled
<1>4. CASE Answer(r) \/ Fail(r)
  <2>1. PICK outcome \in {"result", "exception"} : Resolves(r, outcome)
    BY <1>4 DEF Answer, Fail, Resolves
  <2>2. /\ request' \in [Clients -> [runner : Runners \cup {None}, future : {"none", "pending", "result", "exception"}]]
        /\ ready' \in Seq(Clients)
        /\ current' = [current EXCEPT ![r] = <<>>]
        /\ current' \in [Runners -> ChatRequests \cup {<<>>}]
    BY <2>1, ResolveShape, ZenonT(30)
  <2>3. /\ UNCHANGED <<registry, owner, queue, transcript, op, ops>>
        /\ worker' = [worker EXCEPT ![r] = "get"]
    BY <1>4 DEF Answer, Fail, Done
  <2>4. /\ status' = status \/ status' = [status EXCEPT ![r] = "crashed"]
        /\ Created(r)
    BY <1>4 DEF Answer, Fail, Active, Created
  <2>5. /\ status' \in [Runners -> {"new", "running", "stopping", "stopped", "crashed"}]
        /\ \A q \in Runners : Created(q)' <=> Created(q)
    BY <2>4 DEF Created
  <2>6. CreatedInOrder'
    <3>1. \A q \in Runners : Created(q)' <=> Created(q) \/ q = r
      BY <2>4, <2>5
    <3>2. CreatedInOrder /\ Created(r)
      BY <2>4
    <3> HIDE DEF SupervisorShape, SupervisorTypeOK
    <3> QED
      BY <3>1, <3>2, StaysInOrder
  <2>7. RunnerShape'
    BY <2>2, <2>3, <2>4, <2>5 DEF RunnerShape
  <2>8. /\ row' \in [Agents -> {"running", "stopped", "degraded", "deleted"}]
        /\ \A a \in Agents : row[a] = "deleted" => row'[a] = "deleted"
    <3>1. CASE Answer(r)
      BY <3>1 DEF Answer
    <3>2. CASE Fail(r)
      BY <3>2 DEF Fail
    <3> QED
      BY <1>4, <3>1, <3>2
  <2> QED
    BY <2>2, <2>3, <2>5, <2>6, <2>7, <2>8
<1> QED
  BY <1>1, <1>2, <1>3, <1>4 DEF Work, Get, Acquire, Cancelled

LEMMA ResumeShape ==
  ASSUME SupervisorShape, Resume
  PROVE  /\ SupervisorShape' /\ UNCHANGED <<worker, permits, row>>
         /\ Head(ready) \in Clients
<1> USE DEF SupervisorShape, SupervisorTypeOK
<1> DEFINE c == Head(ready)
<1>1. c \in Clients /\ ready' \in Seq(Clients)
  BY DEF Resume
<1>2. /\ UNCHANGED <<registry, owner, status, worker, current, queue, permits, row, op, ops>>
      /\ request' = [request EXCEPT ![c] = NoRequest]
      /\ \/ transcript' = transcript
         \/ transcript' = Append(transcript, Entry("assistant", c, Asked(c), request[c].runner))
  BY DEF Resume
<1>3. request' \in [Clients -> [runner : Runners \cup {None}, future : {"none", "pending", "result", "exception"}]]
  BY <1>1, <1>2 DEF NoRequest
<1>4. transcript' \in Seq(Transcribed)
  <2>1. Entry("assistant", c, Asked(c), request[c].runner) \in Transcribed
    <3>1. Asked(c) \in Nat /\ request[c].runner \in Runners \cup {None}
      BY <1>1, AskedIsNat
    <3> QED
      BY <1>1, <3>1 DEF Entry, Transcribed
  <2>2. transcript \in Seq(Transcribed)
    OBVIOUS
  <2>3. CASE transcript' = transcript
    BY <2>2, <2>3
  <2>4. CASE transcript' = Append(transcript, Entry("assistant", c, Asked(c), request[c].runner))
    BY <2>1, <2>2, <2>4
  <2> QED
    BY <1>2, <2>3, <2>4
<1>5. CreatedInOrder' /\ RunnerShape'
  BY <1>2 DEF CreatedInOrder, RunnerShape, Created
<1> QED
  BY <1>1, <1>2, <1>3, <1>4, <1>5

\* The steps of the runtimes.
LEMMA SupervisorSplit ==
  ASSUME [SupervisorNext]_supervisorVars
  PROVE  \/ \E c \in Clients, a \in Agents : Chat(c, a)
         \/ Resume
         \/ \E r \in Runners : Work(r)
         \/ \E o \in Operators : OperatorStep(o)
         \/ UNCHANGED supervisorVars
  BY DEF SupervisorNext, OperatorStep

LEMMA SupervisorStep ==
  ASSUME SupervisorShape, NoPermitLeaks, [SupervisorNext]_supervisorVars
  PROVE  /\ SupervisorShape' /\ NoPermitLeaks'
         /\ \A a \in Agents : row[a] = "deleted" => row'[a] = "deleted"
<1>1. permits \in 0 .. Permits
  BY DEF SupervisorShape, SupervisorTypeOK
<1>2. ASSUME NEW c \in Clients, NEW a \in Agents, Chat(c, a)
      PROVE  /\ SupervisorShape' /\ NoPermitLeaks'
             /\ \A b \in Agents : row[b] = "deleted" => row'[b] = "deleted"
  <2>1. /\ SupervisorShape' /\ UNCHANGED permits
        /\ UNCHANGED worker \/ (New # {} /\ worker' = [worker EXCEPT ![Fresh] = "get"])
        /\ \A b \in Agents : row[b] = "deleted" => row'[b] = "deleted"
    BY <1>2, ChatShape DEF Questions
  <2> QED
    BY <1>1, <2>1, CreateKeepsPermits, PermitsKept
<1>3. CASE Resume
  <2>1. SupervisorShape' /\ UNCHANGED <<worker, permits, row>>
    BY <1>3, ResumeShape
  <2> QED
    BY <2>1 DEF NoPermitLeaks, Chatting
<1>4. ASSUME NEW r \in Runners, Work(r)
      PROVE  /\ SupervisorShape' /\ NoPermitLeaks'
             /\ \A b \in Agents : row[b] = "deleted" => row'[b] = "deleted"
  <2>1. permits' \in 0 .. Permits /\ NoPermitLeaks'
    BY <1>4, WorkKeepsPermits
  <2> QED
    BY <1>4, <2>1, WorkShape
<1>5. ASSUME NEW o \in Operators, OperatorStep(o)
      PROVE  /\ SupervisorShape' /\ NoPermitLeaks'
             /\ \A b \in Agents : row[b] = "deleted" => row'[b] = "deleted"
  <2>1. /\ SupervisorShape' /\ UNCHANGED permits
        /\ UNCHANGED worker \/ (New # {} /\ worker' = [worker EXCEPT ![Fresh] = "get"])
        /\ \A b \in Agents : row[b] = "deleted" => row'[b] = "deleted"
    BY <1>5, OperatorShape DEF Operated
  <2> QED
    BY <1>1, <2>1, CreateKeepsPermits, PermitsKept
<1>6. CASE UNCHANGED supervisorVars
  <2> USE <1>6 DEF supervisorVars
  <2>1. SupervisorTypeOK'
    BY DEF SupervisorShape, SupervisorTypeOK
  <2>2. CreatedInOrder' /\ RunnerShape'
    BY DEF SupervisorShape, CreatedInOrder, RunnerShape, Created
  <2>3. NoPermitLeaks'
    BY DEF NoPermitLeaks, Chatting
  <2> QED
    BY <2>1, <2>2, <2>3 DEF SupervisorShape
<1> QED
  BY <1>2, <1>3, <1>4, <1>5, <1>6, SupervisorSplit

LEMMA SupervisorStart == SupervisorInit => SupervisorShape /\ NoPermitLeaks
<1> SUFFICES ASSUME SupervisorInit PROVE SupervisorShape /\ NoPermitLeaks
  OBVIOUS
<1> USE SupervisorAssumption DEF SupervisorInit
<1>1. SupervisorTypeOK
  BY DEF SupervisorTypeOK, NoRequest
<1>2. CreatedInOrder
  <2>1. 0 \in 0 .. MaxRunners /\ \A r \in Runners : Created(r) <=> r <= 0
    BY DEF Created, Runners
  <2> QED
    BY <2>1 DEF CreatedInOrder
<1>3. RunnerShape
  BY DEF RunnerShape, Created
<1>4. Chatting = {}
  BY DEF Chatting
<1>5. NoPermitLeaks
  BY <1>4, FS_EmptySet DEF NoPermitLeaks
<1> QED
  BY <1>1, <1>2, <1>3, <1>5 DEF SupervisorShape

THEOREM SupervisorInvariant == SupervisorSpec => [](SupervisorShape /\ NoPermitLeaks)
<1>1. SupervisorShape /\ NoPermitLeaks /\ [SupervisorNext]_supervisorVars
        => SupervisorShape' /\ NoPermitLeaks'
  BY SupervisorStep
<1> QED
  BY <1>1, SupervisorStart, PTL DEF SupervisorSpec

\* The runtimes, their queues, requests and permits keep their types; a queue never
\* outgrows max_queue_depth (RuntimeSupervisor, InProcessRunner).
THEOREM SupervisorTyped == SupervisorSpec => []SupervisorTypeOK
<1>1. SupervisorShape => SupervisorTypeOK
  BY DEF SupervisorShape
<1> QED
  BY <1>1, SupervisorInvariant, PTL

\* The requests of chats in flight and the free permits add up to the limit, over any
\* number of agents, runners, crashes, cancellations and restarts: no permit is leaked
\* and none returned twice (_worker_loop).  The boot of an agent takes none.
THEOREM PermitsNeverLeak == SupervisorSpec => []NoPermitLeaks
  BY SupervisorInvariant, PTL

\* An agent that was deleted does not come back, whichever chats, runners and operations
\* that knew it go on (delete_agent, start_agent, chat).
THEOREM DeletedStays == SupervisorSpec => DeletedForGood
<1>1. SupervisorShape /\ NoPermitLeaks /\ [SupervisorNext]_supervisorVars
        => [\A a \in Agents : row[a] = "deleted" => row'[a] = "deleted"]_supervisorVars
  BY SupervisorStep
<1> QED
  BY <1>1, SupervisorInvariant, PTL DEF SupervisorSpec, DeletedForGood

-----------------------------------------------------------------------------
(* The order of the answers.  Every request that is open has a question in *)
(* the transcript, and the places of the questions order whatever waits    *)
(* for one runner: the answers given, the chats that were woken, the       *)
(* request in hand and the queue.                                          *)

Open(c) == request[c].future # "none"
IsQuestion(m, c) ==
  m \in DOMAIN transcript /\ transcript[m] = Entry("user", c, Asked(c), request[c].runner)
\* Where the question of the open request of a chat is.
At(c) == CHOOSE m \in DOMAIN transcript : IsQuestion(m, c)

\* A chat numbers its questions, so that no two have one number.
Numbered ==
  /\ \A i \in DOMAIN transcript : transcript[i].role = "user" =>
       transcript[i].ask \in 1 .. Asked(transcript[i].client)
  /\ \A i, j \in DOMAIN transcript :
       (/\ transcript[i].role = "user" /\ transcript[j].role = "user"
        /\ transcript[i].client = transcript[j].client /\ transcript[i].ask = transcript[j].ask)
       => i = j

\* An open request is one to a runner, and its question was stored.
Asking ==
  \A c \in Clients :
    IF Open(c) THEN request[c].runner \in Runners /\ \E m \in DOMAIN transcript : IsQuestion(m, c)
    ELSE request[c] = NoRequest

Pending(r, q) ==
  request[q.client] = [runner |-> r, future |-> "pending"] /\ q.ask = Asked(q.client)

\* What a runner has, queued or in hand, is pending, and in the order of the questions.
InLine ==
  \A r \in Runners :
    /\ \A i \in DOMAIN queue[r] : Pending(r, queue[r][i])
    /\ current[r] # <<>> => Pending(r, current[r])
    /\ \A i, j \in DOMAIN queue[r] : i < j => At(queue[r][i].client) < At(queue[r][j].client)
    /\ current[r] # <<>> =>
         \A i \in DOMAIN queue[r] : At(current[r].client) < At(queue[r][i].client)

\* The chats that were woken are those whose future is done, each once; those of one
\* runner are in the order of the questions, and before whatever it still has.
Woken ==
  /\ \A i \in DOMAIN ready : request[ready[i]].future \in {"result", "exception"}
  /\ \A c \in Clients : request[c].future \in {"result", "exception"} =>
       \E i \in DOMAIN ready : ready[i] = c
  /\ \A i, j \in DOMAIN ready : i < j =>
       /\ ready[i] # ready[j]
       /\ request[ready[i]].runner = request[ready[j]].runner => At(ready[i]) < At(ready[j])
  /\ \A i \in DOMAIN ready, c \in Clients :
       request[c] = [runner |-> request[ready[i]].runner, future |-> "pending"]
       => At(ready[i]) < At(c)

\* Where the question of an answer is.
IsAnswered(m, i) ==
  m \in DOMAIN transcript /\ transcript[m] = [transcript[i] EXCEPT !.role = "user"]

\* The questions a runner answered are before every question that is open with it.
Answered ==
  \A i \in DOMAIN transcript : transcript[i].role = "assistant" =>
    /\ \E m \in DOMAIN transcript : IsAnswered(m, i)
    /\ \A c \in Clients : Open(c) /\ request[c].runner = transcript[i].runner =>
         \A m \in DOMAIN transcript : IsAnswered(m, i) => m < At(c)

\* The same as AnswersInOrder, without the choice of the question.
AnswersOrdered ==
  \A i, j \in DOMAIN transcript :
    /\ i < j
    /\ transcript[i].role = "assistant" /\ transcript[j].role = "assistant"
    /\ transcript[i].runner = transcript[j].runner
    => \A m, n \in DOMAIN transcript : IsAnswered(m, i) /\ IsAnswered(n, j) => m < n

LineInv ==
  /\ Numbered /\ Asking /\ InLine /\ PendingIsHeld /\ Woken /\ Answered /\ AnswersOrdered

LEMMA QuestionIsOne ==
  ASSUME SupervisorShape, Numbered, NEW c \in Clients, NEW m, NEW n,
         IsQuestion(m, c), IsQuestion(n, c)
  PROVE  m = n
  BY DEF Numbered, IsQuestion, Entry

LEMMA AtIsQuestion ==
  ASSUME SupervisorShape, Numbered, NEW c \in Clients, NEW m, IsQuestion(m, c)
  PROVE  At(c) = m
<1>1. m \in DOMAIN transcript /\ IsQuestion(m, c)
  BY DEF IsQuestion
<1>2. IsQuestion(At(c), c)
  BY <1>1 DEF At
<1> QED
  BY <1>2, QuestionIsOne

\* An open request has its question, at a number.
LEMMA AtOfOpen ==
  ASSUME SupervisorShape, Numbered, Asking, NEW c \in Clients, Open(c)
  PROVE  IsQuestion(At(c), c) /\ At(c) \in 1 .. Len(transcript)
<1>1. PICK m \in DOMAIN transcript : IsQuestion(m, c)
  BY DEF Asking
<1>2. At(c) = m
  BY <1>1, AtIsQuestion
<1> QED
  BY <1>1, <1>2 DEF SupervisorShape

\* How a message that is appended is counted.
LEMMA AskedStep ==
  ASSUME transcript \in Seq(Transcribed), NEW e \in Transcribed,
         transcript' = Append(transcript, e), NEW c
  PROVE  Asked(c)' = IF e.role = "user" /\ e.client = c THEN Asked(c) + 1 ELSE Asked(c)
<1> DEFINE asks == {i \in DOMAIN transcript : transcript[i].role = "user" /\ transcript[i].client = c}
           n == Len(transcript) + 1
<1>1. /\ Len(transcript) \in Nat /\ DOMAIN transcript = 1 .. Len(transcript)
      /\ DOMAIN transcript' = 1 .. n /\ transcript'[n] = e
      /\ \A i \in DOMAIN transcript : transcript'[i] = transcript[i]
  OBVIOUS
<1>2. IsFiniteSet(asks) /\ n \notin asks
  <2>1. asks \subseteq 1 .. Len(transcript) /\ n \notin asks
    BY <1>1
  <2>2. IsFiniteSet(1 .. Len(transcript))
    BY <1>1, FS_Interval
  <2>3. IsFiniteSet(asks)
    BY <2>1, <2>2, FS_Subset
  <2> QED
    BY <2>1, <2>3
<1>3. asks' = IF e.role = "user" /\ e.client = c THEN asks \cup {n} ELSE asks
  BY <1>1
<1>4. Cardinality(asks \cup {n}) = Cardinality(asks) + 1
  BY <1>2, FS_AddElement
<1>5. Asked(c)' = Cardinality(asks') /\ Asked(c) = Cardinality(asks)
  BY DEF Asked
<1> QED
  BY <1>3, <1>4, <1>5

\* The transcript keeps what it has.
Kept == \A i \in DOMAIN transcript : i \in DOMAIN transcript' /\ transcript'[i] = transcript[i]

LEMMA AtNext ==
  ASSUME Numbered', NEW c \in Clients, NEW m, IsQuestion(m, c)'
  PROVE  At(c)' = m
<1>1. m \in DOMAIN transcript'
  BY DEF IsQuestion
<1>2. IsQuestion(At(c), c)'
  BY <1>1 DEF At
<1>3. \A k : IsQuestion(k, c)' => k = m
  BY DEF Numbered, IsQuestion, Entry
<1> QED
  BY <1>2, <1>3

\* The question of a request that stays open stays where it is.
LEMMA AtKept ==
  ASSUME SupervisorShape, Numbered, Asking, Numbered', Kept,
         NEW c \in Clients, Open(c), request'[c].runner = request[c].runner,
         Asked(c)' = Asked(c)
  PROVE  /\ At(c)' = At(c) /\ At(c) \in 1 .. Len(transcript)
         /\ \E m \in DOMAIN transcript' : IsQuestion(m, c)'
<1>1. IsQuestion(At(c), c) /\ At(c) \in 1 .. Len(transcript)
  BY AtOfOpen
<1>2. \A m : m = At(c) => IsQuestion(m, c)'
  BY <1>1 DEF IsQuestion, Kept
<1>3. \E m \in DOMAIN transcript' : IsQuestion(m, c)'
  BY <1>2 DEF IsQuestion
<1> QED
  BY <1>1, <1>2, <1>3, AtNext

\* An answer keeps its question.
LEMMA AnsweredKept ==
  ASSUME Answered, Kept, Numbered', NEW i \in DOMAIN transcript,
         transcript[i].role = "assistant", transcript[i] \in Transcribed, NEW m
  PROVE  IsAnswered(m, i)' <=> IsAnswered(m, i)
<1>1. IsAnswered(m, i) => IsAnswered(m, i)'
  BY DEF IsAnswered, Kept
<1>2. PICK k \in DOMAIN transcript : IsAnswered(k, i)
  BY DEF Answered
<1>3. IsAnswered(k, i)'
  BY <1>2 DEF IsAnswered, Kept
<1>4. ASSUME IsAnswered(m, i)' PROVE m = k
  <2>1. /\ m \in DOMAIN transcript' /\ k \in DOMAIN transcript'
        /\ transcript'[m] = transcript'[k]
    BY <1>3, <1>4 DEF IsAnswered
  <2>2. transcript'[m].role = "user"
    <3>1. transcript'[m] = [transcript'[i] EXCEPT !.role = "user"] /\ transcript'[i] \in Transcribed
      BY <1>4 DEF IsAnswered, Kept
    <3> QED
      BY <3>1 DEF Transcribed
  <2> QED
    BY <2>1, <2>2 DEF Numbered
<1> QED
  BY <1>1, <1>2, <1>4

\* A message that is appended keeps the others, and the numbers as well unless it is a
\* question that does not take the next one.
LEMMA NumberedStep ==
  ASSUME SupervisorShape, Numbered, NEW e \in Transcribed, transcript' = Append(transcript, e),
         e.role = "user" => e.ask = Asked(e.client) + 1
  PROVE  Kept /\ Numbered'
<1> DEFINE n == Len(transcript) + 1
<1>1. transcript \in Seq(Transcribed)
  BY DEF SupervisorShape
<1>2. /\ DOMAIN transcript = 1 .. Len(transcript)
      /\ DOMAIN transcript' = 1 .. n /\ transcript'[n] = e
      /\ \A i \in DOMAIN transcript : transcript'[i] = transcript[i] /\ transcript[i] \in Transcribed
  BY <1>1
<1>3. Kept
  BY <1>2 DEF Kept
<1>4. \A i \in DOMAIN transcript' : i = n \/ i \in DOMAIN transcript
  BY <1>1, <1>2
<1>5. \A c \in Clients : /\ Asked(c) \in Nat
                         /\ Asked(c)' = IF e.role = "user" /\ e.client = c THEN Asked(c) + 1 ELSE Asked(c)
  BY <1>1, AskedStep, AskedIsNat
<1>6. \A i \in DOMAIN transcript : transcript[i].role = "user" =>
        /\ transcript[i].client \in Clients
        /\ transcript[i].ask \in 1 .. Asked(transcript[i].client)
  BY <1>2 DEF Numbered, Transcribed
<1>7. \A i \in DOMAIN transcript' : transcript'[i].role = "user" =>
        \A c \in Clients : transcript'[i].client = c => transcript'[i].ask \in 1 .. Asked(c)'
  <2> SUFFICES ASSUME NEW i \in DOMAIN transcript', transcript'[i].role = "user",
                      NEW c \in Clients, transcript'[i].client = c
               PROVE  transcript'[i].ask \in 1 .. Asked(c)'
    OBVIOUS
  <2>1. CASE i = n
    BY <1>2, <1>5, <2>1 DEF Transcribed
  <2>2. CASE i \in DOMAIN transcript
    BY <1>2, <1>5, <1>6, <2>2
  <2> QED
    BY <1>4, <2>1, <2>2
<1>8. \A i \in DOMAIN transcript' : transcript'[i].client \in Clients
  BY <1>2, <1>4 DEF Transcribed
<1>9. \A i, j \in DOMAIN transcript' :
       (/\ transcript'[i].role = "user" /\ transcript'[j].role = "user"
        /\ transcript'[i].client = transcript'[j].client /\ transcript'[i].ask = transcript'[j].ask)
       => i = j
  <2>1. ASSUME NEW i \in DOMAIN transcript, transcript[i].role = "user", e.role = "user",
               transcript[i].client = e.client, transcript[i].ask = e.ask
        PROVE  FALSE
    BY <1>5, <1>6, <2>1 DEF Transcribed
  <2>2. \A i, j \in DOMAIN transcript :
       (/\ transcript'[i].role = "user" /\ transcript'[j].role = "user"
        /\ transcript'[i].client = transcript'[j].client /\ transcript'[i].ask = transcript'[j].ask)
       => i = j
    BY <1>2 DEF Numbered
  <2> QED
    BY <1>2, <1>4, <2>1, <2>2
<1>10. Numbered'
  BY <1>7, <1>8, <1>9 DEF Numbered
<1> QED
  BY <1>3, <1>10

\* What a step leaves that touches neither the transcript nor which requests are open.
LEMMA SameQuestions ==
  ASSUME SupervisorShape, Numbered, Asking, Answered, AnswersOrdered, UNCHANGED transcript,
         \A c \in Clients :
           IF Open(c) THEN request'[c].future # "none" /\ request'[c].runner = request[c].runner
           ELSE request'[c] = request[c]
  PROVE  /\ Numbered' /\ Asking' /\ Answered' /\ AnswersOrdered'
         /\ \A c \in Clients : Open(c) => At(c)' = At(c)
         /\ \A c \in Clients : Asked(c)' = Asked(c)
<1>1. \A c : Asked(c)' = Asked(c)
  BY DEF Asked
<1>2. Numbered' /\ Kept
  <2>1. Kept
    BY DEF Kept
  <2>2. Numbered'
    BY DEF Numbered, Asked
  <2> QED
    BY <2>1, <2>2
<1>3. \A c \in Clients : Open(c) =>
        At(c)' = At(c) /\ \E m \in DOMAIN transcript' : IsQuestion(m, c)'
  BY <1>1, <1>2, AtKept
<1>4. Asking'
  BY <1>3 DEF Asking, Open, NoRequest
<1>5. \A i \in DOMAIN transcript : \A m : IsAnswered(m, i)' <=> IsAnswered(m, i)
  BY DEF IsAnswered
<1>6. Answered'
  <2> SUFFICES ASSUME NEW i \in DOMAIN transcript, transcript[i].role = "assistant"
               PROVE  /\ \E m \in DOMAIN transcript : IsAnswered(m, i)
                      /\ \A c \in Clients : Open(c)' /\ request'[c].runner = transcript[i].runner =>
                           \A m \in DOMAIN transcript : IsAnswered(m, i) => m < At(c)'
    BY <1>5 DEF Answered
  <2>1. \A c \in Clients : Open(c)' /\ request'[c].runner = transcript[i].runner =>
          Open(c) /\ request[c].runner = transcript[i].runner /\ At(c)' = At(c)
    BY <1>3 DEF Open
  <2> QED
    BY <2>1 DEF Answered
<1>7. AnswersOrdered'
  BY <1>5 DEF AnswersOrdered
<1> QED
  BY <1>1, <1>2, <1>3, <1>4, <1>6, <1>7

\* Who has a request is pending, and open.
LEMMA HeldIsOpen ==
  ASSUME SupervisorShape, InLine, NEW r \in Runners
  PROVE  /\ \A i \in DOMAIN queue[r] : queue[r][i].client \in Clients /\ Open(queue[r][i].client)
         /\ current[r] # <<>> => current[r].client \in Clients /\ Open(current[r].client)
         /\ \A i \in DOMAIN ready : ready[i] \in Clients
<1>1. /\ queue[r] \in Seq(ChatRequests) /\ current[r] \in ChatRequests \cup {<<>>}
      /\ ready \in Seq(Clients)
  BY DEF SupervisorShape, SupervisorTypeOK
<1>2. \A i \in DOMAIN queue[r] : queue[r][i] \in ChatRequests
  BY <1>1
<1>3. \A q \in ChatRequests : q.client \in Clients /\ (Pending(r, q) => Open(q.client))
  BY DEF ChatRequests, Pending, Open
<1> QED
  BY <1>1, <1>2, <1>3 DEF InLine

\* Nothing changes for the line: operators, permits, cancellations.
LEMMA LineStays ==
  ASSUME SupervisorShape, LineInv, UNCHANGED <<current, queue, request, ready, transcript>>
  PROVE  LineInv'
<1> USE DEF LineInv
<1>1. /\ Numbered' /\ Asking' /\ Answered' /\ AnswersOrdered'
      /\ \A c \in Clients : Open(c) => At(c)' = At(c)
      /\ \A c \in Clients : Asked(c)' = Asked(c)
  BY SameQuestions DEF Open
<1>2. \A c \in Clients : At(c)' = At(c)
  BY DEF At, IsQuestion, Asked
<1>3. InLine'
  BY <1>1, <1>2, HeldIsOpen, ZenonT(30) DEF InLine, Pending
<1>4. PendingIsHeld'
  BY DEF PendingIsHeld, Has
<1>5. Woken'
  <2>1. \A i \in DOMAIN ready : ready[i] \in Clients
    BY DEF SupervisorShape, SupervisorTypeOK
  <2> QED
    BY <1>2, <2>1 DEF Woken
<1> QED
  BY <1>1, <1>3, <1>4, <1>5

\* The next message is taken: from the head of the queue to the hand.
LEMMA LineGets ==
  ASSUME SupervisorShape, LineInv, NEW r \in Runners, Get(r)
  PROVE  LineInv'
<1> USE DEF LineInv
<1>1. /\ UNCHANGED <<request, ready, transcript>>
      /\ current' = [current EXCEPT ![r] = Head(queue[r])]
      /\ queue' = [queue EXCEPT ![r] = Tail(@)]
      /\ current[r] = <<>> /\ queue[r] # <<>>
  BY DEF Get, SupervisorShape, RunnerShape
<1>2. /\ Numbered' /\ Asking' /\ Answered' /\ AnswersOrdered'
      /\ \A c \in Clients : Asked(c)' = Asked(c)
  BY <1>1, SameQuestions DEF Open
<1>3. \A c \in Clients : At(c)' = At(c)
  BY <1>1 DEF At, IsQuestion, Asked
<1>4. /\ queue \in [Runners -> Seq(ChatRequests)] /\ current \in [Runners -> ChatRequests \cup {<<>>}]
      /\ ready \in Seq(Clients)
  BY DEF SupervisorShape, SupervisorTypeOK
<1>5. /\ 1 \in DOMAIN queue[r] /\ current'[r] = queue[r][1] /\ queue[r][1] # <<>>
      /\ DOMAIN queue'[r] = 1 .. Len(queue[r]) - 1
      /\ \A i \in DOMAIN queue'[r] : i + 1 \in DOMAIN queue[r] /\ 1 < i + 1 /\ queue'[r][i] = queue[r][i + 1]
      /\ \A i \in DOMAIN queue[r] : i = 1 \/ i - 1 \in DOMAIN queue'[r]
  <2>1. queue[r] \in Seq(ChatRequests) /\ queue'[r] = Tail(queue[r]) /\ current'[r] = Head(queue[r])
    BY <1>1, <1>4
  <2>2. queue[r][1] \in ChatRequests /\ Len(queue[r]) \in Nat \ {0} /\ Head(queue[r]) = queue[r][1]
    BY <1>1, <2>1
  <2>3. queue[r][1] # <<>>
    BY <2>2, RequestNotEmpty
  <2> QED
    BY <2>1, <2>2, <2>3
<1>6. \A q \in Runners : q # r => queue'[q] = queue[q] /\ current'[q] = current[q]
  BY <1>1, <1>4
<1>7. \A q \in Runners :
        /\ \A i \in DOMAIN queue[q] : queue[q][i].client \in Clients
        /\ current[q] # <<>> => current[q].client \in Clients
  BY HeldIsOpen
<1>8. \A q \in Runners : \A x : x.client \in Clients /\ Pending(q, x) => Pending(q, x)'
  BY <1>1, <1>2 DEF Pending
<1>9. InLine'
  <2>1. ASSUME NEW q \in Runners, q # r
        PROVE  /\ \A i \in DOMAIN queue'[q] : Pending(q, queue[q][i])'
               /\ current'[q] # <<>> => Pending(q, current[q])'
               /\ \A i, j \in DOMAIN queue'[q] : i < j => At(queue[q][i].client)' < At(queue[q][j].client)'
               /\ current'[q] # <<>> =>
                    \A i \in DOMAIN queue'[q] : At(current[q].client)' < At(queue[q][i].client)'
    BY <1>3, <1>6, <1>7, <1>8, <2>1 DEF InLine, Pending
  <2>2. /\ \A i \in DOMAIN queue'[r] : Pending(r, queue[r][i])'
        /\ Pending(r, current[r])'
    <3>1. \A i \in DOMAIN queue[r], c \in Clients : c = queue[r][i].client =>
            request[c] = [runner |-> r, future |-> "pending"] /\ queue[r][i].ask = Asked(c)'
      BY <1>2, <1>7 DEF InLine, Pending
    <3>2. \A i \in DOMAIN queue[r] : \A x : x = queue[r][i] => Pending(r, x)'
      BY <1>1, <1>7, <3>1 DEF Pending
    <3>3. \A i \in DOMAIN queue'[r] : Pending(r, queue[r][i])'
      BY <1>5, <3>2
    <3>4. \A x : x = queue[r][1] => Pending(r, x)'
      BY <1>5, <3>2
    <3> QED
      BY <1>5, <3>3, <3>4
  <2>3. \A i, j \in DOMAIN queue[r] : i < j => At(queue[r][i].client) < At(queue[r][j].client)
    BY DEF InLine
  <2>4. \A i, j \in DOMAIN queue'[r] : i < j => At(queue[r][i].client)' < At(queue[r][j].client)'
    <3> SUFFICES ASSUME NEW i \in DOMAIN queue'[r], NEW j \in DOMAIN queue'[r], i < j
                 PROVE  At(queue[r][i].client)' < At(queue[r][j].client)'
      OBVIOUS
    <3>1. /\ i + 1 \in DOMAIN queue[r] /\ j + 1 \in DOMAIN queue[r] /\ i + 1 < j + 1
          /\ queue'[r][i] = queue[r][i + 1] /\ queue'[r][j] = queue[r][j + 1]
      BY <1>5
    <3> QED
      BY <1>3, <1>7, <2>3, <3>1
  <2>5. \A i \in DOMAIN queue'[r] : At(current[r].client)' < At(queue[r][i].client)'
    BY <1>3, <1>5, <1>7, <2>3
  <2> QED
    BY <2>1, <2>2, <2>4, <2>5 DEF InLine
<1>10. PendingIsHeld'
  <2>1. \A q \in Runners, c \in Clients : Has(q, c) => Has(q, c)'
    <3>1. ASSUME NEW c \in Clients, Has(r, c) PROVE Has(r, c)'
      <4>1. PICK i \in DOMAIN queue[r] : queue[r][i].client = c
        BY <1>1, <3>1 DEF Has
      <4>2. CASE i = 1
        BY <1>5, <4>1, <4>2 DEF Has
      <4>3. CASE i # 1
        <5>1. i - 1 \in DOMAIN queue'[r] /\ i \in Int
          BY <1>4, <1>5, <4>1, <4>3
        <5>2. queue'[r][i - 1] = queue[r][i]
          BY <1>5, <5>1
        <5> QED
          BY <4>1, <5>1, <5>2 DEF Has
      <4> QED
        BY <4>2, <4>3
    <3> QED
      BY <1>6, <3>1 DEF Has
  <2>2. \A c \in Clients : request[c].future = "pending" => request[c].runner \in Runners
    BY DEF Asking, Open
  <2> QED
    BY <1>1, <2>1, <2>2 DEF PendingIsHeld
<1>11. Woken'
  <2>1. \A i \in DOMAIN ready : ready[i] \in Clients
    BY <1>4
  <2> QED
    BY <1>1, <1>3, <2>1 DEF Woken
<1> QED
  BY <1>2, <1>9, <1>10, <1>11

\* The request in hand is answered: it was the first of the line, and its chat is woken
\* behind those before it.
LEMMA LineResolves ==
  ASSUME SupervisorShape, LineInv, NEW r \in Runners,
         NEW outcome \in {"result", "exception"}, Resolves(r, outcome)
  PROVE  LineInv'
<1> DEFINE c == current[r].client
<1> USE DEF LineInv
<1>1. /\ c \in Clients /\ current[r] # <<>>
      /\ request' = [request EXCEPT ![c] = [@ EXCEPT !.future = outcome]]
      /\ ready' = Append(ready, c)
      /\ current' = [current EXCEPT ![r] = <<>>]
      /\ UNCHANGED <<queue, transcript>>
  BY ResolveShape DEF Resolves, SupervisorShape, RunnerShape
<1>2. /\ ready \in Seq(Clients)
      /\ request \in [Clients -> [runner : Runners \cup {None}, future : {"none", "pending", "result", "exception"}]]
      /\ current \in [Runners -> ChatRequests \cup {<<>>}]
  BY DEF SupervisorShape, SupervisorTypeOK
<1>3. request[c] = [runner |-> r, future |-> "pending"]
  BY <1>1 DEF InLine, Pending
<1>4. /\ request'[c] = [runner |-> r, future |-> outcome]
      /\ \A d \in Clients : d # c => request'[d] = request[d]
  BY <1>1, <1>2, <1>3
<1>5. \A d \in Clients :
        IF Open(d) THEN request'[d].future # "none" /\ request'[d].runner = request[d].runner
        ELSE request'[d] = request[d]
  BY <1>3, <1>4 DEF Open
<1>6. /\ Numbered' /\ Asking' /\ Answered' /\ AnswersOrdered'
      /\ \A d \in Clients : Open(d) => At(d)' = At(d)
      /\ \A d \in Clients : Asked(d)' = Asked(d)
  BY <1>1, <1>5, SameQuestions
<1>7. \A d \in Clients : Open(d) => At(d) \in Nat
  BY AtOfOpen DEF SupervisorShape
<1>8. \A q \in Runners :
        /\ \A i \in DOMAIN queue[q] : queue[q][i].client \in Clients /\ Open(queue[q][i].client)
                                      /\ queue[q][i].client # c
        /\ q # r /\ current[q] # <<>> => current[q].client \in Clients /\ Open(current[q].client)
                                         /\ current[q].client # c
  <2>1. \A q \in Runners :
          /\ \A i \in DOMAIN queue[q] : queue[q][i].client \in Clients /\ Open(queue[q][i].client)
          /\ current[q] # <<>> => current[q].client \in Clients /\ Open(current[q].client)
    BY HeldIsOpen
  <2>2. request[c].runner = r /\ \A q \in Runners : \A x : Pending(q, x) => request[x.client].runner = q
    BY <1>3 DEF Pending
  <2>3. ASSUME NEW q \in Runners, NEW i \in DOMAIN queue[q] PROVE queue[q][i].client # c
    <3>1. CASE q = r
      <4>1. At(c) < At(queue[r][i].client) /\ At(c) \in Nat
        BY <1>1, <1>7, <2>1, <3>1 DEF InLine
      <4> QED
        BY <3>1, <4>1
    <3>2. CASE q # r
      <4>1. Pending(q, queue[q][i])
        BY DEF InLine
      <4> HIDE DEF c
      <4> QED
        BY <2>2, <3>2, <4>1
    <3> QED
      BY <3>1, <3>2
  <2>4. \A q \in Runners : q # r /\ current[q] # <<>> => current[q].client # c
    <3>1. \A q \in Runners : current[q] # <<>> => Pending(q, current[q])
      BY DEF InLine
    <3> HIDE DEF c
    <3> QED
      BY <2>2, <3>1
  <2> QED
    BY <2>1, <2>3, <2>4
<1>9. \A q \in Runners : \A x :
        (x.client \in Clients /\ x.client # c /\ Pending(q, x)) => \A y : y = x => Pending(q, y)'
  BY <1>4, <1>6 DEF Pending
<1>10. InLine'
  <2> SUFFICES ASSUME NEW q \in Runners
               PROVE  /\ \A i \in DOMAIN queue[q] : Pending(q, queue[q][i])'
                      /\ current'[q] # <<>> => Pending(q, current[q])'
                      /\ \A i, j \in DOMAIN queue[q] : i < j => At(queue[q][i].client)' < At(queue[q][j].client)'
                      /\ current'[q] # <<>> =>
                           \A i \in DOMAIN queue[q] : At(current[q].client)' < At(queue[q][i].client)'
    BY <1>1 DEF InLine
  <2>1. \A i \in DOMAIN queue[q] : Pending(q, queue[q][i])'
    BY <1>1, <1>8, <1>9 DEF InLine
  <2>2. /\ current'[q] # <<>> => q # r /\ current'[q] = current[q]
        /\ queue' = queue
    BY <1>1, <1>2
  <2>3. current'[q] # <<>> => Pending(q, current[q])'
    BY <1>8, <1>9, <2>2 DEF InLine
  <2>4. \A i, j \in DOMAIN queue[q] : i < j => At(queue[q][i].client)' < At(queue[q][j].client)'
    BY <1>6, <1>8, <2>2 DEF InLine
  <2>5. current'[q] # <<>> =>
                           \A i \in DOMAIN queue[q] : At(current[q].client)' < At(queue[q][i].client)'
    BY <1>6, <1>8, <2>2 DEF InLine
  <2> QED
    BY <2>1, <2>3, <2>4, <2>5
<1>11. PendingIsHeld'
  <2> SUFFICES ASSUME NEW d \in Clients, request'[d].future = "pending"
               PROVE  Has(request[d].runner, d)'
    BY DEF PendingIsHeld
  <2>1. d # c /\ request'[d] = request[d]
    BY <1>4
  <2>2. Has(request[d].runner, d)
    BY <2>1 DEF PendingIsHeld
  <2>3. request[d].runner \in Runners
    BY <2>1 DEF Asking, Open
  <2>4. \A q \in Runners : q = r \/ current'[q] = current[q]
    BY <1>1, <1>2
  <2> QED
    BY <1>1, <2>1, <2>2, <2>3, <2>4 DEF Has
<1>12. Woken'
  <2> DEFINE n == Len(ready) + 1
  <2>1. /\ DOMAIN ready' = 1 .. n /\ ready'[n] = c /\ DOMAIN ready = 1 .. Len(ready) /\ Len(ready) \in Nat
        /\ \A i \in DOMAIN ready : i \in DOMAIN ready' /\ ready'[i] = ready[i] /\ ready[i] \in Clients
                                   /\ i < n
        /\ \A i \in DOMAIN ready' : i = n \/ i \in DOMAIN ready
    BY <1>1, <1>2
  <2>2. \A i \in DOMAIN ready : ready[i] # c /\ Open(ready[i]) /\ request'[ready[i]] = request[ready[i]]
    BY <1>3, <1>4, <2>1 DEF Woken, Open
  <2>3. \A i \in DOMAIN ready' : request'[ready'[i]].future \in {"result", "exception"}
    BY <1>4, <2>1, <2>2 DEF Woken
  <2>4. \A d \in Clients : request'[d].future \in {"result", "exception"} =>
          \E i \in DOMAIN ready' : ready'[i] = d
    <3> SUFFICES ASSUME NEW d \in Clients, request'[d].future \in {"result", "exception"}
                 PROVE  \E i \in DOMAIN ready' : ready'[i] = d
      OBVIOUS
    <3>1. CASE d = c
      BY <2>1, <3>1
    <3>2. CASE d # c
      <4>1. \E i \in DOMAIN ready : ready[i] = d
        BY <1>4, <3>2 DEF Woken
      <4> QED
        BY <2>1, <4>1
    <3> QED
      BY <3>1, <3>2
  <2>5. \A i \in DOMAIN ready : request[ready[i]].runner = r => At(ready[i]) < At(c)
    BY <1>1, <1>3 DEF Woken
  <2>6. ASSUME NEW i \in DOMAIN ready', NEW j \in DOMAIN ready', i < j
        PROVE  /\ ready'[i] # ready'[j]
               /\ request'[ready'[i]].runner = request'[ready'[j]].runner =>
                    At(ready[i])' < At(ready[j])'
    <3>1. i \in DOMAIN ready
      BY <2>1, <2>6
    <3>2. CASE j = n
      <4>1. ready'[j] = c /\ ready'[i] = ready[i] /\ ready[i] \in Clients /\ Open(c)
        BY <1>3, <2>1, <3>1, <3>2 DEF Open
      <4>2. At(ready[i])' = At(ready[i]) /\ At(ready[j])' = At(c)
        BY <1>1, <1>6, <2>2, <3>1, <4>1
      <4> QED
        BY <1>4, <2>2, <2>5, <3>1, <4>1, <4>2
    <3>3. CASE j \in DOMAIN ready
      BY <1>6, <2>1, <2>2, <2>6, <3>1, <3>3 DEF Woken
    <3> QED
      BY <2>1, <3>2, <3>3
  <2>7. ASSUME NEW i \in DOMAIN ready', NEW d \in Clients,
               request'[d] = [runner |-> request'[ready'[i]].runner, future |-> "pending"]
        PROVE  At(ready[i])' < At(d)'
    <3>1. d # c /\ request'[d] = request[d] /\ Open(d)
      BY <1>4, <2>7 DEF Open
    <3>2. CASE i = n
      <4>1. request[d] = [runner |-> r, future |-> "pending"]
        BY <1>4, <2>1, <2>7, <3>1, <3>2
      <4>2. \E k \in DOMAIN queue[r] : queue[r][k].client = d
        BY <3>1, <4>1 DEF PendingIsHeld, Has
      <4>3. At(c) < At(d)
        BY <1>1, <4>2 DEF InLine
      <4> QED
        BY <1>1, <1>3, <1>6, <2>1, <3>1, <3>2, <4>3 DEF Open
    <3>3. CASE i \in DOMAIN ready
      <4>1. request[d] = [runner |-> request[ready[i]].runner, future |-> "pending"]
        BY <2>1, <2>2, <2>7, <3>1, <3>3
      <4>2. At(ready[i]) < At(d)
        BY <3>3, <4>1 DEF Woken
      <4> QED
        BY <1>6, <2>1, <2>2, <3>1, <3>3, <4>2
    <3> QED
      BY <2>1, <3>2, <3>3
  <2> QED
    BY <2>3, <2>4, <2>6, <2>7 DEF Woken
<1> QED
  BY <1>6, <1>10, <1>11, <1>12

\* A chat asks: its question is the last of the transcript, and the last of the queue
\* unless that is full.
LEMMA LineAsks ==
  ASSUME SupervisorShape, LineInv, NEW c \in Clients, NEW runner \in Runners, Questions(c, runner)
  PROVE  LineInv'
<1> DEFINE n == Len(transcript) + 1
           e == Entry("user", c, Asked(c) + 1, runner)
           ask == [client |-> c, ask |-> Asked(c) + 1]
<1> USE DEF LineInv
<1>1. /\ transcript' = Append(transcript, e) /\ UNCHANGED <<current, ready>>
      /\ request[c] = NoRequest /\ ~Open(c)
  BY DEF Questions, NoRequest, Open
<1>2. /\ ready \in Seq(Clients) /\ transcript \in Seq(Transcribed) /\ Len(transcript) \in Nat
      /\ request \in [Clients -> [runner : Runners \cup {None}, future : {"none", "pending", "result", "exception"}]]
      /\ queue \in [Runners -> Seq(ChatRequests)]
      /\ \A d \in Clients : Asked(d) \in Nat
  BY AskedIsNat DEF SupervisorShape, SupervisorTypeOK
<1>3. e \in Transcribed /\ e.role = "user" /\ e.client = c /\ e.ask = Asked(c) + 1
  BY <1>2 DEF Entry, Transcribed
<1>4. /\ Kept /\ Numbered'
      /\ \A d \in Clients : Asked(d)' = IF d = c THEN Asked(c) + 1 ELSE Asked(d)
  BY <1>1, <1>2, <1>3, NumberedStep, AskedStep
<1>5. /\ DOMAIN transcript = 1 .. Len(transcript) /\ DOMAIN transcript' = 1 .. n /\ transcript'[n] = e
      /\ \A i \in DOMAIN transcript : transcript'[i] = transcript[i] /\ transcript[i] \in Transcribed
      /\ \A i \in DOMAIN transcript' : i = n \/ i \in DOMAIN transcript
  BY <1>1, <1>2
<1>6. \A d \in Clients : d # c => request'[d] = request[d]
  BY <1>2 DEF Questions
<1>7. \A d \in Clients : Open(d) =>
        /\ d # c /\ At(d)' = At(d) /\ At(d) \in 1 .. Len(transcript)
        /\ \E m \in DOMAIN transcript' : IsQuestion(m, d)'
  BY <1>1, <1>4, <1>6, AtKept
<1>8. Open(c)' => /\ request'[c] = [runner |-> runner, future |-> "pending"]
                  /\ At(c)' = n /\ \E m \in DOMAIN transcript' : IsQuestion(m, c)'
  <2> SUFFICES ASSUME Open(c)'
               PROVE  /\ request'[c] = [runner |-> runner, future |-> "pending"]
                      /\ At(c)' = n /\ \E m \in DOMAIN transcript' : IsQuestion(m, c)'
    OBVIOUS
  <2>1. request'[c] = [runner |-> runner, future |-> "pending"]
    BY <1>1, <1>2 DEF Questions, Open
  <2>2. \A m : m = n => IsQuestion(m, c)'
    BY <1>2, <1>4, <1>5, <2>1 DEF IsQuestion
  <2>3. n \in DOMAIN transcript'
    BY <1>2, <1>5
  <2>4. At(c)' = n
    <3> SUFFICES ASSUME NEW m, m = n PROVE At(c)' = m
      OBVIOUS
    <3>1. IsQuestion(m, c)'
      BY <2>2
    <3> QED
      BY <1>4, <3>1, AtNext
  <2> QED
    BY <2>1, <2>2, <2>3, <2>4
<1>9. \A d \in Clients : Open(d)' => d = c \/ Open(d)
  BY <1>6 DEF Open
<1>10. Asking'
  <2>1. ~Open(c)' => request'[c] = NoRequest
    <3>1. CASE request' = request
      BY <1>1, <3>1
    <3>2. CASE request' = [request EXCEPT ![c] = [runner |-> runner, future |-> "pending"]]
      BY <1>2, <3>2 DEF Open
    <3> QED
      BY <3>1, <3>2 DEF Questions
  <2>2. Open(c)' => request'[c].runner \in Runners /\ \E m \in DOMAIN transcript' : IsQuestion(m, c)'
    BY <1>8
  <2>3. ASSUME NEW d \in Clients, d # c
        PROVE  IF Open(d)' THEN request'[d].runner \in Runners /\ \E m \in DOMAIN transcript' : IsQuestion(m, d)'
               ELSE request'[d] = NoRequest
    <3>1. request'[d] = request[d] /\ (Open(d)' <=> Open(d))
      BY <1>6, <2>3 DEF Open
    <3> QED
      BY <1>7, <3>1 DEF Asking
  <2> QED
    BY <2>1, <2>2, <2>3 DEF Asking
<1>11. \A q \in Runners : \A x :
         (x.client \in Clients /\ x.client # c /\ Pending(q, x)) => \A y : y = x => Pending(q, y)'
  BY <1>4, <1>6 DEF Pending
<1>12. \A q \in Runners :
         /\ \A i \in DOMAIN queue[q] : /\ queue[q][i].client \in Clients
                                       /\ queue[q][i].client # c /\ Open(queue[q][i].client)
         /\ current[q] # <<>> => /\ current[q].client \in Clients
                                 /\ current[q].client # c /\ Open(current[q].client)
  BY <1>1, HeldIsOpen
<1>13. \A q \in Runners :
         /\ \A i \in DOMAIN queue[q] : i \in DOMAIN queue'[q] /\ queue'[q][i] = queue[q][i]
         /\ \A i \in DOMAIN queue'[q] :
              \/ i \in DOMAIN queue[q]
              \/ /\ queue'[q][i] = ask /\ q = runner /\ Open(c)'
                 /\ request'[c] = [runner |-> runner, future |-> "pending"]
                 /\ \A j \in DOMAIN queue'[q] : i < j => FALSE
                 /\ \A j \in DOMAIN queue'[q] : j # i => j \in DOMAIN queue[q]
  <2>1. CASE UNCHANGED <<queue, request>>
    BY <2>1
  <2>2. CASE ~UNCHANGED <<queue, request>>
    <3>1. /\ queue' = [queue EXCEPT ![runner] = Append(queue[runner], ask)]
          /\ request' = [request EXCEPT ![c] = [runner |-> runner, future |-> "pending"]]
      BY <2>2 DEF Questions
    <3>2. request'[c] = [runner |-> runner, future |-> "pending"] /\ Open(c)'
      BY <1>2, <3>1 DEF Open
    <3>3. queue[runner] \in Seq(ChatRequests) /\ queue'[runner] = Append(queue[runner], ask)
      BY <1>2, <3>1
    <3>4. /\ DOMAIN queue'[runner] = 1 .. Len(queue[runner]) + 1 /\ DOMAIN queue[runner] = 1 .. Len(queue[runner])
          /\ Len(queue[runner]) \in Nat /\ queue'[runner][Len(queue[runner]) + 1] = ask
          /\ \A i \in DOMAIN queue[runner] : queue'[runner][i] = queue[runner][i]
      BY <3>3
    <3>5. \A q \in Runners : q # runner => queue'[q] = queue[q]
      BY <1>2, <3>1
    <3> HIDE DEF ask
    <3> QED
      BY <3>2, <3>4, <3>5
  <2> QED
    BY <2>1, <2>2
<1>14. InLine'
  <2> SUFFICES ASSUME NEW q \in Runners
               PROVE  /\ \A i \in DOMAIN queue'[q] : Pending(q, queue[q][i])'
                      /\ current[q] # <<>> => Pending(q, current[q])'
                      /\ \A i, j \in DOMAIN queue'[q] : i < j => At(queue[q][i].client)' < At(queue[q][j].client)'
                      /\ current[q] # <<>> =>
                           \A i \in DOMAIN queue'[q] : At(current[q].client)' < At(queue[q][i].client)'
    BY <1>1 DEF InLine
  <2>1. current[q] # <<>> => Pending(q, current[q])'
    BY <1>1, <1>11, <1>12 DEF InLine
  <2>2. \A i \in DOMAIN queue'[q] : Pending(q, queue[q][i])'
    <3>1. ASSUME NEW i \in DOMAIN queue[q] PROVE Pending(q, queue[q][i])'
      BY <1>11, <1>12, <1>13 DEF InLine
    <3>2. ASSUME NEW i \in DOMAIN queue'[q], queue'[q][i] = ask, q = runner,
                 request'[c] = [runner |-> runner, future |-> "pending"]
          PROVE  Pending(q, queue[q][i])'
      BY <1>4, <3>2 DEF Pending
    <3> QED
      BY <1>13, <3>1, <3>2
  <2>3. \A i \in DOMAIN queue[q] :
          /\ queue'[q][i] = queue[q][i]
          /\ At(queue[q][i].client)' = At(queue[q][i].client) /\ At(queue[q][i].client) \in 1 .. Len(transcript)
    BY <1>7, <1>12, <1>13
  <2>4. \A i \in DOMAIN queue'[q] : i \notin DOMAIN queue[q] =>
          At(queue[q][i].client)' = n /\ \A j \in DOMAIN queue'[q] : i < j => FALSE
    <3>1. ASSUME NEW i \in DOMAIN queue'[q], queue'[q][i] = ask, Open(c)' PROVE At(queue[q][i].client)' = n
      <4>1. queue'[q][i].client = c
        BY <3>1
      <4>2. At(c)' = n
        BY <1>8, <3>1
      <4> QED
        BY <4>1, <4>2
    <3> QED
      BY <1>13, <3>1
  <2>5. \A i, j \in DOMAIN queue'[q] : i < j => At(queue[q][i].client)' < At(queue[q][j].client)'
    <3> SUFFICES ASSUME NEW i \in DOMAIN queue'[q], NEW j \in DOMAIN queue'[q], i < j
                 PROVE  At(queue[q][i].client)' < At(queue[q][j].client)'
      OBVIOUS
    <3>1. i \in DOMAIN queue[q]
      BY <2>4
    <3>2. CASE j \in DOMAIN queue[q]
      BY <2>3, <3>1, <3>2 DEF InLine
    <3>3. CASE j \notin DOMAIN queue[q]
      BY <1>2, <2>3, <2>4, <3>1, <3>3
    <3> QED
      BY <3>2, <3>3
  <2>6. current[q] # <<>> =>
          /\ At(current[q].client)' = At(current[q].client) /\ At(current[q].client) \in 1 .. Len(transcript)
    BY <1>1, <1>7, <1>12
  <2>7. current[q] # <<>> => \A i \in DOMAIN queue'[q] : At(current[q].client)' < At(queue[q][i].client)'
    <3> SUFFICES ASSUME current[q] # <<>>, NEW i \in DOMAIN queue'[q]
                 PROVE  At(current[q].client)' < At(queue[q][i].client)'
      OBVIOUS
    <3>1. CASE i \in DOMAIN queue[q]
      BY <2>3, <2>6, <3>1 DEF InLine
    <3>2. CASE i \notin DOMAIN queue[q]
      BY <1>2, <2>4, <2>6, <3>2
    <3> QED
      BY <3>1, <3>2
  <2> QED
    BY <2>1, <2>2, <2>5, <2>7
<1>15. PendingIsHeld'
  <2> SUFFICES ASSUME NEW d \in Clients, request'[d].future = "pending"
               PROVE  Has(request[d].runner, d)'
    BY DEF PendingIsHeld
  <2>1. CASE d # c
    <3>1. Has(request[d].runner, d) /\ request'[d] = request[d] /\ request[d].runner \in Runners
      BY <1>6, <2>1 DEF PendingIsHeld, Asking, Open
    <3> QED
      BY <1>1, <1>13, <3>1 DEF Has
  <2>2. CASE d = c
    <3>1. Open(c)'
      BY <2>2 DEF Open
    <3>2. /\ queue' = [queue EXCEPT ![runner] = Append(queue[runner], ask)]
          /\ request'[c].runner = runner
      <4>1. request' # request
        BY <1>1, <3>1 DEF Open
      <4> QED
        BY <1>8, <3>1, <4>1 DEF Questions
    <3>3. queue[runner] \in Seq(ChatRequests) /\ queue'[runner] = Append(queue[runner], ask)
      BY <1>2, <3>2
    <3>4. Len(queue[runner]) + 1 \in DOMAIN queue'[runner] /\ queue'[runner][Len(queue[runner]) + 1].client = c
      BY <3>3
    <3> QED
      BY <2>2, <3>2, <3>4 DEF Has
  <2> QED
    BY <2>1, <2>2
<1>16. Woken'
  <2>1. \A i \in DOMAIN ready : /\ ready[i] \in Clients /\ Open(ready[i]) /\ ready[i] # c
                                /\ request'[ready[i]] = request[ready[i]]
                                /\ At(ready[i])' = At(ready[i]) /\ At(ready[i]) \in 1 .. Len(transcript)
    <3>1. \A i \in DOMAIN ready : ready[i] \in Clients
      BY <1>2
    <3>2. \A i \in DOMAIN ready : Open(ready[i])
      BY DEF Woken, Open
    <3>3. UNCHANGED ready
      BY <1>1
    <3> QED
      BY <1>1, <1>6, <1>7, <3>1, <3>2, <3>3
  <2>2. \A d \in Clients : request'[d].future \in {"result", "exception"} => d # c /\ request'[d] = request[d]
    BY <1>6, <1>8 DEF Open
  <2>3. ASSUME NEW i \in DOMAIN ready, NEW d \in Clients,
               request'[d] = [runner |-> request[ready[i]].runner, future |-> "pending"]
        PROVE  At(ready[i])' < At(d)'
    <3>1. CASE d = c
      BY <1>2, <1>8, <2>1, <2>3, <3>1 DEF Open
    <3>2. CASE d # c
      <4>1. request[d] = [runner |-> request[ready[i]].runner, future |-> "pending"]
        BY <1>6, <2>3, <3>2
      <4>2. Open(d) /\ At(ready[i]) < At(d)
        BY <4>1 DEF Woken, Open
      <4> QED
        BY <1>7, <2>1, <4>2
    <3> QED
      BY <3>1, <3>2
  <2>4. \A i, j \in DOMAIN ready : i < j =>
          /\ ready[i] # ready[j]
          /\ request'[ready[i]].runner = request'[ready[j]].runner => At(ready[i])' < At(ready[j])'
    BY <2>1 DEF Woken
  <2>5. \A i \in DOMAIN ready : request'[ready[i]].future \in {"result", "exception"}
    BY <2>1 DEF Woken
  <2>6. \A d \in Clients : request'[d].future \in {"result", "exception"} => \E i \in DOMAIN ready : ready[i] = d
    BY <2>2 DEF Woken
  <2>7. ready' = ready
    BY <1>1
  <2> QED
    BY <2>1, <2>3, <2>4, <2>5, <2>6, <2>7 DEF Woken
<1>17. \A i \in DOMAIN transcript : \A m : transcript[i].role = "assistant" =>
         (IsAnswered(m, i)' <=> IsAnswered(m, i))
  BY <1>4, <1>5, AnsweredKept
<1>18. \A i \in DOMAIN transcript' : transcript'[i].role = "assistant" =>
         i \in DOMAIN transcript /\ transcript[i] = transcript'[i]
  BY <1>3, <1>5
<1>19. Answered'
  <2> SUFFICES ASSUME NEW i \in DOMAIN transcript, transcript[i].role = "assistant",
                      transcript'[i] = transcript[i]
               PROVE  /\ \E m \in DOMAIN transcript' : IsAnswered(m, i)'
                      /\ \A d \in Clients : Open(d)' /\ request'[d].runner = transcript[i].runner =>
                           \A m \in DOMAIN transcript' : IsAnswered(m, i)' => m < At(d)'
    BY <1>18 DEF Answered
  <2>1. \E m \in DOMAIN transcript' : IsAnswered(m, i)'
    BY <1>4, <1>17 DEF Answered, Kept
  <2>2. ASSUME NEW d \in Clients, Open(d)', request'[d].runner = transcript[i].runner,
               NEW m, IsAnswered(m, i)
        PROVE  m < At(d)'
    <3>1. CASE d = c
      BY <1>2, <1>5, <1>8, <2>2, <3>1 DEF IsAnswered
    <3>2. CASE d # c
      BY <1>6, <1>7, <1>9, <2>2, <3>2 DEF Answered, IsAnswered
    <3> QED
      BY <3>1, <3>2
  <2> QED
    BY <1>17, <2>1, <2>2
<1>20. AnswersOrdered'
  BY <1>17, <1>18 DEF AnswersOrdered, IsAnswered
<1> QED
  BY <1>4, <1>10, <1>14, <1>15, <1>16, <1>19, <1>20

\* The first chat that was woken goes on: its answer is stored, and what it had asked is
\* closed.
LEMMA LineResumes ==
  ASSUME SupervisorShape, LineInv, Resume
  PROVE  LineInv'
<1> DEFINE c == Head(ready)
           n == Len(transcript) + 1
           e == Entry("assistant", c, Asked(c), request[c].runner)
<1> USE DEF LineInv
<1>1. /\ ready \in Seq(Clients) /\ transcript \in Seq(Transcribed) /\ Len(transcript) \in Nat
      /\ request \in [Clients -> [runner : Runners \cup {None}, future : {"none", "pending", "result", "exception"}]]
      /\ \A d \in Clients : Asked(d) \in Nat
  BY AskedIsNat DEF SupervisorShape, SupervisorTypeOK
<1>2. /\ ready # <<>> /\ ready' = Tail(ready) /\ UNCHANGED <<queue, current>>
      /\ request' = [request EXCEPT ![c] = NoRequest]
      /\ transcript' = transcript \/ transcript' = Append(transcript, e)
  BY DEF Resume
<1>3. /\ 1 \in DOMAIN ready /\ ready[1] = c /\ c \in Clients
      /\ DOMAIN ready' = 1 .. Len(ready) - 1 /\ DOMAIN ready = 1 .. Len(ready)
      /\ \A i \in DOMAIN ready' : i + 1 \in DOMAIN ready /\ 1 < i + 1 /\ ready'[i] = ready[i + 1]
      /\ \A i \in DOMAIN ready : ready[i] \in Clients /\ i \in Nat
                                 /\ (i = 1 \/ (i - 1 \in DOMAIN ready' /\ ready'[i - 1] = ready[i]))
  BY <1>1, <1>2
<1>4. /\ request[c].future \in {"result", "exception"} /\ Open(c)
      /\ request'[c] = NoRequest /\ \A d : d = c => ~Open(d)'
  <2>1. request[c].future \in {"result", "exception"} /\ Open(c)
    BY <1>3 DEF Woken, Open
  <2>2. request'[c] = NoRequest
    BY <1>1, <1>2, <1>3
  <2> QED
    BY <2>1, <2>2 DEF Open, NoRequest
<1>5. \A d \in Clients : d # c => request'[d] = request[d]
  BY <1>1, <1>2
<1>6. /\ e \in Transcribed /\ e.role = "assistant" /\ e.client = c /\ e.ask = Asked(c)
      /\ e.runner = request[c].runner
  <2>1. Asked(c) \in Nat /\ request[c].runner \in Runners \cup {None}
    BY <1>1, <1>3
  <2> QED
    BY <1>3, <2>1 DEF Entry, Transcribed
<1>7. /\ Kept /\ Numbered'
      /\ \A d \in Clients : Asked(d)' = Asked(d)
  <2>1. CASE transcript' = transcript
    <3>1. \A d : Asked(d)' = Asked(d)
      BY <2>1 DEF Asked
    <3>2. Kept
      BY <2>1 DEF Kept
    <3>3. Numbered'
      BY <2>1 DEF Numbered, Asked
    <3> QED
      BY <3>1, <3>2, <3>3
  <2>2. CASE transcript' = Append(transcript, e)
    <3>1. Kept /\ Numbered'
      BY <1>6, <2>2, NumberedStep
    <3>2. \A d \in Clients : Asked(d)' = Asked(d)
      BY <1>1, <1>6, <2>2, AskedStep
    <3> QED
      BY <3>1, <3>2
  <2> QED
    BY <1>2, <2>1, <2>2
<1>8. /\ \A i \in DOMAIN transcript : /\ transcript'[i] = transcript[i] /\ i \in DOMAIN transcript'
                                      /\ transcript[i] \in Transcribed /\ i < n
      /\ \A i \in DOMAIN transcript' : i \in DOMAIN transcript \/ (i = n /\ transcript'[i] = e)
  <2>1. CASE transcript' = transcript
    BY <1>1, <2>1
  <2>2. CASE transcript' = Append(transcript, e)
    BY <1>1, <1>6, <2>2
  <2> QED
    BY <1>2, <2>1, <2>2
<1>9. \A d \in Clients : d # c /\ Open(d) =>
        /\ At(d)' = At(d) /\ At(d) \in 1 .. Len(transcript)
        /\ \E m \in DOMAIN transcript' : IsQuestion(m, d)'
  BY <1>5, <1>7, AtKept
<1>10. Asking'
  <2>1. ASSUME NEW d \in Clients, d # c
        PROVE  IF Open(d)' THEN request'[d].runner \in Runners /\ \E m \in DOMAIN transcript' : IsQuestion(m, d)'
               ELSE request'[d] = NoRequest
    <3>1. request'[d] = request[d] /\ (Open(d)' <=> Open(d))
      BY <1>5, <2>1 DEF Open
    <3> QED
      BY <1>9, <2>1, <3>1 DEF Asking
  <2> QED
    BY <1>4, <2>1 DEF Asking
<1>11. \A q \in Runners : \A x : Pending(q, x) => x.client # c
  BY <1>4 DEF Pending
<1>12. \A q \in Runners :
         /\ \A i \in DOMAIN queue[q] : /\ queue[q][i].client \in Clients
                                       /\ queue[q][i].client # c /\ Open(queue[q][i].client)
         /\ current[q] # <<>> => /\ current[q].client \in Clients
                                 /\ current[q].client # c /\ Open(current[q].client)
  <2> HIDE DEF c
  <2> QED
    BY <1>11, HeldIsOpen DEF InLine
<1>13. \A q \in Runners : \A x :
         (x.client \in Clients /\ x.client # c /\ Pending(q, x)) => \A y : y = x => Pending(q, y)'
  BY <1>5, <1>7 DEF Pending
<1>14. InLine'
  <2> SUFFICES ASSUME NEW q \in Runners
               PROVE  /\ \A i \in DOMAIN queue[q] : Pending(q, queue[q][i])'
                      /\ current[q] # <<>> => Pending(q, current[q])'
                      /\ \A i, j \in DOMAIN queue[q] : i < j => At(queue[q][i].client)' < At(queue[q][j].client)'
                      /\ current[q] # <<>> =>
                           \A i \in DOMAIN queue[q] : At(current[q].client)' < At(queue[q][i].client)'
    BY <1>2 DEF InLine
  <2>1. UNCHANGED <<queue, current>>
    BY <1>2
  <2> HIDE DEF c
  <2>2. \A i \in DOMAIN queue[q] : Pending(q, queue[q][i])'
    BY <1>12, <1>13, <2>1 DEF InLine
  <2>3. current[q] # <<>> => Pending(q, current[q])'
    BY <1>12, <1>13, <2>1 DEF InLine
  <2>4. \A i, j \in DOMAIN queue[q] : i < j => At(queue[q][i].client)' < At(queue[q][j].client)'
    BY <1>9, <1>12, <2>1 DEF InLine
  <2>5. current[q] # <<>> => \A i \in DOMAIN queue[q] : At(current[q].client)' < At(queue[q][i].client)'
    BY <1>9, <1>12, <2>1 DEF InLine
  <2> QED
    BY <2>2, <2>3, <2>4, <2>5
<1>15. PendingIsHeld'
  <2> SUFFICES ASSUME NEW d \in Clients, request'[d].future = "pending"
               PROVE  Has(request[d].runner, d)'
    BY DEF PendingIsHeld
  <2>1. d # c /\ request'[d] = request[d]
    BY <1>4, <1>5 DEF NoRequest
  <2> QED
    BY <1>2, <2>1 DEF PendingIsHeld, Has
<1>16. \A d \in Clients : Open(d)' => d # c /\ Open(d) /\ request'[d] = request[d]
  BY <1>4, <1>5 DEF Open
<1>17. \A i \in DOMAIN ready' :
         /\ ready'[i] # c /\ ready'[i] \in Clients /\ Open(ready[i + 1])
         /\ request'[ready'[i]] = request[ready[i + 1]] /\ At(ready[i])' = At(ready[i + 1])
  <2> SUFFICES ASSUME NEW i \in DOMAIN ready'
               PROVE  /\ ready'[i] # c /\ ready'[i] \in Clients /\ Open(ready[i + 1])
                      /\ request'[ready'[i]] = request[ready[i + 1]] /\ At(ready[i])' = At(ready[i + 1])
    OBVIOUS
  <2>1. i + 1 \in DOMAIN ready /\ 1 < i + 1 /\ ready'[i] = ready[i + 1] /\ ready[i + 1] \in Clients
    BY <1>3
  <2>2. ready[i + 1] # c /\ Open(ready[i + 1])
    BY <1>3, <2>1 DEF Woken, Open
  <2>3. \A d \in Clients : d = ready[i + 1] => At(d)' = At(d)
    BY <1>9, <2>2
  <2>4. At(ready[i])' = At(ready[i + 1])
    BY <2>1, <2>3
  <2> QED
    BY <1>5, <2>1, <2>2, <2>4
<1>18. Woken'
  <2>1. \A i \in DOMAIN ready' : request'[ready'[i]].future \in {"result", "exception"}
    BY <1>3, <1>17 DEF Woken
  <2>2. ASSUME NEW d \in Clients, request'[d].future \in {"result", "exception"}
        PROVE  \E i \in DOMAIN ready' : ready'[i] = d
    <3>1. d # c /\ request[d].future \in {"result", "exception"}
      BY <1>16, <2>2 DEF Open
    <3>2. PICK i \in DOMAIN ready : ready[i] = d
      BY <3>1 DEF Woken
    <3>3. i # 1
      BY <1>3, <3>1, <3>2
    <3> QED
      BY <1>3, <3>2, <3>3
  <2>3. ASSUME NEW i \in DOMAIN ready', NEW j \in DOMAIN ready', i < j
        PROVE  /\ ready'[i] # ready'[j]
               /\ request'[ready'[i]].runner = request'[ready'[j]].runner => At(ready[i])' < At(ready[j])'
    <3>1. i + 1 \in DOMAIN ready /\ j + 1 \in DOMAIN ready /\ i + 1 < j + 1
          /\ ready'[i] = ready[i + 1] /\ ready'[j] = ready[j + 1]
      BY <1>3, <2>3
    <3>2. /\ ready[i + 1] # ready[j + 1]
          /\ request[ready[i + 1]].runner = request[ready[j + 1]].runner => At(ready[i + 1]) < At(ready[j + 1])
      BY <3>1 DEF Woken
    <3> QED
      BY <1>17, <3>1, <3>2
  <2>4. ASSUME NEW i \in DOMAIN ready', NEW d \in Clients,
               request'[d] = [runner |-> request'[ready'[i]].runner, future |-> "pending"]
        PROVE  At(ready[i])' < At(d)'
    <3>1. d # c /\ request'[d] = request[d] /\ Open(d)
      BY <1>4, <1>5, <2>4 DEF Open, NoRequest
    <3>2. request[d] = [runner |-> request[ready[i + 1]].runner, future |-> "pending"]
      BY <1>17, <2>4, <3>1
    <3>3. At(ready[i + 1]) < At(d)
      BY <1>3, <3>2 DEF Woken
    <3> QED
      BY <1>9, <1>17, <3>1, <3>3
  <2> QED
    BY <2>1, <2>2, <2>3, <2>4 DEF Woken
<1>19. \A i \in DOMAIN transcript : \A m : transcript[i].role = "assistant" =>
         (IsAnswered(m, i)' <=> IsAnswered(m, i))
  BY <1>7, <1>8, AnsweredKept
<1>20. IsQuestion(At(c), c) /\ At(c) \in 1 .. Len(transcript) /\ At(c) \in DOMAIN transcript
  BY <1>3, <1>4, AtOfOpen DEF IsQuestion
<1>21. ASSUME NEW i \in DOMAIN transcript', i \notin DOMAIN transcript, NEW m
       PROVE  IsAnswered(m, i)' <=> m = At(c)
  <2>1. i = n /\ transcript'[i] = e
    BY <1>8, <1>21
  <2>2. transcript'[At(c)] = [e EXCEPT !.role = "user"] /\ At(c) \in DOMAIN transcript'
    BY <1>8, <1>20 DEF IsQuestion, Entry
  <2>3. m = At(c) => IsAnswered(m, i)'
    BY <2>1, <2>2 DEF IsAnswered
  <2>4. ASSUME IsAnswered(m, i)' PROVE m = At(c)
    <3>1. m \in DOMAIN transcript' /\ transcript'[m] = [e EXCEPT !.role = "user"]
      BY <2>1, <2>4 DEF IsAnswered
    <3>2. [e EXCEPT !.role = "user"].role = "user"
      BY DEF Entry
    <3> QED
      BY <1>7, <2>2, <3>1, <3>2 DEF Numbered
  <2> QED
    BY <2>3, <2>4
<1>22. \A d \in Clients : Open(d)' /\ request'[d].runner = request[c].runner => At(c) < At(d)'
  <2> SUFFICES ASSUME NEW d \in Clients, Open(d)', request'[d].runner = request[c].runner
               PROVE  At(c) < At(d)'
    OBVIOUS
  <2>1. d # c /\ Open(d) /\ request[d].runner = request[c].runner /\ At(d)' = At(d)
    BY <1>9, <1>16
  <2>2. request[d] \in [runner : Runners \cup {None}, future : {"none", "pending", "result", "exception"}]
    BY <1>1
  <2>3. CASE request[d].future = "pending"
    <3>1. request[d] = [runner |-> request[ready[1]].runner, future |-> "pending"]
      BY <1>3, <2>1, <2>2, <2>3
    <3>2. At(ready[1]) < At(d)
      BY <1>3, <3>1 DEF Woken
    <3> QED
      BY <1>3, <2>1, <3>2
  <2>4. CASE request[d].future \in {"result", "exception"}
    <3>1. PICK j \in DOMAIN ready : ready[j] = d
      BY <2>4 DEF Woken
    <3>2. 1 < j
      BY <1>3, <2>1, <3>1
    <3>3. At(ready[1]) < At(ready[j])
      BY <1>3, <2>1, <3>1, <3>2 DEF Woken
    <3> QED
      BY <1>3, <2>1, <3>1, <3>3
  <2> QED
    BY <2>1, <2>2, <2>3, <2>4 DEF Open
<1>23. Answered'
  <2>1. ASSUME NEW i \in DOMAIN transcript, transcript[i].role = "assistant"
        PROVE  /\ \E m \in DOMAIN transcript' : IsAnswered(m, i)'
               /\ \A d \in Clients : Open(d)' /\ request'[d].runner = transcript[i].runner =>
                    \A m \in DOMAIN transcript' : IsAnswered(m, i)' => m < At(d)'
    <3>1. \E m \in DOMAIN transcript' : IsAnswered(m, i)'
      BY <1>8, <1>19, <2>1 DEF Answered
    <3>2. ASSUME NEW d \in Clients, Open(d)', request'[d].runner = transcript[i].runner,
                 NEW m, IsAnswered(m, i)
          PROVE  m < At(d)'
      <4>1. d # c /\ Open(d) /\ request[d].runner = transcript[i].runner /\ At(d)' = At(d)
        BY <1>9, <1>16, <3>2
      <4> QED
        BY <2>1, <3>2, <4>1 DEF Answered, IsAnswered
    <3> QED
      BY <1>19, <2>1, <3>1, <3>2
  <2>2. ASSUME NEW i \in DOMAIN transcript', i \notin DOMAIN transcript
        PROVE  /\ \E m \in DOMAIN transcript' : IsAnswered(m, i)'
               /\ \A d \in Clients : Open(d)' /\ request'[d].runner = transcript'[i].runner =>
                    \A m \in DOMAIN transcript' : IsAnswered(m, i)' => m < At(d)'
    <3>1. \A m : IsAnswered(m, i)' <=> m = At(c)
      BY <1>21, <2>2
    <3>2. At(c) \in DOMAIN transcript' /\ transcript'[i].runner = request[c].runner
      BY <1>6, <1>8, <1>20, <2>2
    <3> QED
      BY <1>22, <3>1, <3>2
  <2> QED
    BY <1>8, <2>1, <2>2 DEF Answered
<1>24. AnswersOrdered'
  <2> SUFFICES ASSUME NEW i \in DOMAIN transcript', NEW j \in DOMAIN transcript', i < j,
                      transcript'[i].role = "assistant", transcript'[j].role = "assistant",
                      transcript'[i].runner = transcript'[j].runner,
                      NEW k, NEW m, IsAnswered(k, i)', IsAnswered(m, j)'
               PROVE  k < m
    BY DEF AnswersOrdered
  <2>1. i \in DOMAIN transcript /\ transcript'[i] = transcript[i] /\ IsAnswered(k, i)
    <3>1. i \in DOMAIN transcript
      BY <1>1, <1>8
    <3> QED
      BY <1>8, <1>19, <3>1
  <2>2. CASE j \in DOMAIN transcript
    BY <1>8, <1>19, <2>1, <2>2 DEF AnswersOrdered, IsAnswered
  <2>3. CASE j \notin DOMAIN transcript
    <3>1. m = At(c) /\ transcript[i].runner = request[c].runner
      BY <1>6, <1>8, <1>21, <2>1, <2>3
    <3> QED
      BY <1>3, <1>4, <2>1, <3>1 DEF Answered, IsAnswered
  <2> QED
    BY <2>2, <2>3
<1> QED
  BY <1>7, <1>10, <1>14, <1>15, <1>18, <1>23, <1>24

LEMMA LineStep ==
  ASSUME SupervisorShape, LineInv, [SupervisorNext]_supervisorVars
  PROVE  LineInv'
<1>1. ASSUME NEW c \in Clients, NEW a \in Agents, Chat(c, a) PROVE LineInv'
  <2>1. \E runner \in Runners : Questions(c, runner)
    BY <1>1, ChatShape
  <2> QED
    BY <2>1, LineAsks
<1>2. CASE Resume
  BY <1>2, LineResumes
<1>3. ASSUME NEW r \in Runners, Work(r) PROVE LineInv'
  <2>1. CASE Get(r)
    BY <2>1, LineGets
  <2>2. CASE Acquire(r) \/ Cancelled(r)
    <3>1. UNCHANGED <<current, queue, request, ready, transcript>>
      BY <2>2 DEF Acquire, Cancelled
    <3> QED
      BY <3>1, LineStays
  <2>3. CASE Answer(r) \/ Fail(r)
    <3>1. \E outcome \in {"result", "exception"} : Resolves(r, outcome)
      BY <2>3 DEF Answer, Fail, Resolves
    <3> QED
      BY <3>1, LineResolves
  <2> QED
    BY <1>3, <2>1, <2>2, <2>3 DEF Work
<1>4. ASSUME NEW o \in Operators, OperatorStep(o) PROVE LineInv'
  <2>1. UNCHANGED <<current, queue, request, ready, transcript>>
    BY <1>4, OperatorShape DEF Operated
  <2> QED
    BY <2>1, LineStays
<1>5. CASE UNCHANGED supervisorVars
  <2>1. UNCHANGED <<current, queue, request, ready, transcript>>
    BY <1>5 DEF supervisorVars
  <2> QED
    BY <2>1, LineStays
<1> QED
  BY <1>1, <1>2, <1>3, <1>4, <1>5, SupervisorSplit

LEMMA LineStart == SupervisorInit => LineInv
<1> SUFFICES ASSUME SupervisorInit PROVE LineInv
  OBVIOUS
<1>1. DOMAIN transcript = {} /\ DOMAIN ready = {} /\ \A r \in Runners : DOMAIN queue[r] = {}
  BY DEF SupervisorInit
<1>2. /\ \A c \in Clients : request[c] = NoRequest
      /\ \A r \in Runners : current[r] = <<>>
  BY DEF SupervisorInit
<1>3. Numbered /\ Answered /\ AnswersOrdered
  BY <1>1 DEF Numbered, Answered, AnswersOrdered
<1>4. Asking /\ PendingIsHeld
  BY <1>2 DEF Asking, PendingIsHeld, Open, NoRequest
<1>5. InLine
  BY <1>1, <1>2 DEF InLine
<1>6. Woken
  BY <1>1, <1>2 DEF Woken, NoRequest
<1> QED
  BY <1>3, <1>4, <1>5, <1>6 DEF LineInv

THEOREM LineInvariant == SupervisorSpec => [](SupervisorShape /\ LineInv)
<1>1. SupervisorInit => LineInv
  BY LineStart
<1>2. SupervisorShape /\ LineInv /\ [SupervisorNext]_supervisorVars => LineInv'
  BY LineStep
<1>3. SupervisorSpec => []SupervisorShape
  BY SupervisorInvariant, PTL
<1> QED
  BY <1>1, <1>2, <1>3, PTL DEF SupervisorSpec

\* The answers that one runner gives are stored in the order of their questions, for any
\* number of chats, runners, crashes, restarts and requests refused because the queue was
\* full (RuntimeSupervisor.chat, _worker_loop).
THEOREM AnswersStayInOrder == SupervisorSpec => []AnswersInOrder
<1>1. LineInv => AnswersInOrder
  <2> SUFFICES ASSUME LineInv, NEW i \in DOMAIN transcript, NEW j \in DOMAIN transcript, i < j,
                      transcript[i].role = "assistant", transcript[j].role = "assistant",
                      transcript[i].runner = transcript[j].runner
               PROVE  Question(transcript[i]) < Question(transcript[j])
    BY DEF AnswersInOrder
  <2>1. \A k \in DOMAIN transcript : transcript[k].role = "assistant" =>
          IsAnswered(Question(transcript[k]), k)
    <3> SUFFICES ASSUME NEW k \in DOMAIN transcript, transcript[k].role = "assistant"
                 PROVE  IsAnswered(Question(transcript[k]), k)
      OBVIOUS
    <3>1. \E m \in DOMAIN transcript : transcript[m] = [transcript[k] EXCEPT !.role = "user"]
      BY DEF LineInv, Answered, IsAnswered
    <3> QED
      BY <3>1 DEF Question, IsAnswered
  <2> QED
    BY <2>1 DEF LineInv, AnswersOrdered, IsAnswered
<1> QED
  BY <1>1, LineInvariant, PTL

\* A chat waits only for a request its runner still has: no runner that crashed, was
\* replaced or whose agent was deleted drops one (InProcessRunner, delete_agent).
THEOREM PendingStaysHeld == SupervisorSpec => []PendingIsHeld
<1>1. LineInv => PendingIsHeld
  BY DEF LineInv
<1> QED
  BY <1>1, LineInvariant, PTL

-----------------------------------------------------------------------------
(* The dev server.                                                         *)

\* A server of ours that serves, or will, is the one in the pid file, and a restart
\* that has stopped knows of none.
ServerInv ==
  /\ ServerTypeOK
  /\ restarting => pidFile = NoPid
  /\ ~hurried => \A p \in Own : server[p] \in {"booting", "serving"} => pidFile = p

LEMMA SpawnShape ==
  ASSUME ServerTypeOK, Spawn,
         \A p \in Own : server[p] \notin {"booting", "serving"}
  PROVE  /\ server' \in [Own \cup {0} -> {"unborn", "booting", "serving", "dying", "draining", "gone"}]
         /\ pidFile' \in Own
         /\ \A p \in Own : server'[p] \in {"booting", "serving"} => pidFile' = p
  BY DEF ServerTypeOK, Spawn, Own

\* stop kills the server it knows, whether or not it goes at once.
LEMMA StopShape ==
  ASSUME ServerInv, StopServer
  PROVE  /\ server' \in [Own \cup {0} -> {"unborn", "booting", "serving", "dying", "draining", "gone"}]
         /\ pidFile' = NoPid
         /\ (~hurried /\ \A p \in Own : server[p] # "booting") =>
              \A p \in Own : server'[p] \notin {"booting", "serving"}
<1> USE ServerAssumption DEF ServerInv, ServerTypeOK
<1>1. CASE PortOpen /\ pidFile # NoPid
  <2>1. pidFile \in Own
    BY <1>1
  <2>2. PICK s \in AfterKill(server[pidFile]) : server' = [server EXCEPT ![pidFile] = s]
    BY <1>1 DEF StopServer
  <2>3. s \in {"dying", "draining", "gone"}
    BY <2>2 DEF AfterKill
  <2> QED
    BY <2>1, <2>2, <2>3 DEF StopServer
<1>2. CASE ~(PortOpen /\ pidFile # NoPid)
  <2>1. UNCHANGED server /\ pidFile' = NoPid
    BY <1>2 DEF StopServer
  <2>2. ASSUME ~hurried, \A q \in Own : server[q] # "booting", NEW p \in Own, server[p] = "serving"
        PROVE  FALSE
    <3>1. pidFile = p /\ p # NoPid
      BY <2>2 DEF Own, NoPid
    <3>2. p \in DOMAIN server /\ PortOpen
      BY <2>2 DEF PortOpen, Listening
    <3> QED
      BY <1>2, <3>1, <3>2
  <2> QED
    BY <2>1, <2>2
<1> QED
  BY <1>1, <1>2

LEMMA ServerStep ==
  ASSUME ServerInv, [ServerNext]_serverVars
  PROVE  ServerInv'
<1> USE ServerAssumption DEF ServerInv, ServerTypeOK
<1>1. Operation => ~restarting /\ hurried' \in BOOLEAN /\ (~hurried' => ~hurried /\ \A p \in Own : server[p] # "booting")
  BY DEF Operation
<1>2. ~PortOpen => \A p \in Own : server[p] # "serving"
  BY DEF PortOpen, Listening
<1>3. CASE ServerStart
  <2>1. CASE PortOpen
    BY <1>1, <1>3, <2>1 DEF ServerStart
  <2>2. CASE ~PortOpen /\ hurried'
    BY <1>1, <1>3, <2>2 DEF ServerStart, Spawn, Own
  <2>3. CASE ~PortOpen /\ ~hurried'
    <3>1. \A p \in Own : server[p] \notin {"booting", "serving"}
      BY <1>1, <1>2, <1>3, <2>3 DEF ServerStart
    <3> QED
      BY <1>1, <1>3, <2>3, <3>1, SpawnShape DEF ServerStart
  <2> QED
    BY <1>1, <1>3, <2>1, <2>2, <2>3
<1>4. CASE ServerStop
  BY <1>1, <1>4, StopShape DEF ServerStop
<1>5. CASE RestartStops
  BY <1>1, <1>5, StopShape DEF RestartStops
<1>6. CASE RestartStarts
  <2>1. restarting' = FALSE /\ UNCHANGED <<mine, hurried>> /\ Spawn /\ pidFile = NoPid
    BY <1>6 DEF RestartStarts
  <2>2. CASE hurried
    BY <2>1, <2>2 DEF Spawn, Own
  <2>3. CASE ~hurried
    <3>1. \A p \in Own : server[p] \notin {"booting", "serving"}
      BY <2>1, <2>3 DEF Own, NoPid
    <3> QED
      BY <2>1, <3>1, SpawnShape
  <2> QED
    BY <2>2, <2>3
<1>7. CASE RunBegins
  <2>1. CASE PortOpen
    BY <1>1, <1>7, <2>1 DEF RunBegins
  <2>2. CASE ~PortOpen
    <3>1. PICK p \in Own, s \in {"booting", "serving"} :
            server[p] = "unborn" /\ server' = [server EXCEPT ![p] = s] /\ pidFile' = p
      BY <1>7, <2>2 DEF RunBegins, Spawn
    <3>2. Operation /\ UNCHANGED restarting /\ mine' \in BOOLEAN
      BY <1>7, <2>2 DEF RunBegins
    <3>3. ~hurried' => \A q \in Own : server'[q] \in {"booting", "serving"} => q = p
      BY <1>1, <1>2, <2>2, <3>1, <3>2
    <3> QED
      BY <1>1, <3>1, <3>2, <3>3
  <2> QED
    BY <2>1, <2>2
<1>8. CASE RunEnds
  BY <1>1, <1>8, StopShape DEF RunEnds
<1>9. ASSUME NEW p \in DOMAIN server, Process(p) PROVE ServerInv'
  <2>1. UNCHANGED <<pidFile, restarting, mine, hurried>>
    BY <1>9 DEF Process
  <2>2. CASE Boots(p)
    BY <2>1, <2>2 DEF Boots
  <2>3. CASE ClosesPort(p) \/ Exits(p)
    BY <2>1, <2>3 DEF ClosesPort, Exits
  <2> QED
    BY <1>9, <2>2, <2>3 DEF Process
<1>10. CASE UNCHANGED serverVars
  BY <1>10 DEF serverVars
<1> QED
  BY <1>3, <1>4, <1>5, <1>6, <1>7, <1>8, <1>9, <1>10 DEF ServerNext

\* A server of ours that serves is the one in the pid file, through any number of
\* starts, stops, restarts, crashes and foreign servers on the port, as long as no
\* operation met a server of ours that still booted (ServerProcessManager).
THEOREM ServerStaysKnown == ServerSpec => []ServerKnown
<1>1. ServerInit => ServerInv
  <2> SUFFICES ASSUME ServerInit PROVE ServerInv
    OBVIOUS
  <2>1. PICK other \in {"unborn", "serving"} :
          server = [p \in Own \cup {0} |-> IF p = 0 THEN other ELSE "unborn"]
    BY DEF ServerInit
  <2>2. 0 \notin Own
    BY DEF Own
  <2> QED
    BY <2>1, <2>2 DEF ServerInit, ServerInv, ServerTypeOK
<1>2. ServerInv /\ [ServerNext]_serverVars => ServerInv'
  BY ServerStep
<1>3. ServerInv => ServerKnown
  BY DEF ServerInv, ServerKnown
<1> QED
  BY <1>1, <1>2, <1>3, PTL DEF ServerSpec

-----------------------------------------------------------------------------
(* The onboarding of an agent.                                             *)

Tasks == [at : {"idle", "boot", "rewrite", "reply"}, read : Rows,
          overwrite : BOOLEAN, attempt : 1 .. 2, parsed : BOOLEAN]
Busy(p) == task[p].at # "idle"

\* What a profile is computed from.
SameNames(r, s) == r.name = s.name /\ r.display = s.display /\ r.profile = s.profile

\* As long as no command ran within another one, at most one program is suspended, what
\* it has read is what the record says, and a name that was given is in the record, with a
\* profile that holds it.
OnboardingInv ==
  /\ OnboardingTypeOK
  /\ ~overlapped =>
       /\ \A p, q \in Programs : Busy(p) /\ Busy(q) => p = q
       /\ \A p \in Programs : Busy(p) => SameNames(task[p].read, record)
       /\ named # NoName => record.name = named /\ record.display = named /\ record.profile

\* What is left to show of a step when it is known what it does to the tasks and to the
\* names: a name that is kept or given.
NamesStep ==
  \/ SameNames(record', record) /\ named' = named
  \/ record'.name = named' /\ record'.display = named' /\ record'.profile
  \/ named' = NoName

LEMMA NoTaskTyped == NoTask \in Tasks /\ Hatched \in Rows
  BY DEF NoTask, Hatched, Tasks, Rows, Display

\* A command begins: every program is idle, or commands overlap from here on.
LEMMA CommandStep ==
  ASSUME OnboardingInv, NEW p \in Programs, Command(p), OnboardingTypeOK', ~overlapped => NamesStep,
         \A q \in Programs : q # p => task'[q] = task[q],
         task'[p].at # "idle" => SameNames(task'[p].read, record')
  PROVE  OnboardingInv'
<1>1. overlapped' = (overlapped \/ \E q \in Programs : Busy(q))
  BY DEF Command, Busy
<1>2. ASSUME ~overlapped'
      PROVE  /\ \A q, r \in Programs : Busy(q)' /\ Busy(r)' => q = r
             /\ \A q \in Programs : Busy(q)' => SameNames(task'[q].read, record')
             /\ named' # NoName => record'.name = named' /\ record'.display = named' /\ record'.profile
  <2>1. ~overlapped /\ \A q \in Programs : ~Busy(q)
    BY <1>1, <1>2
  <2>2. \A q \in Programs : Busy(q)' => q = p /\ task'[p].at # "idle"
    BY <2>1 DEF Busy
  <2> QED
    BY <2>1, <2>2 DEF OnboardingInv, NamesStep, SameNames
<1> QED
  BY <1>2 DEF OnboardingInv

\* A program goes on with what it was suspended in, or ends it.
LEMMA ResumedStep ==
  ASSUME OnboardingInv, NEW p \in Programs, Busy(p), OnboardingTypeOK', UNCHANGED overlapped,
         ~overlapped => NamesStep,
         \A q \in Programs : q # p => task'[q] = task[q],
         \/ task'[p].at = "idle"
         \/ SameNames(record', record) /\ task'[p].read = task[p].read
  PROVE  OnboardingInv'
<1>1. ASSUME ~overlapped
      PROVE  /\ \A q, r \in Programs : Busy(q)' /\ Busy(r)' => q = r
             /\ \A q \in Programs : Busy(q)' => SameNames(task'[q].read, record')
             /\ named' # NoName => record'.name = named' /\ record'.display = named' /\ record'.profile
  <2>1. \A q \in Programs : Busy(q)' => q = p
    BY <1>1 DEF OnboardingInv, Busy
  <2>2. SameNames(task[p].read, record) /\ NamesStep
    BY <1>1 DEF OnboardingInv
  <2> QED
    BY <1>1, <2>1, <2>2 DEF OnboardingInv, NamesStep, SameNames, Busy
<1> QED
  BY <1>1 DEF OnboardingInv

\* The patch of a rename, over the record.
LEMMA RenamedRecord ==
  ASSUME record \in Rows, NEW n \in Names, Updated([name |-> n, display |-> n, profile |-> TRUE])
  PROVE  record' \in Rows /\ record'.name = n /\ record'.display = n /\ record'.profile
<1> DEFINE patch == [name |-> n, display |-> n, profile |-> TRUE]
<1>1. DOMAIN record = {"display", "profile", "name", "fresh", "state", "status", "reason"}
  BY DEF Rows
<1>2. /\ DOMAIN patch = {"name", "display", "profile"}
      /\ patch["name"] = n /\ patch["display"] = n /\ patch["profile"] = TRUE
  OBVIOUS
<1> HIDE DEF patch
<1>3. record' = [field \in DOMAIN record |-> IF field \in DOMAIN patch THEN patch[field] ELSE record[field]]
  BY DEF Updated, patch
<1>4. record'.name = n /\ record'.display = n /\ record'.profile = TRUE
  BY <1>1, <1>2, <1>3
<1>5. /\ record'.fresh = record.fresh /\ record'.state = record.state
      /\ record'.status = record.status /\ record'.reason = record.reason
  BY <1>1, <1>2, <1>3
<1>6. record' = [display |-> n, profile |-> TRUE, name |-> n, fresh |-> record.fresh,
                 state |-> record.state, status |-> record.status, reason |-> record.reason]
  BY <1>1, <1>3, <1>4, <1>5
<1> QED
  BY <1>6 DEF Rows, Display

\* The other patches, which leave the names alone.
LEMMA PatchedRecord ==
  ASSUME record \in Rows,
         \/ Updated([status |-> "running"])
         \/ Updated([fresh |-> TRUE, state |-> "WAITING_USER_PREFS", reason |-> FALSE])
  PROVE  record' \in Rows /\ SameNames(record', record)
<1>1. CASE Updated([status |-> "running"])
  BY <1>1 DEF Updated, Rows, SameNames
<1>2. CASE Updated([fresh |-> TRUE, state |-> "WAITING_USER_PREFS", reason |-> FALSE])
  <2> DEFINE patch == [fresh |-> TRUE, state |-> "WAITING_USER_PREFS", reason |-> FALSE]
  <2>1. DOMAIN record = {"display", "profile", "name", "fresh", "state", "status", "reason"}
    BY DEF Rows
  <2>2. /\ DOMAIN patch = {"fresh", "state", "reason"}
        /\ patch["fresh"] = TRUE /\ patch["state"] = "WAITING_USER_PREFS" /\ patch["reason"] = FALSE
    OBVIOUS
  <2> HIDE DEF patch
  <2>3. record' = [field \in DOMAIN record |-> IF field \in DOMAIN patch THEN patch[field] ELSE record[field]]
    BY <1>2 DEF Updated, patch
  <2>4. /\ record'.name = record.name /\ record'.display = record.display
        /\ record'.profile = record.profile /\ record'.status = record.status
    BY <2>1, <2>2, <2>3
  <2>5. record'.fresh = TRUE /\ record'.state = "WAITING_USER_PREFS" /\ record'.reason = FALSE
    BY <2>1, <2>2, <2>3
  <2>6. record' = [display |-> record.display, profile |-> record.profile, name |-> record.name,
                   fresh |-> TRUE, state |-> "WAITING_USER_PREFS", status |-> record.status, reason |-> FALSE]
    BY <2>1, <2>3, <2>4, <2>5
  <2> QED
    BY <2>4, <2>6 DEF Rows, SameNames
<1> QED
  BY <1>1, <1>2

LEMMA OnboardingTyping ==
  ASSUME OnboardingTypeOK
  PROVE  /\ task \in [Programs -> Tasks] /\ record \in Rows
         /\ \A p \in Programs : task[p] \in Tasks /\ task[p].read \in Rows
  BY DEF OnboardingTypeOK, Tasks

\* The end of a boot: the profile it writes has the name the record has, if it has one.
LEMMA FinishShape ==
  ASSUME OnboardingInv, NEW p \in Programs, Busy(p), NEW good \in BOOLEAN, FinishBoot(p, good),
         UNCHANGED named
  PROVE  /\ record' \in Rows /\ task' \in [Programs -> Tasks]
         /\ session' \in [Programs -> {"none", "pending", "in_progress", "complete"}]
         /\ ~overlapped => NamesStep
         /\ \A q \in Programs : q # p => task'[q] = task[q]
         /\ task'[p].at = "idle"
<1> DEFINE read == task[p].read
           kept == ~task[p].overwrite /\ read.profile
           display == IF kept THEN read.display ELSE Normalize(read)
           base == IF good THEN record ELSE Degraded(record)
<1>1. /\ task \in [Programs -> Tasks] /\ record \in Rows /\ read \in Rows
      /\ session \in [Programs -> {"none", "pending", "in_progress", "complete"}]
  BY OnboardingTyping DEF OnboardingInv, OnboardingTypeOK
<1>2. /\ record' = [base EXCEPT !.display = display, !.profile = TRUE, !.fresh = TRUE,
                                !.state = "WAITING_USER_PREFS", !.reason = FALSE]
      /\ session' = [session EXCEPT ![p] = "in_progress"]
      /\ task' = [task EXCEPT ![p] = NoTask]
  BY DEF FinishBoot, Ends
<1>3. base \in Rows /\ base.name = record.name
  BY <1>1 DEF Degraded, Rows
<1>4. display \in Display
  BY <1>1 DEF Normalize, Rows, Display
<1>5. record' \in Rows /\ record'.name = record.name /\ record'.display = display /\ record'.profile = TRUE
  <2> HIDE DEF base, display
  <2> QED
    BY <1>2, <1>3, <1>4 DEF Rows
<1>6. ASSUME ~overlapped, named # NoName
      PROVE  display = named /\ record.name = named
  <2>1. read.name = named /\ read.display = named /\ record.name = named
    BY <1>6 DEF OnboardingInv, SameNames
  <2> QED
    BY <1>6, <2>1 DEF Normalize
<1>7. ~overlapped => NamesStep
  BY <1>5, <1>6 DEF NamesStep
<1>8. NoTask \in Tasks /\ NoTask.at = "idle"
  BY NoTaskTyped DEF NoTask
<1> QED
  BY <1>1, <1>2, <1>5, <1>7, <1>8

\* What a reply tells is stored over the record, computed from what was read.
LEMMA StoreShape ==
  ASSUME OnboardingInv, NEW p \in Programs, NEW read \in Rows, NEW v \in Preferences,
         StorePreferences(p, read, v), ~overlapped => SameNames(read, record)
  PROVE  /\ record' \in Rows /\ named' \in Names \cup {NoName}
         /\ session' \in [Programs -> {"none", "pending", "in_progress", "complete"}]
         /\ ~overlapped => NamesStep
<1> DEFINE answers == v.name # NoName \/ v.facts
           display == IF v.name # NoName THEN v.name ELSE read.display
           profile == read.profile \/ v.name # NoName \/ v.style
           newName == IF v.name # NoName THEN v.name ELSE record.name
           newDisplay == IF profile THEN display ELSE record.display
           newProfile == IF profile THEN TRUE ELSE record.profile
           newFresh == record.fresh /\ ~answers
           newState == IF answers THEN "ACTIVE" ELSE record.state
           patched == [record EXCEPT !.name = newName, !.display = newDisplay,
                                     !.profile = newProfile, !.fresh = newFresh, !.state = newState]
<1>1. /\ record \in Rows /\ named \in Names \cup {NoName}
      /\ session \in [Programs -> {"none", "pending", "in_progress", "complete"}]
  BY DEF OnboardingInv, OnboardingTypeOK
<1>2. v.name \in Names \cup {NoName} /\ v.facts \in BOOLEAN /\ v.style \in BOOLEAN
  BY DEF Preferences
<1>3. /\ session' = [session EXCEPT ![p] = IF answers THEN "complete" ELSE "in_progress"]
      /\ \/ UNCHANGED <<record, named>>
         \/ record' = patched /\ named' = IF v.name # NoName THEN v.name ELSE named
  BY DEF StorePreferences
<1>4. CASE UNCHANGED <<record, named>>
  BY <1>1, <1>3, <1>4 DEF NamesStep, SameNames
<1>5. CASE record' = patched /\ named' = IF v.name # NoName THEN v.name ELSE named
  <2>1. /\ newName \in Names \cup {NoName} /\ newDisplay \in Display /\ newProfile \in BOOLEAN
        /\ newFresh \in BOOLEAN /\ newState \in {"NEW", "WAITING_USER_PREFS", "ACTIVE"}
    BY <1>1, <1>2 DEF Rows, Display
  <2>2. /\ record' \in Rows
        /\ record'.name = newName /\ record'.display = newDisplay /\ record'.profile = newProfile
    <3>1. record \in Rows /\ record' = patched
      BY <1>1, <1>5
    <3> HIDE DEF newName, newDisplay, newProfile, newFresh, newState
    <3> QED
      BY <2>1, <3>1 DEF Rows
  <2>3. ASSUME ~overlapped PROVE NamesStep
    <3>1. CASE v.name # NoName
      BY <1>5, <2>2, <3>1 DEF NamesStep
    <3>2. CASE v.name = NoName /\ named # NoName
      <4>1. /\ read.profile /\ read.display = named /\ record.name = named
            /\ named' = named
        BY <1>5, <2>3, <3>2 DEF OnboardingInv, SameNames
      <4> QED
        BY <2>2, <3>2, <4>1 DEF NamesStep
    <3>3. CASE v.name = NoName /\ named = NoName
      BY <1>5, <3>3 DEF NamesStep
    <3> QED
      BY <3>1, <3>2, <3>3
  <2> QED
    BY <1>1, <1>2, <1>3, <1>5, <2>2, <2>3
<1> QED
  BY <1>3, <1>4, <1>5

LEMMA OnboardingStep ==
  ASSUME OnboardingInv, [OnboardingNext]_onboardingVars
  PROVE  OnboardingInv'
<1>1. /\ task \in [Programs -> Tasks] /\ record \in Rows
      /\ session \in [Programs -> {"none", "pending", "in_progress", "complete"}]
      /\ named \in Names \cup {NoName} /\ overlapped \in BOOLEAN /\ commands \in 0 .. MaxCommands
      /\ \A p \in Programs : task[p] \in Tasks /\ task[p].read \in Rows
      /\ Bot \in Programs
  BY OnboardingTyping DEF OnboardingInv, OnboardingTypeOK, Programs
<1>2. \A p \in Programs : Command(p) =>
        overlapped' \in BOOLEAN /\ commands' \in 0 .. MaxCommands
  BY <1>1, OnboardingAssumption DEF Command
<1>3. \A p \in Programs : \A at : Resumed(p, at) /\ at # "idle" =>
        /\ Busy(p) /\ UNCHANGED overlapped
        /\ overlapped' \in BOOLEAN /\ commands' \in 0 .. MaxCommands
  BY <1>1 DEF Resumed, Busy
<1>4. ASSUME record' \in Rows, task' \in [Programs -> Tasks],
             session' \in [Programs -> {"none", "pending", "in_progress", "complete"}],
             named' \in Names \cup {NoName}, overlapped' \in BOOLEAN, commands' \in 0 .. MaxCommands
      PROVE  OnboardingTypeOK'
  BY <1>4 DEF OnboardingTypeOK, Tasks
<1>5. ASSUME NEW p \in Programs, NEW at \in {"boot", "reply"}, NEW r \in Rows, NEW overwrite \in BOOLEAN,
             task' = [task EXCEPT ![p] = [NoTask EXCEPT !.at = at, !.read = r, !.overwrite = overwrite]]
      PROVE  /\ task' \in [Programs -> Tasks] /\ task'[p].read = r
             /\ \A q \in Programs : q # p => task'[q] = task[q]
  <2>1. [NoTask EXCEPT !.at = at, !.read = r, !.overwrite = overwrite] \in Tasks
    <3>1. NoTask \in Tasks /\ at \in {"idle", "boot", "rewrite", "reply"}
      BY NoTaskTyped
    <3> QED
      BY <3>1 DEF Tasks
  <2>2. [NoTask EXCEPT !.at = at, !.read = r, !.overwrite = overwrite].read = r
    BY DEF NoTask
  <2> QED
    BY <1>1, <1>5, <2>1, <2>2
<1>6. ASSUME NEW p \in Programs, Hatch(p) PROVE OnboardingInv'
  <2>1. record' \in Rows /\ SameNames(record', record)
    BY <1>1, <1>6, PatchedRecord DEF Hatch
  <2>2. /\ Command(p) /\ UNCHANGED named /\ session' = [session EXCEPT ![p] = "pending"]
        /\ task' = [task EXCEPT ![p] = [NoTask EXCEPT !.at = "boot", !.read = record', !.overwrite = TRUE]]
    BY <1>6 DEF Hatch, Boot
  <2>3. /\ task' \in [Programs -> Tasks] /\ task'[p].read = record'
        /\ \A q \in Programs : q # p => task'[q] = task[q]
    BY <1>5, <2>1, <2>2
  <2>4. session' \in [Programs -> {"none", "pending", "in_progress", "complete"}] /\ named' = named
    BY <1>1, <2>2
  <2>5. OnboardingTypeOK'
    BY <1>1, <1>2, <1>4, <2>1, <2>2, <2>3, <2>4
  <2> QED
    BY <2>1, <2>2, <2>3, <2>4, <2>5, CommandStep DEF NamesStep, SameNames
<1>7. CASE Onboard
  <2>1. record' \in Rows /\ SameNames(record', record)
    BY <1>1, <1>7, PatchedRecord DEF Onboard
  <2>2. /\ Command(Bot) /\ UNCHANGED <<named, session>>
        /\ task' = [task EXCEPT ![Bot] = [NoTask EXCEPT !.at = "boot", !.read = record', !.overwrite = FALSE]]
    BY <1>7 DEF Onboard, Boot
  <2>3. /\ task' \in [Programs -> Tasks] /\ task'[Bot].read = record'
        /\ \A q \in Programs : q # Bot => task'[q] = task[q]
    BY <1>1, <1>5, <2>1, <2>2
  <2>4. OnboardingTypeOK'
    BY <1>1, <1>2, <1>4, <2>1, <2>2, <2>3
  <2> QED
    BY <1>1, <2>1, <2>2, <2>3, <2>4, CommandStep DEF NamesStep, SameNames
<1>8. ASSUME NEW p \in Programs, ReplyAsks(p) PROVE OnboardingInv'
  <2>1. /\ Command(p) /\ UNCHANGED <<named, session, record>>
        /\ task' = [task EXCEPT ![p] = [NoTask EXCEPT !.at = "reply", !.read = record]]
    BY <1>8 DEF ReplyAsks
  <2>2. [NoTask EXCEPT !.at = "reply", !.read = record] = [NoTask EXCEPT !.at = "reply", !.read = record, !.overwrite = FALSE]
    <3>1. NoTask \in Tasks /\ NoTask.overwrite = FALSE
      BY NoTaskTyped DEF NoTask
    <3> QED
      BY <3>1 DEF Tasks
  <2>3. /\ task' \in [Programs -> Tasks] /\ task'[p].read = record
        /\ \A q \in Programs : q # p => task'[q] = task[q]
    BY <1>1, <1>5, <2>1, <2>2
  <2>4. OnboardingTypeOK'
    BY <1>1, <1>2, <1>4, <2>1, <2>3
  <2> QED
    BY <2>1, <2>3, <2>4, CommandStep DEF NamesStep, SameNames
<1>9. ASSUME NEW p \in Programs, Reply(p) PROVE OnboardingInv'
  <2>1. PICK v \in Preferences : StorePreferences(p, record, v)
    BY <1>9 DEF Reply
  <2>2. Command(p) /\ UNCHANGED task
    BY <1>9 DEF Reply
  <2>3. /\ record' \in Rows /\ named' \in Names \cup {NoName}
        /\ session' \in [Programs -> {"none", "pending", "in_progress", "complete"}]
        /\ ~overlapped => NamesStep
    BY <1>1, <2>1, StoreShape DEF SameNames
  <2>4. OnboardingTypeOK'
    BY <1>1, <1>2, <1>4, <2>2, <2>3
  <2>5. task'[p].at = "idle"
    BY <2>2 DEF Command
  <2> QED
    BY <2>2, <2>3, <2>4, <2>5, CommandStep
<1>10. CASE Rename
  <2>1. PICK name \in Names : Updated([name |-> name, display |-> name, profile |-> TRUE]) /\ named' = name
    BY <1>10 DEF Rename
  <2>2. record' \in Rows /\ record'.name = name /\ record'.display = name /\ record'.profile
    BY <1>1, <2>1, RenamedRecord
  <2>3. Command(Bot) /\ UNCHANGED <<session, task>> /\ task'[Bot].at = "idle"
    BY <1>10 DEF Rename, Command
  <2>4. OnboardingTypeOK'
    BY <1>1, <1>2, <1>4, <2>1, <2>2, <2>3
  <2>5. NamesStep
    BY <2>1, <2>2 DEF NamesStep
  <2> QED
    BY <1>1, <2>3, <2>4, <2>5, CommandStep
<1>11. ASSUME NEW p \in Programs, NEW good \in BOOLEAN, NEW at \in {"boot", "rewrite"},
              Resumed(p, at), FinishBoot(p, good), UNCHANGED named
       PROVE  OnboardingInv'
  <2>1. Busy(p) /\ UNCHANGED overlapped /\ overlapped' \in BOOLEAN /\ commands' \in 0 .. MaxCommands
    BY <1>3, <1>11
  <2>2. /\ record' \in Rows /\ task' \in [Programs -> Tasks]
        /\ session' \in [Programs -> {"none", "pending", "in_progress", "complete"}]
        /\ ~overlapped => NamesStep
        /\ \A q \in Programs : q # p => task'[q] = task[q]
        /\ task'[p].at = "idle"
    BY <1>11, <2>1, FinishShape
  <2>3. OnboardingTypeOK'
    BY <1>1, <1>4, <1>11, <2>1, <2>2
  <2> QED
    BY <2>1, <2>2, <2>3, ResumedStep
<1>12. ASSUME NEW p \in Programs, Rewritten(p) PROVE OnboardingInv'
  BY <1>11, <1>12 DEF Rewritten
<1>13. ASSUME NEW p \in Programs, BootAnswered(p) PROVE OnboardingInv'
  <2>1. Resumed(p, "boot") /\ UNCHANGED named
    BY <1>13 DEF BootAnswered
  <2>2. PICK answered \in BOOLEAN, message \in {"empty", "bad", "good"} :
          LET parsed == answered \/ task[p].parsed
              last == task[p].attempt = 2 \/ (parsed /\ message # "empty")
          IN \/ /\ ~last
                /\ task' = [task EXCEPT ![p].attempt = 2, ![p].parsed = parsed]
                /\ UNCHANGED <<record, session>>
             \/ /\ last /\ message # "bad"
                /\ FinishBoot(p, message = "good" \/ ~(parsed \/ task[p].read.profile))
             \/ /\ last /\ message = "bad"
                /\ task' = [task EXCEPT ![p].at = "rewrite", ![p].parsed = parsed]
                /\ UNCHANGED <<record, session>>
    BY <1>13 DEF BootAnswered
  <2> DEFINE parsed == answered \/ task[p].parsed
  <2>3. parsed \in BOOLEAN
    BY <1>1 DEF Tasks
  <2>4. CASE FinishBoot(p, message = "good" \/ ~(parsed \/ task[p].read.profile))
    <3>1. (message = "good" \/ ~(parsed \/ task[p].read.profile)) \in BOOLEAN
      OBVIOUS
    <3> QED
      BY <1>11, <2>1, <2>4, <3>1
  <2>5. CASE /\ UNCHANGED <<record, session>>
             /\ \E t \in {[task[p] EXCEPT !.attempt = 2, !.parsed = parsed],
                          [task[p] EXCEPT !.at = "rewrite", !.parsed = parsed]} :
                  task' = [task EXCEPT ![p] = t]
    <3>1. PICK t \in {[task[p] EXCEPT !.attempt = 2, !.parsed = parsed],
                      [task[p] EXCEPT !.at = "rewrite", !.parsed = parsed]} :
            task' = [task EXCEPT ![p] = t]
      BY <2>5
    <3>2. t \in Tasks /\ t.read = task[p].read
      <4> HIDE DEF parsed
      <4>1. task[p] \in Tasks
        BY <1>1
      <4>2. CASE t = [task[p] EXCEPT !.attempt = 2, !.parsed = parsed]
        <5>1. \A x \in Tasks, b \in BOOLEAN :
                /\ [x EXCEPT !.attempt = 2] \in Tasks /\ [x EXCEPT !.attempt = 2].read = x.read
                /\ [x EXCEPT !.parsed = b] \in Tasks /\ [x EXCEPT !.parsed = b].read = x.read
          BY DEF Tasks
        <5>2. t = [[task[p] EXCEPT !.attempt = 2] EXCEPT !.parsed = parsed]
          BY <4>2
        <5> QED
          BY <2>3, <4>1, <5>1, <5>2
      <4>3. CASE t = [task[p] EXCEPT !.at = "rewrite", !.parsed = parsed]
        BY <2>3, <4>1, <4>3 DEF Tasks
      <4> QED
        BY <3>1, <4>2, <4>3
    <3>3. /\ task' \in [Programs -> Tasks] /\ task'[p].read = task[p].read
          /\ \A q \in Programs : q # p => task'[q] = task[q]
      BY <1>1, <3>1, <3>2
    <3>4. Busy(p) /\ UNCHANGED overlapped /\ overlapped' \in BOOLEAN /\ commands' \in 0 .. MaxCommands
      BY <1>3, <2>1
    <3>5. OnboardingTypeOK'
      BY <1>1, <1>4, <2>1, <2>5, <3>3, <3>4
    <3> QED
      BY <2>1, <2>5, <3>3, <3>4, <3>5, ResumedStep DEF NamesStep, SameNames
  <2> QED
    BY <2>2, <2>4, <2>5
<1>14. ASSUME NEW p \in Programs, BootFails(p) PROVE OnboardingInv'
  <2>1. PICK at \in {"boot", "rewrite"} : Resumed(p, at)
    BY <1>14 DEF BootFails
  <2>2. Busy(p) /\ UNCHANGED overlapped /\ overlapped' \in BOOLEAN /\ commands' \in 0 .. MaxCommands
    BY <1>3, <2>1
  <2>3. record' = Degraded(record) /\ task' = [task EXCEPT ![p] = NoTask] /\ UNCHANGED <<session, named>>
    BY <1>14 DEF BootFails, Ends
  <2>4. record' \in Rows /\ SameNames(record', record)
    BY <1>1, <2>3 DEF Degraded, Rows, SameNames
  <2>5. /\ task' \in [Programs -> Tasks] /\ task'[p].at = "idle"
        /\ \A q \in Programs : q # p => task'[q] = task[q]
    BY <1>1, <2>3, NoTaskTyped DEF NoTask
  <2>6. OnboardingTypeOK'
    BY <1>1, <1>4, <2>2, <2>3, <2>4, <2>5
  <2> QED
    BY <2>2, <2>3, <2>4, <2>5, <2>6, ResumedStep DEF NamesStep
<1>15. ASSUME NEW p \in Programs, ReplyExtracted(p) PROVE OnboardingInv'
  <2>1. Busy(p) /\ UNCHANGED overlapped /\ overlapped' \in BOOLEAN /\ commands' \in 0 .. MaxCommands
    BY <1>3, <1>15 DEF ReplyExtracted
  <2>2. task' = [task EXCEPT ![p] = NoTask]
    BY <1>15 DEF ReplyExtracted, Ends
  <2>3. /\ task' \in [Programs -> Tasks] /\ task'[p].at = "idle"
        /\ \A q \in Programs : q # p => task'[q] = task[q]
    BY <1>1, <2>2, NoTaskTyped DEF NoTask
  <2>4. /\ record' \in Rows /\ named' \in Names \cup {NoName}
        /\ session' \in [Programs -> {"none", "pending", "in_progress", "complete"}]
        /\ ~overlapped => NamesStep
    <3>1. CASE UNCHANGED <<record, session, named>>
      BY <1>1, <3>1 DEF NamesStep, SameNames
    <3>2. ASSUME NEW v \in Preferences, StorePreferences(p, task[p].read, v)
          PROVE  /\ record' \in Rows /\ named' \in Names \cup {NoName}
                 /\ session' \in [Programs -> {"none", "pending", "in_progress", "complete"}]
                 /\ ~overlapped => NamesStep
      <4>1. task[p].read \in Rows /\ (~overlapped => SameNames(task[p].read, record))
        BY <1>1, <2>1 DEF OnboardingInv
      <4> QED
        BY <3>2, <4>1, StoreShape
    <3> QED
      BY <1>15, <3>1, <3>2 DEF ReplyExtracted
  <2>5. OnboardingTypeOK'
    BY <1>4, <2>1, <2>3, <2>4
  <2> QED
    BY <2>1, <2>3, <2>4, <2>5, ResumedStep
<1>16. CASE UNCHANGED onboardingVars
  BY <1>16 DEF onboardingVars, OnboardingInv, OnboardingTypeOK, Busy
<1> QED
  BY <1>6, <1>7, <1>8, <1>9, <1>10, <1>12, <1>13, <1>14, <1>15, <1>16 DEF OnboardingNext

THEOREM OnboardingInvariant == OnboardingSpec => []OnboardingInv
<1>1. OnboardingInit => OnboardingInv
  <2> SUFFICES ASSUME OnboardingInit PROVE OnboardingInv
    OBVIOUS
  <2>1. OnboardingTypeOK
    <3>1. record \in Rows /\ task \in [Programs -> Tasks]
      BY NoTaskTyped DEF OnboardingInit
    <3>2. 0 \in 0 .. MaxCommands
      BY OnboardingAssumption
    <3> QED
      BY <3>1, <3>2 DEF OnboardingInit, OnboardingTypeOK, Tasks
  <2>2. \A p \in Programs : ~Busy(p)
    BY DEF OnboardingInit, Busy, NoTask
  <2> QED
    BY <2>1, <2>2 DEF OnboardingInit, OnboardingInv
<1>2. OnboardingInv /\ [OnboardingNext]_onboardingVars => OnboardingInv'
  BY OnboardingStep
<1> QED
  BY <1>1, <1>2, PTL DEF OnboardingSpec

\* The record, the session and what each program has in hand keep their types, whatever
\* the model answers (run_boot, _maybe_process_onboarding_reply, AgentRepository.update).
THEOREM OnboardingTyped == OnboardingSpec => []OnboardingTypeOK
<1>1. OnboardingInv => OnboardingTypeOK
  BY DEF OnboardingInv
<1> QED
  BY <1>1, OnboardingInvariant, PTL

\* The agent goes by the name its user gave it last, for any number of names and of
\* hatchings, onboardings, failures of the model and replies, as long as no command ran
\* within another one (run_boot, _maybe_process_onboarding_reply, /rename).
THEOREM NameStaysKept == OnboardingSpec => []NameKept
<1>1. OnboardingInv => NameKept
  BY DEF OnboardingInv, NameKept
<1> QED
  BY <1>1, OnboardingInvariant, PTL

-----------------------------------------------------------------------------
(* The lock file of the control plane.                                     *)

\* Only a process that runs, or was killed running, believes it acquired the lock.
OnlyHolders == \A p \in Processes : pc[p] \notin {"running", "dead"} => acquired[p] = FALSE

\* What makes the lock exclusive among undisturbed processes: at most one is in
\* acquire, a running one is in the file, the one in acquire saw it there, and
\* beyond that decision nobody runs.
Alone ==
  /\ \A p, q \in Processes : InAcquire(p) /\ InAcquire(q) => p = q
  /\ \A p \in Processes : pc[p] = "running" => file = p
  /\ \A p, q \in Processes : pc[p] = "decide" /\ pc[q] = "running" => info[p] = q
  /\ \A p, q \in Processes : pc[p] \in {"open", "write"} => pc[q] # "running"

LockInv == LockTypeOK /\ OnlyHolders /\ (Undisturbed => Alone)

LEMMA LockInvInit == LockInit => LockInv
  BY DEF LockInit, LockInv, LockTypeOK, OnlyHolders, Alone, InAcquire, Places

\* Each step of one process: its type, and who believes to hold the lock.
LEMMA LockTypeStep ==
  LockTypeOK /\ OnlyHolders /\ [LockNext]_lockVars => LockTypeOK' /\ OnlyHolders'
<1> SUFFICES ASSUME LockTypeOK, OnlyHolders, [LockNext]_lockVars
             PROVE  LockTypeOK' /\ OnlyHolders'
  OBVIOUS
<1> USE DEF LockTypeOK, OnlyHolders, Places
<1>1. CASE UNCHANGED lockVars
  BY <1>1 DEF lockVars
<1>2. ASSUME NEW p \in Processes, TakeLock(p) PROVE LockTypeOK' /\ OnlyHolders'
  <2>1. CASE Start(p)
    BY <2>1 DEF Start
  <2>2. CASE ReadLock(p)
    BY <2>2 DEF ReadLock
  <2>3. CASE NotHeld(p)
    BY <2>3 DEF NotHeld
  <2>4. CASE Held(p)
    BY <2>4 DEF Held
  <2>5. CASE OpenFile(p) \/ WriteFile(p)
    BY <2>5 DEF OpenFile, WriteFile
  <2>6. QED
    BY <1>2, <2>1, <2>2, <2>3, <2>4, <2>5 DEF TakeLock
<1>3. ASSUME NEW p \in Processes, AnswerExit(p) \/ AnswerForce(p) \/ Release(p) \/ Crash(p)
      PROVE LockTypeOK' /\ OnlyHolders'
  <2>1. disturbed' \in BOOLEAN
    BY <1>3 DEF AnswerExit, AnswerForce, Release, Crash, Leaves
  <2>2. QED
    BY <1>3, <2>1 DEF AnswerExit, AnswerForce, Release, Crash
<1>4. QED
  BY <1>1, <1>2, <1>3 DEF LockNext

\* When the last disturbed process has ended, nobody is left.
LEMMA LeavesAlone ==
  ASSUME NEW p \in Processes, LockTypeOK, LockTypeOK', Leaves(p), ~disturbed',
         pc'[p] \in {"gone", "dead"}, \A q \in Processes \ {p} : pc'[q] = pc[q],
         disturbed
  PROVE  Alone'
<1>1. \A q \in Processes \ {p} : ~Alive(q)
  BY Zenon DEF Leaves
<1>2. \A q \in Processes : pc'[q] \in {"new", "gone", "dead"}
  BY <1>1 DEF Alive
<1>3. QED
  BY <1>2 DEF Alone, InAcquire

LEMMA LockAloneStep ==
  ASSUME LockTypeOK, LockTypeOK', OnlyHolders, Undisturbed => Alone, [LockNext]_lockVars,
         Undisturbed'
  PROVE  Alone'
<1> USE LockAssumption DEF LockTypeOK, Places
<1>1. CASE UNCHANGED lockVars
  BY <1>1 DEF lockVars, Alone, InAcquire, Undisturbed
<1>2. ASSUME [LockNext]_lockVars PROVE seen' = seen
  BY <1>2 DEF LockNext, TakeLock, lockVars, Start, ReadLock, NotHeld, Held, OpenFile,
              WriteFile, AnswerExit, AnswerForce, Release, Crash
<1>3. /\ \A q \in Processes : seen[q] \notin {"denied", "nameless"}
      /\ ~disturbed'
      /\ ~disturbed => Alone
  BY <1>2 DEF Undisturbed
<1>4. ASSUME NEW p \in Processes, Start(p) PROVE Alone'
  \* Nobody was in acquire; the others are where they were.
  <2>1. ~disturbed /\ \A q \in Processes : ~InAcquire(q)
    BY <1>3, <1>4, Zenon DEF Start
  <2>2. pc[p] = "new" /\ pc' = [pc EXCEPT ![p] = "read"] /\ UNCHANGED <<file, info, acquired>>
    BY <1>4 DEF Start
  <2>3. QED
    BY <1>3, <2>1, <2>2 DEF Alone, InAcquire
<1>5. ASSUME NEW p \in Processes, ReadLock(p) PROVE Alone'
  \* A running process is in the file, so it is what p reads.
  BY <1>3, <1>5 DEF ReadLock, Alone, InAcquire
<1>6. ASSUME NEW p \in Processes, NotHeld(p) PROVE Alone'
  \* Were q running, p would have found q's pid, and q alive and of the right name.
  <2>1. Alone
    BY <1>3, <1>6 DEF NotHeld
  <2>2. \A q \in Processes : pc[q] # "running"
    <3> SUFFICES ASSUME NEW q \in Processes, pc[q] = "running" PROVE FALSE
      OBVIOUS
    <3>1. info[p] = q
      BY <1>6, <2>1 DEF NotHeld, Alone
    <3>2. PidExists(info[p]) /\ LooksRight(info[p])
      BY <1>3, <3>1 DEF PidExists, LooksRight, Alive
    <3>3. QED
      BY <1>6, <3>1, <3>2 DEF NotHeld, IsStale
  <2>3. QED
    BY <1>6, <2>1, <2>2 DEF NotHeld, Alone, InAcquire
<1>7. ASSUME NEW p \in Processes, Held(p) PROVE Alone'
  BY <1>3, <1>7 DEF Held, Alone, InAcquire
<1>8. ASSUME NEW p \in Processes, OpenFile(p) PROVE Alone'
  BY <1>3, <1>8 DEF OpenFile, Alone, InAcquire
<1>9. ASSUME NEW p \in Processes, WriteFile(p) PROVE Alone'
  BY <1>3, <1>9 DEF WriteFile, Alone, InAcquire
<1>10. ASSUME NEW p \in Processes, AnswerForce(p) PROVE Alone'
  BY <1>3, <1>10 DEF AnswerForce
<1>11. ASSUME NEW p \in Processes, AnswerExit(p) \/ Release(p) \/ Crash(p) PROVE Alone'
  <2>1. CASE disturbed
    <3>1. Leaves(p) /\ pc'[p] \in {"gone", "dead"} /\ \A q \in Processes \ {p} : pc'[q] = pc[q]
      BY <1>11 DEF AnswerExit, Release, Crash
    <3>2. QED
      BY <1>3, <2>1, <3>1, LeavesAlone
  <2>2. CASE ~disturbed
    <3>1. Alone
      BY <1>3, <2>2
    <3>2. CASE AnswerExit(p)
      BY <3>1, <3>2 DEF AnswerExit, Alone, InAcquire, OnlyHolders
    <3>3. CASE Release(p)
      BY <3>1, <3>3 DEF Release, Alone, InAcquire
    <3>4. CASE Crash(p)
      BY <3>1, <3>4 DEF Crash, Alone, InAcquire
    <3>5. QED
      BY <1>11, <3>2, <3>3, <3>4
  <2>3. QED
    BY <2>1, <2>2
<1>12. QED
  BY <1>1, <1>4, <1>5, <1>6, <1>7, <1>8, <1>9, <1>10, <1>11 DEF LockNext, TakeLock

\* The inductive invariant holds in every reachable state.
THEOREM LockInvariant == LockSpec => []LockInv
<1>1. LockInv /\ [LockNext]_lockVars => LockInv'
  BY LockTypeStep, LockAloneStep DEF LockInv
<1>2. QED
  BY <1>1, LockInvInit, PTL DEF LockSpec

\* The lock file and what each process read and believes keep their types, whoever
\* is killed in the middle of acquire or release.
THEOREM LockTyped == LockSpec => []LockTypeOK
<1>1. LockInv => LockTypeOK
  BY DEF LockInv
<1>2. QED
  BY <1>1, LockInvariant, PTL

\* One control plane runs (SingleInstanceLock.acquire), whatever number of
\* starts, crashes, releases and reused pids there was and whatever earlier
\* starts did to each other, unless a start met another one in acquire, a user
\* forced the lock, or is_stale cannot recognise a running control plane.
THEOREM LockExclusive == LockSpec => []ExclusiveAlone
<1>1. LockInv => ExclusiveAlone
  BY DEF LockInv, Alone, ExclusiveAlone, Exclusive
<1>2. QED
  BY <1>1, LockInvariant, PTL

\* The undisturbed control plane that runs is the one in the lock file (write_text
\* in acquire, unlink in release), so the next start finds it.
THEOREM LockVisible == LockSpec => []RunningIsVisible
<1>1. LockInv => RunningIsVisible
  BY DEF LockInv, Alone, RunningIsVisible
<1>2. QED
  BY <1>1, LockInvariant, PTL
=============================================================================
