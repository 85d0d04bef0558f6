-------------------------- MODULE SubprocessRunner --------------------------
(***************************************************************************)
(* An agent's runner in a process of its own                               *)
(* (app/control_plane/infra/runner_subprocess.py and subprocess_worker.py),*)
(* with the part of the supervisor that starts, uses, drops and stops it.  *)
(*                                                                         *)
(* The runner writes commands to the worker's standard input; a task of    *)
(* its own reads the worker's lines and hands an answer to the request     *)
(* whose id it carries.  The two pipes are queues, the worker's steps      *)
(* interleave with those of the event loop, and the worker may be slow,    *)
(* stop answering or die at any point.  It echoes what it is sent, so that *)
(* a request stands for its text and a line for what it answers.           *)
(***************************************************************************)
EXTENDS Naturals, Sequences

CONSTANTS
  Partners,      \* tasks that chat with the agent, start or stop it
  MaxWorkers,    \* bound: the runners created
  MaxRequests    \* bound: the messages sent

ASSUME WorkersAssumption == MaxWorkers \in Nat /\ MaxRequests \in Nat

VARIABLES
  subprocess,        \* the runners created and their processes, in the order of creation
  registered,    \* the index of the entry of _runners, 0 without one
  call,          \* caller -> what it awaits, and the runner and the request
  answers        \* the requests made: what their futures hold, 0 for nothing

workerVars == <<subprocess, registered, call, answers>>

Requests == 1..Len(answers)
Out == [at |-> "out", on |-> 0, request |-> 0]
Ready == 0
Shutdown == MaxRequests + 1
Lines == Ready..Shutdown     \* the others are the messages and their answers

WorkersTypeOK ==
  /\ subprocess \in Seq([status : {"starting", "running", "stopping", "stopped", "crashed"},
                     process : {"booting", "up", "dead"},
                     attached : BOOLEAN,           \* _proc is not None
                     reading : BOOLEAN,            \* the reader task runs
                     stdin : Seq(Lines), stdout : Seq(Lines),
                     ready : BOOLEAN,              \* _ready_event
                     late : BOOLEAN,               \* the heartbeat is 10 s old
                     pending : SUBSET (1..MaxRequests)])
  /\ registered \in 0..Len(subprocess)
  /\ call \in [Partners -> [at : {"out", "opening", "starting", "waiting", "stopping"},
                           on : 0..Len(subprocess), request : 0..Len(answers)]]
  /\ answers \in Seq(0..MaxRequests)

WorkersInit ==
  /\ subprocess = <<>> /\ registered = 0 /\ answers = <<>>
  /\ call = [c \in Partners |-> Out]

Serves(w) == w # 0 /\ subprocess[w].status = "running" /\ ~subprocess[w].late

-----------------------------------------------------------------------------
(* The supervisor and the runner, on the event loop.                       *)

NewWorker ==
  [status |-> "starting", process |-> "booting", attached |-> TRUE, reading |-> TRUE,
   stdin |-> <<>>, stdout |-> <<>>, ready |-> FALSE, late |-> FALSE, pending |-> {}]

\* start_agent creates a runner for an agent that has none, and waits for its
\* worker; chat does the same when there is none or it does not serve, after
\* dropping the entry, the process of which is left alone.
Spawn(c) ==
  /\ call[c].at = "out"
  /\ Len(subprocess) < MaxWorkers
  /\ \/ ~Serves(registered) /\ call' = [call EXCEPT ![c].at = "opening", ![c].on = Len(subprocess) + 1]
     \/ registered = 0 /\ call' = [call EXCEPT ![c].at = "starting", ![c].on = Len(subprocess) + 1]
  /\ registered' = 0
  /\ subprocess' = Append(subprocess, NewWorker)
  /\ UNCHANGED answers

\* send_message: the request is entered, then written; to a process whose end was
\* noticed the writing fails, and the entry stays.
AskWorker(c, w, status) ==
  /\ Len(answers) < MaxRequests
  /\ LET r == Len(answers) + 1 IN
     /\ answers' = Append(answers, 0)
     /\ subprocess' = [subprocess EXCEPT ![w].status = status, ![w].stdin = Append(@, r),
                                 ![w].pending = @ \cup {r}]
     /\ \/ call' = [call EXCEPT ![c] = [at |-> "waiting", on |-> w, request |-> r]]
        \/ subprocess[w].process = "dead" /\ call' = [call EXCEPT ![c] = Out]

ChatWithWorker(c) ==
  /\ call[c].at = "out"
  /\ Serves(registered)
  /\ AskWorker(c, registered, "running")
  /\ UNCHANGED registered

\* The worker was ready in time: the runner is entered in place of any other, and
\* chat goes on with its message.
Started(c) ==
  LET w == call[c].on IN
  /\ call[c].at \in {"opening", "starting"}
  /\ subprocess[w].ready
  /\ registered' = w
  /\ IF call[c].at = "opening" THEN AskWorker(c, w, "running")
     ELSE /\ subprocess' = [subprocess EXCEPT ![w].status = "running"]
          /\ call' = [call EXCEPT ![c] = Out]
          /\ UNCHANGED answers

\* It was not, or not seen to be: the process is left alone.
StartTimeout(c) ==
  /\ call[c].at \in {"opening", "starting"}
  /\ subprocess' = [subprocess EXCEPT ![call[c].on].status = "crashed"]
  /\ call' = [call EXCEPT ![c] = Out]
  /\ UNCHANGED <<registered, answers>>

\* The future of the request was set, or 30 s passed: its entry then stays.
Returns(c) ==
  /\ call[c].at = "waiting"
  /\ call' = [call EXCEPT ![c] = Out]
  /\ UNCHANGED <<subprocess, registered, answers>>

\* stop_agent of a runner that a failed stop has left.
StopLeftover(c) ==
  /\ call[c].at = "out"
  /\ registered # 0 /\ ~subprocess[registered].attached
  /\ subprocess' = [subprocess EXCEPT ![registered].status = "stopped"]
  /\ registered' = 0
  /\ UNCHANGED <<call, answers>>

StopWorker(c) ==
  /\ call[c].at = "out"
  /\ registered # 0 /\ subprocess[registered].attached
  /\ subprocess' = [subprocess EXCEPT ![registered].status = "stopping",
                              ![registered].stdin = Append(@, Shutdown)]
  /\ call' = [call EXCEPT ![c] = [at |-> "stopping", on |-> registered, request |-> 0]]
  /\ UNCHANGED <<registered, answers>>

\* The process did not end in 5 s.
Terminate(c) ==
  /\ call[c].at = "stopping"
  /\ subprocess[call[c].on].process # "dead"
  /\ subprocess' = [subprocess EXCEPT ![call[c].on].process = "dead"]
  /\ UNCHANGED <<registered, call, answers>>

\* The process ended: the reader is cancelled, and stop_agent removes whatever entry
\* there is by now - unless the stop raised, because the command could not be written
\* and there was nothing left to terminate.
WorkerStopped(c) ==
  /\ call[c].at = "stopping"
  /\ subprocess[call[c].on].process = "dead"
  /\ subprocess' = [subprocess EXCEPT ![call[c].on].status = "stopped", ![call[c].on].attached = FALSE,
                              ![call[c].on].reading = FALSE]
  /\ registered' \in {registered, 0}
  /\ call' = [call EXCEPT ![c] = Out]
  /\ UNCHANGED answers

-----------------------------------------------------------------------------
(* The reader task.                                                        *)

\* A future that timed out is done: what is set in it is lost.
Waits(r) == \E c \in Partners : call[c].at = "waiting" /\ call[c].request = r

\* Mutant of Awaited: the worker answers in order, so the ids are not looked at and
\* a request that timed out is taken off the table.
AwaitedByOrder(w, line) ==
  LET waiting == {r \in subprocess[w].pending : Waits(r)}
  IN IF line = Ready THEN {} ELSE {r \in waiting : \A q \in waiting : r <= q}

\* The request whose id a line carries, if it is still entered.
Awaited(w, line) == {line} \cap subprocess[w].pending

ReadLine(w) ==
  LET line == Head(subprocess[w].stdout)
      awaited == Awaited(w, line)
  IN /\ subprocess[w].reading
     /\ subprocess[w].stdout # <<>>
     /\ subprocess' = [subprocess EXCEPT ![w].stdout = Tail(@), ![w].pending = @ \ awaited,
                                 ![w].ready = @ \/ line = Ready,
                                 ![w].late = @ /\ line # Ready]
     /\ answers' = [r \in Requests |-> IF r \in awaited /\ Waits(r) THEN line ELSE answers[r]]
     /\ UNCHANGED <<registered, call>>

\* The end of the file, or a line longer than the reader's limit.
ReaderEnds(w) ==
  /\ subprocess[w].reading
  /\ IF subprocess[w].stdout = <<>> THEN subprocess[w].process = "dead"
     ELSE Head(subprocess[w].stdout) # Ready
  /\ subprocess' = [subprocess EXCEPT ![w].reading = FALSE]
  /\ UNCHANGED <<registered, call, answers>>

\* 10 s without a heartbeat, and the next one, which is no line here.
HeartbeatLate(w) ==
  /\ subprocess[w].status = "running"
  /\ subprocess' = [subprocess EXCEPT ![w].late = TRUE]
  /\ UNCHANGED <<registered, call, answers>>
Heartbeat(w) ==
  /\ subprocess[w].reading /\ subprocess[w].process # "dead"
  /\ subprocess' = [subprocess EXCEPT ![w].late = FALSE]
  /\ UNCHANGED <<registered, call, answers>>

-----------------------------------------------------------------------------
(* The worker process.                                                     *)

WorkerUp(w) ==
  /\ subprocess[w].process = "booting"
  /\ subprocess' = [subprocess EXCEPT ![w].process = "up", ![w].stdout = Append(@, Ready)]
  /\ UNCHANGED <<registered, call, answers>>

WorkerStep(w) ==
  /\ subprocess[w].process = "up"
  /\ subprocess[w].stdin # <<>>
  /\ LET command == Head(subprocess[w].stdin) IN
     subprocess' = [subprocess EXCEPT ![w].stdin = Tail(@),
                  ![w].process = IF command = Shutdown THEN "dead" ELSE @,
                  ![w].stdout = IF command = Shutdown THEN @ ELSE Append(@, command)]
  /\ UNCHANGED <<registered, call, answers>>

WorkerDies(w) ==
  /\ subprocess[w].process # "dead"
  /\ subprocess' = [subprocess EXCEPT ![w].process = "dead"]
  /\ UNCHANGED <<registered, call, answers>>

-----------------------------------------------------------------------------
WorkersNext ==
  \/ \E c \in Partners :
       \/ Spawn(c) \/ ChatWithWorker(c) \/ Started(c) \/ StartTimeout(c) \/ Returns(c)
       \/ StopLeftover(c) \/ StopWorker(c) \/ Terminate(c) \/ WorkerStopped(c)
  \/ \E w \in DOMAIN subprocess :
       \/ ReadLine(w) \/ ReaderEnds(w) \/ HeartbeatLate(w) \/ Heartbeat(w)
       \/ WorkerUp(w) \/ WorkerStep(w) \/ WorkerDies(w)

WorkersSpec == WorkersInit /\ [][WorkersNext]_workerVars

-----------------------------------------------------------------------------
\* What a caller is given is the answer to its own message, although requests that
\* timed out keep their entries, their answers come late, and callers share a runner.
AnswersMatch == \A r \in Requests : answers[r] \in {0, r}
=============================================================================
