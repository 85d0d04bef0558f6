------------------------------ MODULE DevServer ------------------------------
(***************************************************************************)
(* The dev server as the control plane manages it: ServerProcessManager    *)
(* (app/control_plane/infra/server_process.py), the operations of          *)
(* RuntimeSupervisor on it and the `run` command (entrypoint.py).          *)
(*                                                                         *)
(* What the manager knows is a pid file and whether the port answers; the  *)
(* server boots before it listens, and goes on after it stopped listening. *)
(***************************************************************************)
EXTENDS Integers

CONSTANT MaxServers  \* bound: servers ever started

ASSUME ServerAssumption == MaxServers \in Nat \ {0}

VARIABLES
  server,     \* what each process is; 0 is one that somebody else started
  pidFile,    \* the process in the pid file, or NoPid
  restarting, \* restart is between its stop and its start
  mine,       \* started_server_here of the run command
  hurried     \* history: an operation met a server of ours that still booted

serverVars == <<server, pidFile, restarting, mine, hurried>>

NoPid == -1
Own == 1 .. MaxServers
Listening == {"serving", "dying"}

ServerTypeOK ==
  /\ server \in [Own \cup {0} -> {"unborn", "booting", "serving", "dying", "draining", "gone"}]
  /\ pidFile \in Own \cup {NoPid}
  /\ restarting \in BOOLEAN /\ mine \in BOOLEAN /\ hurried \in BOOLEAN

ServerInit ==
  /\ \E other \in {"unborn", "serving"} :
       server = [p \in Own \cup {0} |-> IF p = 0 THEN other ELSE "unborn"]
  /\ pidFile = NoPid
  /\ restarting = FALSE
  /\ mine = FALSE
  /\ hurried = FALSE

-----------------------------------------------------------------------------
\* _is_port_open, and status: the pid of the file counts while the port answers.
PortOpen == \E p \in DOMAIN server : server[p] \in Listening

\* Every operation of the screens; one at a time, they do not await.
Operation ==
  /\ ~restarting
  /\ hurried' = (hurried \/ \E p \in Own : server[p] = "booting")

Spawn ==
  \E p \in Own :
    /\ server[p] = "unborn"
    /\ \A q \in Own : server[q] = "unborn" => p <= q
    /\ server' = [server EXCEPT ![p] = "booting"]
    /\ pidFile' = p

\* SIGTERM lets a server finish, a second one or taskkill does not.
AfterKill(s) ==
  IF s = "serving" THEN {"dying", "gone"}
  ELSE IF s \in {"dying", "draining"} THEN {s, "gone"} ELSE {"gone"}

\* Mutant of StopServer: only the port is looked at, nothing is killed.
StopServerUnlinking == pidFile' = NoPid /\ UNCHANGED server

\* stop: without an answer from the port or a pid only the file is removed.
StopServer ==
  /\ pidFile' = NoPid
  /\ IF PortOpen /\ pidFile # NoPid
     THEN \E s \in AfterKill(server[pidFile]) : server' = [server EXCEPT ![pidFile] = s]
     ELSE UNCHANGED server

\* start(attach_if_running=True).
ServerStart ==
  /\ Operation
  /\ IF PortOpen THEN UNCHANGED <<server, pidFile>> ELSE Spawn
  /\ UNCHANGED <<restarting, mine>>

ServerStop ==
  /\ Operation
  /\ StopServer
  /\ UNCHANGED <<restarting, mine>>

\* restart: stop, then start(attach_if_running=False), whose own stop finds the
\* pid file gone and kills nothing.
RestartStops ==
  /\ Operation
  /\ StopServer
  /\ restarting' = TRUE
  /\ UNCHANGED mine

RestartStarts ==
  /\ restarting
  /\ restarting' = FALSE
  /\ Spawn
  /\ UNCHANGED <<mine, hurried>>

\* `run`: status, start, status again: a server counts as started here only if it
\* already answers.
RunBegins ==
  /\ Operation
  /\ IF PortOpen
     THEN UNCHANGED <<server, pidFile>> /\ mine' = FALSE
     ELSE \/ Spawn /\ mine' = FALSE
          \/ \E p \in Own :
               /\ server[p] = "unborn"
               /\ \A q \in Own : server[q] = "unborn" => p <= q
               /\ server' = [server EXCEPT ![p] = "serving"]
               /\ pidFile' = p
               /\ mine' = TRUE
  /\ UNCHANGED restarting

\* ... and its end: shutdown_gracefully stops what was started here.
RunEnds ==
  /\ Operation
  /\ mine
  /\ mine' = FALSE
  /\ StopServer
  /\ UNCHANGED restarting

-----------------------------------------------------------------------------
\* uvicorn runs the start-up of the application before it binds the port, and
\* exits when another process holds it.
Boots(p) ==
  /\ server[p] = "booting"
  /\ server' = [server EXCEPT ![p] = IF PortOpen THEN "gone" ELSE "serving"]

\* It closes its socket at the next tick after the signal, and exits later.
ClosesPort(p) == server[p] = "dying" /\ server' = [server EXCEPT ![p] = "draining"]
Exits(p) == server[p] \in {"booting", "serving", "draining"} /\ server' = [server EXCEPT ![p] = "gone"]

Process(p) ==
  /\ Boots(p) \/ ClosesPort(p) \/ Exits(p)
  /\ UNCHANGED <<pidFile, restarting, mine, hurried>>

ServerNext ==
  \/ ServerStart \/ ServerStop \/ RestartStops \/ RestartStarts \/ RunBegins \/ RunEnds
  \/ \E p \in DOMAIN server : Process(p)

ServerSpec == ServerInit /\ [][ServerNext]_serverVars

-----------------------------------------------------------------------------
\* A server of ours that serves is the one in the pid file, so that a stop can
\* reach it - through restarts, foreign servers on the port and crashes - as long
\* as no operation came while a server was booting.
ServerKnown ==
  ~hurried => \A p \in Own : server[p] = "serving" => pidFile = p
=============================================================================
