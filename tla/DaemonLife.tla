----------------------------- MODULE DaemonLife -----------------------------
(***************************************************************************)
(* Who holds the connection to one robot: the life of rogo's daemons       *)
(* (cmd_serve() in host/rogo/cli.py, UnixSocketListener in daemon.py) and  *)
(* how their clients find, spawn and lose them (host/rogo/                 *)
(* daemon_client.py).  The only thing these processes share is the socket  *)
(* file named after the robot.                                             *)
(*                                                                         *)
(* A spawner (rogo repl, rogo mcp) looks for a daemon and starts one when  *)
(* it finds none; a one-shot command connects directly then; `rogo serve`  *)
(* is a daemon the user starts.  Each process runs once and is its own     *)
(* name; the daemon a spawner starts has the spawner's.  A daemon that     *)
(* serves answers the liveness probe in time (RemoteSession checks that).  *)
(***************************************************************************)
EXTENDS Naturals

CONSTANTS Spawners, OneShots, Served,
          Piped,          \* those of Served that run with --stdio-pipe
          FieldCommands,  \* the one-shots `rogo config get|set NAME`
          Targets,        \* what the processes are run against
          MaxCalls,       \* bound: calls to a daemon
          MaxKills,       \* bound: processes that die without cleaning up
          Nobody

ASSUME DaemonLifeAssumption ==
  /\ Spawners \cap OneShots = {} /\ Spawners \cap Served = {} /\ OneShots \cap Served = {}
  /\ FieldCommands \subseteq OneShots /\ Piped \subseteq Served
  /\ Targets \subseteq {"sim", "robot"}
  /\ MaxCalls \in Nat /\ MaxKills \in Nat
  /\ Nobody \notin Spawners \cup Served

Daemons == Spawners \cup Served
Clients == Spawners \cup OneShots

VARIABLES
  target,      \* --sim, or --port/--connect; also the name a daemon takes
  path,        \* the daemon whose socket the file is, or Nobody: no file
  proc,        \* where each daemon is in cmd_serve()
  client,      \* where each client is in get_connection() and after it
  using,       \* the daemon its connection leads to
  calls, kills,
  overlapped   \* history: two processes came or went at the same time

fileVars   == <<target, path>>
clientVars == <<client, using>>
lifeVars   == <<fileVars, proc, clientVars, calls, kills, overlapped>>

\* "idle" is a daemon that serves, idle_timeout after its last dispatch began.
ProcStates == {"none", "booting", "opened", "cleared", "bound", "serving", "idle",
               "piping", "closing", "ending", "exited"}
ClientStates == {"none", "absent", "waiting", "connected", "calling", "direct",
                 "done", "failed"}

DaemonLifeInit ==
  /\ target \in Targets /\ path = Nobody
  /\ proc = [d \in Daemons |-> "none"]
  /\ client = [c \in Clients |-> "none"] /\ using = [c \in Clients |-> Nobody]
  /\ calls = 0 /\ kills = 0 /\ overlapped = FALSE

Alive(d) == proc[d] \notin {"none", "exited"}

Becomes(d, state) == proc' = [proc EXCEPT ![d] = state]
Turns(c, state)   == client' = [client EXCEPT ![c] = state]

(***************************************************************************)
(* cmd_serve() and UnixSocketListener                                      *)
(***************************************************************************)
UserServes(d) ==
  /\ d \in Served /\ proc[d] = "none" /\ Becomes(d, "booting")
  /\ UNCHANGED <<fileVars, clientVars, calls, kills>>

\* connection.resolve(): the simulator is built and started, or the link opened.
Boots(d) ==
  /\ proc[d] = "booting" /\ \E state \in {"opened", "exited"} : Becomes(d, state)
  /\ UNCHANGED <<fileVars, clientVars, calls, kills>>

\* resolve_robot_name(): --name or the simulator's default cannot fail, the
\* HELLO to a real robot can.
HasNoName(d) ==
  /\ proc[d] = "opened" /\ d \in Served \ Piped /\ target = "robot" /\ Becomes(d, "ending")
  /\ UNCHANGED <<fileVars, clientVars, calls, kills>>

\* listener.start() removes whatever socket file is there ...
Clears(d) ==
  /\ proc[d] = "opened" /\ d \notin Piped /\ Becomes(d, "cleared") /\ path' = Nobody
  /\ UNCHANGED <<target, clientVars, calls, kills>>

\* ... binds, which fails when somebody's file has appeared in between: then
\* listener.stop() is not reached ...
Binds(d) ==
  /\ proc[d] = "cleared"
  /\ IF path = Nobody THEN path' = d /\ Becomes(d, "bound")
                      ELSE path' = path /\ Becomes(d, "ending")
  /\ UNCHANGED <<target, clientVars, calls, kills>>

\* ... and listens.
Listens(d) ==
  /\ proc[d] = "bound" /\ Becomes(d, "serving")
  /\ UNCHANGED <<fileVars, clientVars, calls, kills>>

\* idle_timeout passes since the last dispatch began; a user's own `rogo serve`
\* has none.
Ages(d) ==
  /\ d \in Spawners /\ proc[d] = "serving" /\ Becomes(d, "idle")
  /\ UNCHANGED <<fileVars, clientVars, calls, kills>>

\* Mutant of IdleStops: a client that is still connected keeps the daemon.
IdleStopsUnused(d) ==
  /\ proc[d] = "idle" /\ Becomes(d, "closing")
  /\ UNCHANGED <<fileVars, clientVars, calls, kills>>
  /\ ~\E c \in Clients : using[c] = d /\ client[c] \in {"connected", "calling"}

\* The watchdog of a spawned daemon; listener.stop() has closed the socket.
IdleStops(d) ==
  /\ proc[d] = "idle" /\ Becomes(d, "closing")
  /\ UNCHANGED <<fileVars, clientVars, calls, kills>>

\* run_stdio_pipe_from_args(): one client at the other end of the pipe, no name
\* and no socket, until that client closes it.
Pipes(d) ==
  /\ proc[d] = "opened" /\ d \in Piped /\ Becomes(d, "piping")
  /\ UNCHANGED <<fileVars, clientVars, calls, kills>>

PipeCloses(d) ==
  /\ proc[d] = "piping" /\ Becomes(d, "ending")
  /\ UNCHANGED <<fileVars, clientVars, calls, kills>>

\* Ctrl-C: listener.stop() runs only if listener.start() had returned.
UserStops(d) ==
  /\ d \in Served /\ proc[d] \in {"opened", "cleared", "bound", "piping", "serving"}
  /\ Becomes(d, IF proc[d] = "serving" THEN "closing" ELSE "ending")
  /\ UNCHANGED <<fileVars, clientVars, calls, kills>>

\* The last act of listener.stop(), whoever's file that is by now.
Unlinks(d) ==
  /\ proc[d] = "closing" /\ Becomes(d, "ending") /\ path' = Nobody
  /\ UNCHANGED <<target, clientVars, calls, kills>>

\* server.stop(), transport.close(), and the process is gone.
Ends(d) ==
  /\ proc[d] = "ending" /\ Becomes(d, "exited")
  /\ UNCHANGED <<fileVars, clientVars, calls, kills>>

\* kill -9, or the machine's own troubles; a socket file stays behind.
Killed(d) ==
  /\ Alive(d) /\ kills < MaxKills /\ kills' = kills + 1 /\ Becomes(d, "exited")
  /\ UNCHANGED <<fileVars, clientVars, calls>>

(***************************************************************************)
(* get_connection() and what follows it                                    *)
(***************************************************************************)
\* Without opening a connection; args.name of `config get|set` is the field's.
ResolveClientName(c) ==
  IF c \in FieldCommands THEN "field" ELSE IF target = "sim" THEN "sim" ELSE "none"

\* find_daemon(): connect() and the probe succeed.
Serves(d) == proc[d] \in {"serving", "idle"}
Listening == path # Nobody /\ Serves(path)
Finds(c)  == ResolveClientName(c) = target /\ Listening

Connects(c) == Turns(c, "connected") /\ using' = [using EXCEPT ![c] = path]

\* Mutant of Seeks: get_connection() does not look before it connects or spawns.
SeeksNothing(c) ==
  /\ client[c] = "none"
  /\ Turns(c, IF c \in Spawners /\ ResolveClientName(c) = "none"
                THEN "failed" ELSE "absent")
  /\ UNCHANGED using
  /\ UNCHANGED <<fileVars, proc, calls, kills>>

Seeks(c) ==
  /\ client[c] = "none"
  /\ \/ Finds(c) /\ Connects(c)
     \/ /\ ~Finds(c)
        /\ Turns(c, IF c \in Spawners /\ ResolveClientName(c) = "none"
                      THEN "failed" ELSE "absent")  \* RobotNameRequiredError
        /\ UNCHANGED using
  /\ UNCHANGED <<fileVars, proc, calls, kills>>

Spawns(c) ==
  /\ c \in Spawners /\ client[c] = "absent" /\ Turns(c, "waiting")
  /\ Becomes(c, "booting")
  /\ UNCHANGED <<fileVars, using, calls, kills>>

ConnectsDirect(c) ==
  /\ c \in OneShots /\ client[c] = "absent"
  /\ \E state \in {"direct", "failed"} : Turns(c, state)
  /\ UNCHANGED <<fileVars, proc, using, calls, kills>>

\* Mutant of Polls: any socket file will do.
PollsForFile(c) ==
  /\ client[c] = "waiting" /\ Connects(c)
  /\ UNCHANGED <<fileVars, proc, calls, kills>>

\* _wait_for_daemon() comes upon a daemon, its own or another ...
Polls(c) ==
  /\ client[c] = "waiting" /\ Finds(c) /\ Connects(c)
  /\ UNCHANGED <<fileVars, proc, calls, kills>>

\* ... or the time is up and its own child is sent SIGTERM, which is
\* KeyboardInterrupt only inside _wait_until_stopped().
GivesUp(c) ==
  /\ client[c] = "waiting" /\ ~Finds(c) /\ Turns(c, "failed")
  /\ proc' = [proc EXCEPT ![c] = IF @ \in {"serving", "idle"} THEN "closing" ELSE "exited"]
  /\ UNCHANGED <<fileVars, using, calls, kills>>

\* Any request stamps last_activity when its dispatch begins.
Calls(c) ==
  /\ client[c] = "connected" /\ (Serves(using[c]) \/ proc[using[c]] = "closing")
  /\ calls < MaxCalls /\ calls' = calls + 1 /\ Turns(c, "calling")
  /\ proc' = [proc EXCEPT ![using[c]] = IF @ = "idle" THEN "serving" ELSE @]
  /\ UNCHANGED <<fileVars, using, kills>>

Answered(c) ==
  /\ client[c] = "calling" /\ Alive(using[c]) /\ Turns(c, "connected")
  /\ UNCHANGED <<fileVars, proc, using, calls, kills>>

Leaves(c) ==
  /\ client[c] \in {"connected", "direct"} /\ Turns(c, "done")
  /\ using' = [using EXCEPT ![c] = Nobody]
  /\ UNCHANGED <<fileVars, proc, calls, kills>>

\* The daemon's end of the connection is closed by its exit.
Lost(c) ==
  /\ client[c] \in {"connected", "calling"} /\ ~Alive(using[c])
  /\ Turns(c, "failed") /\ using' = [using EXCEPT ![c] = Nobody]
  /\ UNCHANGED <<fileVars, proc, calls, kills>>

(***************************************************************************)
(* When the socket file is enough to coordinate them, and the specification *)
(***************************************************************************)
\* Processes that never look for a daemon, or look for one of another name.
Uncoordinated(m) == m \notin Spawners /\ (m \in Clients => ResolveClientName(m) # target)

Unsettled(m) ==
  \/ m \in Clients /\ client[m] \in {"absent", "direct"}
  \/ m \in Daemons /\ proc[m] \in ProcStates \ {"none", "serving", "idle", "exited"}

\* Two processes on their way in or out, or one that would not look.
Overlap ==
  \E m, n \in Clients \cup Daemons :
    /\ m # n /\ Unsettled(m)
    /\ Unsettled(n) \/ (Uncoordinated(m) /\ n \in Daemons /\ Serves(n))

DaemonStep(d) == Boots(d) \/ HasNoName(d) \/ Clears(d) \/ Binds(d) \/ Listens(d)
                 \/ Pipes(d) \/ IdleStops(d) \/ Unlinks(d) \/ Ends(d)
ClientStep(c) == Spawns(c) \/ ConnectsDirect(c) \/ Polls(c) \/ GivesUp(c)
                 \/ Answered(c) \/ Lost(c)
FromOutside(d) == UserServes(d) \/ PipeCloses(d) \/ UserStops(d) \/ Ages(d)
                  \/ Killed(d)
Whims(c)       == Seeks(c) \/ Calls(c) \/ Leaves(c)

Step ==
  \/ \E d \in Daemons : DaemonStep(d) \/ FromOutside(d)
  \/ \E c \in Clients : ClientStep(c) \/ Whims(c)

History == overlapped' = (overlapped \/ Overlap')

DaemonLifeNext == Step /\ History

DaemonLifeSpec == DaemonLifeInit /\ [][DaemonLifeNext]_lifeVars

\* Processes that were started run, and time passes; nobody has to call a
\* daemon, to leave it or to start one.
FairDaemonLife ==
  /\ DaemonLifeSpec
  /\ \A d \in Daemons : /\ WF_lifeVars(DaemonStep(d) /\ History)
                        /\ WF_lifeVars(Ages(d) /\ History)
  /\ \A c \in Clients : /\ WF_lifeVars(ClientStep(c) /\ History)
                        /\ WF_lifeVars(client[c] = "direct" /\ Leaves(c) /\ History)

(***************************************************************************)
(* Properties                                                              *)
(***************************************************************************)
\* Type: every variable keeps its type, and who has a connection to a daemon
\* knows which one (ClientConnection).
DaemonLifeTypeOK ==
  /\ target \in {"sim", "robot"} /\ path \in Daemons \cup {Nobody}
  /\ proc \in [Daemons -> ProcStates]
  /\ client \in [Clients -> ClientStates] /\ using \in [Clients -> Daemons \cup {Nobody}]
  /\ calls \in 0..MaxCalls /\ kills \in 0..MaxKills /\ overlapped \in BOOLEAN
  /\ \A c \in Clients : client[c] \in {"connected", "calling"} => using[c] \in Daemons

Holds(m) ==
  \/ m \in Clients /\ client[m] = "direct"
  \/ m \in Daemons /\ proc[m] \in ProcStates \ {"none", "booting", "exited"}

\* As long as no two processes came or went at the same time, and none was
\* run that does not look (a second `rogo serve`, a target without a name),
\* one process at most holds the robot, and a daemon that serves can be found
\* under its name: find_daemon() before connecting or spawning is enough then,
\* whatever was killed and whatever file it left behind.
OneMasterUnlessOverlap ==
  ~overlapped =>
    /\ \A m, n \in Clients \cup Daemons : Holds(m) /\ Holds(n) => m = n
    /\ \A d \in Daemons : proc[d] = "bound" \/ Serves(d) => path = d

\* A daemon that was spawned ends, whatever file it can no longer be found
\* under and whoever is still connected, because the watchdog counts dispatches
\* and not clients; and no client waits for ever in get_connection() or on a
\* daemon that goes away under its call.
EverythingEnds ==
  /\ \A d \in Spawners : proc[d] # "none" ~> proc[d] = "exited"
  /\ \A c \in Clients : client[c] \in {"absent", "waiting", "calling", "direct"}
                        ~> client[c] \in {"connected", "done", "failed"}
=============================================================================
