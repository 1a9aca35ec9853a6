# Verification of radio-robot-lib

TLA+ models of the parts of this repository in which order, loss, time and
concurrency decide whether a robot does what it was told: the reliability layer
between host and robot, the sessions that come and go on it, the wheel kernel with its
leases and halts, the daemon through which several programs share one robot, the life of
that daemon around its socket file, and what the commands of `rogo` tell their users. The
models are checked with TLC on small instances; each of these parts is also proved correct
with TLAPS, for every value of its constants, as far as safety goes (section 5).

All paths below are relative to the repository's `src/` directory, where the C++ and
Python sources live (`src/protocol/...` is `protocol/...`).

## 1. The system

| Component | State it keeps | Operations | Talks to |
|---|---|---|---|
| **Reliability layer, host end** `host/robot_v6/reliability.py` | next id, buffer of unacknowledged lines, highest ack, last completion, two cooldowns | `send`, `send_unsequenced`, `pump`, `wait_for_ack`, `wait_for_done` | the transport; whoever holds the `Session` |
| **Line transport and codec** `host/robot_v6/transport.py`, `codec.py` | a partial line | `send_line`, `read_lines` | serial port, radio relay or TCP socket |
| **Reliability layer, robot end** `protocol/protocol_handler.cpp` | `expectedNext_`, a partial line | `feed` one line, `dispatch` it | the adapter below it, the line writer |
| **Motion adapter** `tests/protocol/fake_motion_adapter.h`, used by `tools/sim` | running motion, queue, last completion and its reason | `on<Verb>`, `step`, `lastDone` | called by the handler |
| **Adapter from protocol to kernel** `adapter/diffdrive_adapter.cpp` | what each verb became | verbs to kernel calls | handler, wheel kernel |
| **Wheel kernel** `diffdrive/differential_drive.cpp` | mailbox with a lease, estop latch, stall latch, stop-repeat countdown, samples | `drive`, `driveDuty`, `neutral`, `estop`, `estopClear`, `emergencyStopMotors`, `clearStallLatch`, setters, `begin`, `start`, `step` | two motors and a clock |
| **Connection** `host/rogo/connection.py` | nothing | open a simulator, a socket or a port | transport, session |
| **Daemon core** `host/rogo/daemon.py` `DaemonServer` | heap of requests, the running request's abort event, a worker thread | `start`, `stop`, `submit` | one `Session`; client threads |
| **Daemon transports** `daemon.py` `UnixSocketListener`, stdio pipe | sockets, one thread per client | accept, serve one client | daemon core, clients |
| **Daemon client** `host/rogo/daemon_client.py` | socket, call counter | find, spawn, one remote call at a time | a daemon |
| **Command line, repl** `host/rogo/cli.py`, `repl.py` | the ids of what they sent | one sequence of session calls per subcommand, and a report | session or its remote stand-in |
| **MCP server** `host/rogo/mcp_server.py` | a session | eight tools, each a sequence of session calls | as the command line |
| **Calibration, turn model** `calibrate.py`, `turn_model.py` | the samples of a calibration | trials, arithmetic, saving a value | session, configuration, an operator |
| **Configuration** `config.py` | the robot's file, which every process opens for itself | load, save (read, empty, write) | calibration, `turn` |

### What is hard about it

* **Loss and damage.** Lines of either direction disappear or arrive damaged. The robot
  never repeats anything by itself; the host resends only when it reads a nack, and the
  robot nacks only when it is sent something. Recovery is a conversation, not a timer.
* **State on both ends with different lives.** A host program's `Session` counts from 1.
  The robot's counter and its record of completions outlive it. Old lines and old replies
  may still be in the link when a new program starts.
* **Two fibers in the kernel.** `step()` sleeps twice inside a cycle; commands, estops and
  new configuration land in the mailbox while it does, after its gates were read.
* **A clock that wraps.** Leases are signed differences of 32-bit milliseconds.
* **Threads in the daemon.** An estop may arrive at any instant of another client's
  request, and each client has its own deadline.
* **One session, many users.** Clients of a daemon share one `Session`. Whoever pumps reads
  the replies of everybody; a blocking wait throws away what it reads.
* **Calls left behind.** A client that gives up on a call leaves it in the daemon's queue. The
  next tool of an MCP server may start at once, its calls behind the one given up.
* **A file for a database.** Calibrations of two processes read, empty and rewrite one file
  without a lock, each from a copy it loaded before its trials.
* **A name for a lock.** What keeps two processes from opening one robot is a socket file
  that each of them looks for, removes, creates and removes again, in separate steps.

### What makes each part correct

* Link: commands execute once, in the order and under the ids of the host; what the host
  counts as acknowledged or done is; whatever is missing can still be resent.
* Sessions: a new session takes over cleanly from whatever an old one left behind.
* Kernel: a dead caller means a stopped robot; a halt stops the wheels in bounded time; a
  stop that was lost on the bus is written again.
* Daemon: an estop never waits for another client; no request is lost or overtaken.
* Daemon's life: one process at a time holds the robot, a spawned daemon ends, nobody waits
  for ever.
* Commands: what the user is told happened, did; every command ends; a calibration that was
  saved stays saved, as long as no other save comes across it.

## 2. The modules

```
 Wire ── MotionAdapter ── ProtocolHandler        robot end
   └──── Session                                 host end
            └──┬── ReliableLink ───────────────▶ InOrderDelivery   (refinement)
               │        └── ReliableLink_proofs ── LinkDone_proofs
               └── SessionLifecycle              sessions, reconnects, reboots
                        └── SessionLifecycle_proofs
 DifferentialDrive ────────────────────────────▶ LeasedDrive       (refinement)
        └── DifferentialDrive_proofs             wheel kernel
 DaemonServer ─────────────────────────────────▶ RequestDesk       (refinement)
        ├── RemoteSession                        daemon core; its clients and sockets
        │           └── RemoteSession_proofs     (uses both branches)
        └── DaemonServer_proofs
 DaemonLife ── DaemonLife_proofs                 listener, find and spawn, idle watchdog
 MotionAdapter, HostModels ── RogoCommands       the commands over a shared Session
                                  └── RogoCommands_proofs
```

| Module | Models | Correspondence |
|---|---|---|
| `Wire` | the two directions of the link | a sequence of lines each way; `LoseLine`, `LoseReply` and `Damage` are the medium's faults, counted by `faults` |
| `MotionAdapter` | `FakeMotionAdapter` | `active`, `queue`, `lastDone`; one operator per operation |
| `ProtocolHandler` | `ProtocolHandler::dispatch` | one operator per branch, in the code's order: ESTOP, PING, HELLO, no id, stale id, gap, cannot be decoded, accepted. The ack is composed before the verb runs, so it carries the completion of before |
| `Session` | `Session` and the one thread that drives it | `pump()`'s loop is one `PumpReply` per reply; the resend loop is one `ResendNext` per id; a cooldown is a flag that ends some time later; a damaged ack raises out of `pump()` and loses the batch (`PumpRaises`) |
| `InOrderDelivery` | the promise of the layer | `submitted` and `delivered`: what is delivered is always a prefix of what was submitted |
| `ReliableLink` | one session end to end | composes the five above and states the properties |
| `SessionLifecycle` | `connection.resolve`, `_hello_identify_name`, `runSession`, robot resets | programs replace each other in three ways: `sim` (a fresh handler per client), `plain` (a robot, no HELLO) and `hello` (as the daemon does). `HelloUnderWay` says that an earlier program's HELLO is still unread: a daemon waits 2 s for the answer to its own and leaves, so the next one meets it only if a line takes longer than that (`HelloOutlives`) |
| `DifferentialDrive` | the wheel kernel and its main fiber | a step of the kernel fiber for each stretch between two sleeps; every public call as an action of the main fiber, possible only while the kernel sleeps; milliseconds are explicit |
| `LeasedDrive` | what the kernel promises its caller | motion is lent: a wheel is set moving only on a fresh command and while nothing halts, but for the rest of a cycle, and the clock never shows one moving beyond its lease or a halt by more than the reaction time |
| `DaemonServer` | `DaemonServer` | `submit()` in three steps (number, push, return), because the sequence number is drawn before the lock is taken; the worker in five |
| `RequestDesk` | what the daemon promises its clients | a request is asked, queued, served, over, answered; no locks, numbers, events or threads |
| `RemoteSession` | `_serve_client`, `_DaemonWireClient.call`, `_RemoteSession`, `find_daemon` | a connection and its serving thread are one name; a call has a deadline in seconds; time passes only when everybody waits |
| `DaemonLife` | `cmd_serve`, `UnixSocketListener.start`/`stop`, `_wait_until_stopped`, `get_connection`, `find_daemon`, `_spawn_daemon`, `_wait_for_daemon` | a daemon is a program counter through `cmd_serve`, a client one through `get_connection` and what follows; `path` is whose socket the file is |
| `HostModels` | `_wheels_x_fields`, `_prepare_goto`, the lease of a stream, `compute_turn`, `compute_distance_trial`, `compute_calibration`, `config.py` | functions of integers; the code's floats become fixed units, named at each function |
| `RogoCommands` | every subcommand of `cli.py` and tool of `mcp_server.py`, the dispatch table of the daemon, both adapters as far as a command can tell them apart | a command is a script, a sequence of steps with two outcomes each; the functions of the code are operators that build scripts out of one another, and there is an action for each kind of call |

`MCReliableLink`, `MCSessionLifecycle`, `MCDrive`, `MCDaemon`, `MCRemote`, `MCDaemonLife`
and `MCShared` only give these modules to TLC; the `.cfg` files hold the constants.

Operators commented *Mutant of X* take no part in the specifications. Each is X with a
plausible bug; with it in place of X the property named in `PROJECT.json` fails under
the same configuration, which shows that the property depends on X.

### Abstractions

* A command is a verb and an id. `MOVE` stands for the motion verbs, `STATUS` for the
  verbs that only answer, `STOP` and `ESTOP` for themselves. Arguments are left out.
* A damaged line keeps its id with an unknown verb or loses its id (`Damage`); the receiving
  end cannot tell more. Damage that turns one valid line into another is left out.
* A duty is zero or not. What the control law and the encoders say is chosen anew whenever
  it is read, so the kernel's guarantees hold for every control law.
* The daemon's dispatch bodies are short ones, which end by themselves, and waits, which
  need not. In `RemoteSession` a tick is a second and only waits take time; an abort is
  noticed within 0.1 s in the code, hence within a tick.
* `RogoCommands` takes the link as `ReliableLink` proves it to be and does not lose lines
  again, but it may close. On such a link a nack only follows a line no resend can mend, so
  resends are left out. Time is not counted: a wait may run out when nothing that would end
  it is under way, or when another client's wait came first.
* A call given up stays with its client's name (`abandoned`, oldest first) until the worker
  serves it. What the client calls next waits for it (`InTurn`), because a connection's calls,
  and the connections' arrivals, are served in order; an ESTOP does not. Processes that one
  user starts after one another at a terminal have the terminal's name.
* A save is three steps: read the file (`ReadsToSave`), open it, which empties it
  (`Truncates`), and write (`Writes`). Two that write at once may leave a mixture, which
  is `Unreadable`, as an empty file is: whoever loads it finds no configuration, and whoever
  saves starts from nothing, so the other entries are gone.
* The operator of a calibration is a free choice at every prompt; the value that is saved is
  told by who computed it, and the arithmetic is checked by itself in `HostModels`, with the
  sane range applied to the exact value and not to its rounding.
* In `DaemonLife` a process runs once, which is no loss: another start of a command is
  another name. The liveness probe always succeeds in time when there is somebody to answer
  it, which `RemoteSession` checks. A process is a `sim` or a `robot` one; the simulator is
  always `sim` by name, and a client of a real robot has no name to look under, because no
  client subcommand takes `--name`.
* `overlapped` in `DaemonLife` is a history variable: it turns true when two processes are
  on their way in or out at the same time, or when one runs that never looks for a daemon
  (a second `rogo serve`, a one-shot on a port). In the code nothing excludes either, and two
  processes then do hold one robot; the property is therefore about the rest.

## 3. What the runs check

### Runs that pass

| Run | Question | Bounds |
|---|---|---|
| `reliable_link` | Is every command executed once, in order, with true acks and completions, whatever one fault does? Does the link implement `InOrderDelivery`? | 3 ids, 3 lines and 4 replies in flight, one fault, one ESTOP or PING, a motion queue of 1 |
| `polling` | Does `wait_for_done()` recover a lost command by itself? (liveness) | 4 ids, two faults |
| `sessions` | Do lines of an earlier program ever take effect in a later one, or twice? | 4 sessions, 2 ids each, lines left in flight, no HELLO outlives its program (`HelloOutlives = FALSE`) |
| `reboots` | Is an ack always for something executed in this session, across reboots and reconnects? | 2 sessions, one reboot |
| `drive` | Does the kernel implement `LeasedDrive`, do stops and halts stop the wheels in time, is an emergency stop final? | 8 ms of idling on a 16 ms clock, leases below and above the ceiling |
| `drive_faults` | Does a stop survive a lost bus write, a late kernel and a brick that kept its duty, and does motion still end with its lease? | one lost write, wake-ups 1 ms late, 16 ms on a 32 ms clock |
| `daemon` | Does an estop always get through, is anything lost or overtaken? (safety and liveness) | 3 threads, 4 requests |
| `remote` | Which calls can miss their deadlines? | 3 clients, 6 calls, waits of 1 s and 5 s against a margin of 3 s |
| `shared` | Is what a command tells its user true when others use the same session? Does every command end? (safety and liveness) Does what a calibration saved stay saved? Are the computed numbers sound? | one command of a terminal out of 10 and two tools of an MCP server out of 2, both adapters, a link that may close, a motion queue of 1, one trial, a stream's ids up to 1 (0.8 million states) |
| `daemon_life` | Who holds the robot, can a daemon be found, does everything end? (safety and liveness) | a repl that spawns, a one-shot, a `rogo serve`, one on a pipe, 2 calls, one kill, both targets |

The bounds are small because the hazards are: a gap needs one lost line with one behind
it, a stale id one lost ack, a wrong retirement three ids. Three ids also let a gap be
followed by a resend that meets the stop of a queued motion. In the kernel the reaction
time is a handful of milliseconds, so a few more than lease plus reaction show whether the
motion ends; both `drive` runs stop at half the clock's span on purpose, because beyond it
the property is false (below). Three threads are an estop, the request it
interrupts and one that waits. In `shared`, one command of the terminal has its replies read,
its wait delayed or its save overlapped by the server; the server's second tool is the one
that starts while the call its first gave up is still queued. Its two tools are a motion, with
every kind of call a tool makes but the drain, and a calibration; the other tools, and
`drive --ms`, are the scripts of terminal commands over again (`EveryScriptIsStaged` in
`RogoCommands_proofs` says which), and the proofs are about all of them. A stream of two lines
(1.2 million states) and two spawning clients in `DaemonLife` (1.2 million states, safety
only) were checked the same way and show nothing new, but take longer than a routine check
should. One trial with `MinTrials = 1`
stands for the code's three: `Saves` compares the two, and `CalibrationConverges` does not
depend on their number. Every bound is a named constant. What is proved (section 5)
holds without them.

`CHECK_DEADLOCK FALSE` is in every configuration because every program here may stop: a
host that is done sending, a drive whose time bound is reached, a daemon with nothing left.

### Properties worth reading first

* `CanResendWhatIsMissing`: the host never retires a line the robot still needs. With
  `NacksCanBeAnswered` it says the link cannot get stuck for want of a line.
* `DoneMeansOver`: `wait_for_done()` cannot return for a motion that is running or queued.
  It rests on acks being written before the verb acts.
* `MotionIsLeased`: a wheel is driven only for the lease of the last command, clamped, plus
  `Reaction`, which is derived from the cycle and its two sleeps.
* `ImplementsLeasedDrive`: the same for every step. No tick of a motor sets a wheel moving
  that has no live command behind it, and no command is taken after a cut-off.
* `HaltStopsInTime`: the reasons to halt are a STOP in the mailbox, either latch and a
  configuration without authority; changing from one to another does not restart the time.
* `QuietMeansStopped`: the countdown of repeated stops runs out only after one has landed.
* `AbortedIffEstopWaits`: at every moment of a dispatch, the running request has been told
  to give way exactly when an estop is queued. A wrong pop order, a missed abort and a
  stale abort event all break it.
* `AloneIsTruthful` and `ReportsAreTrue`: what is certain of a report when the session is
  shared (the robot took that very line) and what only when it is not (no rejection was
  missed). The difference is the grace pump: another client's call may read the err.
* `SharedTypeOK`: beyond the types, a command that gives up leaves one call behind and no more,
  whatever its client starts next, never an ESTOP, and the worker stays in nothing but a wait.
* `SavedIsKept`: two things may undo what was saved, another save that overlaps (`raced`) and
  a client whose copy is older than the file (`Undone`); they are counted exactly, and
  everything else is kept. A field saved anew with none of this around it is right again.
* `UnackedHasCause`: a command goes unacknowledged only if HELLO or an undecodable line
  spoiled the sequence, or another client's wait or estop got in the way.
* `OneMasterUnlessOverlap`: looking for a daemon before connecting is enough, exactly as
  long as nobody comes or goes at the same time.
* `EstopAndProbeInTime`: no matter what other clients wait for, `rogo estop` gets through
  the daemon within its deadlines, its connection probe included.

### Runs that show a disagreement

| Run | The repository says | The code does |
|---|---|---|
| `plain_connect` | `docs/design/protocol.md:1214-1217`: HELLO is the resync a host performs on connect | `connection.resolve()` sends none; the new program's #1 is stale, its re-ack names a later id, and the program believes its commands were executed |
| `never_done` | `cli.py:434-436`: `drive --ms` reports the completion outcome too, since the adapter gives this verb real effect | on the kernel's adapter `lastDone()` is always 0: the wait always runs out and a drive that ran is reported as not completed |

These are reproduced with a line changed in a configuration:

* **A full buffer is never emptied.** `reliability.py:85-88` says that on a full buffer one
  pumps until room frees up. If the buffered lines were lost nothing makes the robot speak:
  pumping only reads, and the STATUS poll is skipped while the buffer is full. With
  `MaxPending = 1`, `MaxId = 2`, `MaxFaults = 1` in `MCPolling.cfg`,
  `(wait.call = "done" /\ DOMAIN pending # {}) ~> (DOMAIN pending = {} \/ wait.call # "done")`
  fails.
* **A lease comes back to life.** `differential_drive.h:117-118` says the signed compare is
  never ambiguous. An expired command stays in the mailbox; 2^31 ms after its deadline the
  difference turns positive and the wheels are driven again. With `MaxIdle = 16` in
  `MCDrive.cfg`, `ImplementsLeasedDrive` fails.
* **A banner of the wrong HELLO.** `_hello_identify_name()` (`daemon.py:567-591`) takes the
  first banner it reads for the answer to its own HELLO. If a daemon gives up on a line that
  is slower than its 2 s, its HELLO is still under way when the next one connects; the banner
  that answers it ends the next one's greeting while commands of the first are still in
  front of the second HELLO, and they are executed under the new session. With
  `HelloOutlives = TRUE`, `Connects = {"hello"}` and no faults in `MCSessions.cfg`,
  `NothingForeign` and `ExecutesAtMostOnce` fail; it takes four sessions, three pass.
* **A call can expire before the daemon answers.** `daemon_client.py:179-183` says the client
  never gives up before the daemon would. The deadline starts when the call is sent, and the
  worker may first finish another client's wait; the abandoned call is still executed. In
  `MCRemote`, `\A c \in Threads : ~(InCall(c) /\ call[c].left = 0)` fails;
  `ExpiresOnlyBehindAnother` is what does hold.

And these follow from one look at the code, or are about something the models leave out:

* `rogo config get NAME` and `set NAME VALUE`: `resolve_client_name()` takes the field's
  `NAME` for the robot's (`daemon_client.py:550`, `cli.py:1348-1354`). Such a command looks for
  a daemon of that name, finds none and connects directly, although the manual says that it
  uses the daemon first (`agent_manual.py:453-459`). `FieldCommands` in `DaemonLife` models
  it; with `FieldCommands = {hello}` the run `daemon_life` counts it as overlapping.
* No client subcommand has `--name`, so for `--port` and `--connect` every one-shot connects
  directly behind a running daemon, `rogo estop` among them, and `repl` and `mcp` cannot
  start a daemon at all (`RobotNameRequiredError`).
* The kernel's adapter rejects a turn that takes more than 5000 ms. `rogo turn` says so; a
  calibration trial does not look, and asks for the measurement all the same
  (`calibrate.py:262-268`).
* `save_robot_config()` says that saving one of the two fields does not disturb the other
  (`config.py:174-184`). It reads the file and rewrites the whole of it without a lock
  (`config.py:185-196`): what another process saved in between is lost, also if the writer's
  own copy of that field is `None`; a value its client loaded before the trials goes over a
  newer one; and a save that reads while the other has emptied the file drops every other
  entry, the trackwidth among them, without which no turn can be prepared. `SavedIsKept` says
  what is left; with `mislaid' = {}` in `Writes` it fails.
* An MCP tool catches `TransportClosed` only, so a call that outlasts its deadline ends it as a
  tool error, and the next tool runs before the call it gave up was served.
* The sequence number of a request is drawn outside the lock (`daemon.py:264-266` says under
  it; what does hold is `ServedInArrivalOrder`).
* A stalled command drives on after `clearStallLatch()` (`differential_drive.h:334-335`).
  `drive()` answers `kOk` during a stall halt.
* `begin()` promises a first write that is a stop, and a `drive()` before the first cycle
  replaces it.
* `lastDone` passes drained motions (`adapter.h:248-249`), and survives HELLO, so the first
  ack of a new session may report a completion of the one before.
* `rogo hello` through a daemon resets a live session's counter; a negative `drive --ms` can
  never be decoded. Either leaves every later command of every client unacknowledged, which
  is what `spoiled` records in `RogoCommands`.

## 4. Fairness

* `polling`: the robot's main loop feeds and steps; a thread inside a
  wait pumps, polls and finishes its resends (`reliability.py:321-364`); cooldowns end. No
  fairness is assumed of the application or of the medium, whose faults are bounded by
  `MaxFaults`. `polling` assumes a prompt link (`PromptLink`): a line in flight arrives or
  is lost within the cooldown, which on a serial line or a local socket it does.
* `daemon`: threads that are in the middle of something go on. Nothing is assumed about the
  end of a wait, so `EstopIsServed` holds even with a robot that never finishes a motion
  and a caller without a timeout; `QueuedIsAnswered` makes the exception explicit. The
  bound on requests also bounds the estops: an endless stream of them would starve the
  rest, by design of the priority.
* `shared` and `never_done`: the robot's loop takes lines and finishes motions, the daemon's
  worker finishes its wait and serves what was given up, a program makes its next call or
  reads its configuration. Weak fairness per client is justified because the worker serves a
  heap ordered by arrival, in which a client has one call it waits for, behind finitely many
  it gave up. Nothing makes an operator answer a prompt or press Ctrl-C, nor the link
  close, nor is a save, which follows a prompt, assumed to go on; this is why `CommandsEnd`
  leaves out the stream and the calibrations.
* `daemon_life`: a process that was started runs, and the idle timeout passes while nobody
  calls (`Ages`). Nobody has to call, to leave a connection, to stop a `rogo serve` or to be
  killed; a command on a direct connection ends, by `CommandsEnd`. Calls are bounded, since
  a client that keeps calling keeps the daemon for good, as it should.
* The other runs are about safety only.

## 5. What is proved

`ReliableLink_proofs` proves, for `ReliableLink`'s `Spec`, any number of ids, lines,
faults and verbs: `TypeOK`, `ExecutesInOrder`, `AckedMeansExecuted`,
`CanResendWhatIsMissing`, `NacksCanBeAnswered`, `ExecutesOneAtATime`, and that the link
implements `InOrderDelivery`. The assumption, `Convention`, is that no application sends
HELLO inside a session and that ids do not reach the robot's 32-bit limit.

None of these is inductive alone. An ack can only be trusted because of what the robot had
executed when it wrote it, and a nack because no ack ahead of it in the stream has retired
what it asks for. The inductive invariant `IInv` therefore adds that

* the buffer holds exactly the ids from the last ack to the newest (`BufferIsSuffix`),
* the robot stands between the two (`RobotIsAlong`),
* lines in flight are copies of what was sent (`LinesAreSent`),
* replies in flight are true *in their order*: acks name executed commands, a nack names a
  buffered one and follows no ack that would retire it (`RepliesAreTrue`).

Three lemmas carry the streams: what appending replies, losing one and reading one do to
`RepliesAreTrue`. The proof of the step has one lemma per action of either end. The
refinement follows from `ExecutesOneAtATime`'s argument: each step delivers the next
submitted command or stutters.

`LinkDone_proofs` proves, under the same `Convention`, what a completion report is worth:
`DoneMeansOver`, `DoneReasonIsItsOwn` and `DoneNeverRegresses`. A host that reads
`done=7` can only conclude that no motion up to 7 is running if the record it is a copy of
never skips a motion that still runs. `DoneInv` therefore adds to `IInv` that the adapter
completes motions in the order of their ids, with the running one and the queue above the
record (`MotionsInOrder`), that the record did happen (`RecordIsTrue`), and that the reports
in flight ascend from what the host has been told to what the adapter has recorded
(`ReportsAscend`). The interesting steps are an accepted STOP or a motion with its ack ahead
of it, where the ack carries the record of before, and the loss of a reply, which must not
let a later one say less.

`DaemonServer_proofs` proves, for any set of threads and any number of requests,
`DaemonTypeOK`, `AbortedIffEstopWaits` and `ServedInArrivalOrder`. `DaemonInv` adds where
each queued item, the local `item` and the current abort event stand relative to each
other (`QueueShape`, `WorkerShape`, `AbortShape`), that numbers handed out are below the
counter (`ItemShape`), and that whoever was ahead of a request is still queued with a
smaller number (`AheadShape`). The interesting steps are `Pop`, where the minimum of the
heap rules out both an estop and an earlier request left behind, and `Push`, where the
abort event of the running request is the current one.

It also proves `DaemonIsTheDesk`: the daemon core implements `RequestDesk`
(`ImplementsRequestDesk`, at the end of `DaemonServer`). Number asks, Push enters the queue,
Pop serves, the end of a body finishes, HandBack answers, Returns leaves and Exit closes; the
rest is not seen by a client. Here the guards are the work: that `Pop` may serve whom it
takes needs the order of the heap, `AheadShape` and `ItemShape`, and that an estop on its way
in tells exactly the one who is being served, and none who is already over, needs
`WorkerShape`. The refinement is proved for all threads and requests and is not a property of
the run `daemon`, which checks the invariants that it rests on.

`RemoteSession_proofs` proves, for any clients, calls, timeouts and margin,
`EstopAndProbeInTime` and `ExpiresOnlyBehindAnother`, and for a finite set of clients
`RemoteTypeOK`: a call under way is in one queue at a time, so the queues together hold no
more calls than were made, a sum over the clients by cardinality. Of the first two, neither
mentions where a call is, which is what decides. `RemoteInv` adds to `DaemonInv` that a call
under way is in its socket, with its serving thread, or in the socket back (`CallIsUnderWay`),
in the order of the ids (`ConnectionInOrder`), with nothing of an earlier call around it when
the client is a command-line one (`Tidy`), and that a call that stood behind nobody still has
its margin over what its own wait may take (`TimeIsItsOwn`). The interesting step is `Tick`:
time passes only while everybody waits, so a call under way is then queued or being
dispatched; the worker is with a wait that nobody told to end; and by `AbortedIffEstopWaits`
no estop is queued.

`DaemonLife_proofs` proves, for any processes, targets and any number of calls and kills,
`DaemonLifeTypeOK` and `OneMasterUnlessOverlap`. `OneMasterUnlessOverlap` is not inductive:
a process on its way in does not hold the robot yet, so nothing would stop a second one from
looking, finding none and following it. `LifeInv` strengthens it to *active* processes, those
holding the robot and those on their way: unless overlapped, one process at most is active
(`Alone`), and a bound socket can be reached under its name (`OwnsPath`), because who would
have removed the file would have been active too. The interesting step is `Seeks`, where a
client that finds nobody becomes active: had a daemon been serving, `OwnsPath` says that
the client would have found it, unless it looks under another name, which `Overlap` counts.

`DifferentialDrive_proofs` proves, for any clock, cycle, settle, lateness, stop repetition
and number of lost writes, `DriveTypeOK` and `NothingAfterEmergency`. `DriveInv` adds how far
a cycle can be at each sleep (`FiberOnTime`), without which `spent` has no bound, and that
after an emergency stop all that is still staged is a stop (`OnlyStopsAfterEmergency`),
because a staged drive would reach the wheel at the next tick.

It also proves what the kernel promises about stops, for any lease, cycle,
settle, lateness and stop repetition, as long as fewer writes are lost than a stop is
repeated (`FewerLostThanRepeated`): `QuietMeansStopped`, `MotionIsLeased` and
`HaltStopsInTime`. The argument has three parts.

* `StagedIsWritten`: what is staged is what was last written, and is ticked in its cycle.
* `StopsRepeated`: for a wheel that was told to stop and still drives, lost writes and the
  repetitions still to come add up to all repetitions. When the countdown is at zero and
  fewer writes can be lost, there is no such wheel (`QuietIsStopped`), which is
  `QuietMeansStopped`, and why a wheel that still drives has its stop staged in every cycle.
* `OnTime`: the two deadlines are one argument about two clocks, the time since the lease
  ran out and the time since there is a reason to halt, so it is stated for any clock: a
  cycle that wrote a drive began before the clock did, and a wheel that is yet to be
  stopped has been so for one cycle and one more for every lost write. Three lemmas say when
  this survives a clock that is reset, stands still or runs with the milliseconds.

The theorems then only add why a cycle does not start to drive once its clock runs: a live
lease has not run out (`LiveIsEarly`, the arithmetic of the wrapping compare), and a halt is
seen by the gates. `MotionIsLeased` also needs a caller that is silent for half the clock's
span at most (`SilentForHalfTheClock`); beyond it the property is false (section 3).

`KernelKeepsItsPromise` puts the two deadlines together: under both conditions the kernel
implements `LeasedDrive`. Every call of the main fiber is a command, a halt, a release, a
cut-off or none of the caller's concern. The steps that carry the refinement are a motor's
tick, which may set a wheel moving long after the gates were read (`TickIsPromised`: by
`OnTime` the cycle that staged it began before either clock did, so it is not later than the
two settles, `Response`), and the passing of a millisecond, whose guard in `LeasedDrive` is
the next state's `MotionIsLeased` and `HaltStopsInTime` (`TimeIsPromised`).

`SessionLifecycle_proofs` proves, for any number of sessions, ids, lines in flight and faults,
that every variable keeps its type, and what a session may count on, when every program greets
the robot (`Greets`: the convention of the link, and no `plain` connection, for which the run
`plain_connect` shows the opposite). Lines of an earlier session are kept out in one of two
ways, and there is an invariant for each.

* Where a program meets nothing of an earlier one (`FreshChannel`, as on the simulator's
  socket), whatever is in flight is this session's, and so is the robot's counter once the
  banner is read (`FreshInv`). This gives `AckedWasExecuted` and `NothingForeign`, however
  often the robot reboots: a robot that starts again may execute a line twice, but an ack still
  names what was executed in this session.
* Otherwise, whatever an earlier session left is in front of the HELLO, so it is gone when the
  banner is read, and until then nobody sends (`StaleInv`). This gives `NothingForeign` and
  `ExecutesAtMostOnce`. It needs that no HELLO outlives its program (section 3) and that the
  robot does not reboot, since a reboot writes a banner too.

`RogoCommands_proofs` proves, for any number of terminals and servers that share a session,
any sets of their commands, either adapter and a link that may close, `SharedTypeOK`,
`ReportsAreTrue`, `WhatEndedIsOver`, `UnackedHasCause`, `SavedIsKept` and
`AloneIsTruthful`. `RogoInv` has three parts.

* The wire (`WireInv`): ids grow on it, so the n-th line ever sent is the n-th entry of the
  robot's log if it is executed at all; after a HELLO the robot expects 1 again and executes
  nothing more. Replies say what the log says, and what a robot will never execute stays
  unexecuted (`NeverExecuted`), which is what makes an `err` final.
* The scripts (`ScriptOK`): a command judges nothing before the ack of the last line it sent,
  and a command that says "stopped" sends a STOP last. Every script of every command is shown
  to be of that form, and every rest of such a script is.
* The client (`ClientOK`): what it has yet to do and what it has seen agrees with the wire.
  Its own id is its own line, wherever that is; once no ack step is left, it was acknowledged.

With these, `ReportsAreTrue` does not depend on who pumped the ack. `WhatEndedIsOver` adds that
motions run in the order of their ids (`MotionsInOrder`) and that a STOP leaves nothing of what
was executed before it (`StopEndsAll`). `UnackedHasCause` says that something did *not* get
lost, so its invariant (`UnackedInv`) is about the gaps: unless the sequence was spoiled, every
id from the host's last ack to its newest is an ack on the way back or a line on the way there
(`NothingIsLost`). On an unspoiled quiet link everything is then acknowledged
(`AllAcknowledged`), and a client whose time is up has been delayed or aborted.

`SharedTypeOK` bounds what is left behind by what was begun, which takes `LeftBehindInv`: a
queue grows only by the call of a command that ends with it (`Leaves`).

`SavedIsKept` has an invariant of its own (`SaveInv`). Of two saves that overlap each is told
so (`SavesApart`). What any other save has read is what was saved last, but for `mislaid`
(`SavesKeep`), and the file is empty until it writes (`WritesAnew`), so it writes a whole file
anew: what it read, its own field, and the values its client holds, of which `Undone` names
those that are not what it read.

`AloneIsTruthful` is the one that `RogoInv` cannot give: that a rejection is never *missed*
depends on where its err is. `AloneInv` follows a command that has the session to itself
through its stages (`Exchange`). Before it sends, nothing is under way in either direction.
Then its line is the only one (`Unanswered`), and once the robot took it, what is on the way
back is its ack first and at most one reply after it (`Answered`), the err of a rejected line
or the get line of a GET the robot can answer. Whatever chunk the client reads, it has been
told, or is about to be, exactly what the verdict calls for, and the chunk after the ack
leaves nothing. A command that judges nothing (`Silent`) needs none of this. Every call of
another client, a wait the worker goes into for another and one it left served end the claim,
since they end `alone` (`OthersIntrudedOn`), and a closed link ends the exchange. No call given
up comes before those of a command alone (`NothingBefore`).

The same module proves the arithmetic of the motion verbs. `WheelsXIsSound`, `GotoIsSound` and
`StreamIsSound` say for all integers what the run `shared` says for the inputs it lists: the
backstop of `drive --mm` and of a goto is at least twice the time the motion takes, no wheel is
asked to go faster than its user said or the other way, a stream's lease outlives its resend
as far as the ceiling lets it, and what is refused is refused for a reason. The one fact that
the SMT solver does not find by itself is how far `round()` is from the quotient
(`RoundIsClose`); the rest is monotony of products (`BackstopIsLate`).
`PreparedMotionCorrect` applies them to every command that prepares a motion.

The proofs rest on the constants being what the code makes of them: `TerminalCommands` are
subcommands of `cli.py` and `ServerTools` tools of `mcp_server.py` (`CommandsAssumption`), the
bounds are natural numbers, neither `Nobody` nor `None` is a client (the value a client saved is
told by its name), and what stands for Python's `None` and for
a refusal is no integer (`ModelsAssumption`).

Model-checked only:

* liveness, which TLAPS does not prove under fairness: `PollingRecovers`, `EstopIsServed`,
  `QueuedIsAnswered`, `CommandsEnd`, `EverythingEnds`;
* `CalibrationConverges`, whose mean is a fold over any number of measurements: what it sums
  up to needs an induction over the samples, which the prover cannot be given;
* the turn model and the distance trial (`compute_turn`, `compute_distance_trial`), evaluated
  over the inputs that `HostModels` names.

## 6. What is not modelled

* The composition of the kernel with the adapter above it. `DiffDriveAdapter` is in
  `RogoCommands` as far as a command can tell (accepted, rejected, latched, no completion).
  What it asks of the kernel is call for call what `DifferentialDrive` offers (`onStop()` is
  `neutral()`, `onEstop()` is `estop()`, `onWheelsV()` is `drive()` after a check of its range),
  so a product of the two would repeat what each of them shows.
* Arguments and text: field parsing, the telemetry of TLM and the payloads of RUN and FUNCS,
  banners, JSON framing, the wording of reports. Chunked reads and line reassembly.
* The control law and odometry of the kernel. The gain and offset of the turn model, which no
  caller passes. Finding the configuration files, and their entries other than the two
  calibrations one by one: they are there or not (`others`).
* A process that dies between emptying the robot's file and writing it, which leaves it
  `Unreadable` for good; a terminal whose Ctrl-C comes in the middle of a call and leaves it
  behind as giving up does.
* `run_daemon_worker()`, an alternative entry that nothing but tests calls; the motion verbs
  `move_x`, `move_v` and `go_to_w`, which no command sends.
* The manual (text), build, firmware configuration, documentation, and the archive of
  superseded code, whose `protocol.py` is the longest file of the repository and is used by
  nothing.

## 7. Plan

The plan is carried out: `Wire`, `MotionAdapter`, `ProtocolHandler`, `Session`,
`InOrderDelivery`, `ReliableLink` and its proofs, completions included; `SessionLifecycle`,
`DifferentialDrive` with `LeasedDrive`, `DaemonServer` with `RequestDesk`, `RemoteSession` and
`DaemonLife` and the proofs of their safety; `HostModels`; `RogoCommands` and the proofs of what
its commands report and send.

What could follow: modules for the telemetry stream and for the control law's numbers, and a
proof of liveness when the prover has one.
