# MobaRust: verification

MobaRust is a desktop application (Tauri: a React frontend, a Rust backend) for
SSH, local, Telnet and serial terminals, file transfers, tunnels, remote
desktops and network diagnostics. This directory holds TLA+ models of its
backend, the TLC configurations that check them on small instances, and proofs
checked by TLAPS. `PROJECT.json` lists the components, the runs, the hazards
each property is aimed at, and for every definition the source lines it stands
for.

Paths below are relative to the repository (`src/` in `PROJECT.json`).

## 1. The system

React talks to *managers* in `apps/desktop/src-tauri/src` by Tauri commands and
listens to their events. Each manager keeps a registry behind a mutex, and
starts one task or thread per session, which owns the connection. Commands reach
that task through a bounded channel, or act on shared state under locks.
`crates/*` hold the transports and the persistence.

| component | state it keeps | operations | talks to |
| --- | --- | --- | --- |
| SSH session (`ssh.rs`) | registry of terminals with `Sender`, close and finished watches; registries of transfers, tunnels, remote-forward slots; worker set of each session task | connect, write, resize, attach, six finite file/editor/monitor commands, start transfer, three kinds of tunnel, cancel, close, shutdown | session task by mpsc channel and watches; callers by oneshots; renderer by events |
| SSH transfers, tunnels, X11 (`ssh.rs`, `mobarust-ssh`) | temporary files, listeners, connection workers | the bodies of the jobs of a session | session task (cancel, join), remote host |
| Local terminal (`terminal.rs`) | registry of sessions, each with child, writer lock, `closing` flag and the `start` that releases its reader; `ShutdownPhase` | spawn, attach, write, resize, close, shutdown | stream thread per terminal, PTY child |
| Telnet (`telnet.rs`, `mobarust-telnet`) | registry with retained output; lifecycle, negotiation buffers, partly written response | connect, write, resize, reconnect, attach, close | session task that selects between reads and commands |
| Serial (`serial.rs`, `mobarust-serial`) | registry with retained output; lifecycle, port behind a lock; enumeration slot | list devices, open, write, reconnect, attach, close | session task, blocking workers that queue for the port |
| Connection lifecycle (`mobarust-core`) | one state | `apply(event)` | Telnet, serial and SSH transports |
| Remote desktop (`remote_desktop.rs`, `mobarust-remote-desktop`, `tools/*-helper`) | registry, helper process, phase, capabilities, latest framebuffer with generation | start, send, take framebuffer, stop | reader and writer task, helper process over pipes |
| Network diagnostics (`network.rs`, `mobarust-network`) | two registries of at most `MAX_CONCURRENT_OPERATIONS` | scan, ping, traceroute, cancel | a task per operation |
| Stores and vaults (`mobarust-store`, `mobarust-vault`) | records in memory and one file each | save, delete, import, export | file system |
| Core model (`mobarust-core`) | none | validation, batching, decoding, transfer states | everybody |
| Native quit (`main.rs`) | none of its own | `finish_native_shutdown` | SSH and local managers |

What is hard, and where:

* **Interleaving.** Tauri commands run on a thread pool; a caller clones a
  `Sender` and acts on it while the session loses its connection, is closed, or
  the application quits. Local terminals are touched by four kinds of threads.
* **Cancellation of half-done awaits.** `select!` drops a read when a command
  wins, in the Telnet adapter inside a partly written response, in the serial
  adapter with a blocking worker still in line for the port.
* **Ordering.** Close the queue, sweep, drain, join, reopen; reap a child, then
  forget it; replay retained output, then go live.
* **Bounds.** Queue capacity, 32 workers per session, retained output, one
  remote forward per terminal, the guard around a serial driver call.
* **Failure.** Lost connections, failing kills, unplugged devices, a reconnect
  that succeeds half-way.

* **Atomicity of files.** A transfer, a remote save, a store and the vault all
  write a temporary file and put it in place; each step of that may fail, be
  cancelled, be cut short by a crash, or be carried out with its answer lost.
* **Two programs.** A remote desktop is a helper process behind two pipes; what
  one side said may still be in a pipe when the other side has changed its mind.

What makes each component correct is stated as properties, listed in section 3;
`hazards` in `PROJECT.json` relates them to source lines.

## 2. Modules

| module | models | state and actions |
| --- | --- | --- |
| `SshSession` | one SSH terminal over its successive connections | see below |
| `SshCommandContract` | what a command of that terminal may rely on; `SshSession` implements it (`KeepsContract`) | `window`, `connection`, phase and home of each command |
| `SshSessionProofs` | invariants of `SshSession`, and that it implements the contract, proved | |
| `SshShell` | output, input, sizes and the opening of that terminal's shell, over the actor of its connection | see below |
| `ShellProofs` | that its output is read whole and its size reaches the server, proved | |
| `SshConnect` | jump chain, host trust, authentication with prompts, reconnects, shutdown | see below |
| `SshConnectProofs` | its safety, proved | |
| `SshTransfer` | one upload or download, SFTP or SCP, file or tree | see below |
| `RemoteEditor` | saves of several editors on one remote path | see below |
| `FileReplacement` | what replacing a file promises; `SshTransfer` implements it (`KeepsReplacement`) | the file, the report, doubt |
| `SshTunnel` | local, SOCKS and remote forwards | see below |
| `X11Bridge` | X11 channels of a connection | `bridge`, `program`, `x11Event` |
| `JobsProofs` | the safety of tunnels, that transfers implement `FileReplacement`, and the safety of all that `MCSshJobs` puts side by side, proved | |
| `LocalTerminal` | `TerminalManager` | see below |
| `LocalTerminalProofs` | its safety properties, proved | |
| `ConnectionLifecycle` | `apply` of the lifecycle | operators only |
| `StreamTerminal` | what Telnet and serial managers share: callers, channel, attachment, retained output, decoder | extended by the next two |
| `TelnetTerminal` | Telnet session task and connection | see below |
| `SerialTerminal` | serial session task, port lock, workers, device, time | see below |
| `SerialDevices` | the refresh of the device list with its worker slot | `lister`, `worker`, `free` |
| `StreamProofs` | what the output, Telnet and serial terminals promise, proved | |
| `DesktopRequests` | a remote desktop request through every layer that checks it | see below |
| `DesktopHelper` | a helper process at the end of two pipes | extended by the next |
| `RemoteDesktop` | manager, reader, writer, callers and stop of one session | see below |
| `DesktopFrames` | the one frame kept for the window, and the window's queue | see below |
| `RemoteDesktopProofs` | the order of a helper's events, the end of a session, and that no picture survives a loss, proved | |
| `NetworkJobs` | scans, pings and traceroutes | `job`, `signal`, `next`, `checks`, `process`, `outcome` |
| `BoundedWork` | network operations and device lists side by side: all that is counted against a limit | |
| `AtomicFile` | memory, temporary file and file, with rollback and crashes | extended by the next two |
| `LocalStores` | the JSON stores and their commands | `store`, `running` |
| `PortableVault` | the portable vault and the lookup across both vaults | `seal`, `key`, `creating`, `platform` |
| `OpenSshImport` | the loop that matches a host with a pattern, and the import | indices of the loop; `config`, `known`, `imported` |
| `ServicesProofs` | that limits hold, a scan checks what it was asked, stores and vault are what their files hold, patterns match, imports are exact and requests honoured, and the types of all of `MCServices`, proved | |
| `MC*` | values of the constants for TLC; `MCStreams`, `MCSshJobs` and `MCServices` put components side by side | `subject` |

A definition named in the style of a `Fault:` comment (`FinishJobKeepsSlot`,
`MarkAndTake`, ...) is not part of a model. It is the form a definition would
have with a plausible bug in it, and replaces that definition in a mutant of
`PROJECT.json`, to show that the properties notice.

### SshSession

Every step is one critical section, one channel operation, or the code between
two awaits of one task.

* A call goes `new` (not made), `sender` (has cloned the `Sender`), `permit`
  (`reserve_command`), for a remote forward `slot`, for a job `ready` (its
  control is registered, the `Sender` checked again), `queued`, `running`,
  `settled` (told its end), `over`; or `refused`. `of[c]` is the connection whose
  channel it holds, `ran[c]` the one it was started on.
* `stage` is the program counter of `run_remote_session`: connect, shell, a
  blocked write in it, then `retire_command_queue` (close, two sweeps, drain),
  `retire_shell_output` (`eof`: the transport takes the shell's EOF), `finish_session_operations` (two sweeps, join), the decision about a
  reconnect, `reopen_command_queue`, or `remove`, the event, `done`.
* `controls` and `cancelled` are the transfer and tunnel registries and the
  signalled cancel channels, `slot` is `remote_forwards[terminal]`.
* `closer` and `quitter` are the program counters of `SshManager::close` and
  `SshManager::shutdown`, which interleave with all of this.
* Reduced: the six commands with an oneshot are one kind, `operation`; local and
  SOCKS tunnels are one kind, `forward`; what is transferred, and how a
  connection is made, are choices. A job's last reply and the end of its task are one step.
* `workers` is the task's `JoinSet`. A job that has ended stays in it until the next
  admission reaps it (`Reaped`) or the set is joined; a job that was cancelled stays
  until it ends, so it still counts against the limit.

### SshShell

russh runs one *actor* per connection, and everything on the connection passes
through it. Its vendored source is where `ServerSpeaks`, `ActorDelivers`,
`ActorSends`, `ServerGrants` and `ActorEnds` come from. While it holds a packet
(`hand`) for a channel whose bounded queue (`inbox`) is full, it takes no request
from `outbox` and gives no window credit, so a terminal that stops reading stops
every transfer and tunnel beside it. `SshSession` has a blocked write as a stage;
here it is the wait for `credit` or room (`shellStep` in `window` or `room`), in
which the code reads on.

* `early`, `inbox`, `exitKnown`, `eofKnown` are the reader: `pending_output`, the
  queue, `exit_status` and `output_eof`, which survive a read that is dropped for
  another branch of the `select!`. `spoken` is what the server has said; a packet of
  output is its number.
* `size` with `unseen` is the watch of the geometry, `remoteSize` what the server
  knows. The size a shell is opened with is read without marking it as seen.
* `carry` is the shell whose incomplete character is in the decoder; whose event
  it becomes, and attachment, are as in `StreamTerminal`.
* Reduced: extended data is output; a size on the way is a request like input;
  what the server says to a reader that was dropped is one packet; the X11 and
  environment requests of `open_shell` are part of the one that opens the shell.

### LocalTerminal

`child`, `registered`, `closing`, `start`, `stream`, `input` are the fields of a
terminal; `cleanup[t][k]` is where cleaner `k` is in `cleanup_session` (`find`,
`mark`, `cancel`, `reap`, `take`); the cleaners are the synchronous command, the
stream thread, each attach call and shutdown. `main` is the one thread that runs
synchronous commands: while it is in a spawn or close no other of them starts.
`phase`, `failed` and `quitting` are `ShutdownPhase` with its waiters. A
`Stubborn` child is one whose kill may fail.

### StreamTerminal, TelnetTerminal, SerialTerminal

A *text* is one output event. `Publish` is the locked part of `publish_output`
and `Emit` the event after the unlock; `Attach` replays under the lock. `carry`
is the connection that began the incomplete character in the decoder, also when bytes
of a later one have gone into it.

Telnet: `task` is the program counter of the session task. In `select` it may
take a step of the read future (`FlushSome`, `Deliver`, `Receive`, failures) or
serve a command; serving drops the future between those steps, and what it had
written to the connection's fields stays. `torn` remembers that something was
written while a response was partly on the wire, and `greeted` is the last connection
whose capabilities were sent: at that point, and not when the socket is replaced, the
code ends the old text in the decoder.

Serial: each driver call runs on a blocking worker that takes the port lock; a
read that loses the `select!` becomes `stale` and stays in line. Time is counted
in driver timeouts: an idle read holds the lock for one, the guard of an
operation expires after two (`Patience`), anything else takes none, and what is
due happens before `Tick`. When a guard and somebody else's timeout are due
together, either order is possible; the session's own worker wins against its
guard, as `tokio::time::timeout` polls the operation first.

### SshConnect

`connectStep[c]` walks through `connect` and the reconnect loop: prepare, reach
a hop, verify its key, authenticate, perhaps ask, open the shell, write the
startup input, register; then the shell, disconnect hop by hop, backoff, and
again. `openHops`, `approvedHops` and `toldHops` say over which hops there is a
transport, whose key was approved in this attempt, and who was sent a
credential. A prompt is in three places that the code keeps apart: `prompts`
(the map an answer is looked up in), `dialogs` (what the renderer shows), `reply`
(the oneshot); `replies` are answers whose caller has taken the entry out of the
map and not yet sent it. Bounded: hops, attempts, prompts shown, losses.

### SshTransfer, RemoteEditor, FileReplacement

A transfer has 30 or so steps between its start and its report; each is one
request to a server or one call of the local file system. A request of the
remote side may be refused, or carried out with its answer lost (`RemoteChange`),
and another client may write the destination at any moment (`OtherWrites`); a
remote `scp` that was told of the file may create it when the job is gone.
`unsure` records that the job cannot know what happened. `FileReplacement` is
the promise a user has: a destination is old or whole new, changes at one
instant, and the report is true unless in doubt. The refinement maps the
temporary and backup files away: while an upload has its destination under the
backup name, the abstract file is the backup.

`RemoteEditor` runs several editors on one path. The window between the
comparison of revisions and the first rename, which the code's comments name, is
recorded in `save.overtaken`: `ReplacesWhatItSaw` says that outside of this window no
save of another editor is lost.

### SshTunnel, X11Bridge

Tunnels of one session, one after the other (`tunnelRun` numbers them). A client
is `waiting` (in the backlog of a local listener, or in the queue of
server-opened channels that all remote forwards of a connection share), then
passes through its worker. `serverListens` is the set of forwards the server
listens for, which it does from the moment it handles a request whether or not
the answer arrives. An outcome that stays unknown retires the transport.
`X11Bridge` is smaller: the session signals `x11Close` and does not join the task.

### DesktopRequests, DesktopHelper, RemoteDesktop, DesktopFrames

`DesktopRequests` takes a request through manager, saved session, supervisor,
command-line arguments and the checks of the helper, with each layer's checks as
operators over the kinds of text and the limit values of numbers.

`DesktopHelper` is the process: `place` of its main task, `toSay` the events it
still has to write, two pipes of `PipeRoom` frames. `helper` chooses the VNC
program, the RDP program, or `any`: a program that says what it likes.
`RemoteDesktop` has the reader, the writer, a sending caller and stop, each a
program counter, with `verdict` (what the reader thought of an event), `said`
(the last state told to the window) and `ending` (who claimed the end).
`DesktopFrames` starts behind the reader: `pending` with its generation, the
channel to the window, the `RemoteFramebufferQueue` of the frontend. A frame is
the number of the attempt it was made in.

### NetworkJobs, SerialDevices

One action per step of a scan or a system command; a scan is the set of ports in
flight and the next port (0 for none), so that the last port of all is a case.
A request for the device list and the worker it started are separate: the
worker outlives a caller that gave up and keeps the slot.

### AtomicFile, LocalStores, PortableVault, OpenSshImport

`AtomicFile` is the common part: an operation changes memory and persists
(temporary file, content, rename); every step may fail, which takes memory back,
and the process may end between any two (`Forgets`). The stores and the vault
add their operations and what they check at a start. `OpenSshImport` has the matching loop
step by step, against the meaning of a pattern as a quantified definition
(`Matches`), and the import of a file, line by line (`Parsed`), block by block
(`EffectiveOption`) and alias by alias (`Sessions`), against "the first value that
applies" in the file as it stands (`ImportIsExact`). Where the code loops, `Parsed` and
`Sessions` are functions of the number of rounds, so that they can be proved about.

## 3. Runs

Bounds are as small as the hazards allow: each constant says what it is a bound
of, and the model is unbounded otherwise.

| run | instance | shows |
| --- | --- | --- |
| `session_jobs` | a transfer, a local tunnel and a remote forward, or two remote forwards; 2 connections, capacity 2, two workers | `NothingLeftBehind`, `ToldToStop`, `ToldOnce`, `OneRemoteForward`, `QuitLeavesNothing`, `TypeOK`, `Limits`: a third command is refused while two jobs run, cancelled or not, and otherwise never |
| `session_exit` | a write that can block for ever, a tunnel behind it, 2 connections, capacity 1, one worker | `StaysHome`, `KeepsContract`, `SessionEnds`, no deadlock |
| `local_races` | one terminal, two attachments, two shutdown calls, a child that may resist | `ChildOwned`, `QuitReaps`, `StartupOnce`, `TypeOK` |
| `local_exit` | one terminal, one attachment, one shutdown | `CommandsReturn`, `EndIsReported` |
| `streams` | Telnet (input, resize, reconnect, close; capacity 2) or serial (input, reconnect, close; capacity 1; a device that comes, goes and breaks); two chunks of output, one text retained | `OutputUnbroken`, `TelnetStartsAnew`, `SerialIsHonest`, `StreamsServed`, `StreamsTypeOK` |
| `ssh_jobs` | one subject of: two connections (2 hops, 2 attempts, one prompt at a time, a loss); two tunnels with two clients, limit 1, queue 1; X11 with three programs, queue 2, limit 1; a transfer of any kind; two editors; a terminal with one operation | `FilesAreSafe`, `ForwardsAreHonest`, `ConnectSafety`, `KeepsReplacement`, `TunnelEvents`, `JobsEnd`, `JobsTypeOK` |
| `services` | one subject of: a remote desktop (2 attempts, pipes of one frame, channel of 1, one input); frames over 2 losses; a scan, a ping and a traceroute with registries of 1, ports up to 3, 2 at a time; three device lists and one slot; a store with 2 ids and 3 versions, 2 audit events, files of one record readable at a start; a vault with 2 passphrases and 1 credential; patterns and hosts up to 3 characters, files of 3 lines; a request; an SSH shell (queues of one, two packets of output, one reopening, one change of size, startup input) | `HelpersKeepTheOrder`, `DesktopEndsWell`, `PaintsCurrent`, `NetworkIsExact`, `StoresAreSafe`, `ConfigurationIsHonoured`, `VaultKeepsFile`, `OutputReadWhole`, `SizeIsCurrent`, `ShellGoesOn`, `ServicesEnd`, `ServicesTypeOK` |
| `telnet_failed`, `telnet_frames`, `serial_idle`, `tunnel_stale`, `desktop_last_word` | two reconnects; input, reconnect, close; two Enters; two tunnels and two clients; as in `services` | findings, section 6 |

**Composition by subject.** `MCStreams`, `MCSshJobs` and `MCServices` hold components
that share no variable, because in the program they share no state: each has
its own registry, channel, file or process, and what jobs of one SSH session do
share is `SshSession`. An interleaving of two of them reaches no pair of local
states that matters to a property of one, so a behaviour chooses one `subject` in
its initial state. The two sides of an SSH terminal, in `session_exit` and in
`services`, do share a task: `SshSession` takes the shell as something that
may block a write, end or be lost at any moment, and whose EOF is taken in the end,
which is all `SshShell` can do to it (`ShellGoesOn` covers the wait for that), and `SshShell` takes the end of the session as something that may come at any
moment. Fairness of a component is only stated where it does not
force steps of another subject: it is guarded by the subject, or the component's
first action is the user's and unfair. For every subject, TLC refutes the
claim that a behaviour never leaves it idle, so that no liveness property
holds for want of behaviours.

Why the bounds suffice: a second connection is what a command of the first could
stray to, and a third adds no new relation between a command and the current
connection. Commands that compete fill a channel and a worker set of two; a
third one finds the worker set full; `JobsCast` limits which calls are made together,
and the refusal of a remote forward at the limit has to give back its slot. Two texts are
needed to lose one of one retained, and two chunks for a character that one connection
begins and the next one goes on with. A write and a skipped reconnect abandon the two reads that make a
serial guard expire. A chain of two hops has a first and a last one, and a hop
that is reached through another. A second tunnel is what a client of the first
could stray to; with a limit and a queue of one, the second client meets both.
The two files of a tree that matter are the current one and the next, which the
model's loop provides without a bound. Two editors are the two parties of a lost
update. With queues of one, a packet in the hand of the
actor behind a full queue is two packets, and the exit status or EOF a third, before or
behind them. Two losses give a frame of a generation before the last. Port 3 of 3 is the last
port there is; a scan that ends there and one that does not start and end in the middle
are both initial states. A glob of three characters has a star that gives way twice, and three
lines are a block, an option and a second block or option for the same host.

Deadlock is checked for `session_exit`, with `Terminated` as the legitimate end; in
`session_jobs` a call outside the cast can always be made, so that the check says nothing
there. The other systems stop when every call is served and the
session is over, so their configurations do not check it; their liveness
properties do instead.

**Fairness.** Weak fairness of a task's own steps says that the runtime polls a
task that can go on: the tokio scheduler and the OS do. It is never assumed of
the user (no call, attachment, close or quit has to happen), of the remote host
(no answer, no reading, no exit), of a helper program, of the window (it may
never fetch or stop anything; only an animation frame it has requested comes)
or of the device. What the code bounds by a timeout counts as the task's own
step: `operation_timeout` and `connect_timeout` of the Telnet connection
(`WriteFails`, `DialFails`, `FlushFails`), the deadlines of every operation of
`mobarust-ssh` (`OperationSettles`, every step of `TransferFairness`, `ConnectFairness`
and `TunnelTask`), `ATTACH_TIMEOUT` (`StreamGivesUp`), the deadline
of a ping, a check and a helper command, the deadline of a shell's setup
(`SetupEnds`). The actor of a connection goes on when it can (`ActorDelivers`,
`ActorSends`). The latter is an assumption about the server, that it reads its socket or
that keepalives end the connection: they are optional (`mobarust-ssh/src/lib.rs:607`), and
without them nothing in the code bounds such a write.
The EOF of a retired shell has no deadline in the code and gets none: in `SshShell` it
is sent when the actor makes room or the connection ends, and `ShellRetired` of `SshSession`
takes from there that it is. A job that is not cancelled may run for
ever, and a transfer may wait for its slot for ever.

Strong fairness is used in three places. In `SerialTerminal`, a device that
comes and goes disables a worker's step again and again, while the driver call
still returns; and a read completes again and again between two polls of the
command channel, while `select!` polls its branches in random order and so
serves the channel in the end. `SeeCancel` of a tunnel and the end of the X11
task are the same case: a listener that always has another client against a
signalled cancel channel in one `select!`.

`StreamsServed` states the `CommandsServed` of the two terminals as one formula: again and
again no call is pending (a call is made once, so that none stays so).
A behaviour of `MCServices` is about one subject and the others are at rest all along,
so `ServicesEnd` says in one formula that all are at rest again and again
(`AtRest`): `FramesArrive`, `NetworkEnds` and `GlobEnds` of the modules at once.

## 4. Proofs

`SshSessionProofs` proves for every set of calls, every capacity and limit, and
any number of connections:

| theorem | statement |
| --- | --- |
| `TypeCorrect` | `Spec => []TypeOK` |
| `CommandsStayHome` | `Spec => []StaysHome` |
| `ConnectionsLeaveNothing` | `Spec => []NothingLeftBehind` |
| `JoinedJobsAreCancelled` | `Spec => []ToldToStop` |
| `CallersToldOnce` | `Spec => []ToldOnce` |
| `RemoteForwardsExclude` | `Spec => []OneRemoteForward` |
| `Bounded` | `Spec => Limits` |
| `QuitIsComplete` | `Spec => []QuitLeavesNothing` |
| `ContractKept` | `Spec => KeepsContract` |

Assumptions: the calls are a finite set without the value `NoCall`, `Kind` gives
each its kind, capacity is positive, limits are natural numbers.

The argument is one inductive invariant, `Inductive`. None of the properties is
inductive alone. What each needs is in the named parts: `StagesAgree` ties the
open channel and the registry to the stage; `QueueAgrees` says that buffer and
places of the calls are two views of one thing; `StagesEmpty` says what the
drain and the join have emptied; `ControlsAgree`, the heart of `ToldToStop`,
says that a live job without a control has been cancelled, so that a sweep that
finds no control has nothing to miss, and that the sweeps of
`finish_session_operations`, which come after the drain, leave none;
`PlacesAgree` and `QuitAgrees` are bookkeeping. The proof that `Next` keeps it
has a step per action and below it a step per conjunct the action can disturb.
`WorkersAgree` says that every job that runs is in the worker set, so that what is
reaped is what has ended. The set's cardinality is handled by lemmas over `FS_AddElement` and
`FS_Subset` (`JoinSetStep`, `WorkersStep`); the action part of `Limits` is `RefusedStep`.

`ContractKept` is the refinement. The mapping reads the contract's window off
the stage of the session task, and the phase and home of a command off its
place. Each group of actions has a lemma that names the one contract action it
maps to, or shows a stutter. `Inductive` supplies the guards of the contract
(nothing is outstanding in a quiet stage, a started command is at home), with
one more small invariant: `Fresh`, no connection is counted while the first is
being made, so that making it is the contract's step to the next connection.

One observation from the proof: the second look at the `Sender` in
`Register` (`ensure_current_sender`) is not needed for any of these theorems.
The sweep of `finish_session_operations` after a drain that waits for permits is
enough; the check only refuses such a job earlier.

`LocalTerminalProofs` proves for any sets of terminals, attachments, calls of
shutdown and children that resist their kill:

| theorem | statement |
| --- | --- |
| `TerminalTypes` | `Spec => []TypeOK` |
| `ChildrenAreOwned` | `Spec => []ChildOwned` |
| `StartupIsSubmittedOnce` | `Spec => []StartupOnce` |
| `ShutdownReapsAll` | `Spec => []QuitReaps` |

It assumes that the cleaners that are attachments are not the three others
(`AttachersAssumption`), and that `Nobody` is no terminal. The invariant,
`Inductive`, is five facts about each terminal and three about shutdown:
`Fresh`, nothing exists of a terminal without a child; `StartAgrees`, a start that
is held was taken by nobody, and one attachment at most has won it; `CleanupAgrees`,
only a reaped child is about to be taken out of the registry, and shutdown is done
with a terminal only if its child is reaped or `failed` is set; `SpawnAgrees`, a
spawn that gives up after its child was registered leaves it to the registry or to
shutdown; and `ChildOwned` itself, which is not inductive without `SpawnAgrees`:
the spawn returns, and with it goes one of those that may own the child. A step is about one
terminal, so `Frame` carries the facts of all others over it, and each action has a
lemma for the terminal it is about. Only `TakeSessions` moves all terminals at once.
`QuitReaps` follows at the moment a call returns: the registry is empty, shutdown
is done with every terminal it took, and so nobody of `ChildOwned` is left.

`SshConnectProofs` proves for any set of connections, chains of any length and any
numbers of requests, losses and prompts:

| theorem | statement |
| --- | --- |
| `ConnectionsAreSafe` | `ConnectSpec => []ConnectSafety` |

The bounds are natural numbers, with one hop at least (`ConnectAssumption`).
`ConnectInductive` is the bound of
the prompts and six facts about each connection: `ChainAgrees`, what is open and approved
is what comes before the current hop; `TrustAgrees`, a credential went to approved hops
only, and who approved them; `SessionAgrees`, what is registered when;
`StartupAgrees`, a session whose startup input may have been sent is not one that sends
it; `PromptAgrees`, a prompt shown, taken or cancelled is the one its handshake waits for;
`AskAgrees`, nothing is asked before its turn. A step is about one connection, so each
action has a lemma for the connection it is about (`...Keeps`), and `ElsewhereAgrees` carries
the others over it.

`JobsProofs` proves for any programs, editors, tunnels, connections and limits:

| theorem | statement |
| --- | --- |
| `EventsAreInOrder` | `TunnelSpec => TunnelEvents` |
| `ListenersEnd` | `TunnelSpec => []NoListenerLeft` |
| `SocksClientsHearOnce` | `TunnelSpec => []SocksAnswersOnce` |
| `ReplacementIsKept` | `TransferSpec => KeepsReplacement` |
| `FilesStaySafe` | `JobsSpec => []FilesAreSafe` |
| `ForwardsStayHonest` | `JobsSpec => []ForwardsAreHonest` |
| `JobsAreTyped` | `JobsSpec => []JobsTypeOK` |

`MCSshJobs` chooses one subject; a step of it leaves the others as they are
(`JobsSteps`), so `JobsInductive` is what each of them keeps, side by side. Beyond the
assumptions of connections (`ConnectAssumption`) and tunnels (natural bounds and positive
limits, `TunnelAssumption`): the programs are a finite set
(`X11Assumption`), the text of an editor is none of the words for a file
(`EditorsAssumption`), and `NoCall` is no operation (`JobsAssumption`).

* *Transfers.* `TransferInductive` says at every step what the report and the request are
  (`ToldAgrees`), whether the file was replaced and whether an error is carried
  (`ProgressAgrees`), and what is in the destination, the temporary file and the backup
  (`FilesAgree`). The interesting facts are about `unsure`, a request whose
  fate is unknown: a part or a backup may be left only then, and an error after the
  replacement can only be that. With them each step is one of `FileReplacement` or
  shows it nothing (`TransferImplements`), the swap included, in which the file is
  looked up under its backup name.
* *Editors.* That no document is lost is a fact about all of them: `Findable`, while there
  is nothing at the path some editor has put the document aside and is not about to remove
  that backup. Editors do not exclude each other, so what one has read another may replace;
  `overtaken` marks such a save, and `SaveAgrees` holds of the others only: the one that is
  not overtaken swaps what it compared. An action has a lemma for the editor it is about, and
  `Alone` says what it leaves of the others.
* *Tunnels.* `TunnelInductive` says what the task has told at each of its
  steps (`TaskAgrees`), that the server listens only between the request of a remote
  forward and its revocation (`ServerAgrees`), and that a client with a worker belongs to
  the tunnel that runs (`ClientAgrees`). The last is what the answers of a SOCKS
  client hang on: workers end before their tunnel does, so the kind of the current
  tunnel is the kind that answered. `TunnelEvents` is then a property of each step
  that starts in `TaskAgrees` (`EventsStep`).
* *X11.* At most `X11Limit` programs are joined, and none before the task serves or after
  its workers were joined (`X11Inductive`).
* *The terminal.* `MCSshJobs` has an instance of `SshSession` with one operation. The proofs
  of `SshSessionProofs` are not repeated for it: `Proven` is an instance of that module with
  the same values, `SameSteps` and `SameVariables` say that both instances are of one
  behaviour, and `ProvenAssumptions` that the values are among those it is proved for.

`ShellProofs` proves for queues of any room, any amount of output and any number of shells
and sizes:

| theorem | statement |
| --- | --- |
| `ShellsAreReadWhole` | `ShellSpec => []OutputReadWhole` |
| `SizesReachTheServer` | `ShellSpec => []SizeIsCurrent` |

(`ShellAssumption`: the queue of a channel may have no room at all, the others have some.)
The output of a shell is in four places: passed on, kept by the reader, queued, and in the
hand of the actor. `ShellOutput` says that what the reader kept carries the packets up to
some number, the queue and the hand those after it up to the last one said, and what makes
an end trustworthy: an EOF in the queue has no output behind it, a Close is the last packet
(`Sealed`), and an exit status that was told is known or still to be read. Lemmas say what
`Append`, `Tail` and concatenation do to what a sequence carries (`CarriesMore`, `CarriesTail`,
`CarriesBoth`); they are proved by position, without induction. So a read is one of
four: from what was kept (`ReadsEarly`), from the queue (`ReadsQueue`), of the end of the
connection (`ReadsEnd`), or while the shell is being opened (`SetupKeepsOutput`);
every other step leaves the output, grows the queue by what is said, or drops the reader
(`OutputCases`). `ShellEnd` remembers how a shell has ended until it is retired, also when the server
goes on speaking. For the size, `ShellSizes` says that a size marked as seen is
in the operation that is about to tell it, or is the last one in the queue of requests,
or is known (`LearnsNew`, `LearnsNext`).

`RemoteDesktopProofs` proves for any capacity of channel and pipe, any number of inputs
and of reconnect attempts, and the helpers of the project as well as any program in their
place:

| theorem | statement |
| --- | --- |
| `DesktopIsTyped` | `DesktopSpec => []DesktopTypeOK` |
| `ProjectHelpersKeepTheOrder` | `DesktopSpec => []HelpersKeepTheOrder` |
| `SessionsEndWell` | `DesktopSpec => []DesktopEndsWell` |
| `FramesAreCurrent` | `FramesSpec => []PaintsCurrent`, for any number of reconnects |

(`HelperAssumption`, `DesktopAssumption`.) The order of events spans two processes: what
the helper may say next depends on what it said last, what the reader accepts on what it
has read, and between them is a pipe. `OrderAgrees` is therefore about the whole sequence
that is still to be read: starting at the stage the parent has noted, it keeps the order,
and it leads to a stage at which the main task of the helper may be (`Stages`). Lemmas say
what `Head`, `Tail` and `Append` do to such a sequence (`OrderOfTail`, `OrderOfAppend`), and each
step of the main task has one about the stage it says and leaves. `EndAgrees` ties
the claim of the end to its report, the process and the registration.

`FramesAreCurrent` has an invariant of its own. A frame and a notice carry only a generation, and a property about attempts needs to know
which attempt that is. Each loss takes three generations, so a generation tells its attempt
(`NativeAgrees`). The window counts the losses it was told of, and `ChannelAgrees` counts
those on their way besides: the sum is the attempt that runs, and a notice at a place of
the queue is of the attempt that the losses before it lead to, or a later one.

`ServicesProofs` proves for any number of scans, diagnostics and refreshes, any ranges of
ports, any concurrency, limits and slots, and for stores and a vault of any records,
passphrases and limits:

| theorem | statement |
| --- | --- |
| `ScansCheckEachPortOnce` | `NetworkSpec => []ScansAreExact` |
| `RegistriesAreBounded` | `NetworkSpec => []NetworkIsBounded` |
| `EverySlotIsAccounted` | `ListSpec => []SlotsAccounted` |
| `WorkIsExact` | `WorkSpec => []NetworkIsExact`, the three at once |
| `FilesAreWhatMemoryIs` | `ServicesSpec => []StoresAreSafe` |
| `VaultFileStays` | `ServicesSpec => VaultKeepsFile` |
| `ConfigurationHolds` | `ServicesSpec => []ConfigurationIsHonoured` |
| `PatternsMatchExactly` | `ServicesSpec => []OpenSsh!GlobIsExact`, the first part of it |
| `EveryImportIsExact` | `EveryImport(Text) => []OpenSsh!ImportIsExact` for any set `Text` |
| `EveryRequestIsHonoured` | `EveryRequest => []Desired!RequestsAreHonoured` |
| `ServicesAreTyped` | `ServicesSpec => []ServicesTypeOK` |

The first four count finite sets (`SlotsAssumption`, `NetworkAssumption`, `ScanAssumption`). Slots:
free ones and working workers are `Slots` together, a permit taken or given up
moves one element, and `Unasked` says that a refresh not yet made has no worker.
Registries: only `StartOperation` adds an element, under a guard that leaves room for
it (`LimitStays` is about every other step), and `EndsAgree` ties a process to
the operation that runs it. Scans: what was scheduled so far is an interval of the range
(`Planned`); the checks in flight are its ports without an answer, so that a port answered
has one answer and one in flight has none (`FlightAgrees`, `ResultsAgree`); and the end
of the loop with nothing in flight finds the interval full (`SchedulesAdds`), also where the
range ends at the last port there is and the next one would overflow.

Stores and vault (`ServicesAssumption`: a record can be valid, settings and the platform's
credential have names, limits are numbers and a vault may hold something). Neither property is
inductive: between the first change of memory and the replacement of the file memory is
ahead, and after a failure it must come back to what the file holds. `ProcessAgrees`
therefore says what a step under way would go back to, namely the file, and `FileAgrees`, that
the file can be read again whether or not anybody runs. For the vault, `VaultAgrees` also
follows the passphrase: an open vault has that of its file, and only one that is being
created has no file. Deletion and import take a part of a sequence (`Part`): `PartIs` shows
that its n-th place is well defined, since the rank of a place among those kept is one to
one (`RankIs`), and from that no id comes twice (`ImportKeeps`, `PartKeeps`). The two
instances of `AtomicFile` have operators of their own, `OperatorsAgree` says they are the same.
`ServicesInductive` puts the request, the desktop, network, device list, store, vault and
import side by side; a behaviour is about one of them and the others are at rest.

`ConfigurationIsHonoured` has three parts. *Matching*, for any letters and any lengths: the
loop of `host_pattern_matches` remembers one star only, and it is not obvious that it may forget
the ones before. `NothingPassedOver` is why. The pattern lies on the host up to where the loop is (`Reaches`),
and however the whole pattern can be laid on the host, its last star does not begin before
`starMatch`, and what follows it up to the loop's place is as long there as in the loop
(`NotBefore`). A mismatch (`Mismatch`) therefore rules out one place of that star, or
every way to lay the pattern where there is no star. *Import*: `EveryImportIsExact` is
about any file of any number of lines with any words, patterns and values (`AnyLine`), and about any
sessions there are; the files of the run are some of them (`LinesAreLines`), so that the
theorem's invariant is part of `ServicesInductive` too. The code reads a file into blocks and asks block by block
for the first value, the property asks for the first line in force. `GivesFirst` goes
through the lines: after each, the value so far and whether the last block is for the alias are what the
lines so far say (`BlockAdded`, `OptionAdded` for the blocks, `FirstNext`, `InForceIs` for the
lines). `ExactAreWanted` does the same for the names, `SessionsAre` goes through the aliases: a
name comes once, also where blocks repeat it, and is not there before. So a second
import finds every name known (`ImportConfigKeeps`). *Requests*: `Fields` with any
combination of values (`IsRequest`), where the run has those that differ from a request in
order in two fields (`Requested`). `RequestAgrees` says of each stage what has been passed and what is on its way: what the manager accepts the
supervisor takes (`SupervisorTakes`), `ArgumentsOf` and what the helper makes of them is the
request again (`TargetIs`), the helper expects the frames that come (`ExpectedIs`), and what was saved
and opened again passes (`ReopenedPasses`).

What is defined by recursion is followed without the library's induction theorems, which
take an operator as parameter: `Least` (a set of numbers that is not empty has a least one) comes from
the well-foundedness of the numbers, `Induction` states what holds of all members of an
interval as a fact about a *set*, and `Recursion` that a function that is defined by its
value before exists, which TLA+ does not grant a definition by itself.

`StreamProofs` proves for any calls, capacities, numbers of texts and texts retained, any
behaviour of peer and device:

| theorem | statement |
| --- | --- |
| `StreamsAreTyped` | `StreamsSafetySpec => []StreamsTypeOK` |
| `OutputIsUnbroken` | `StreamsSafetySpec => []OutputUnbroken` |
| `TelnetBeginsAnew` | `StreamsSafetySpec => []TelnetStartsAnew` |
| `SerialTellsTheTruth` | `StreamsSafetySpec => []SerialIsHonest` |

(`StreamAssumption`; `StreamsSafetySpec` is `StreamsSpec` without its fairness.) The two
managers share the output: before the attachment texts are kept, the latest ones of all there were; after it they are shown; and while the
attachment hands over what was kept, what is shown, being said and kept is one run
(`Keeps`, `Shows`, `Speaks`). The channel holds a call once, and no call that is elsewhere
(`QueueAgrees`). For Telnet, `TaskAgrees` and `WireAgrees` say that what is buffered
came over the present connection, and what is half decoded no earlier than over the last
one that was greeted: a connection whose capabilities could not be sent completes what
an older one began, which is part of the finding `telnet_failed`. `PinsAgree` says that a
command in the channel that means one connection means the present one and has no reconnect before it: a fact about
every place of the queue, which only the steps that put in, take out and reconnect
disturb. For serial, `LockAgrees` says that whoever has the lock uses the port there is, an
expired worker too, and `PortAgrees` that a port is open when the renderer was told so.
`MCStreams` chooses one of both, so its invariant is that of the subject with the other at
rest.

Only model-checked: the liveness properties, as fairness is out of the prover's reach. Every
safety property that a passing run checks has a theorem for every value of the constants.

## 5. Not modelled

* What `attach_terminal` replays for SSH (the same scheme as `StreamTerminal`).
* Option negotiation of Telnet, as opposed to when its responses are written.
* Serial: an `open` worker that succeeds after `open_timeout` has expired.
* SSH key exchange and cryptography, which are russh's; the SOCKS handshake
  beyond its outcomes; the file operations rename, delete, mkdir and change
  permissions beyond the fact that a finite command settles once.
* The wire format between the manager and a helper, pictures, input
  translation, and the protocol engines of the helpers.
* How the output of ping and traceroute is parsed.
* The validation of records other than a remote desktop field by field: a record
  is valid or not.
* Output batching and decoding as buffers; log redaction; rendering in the
  frontend; `xtask`, benchmarks, fuzzing, the site; of vendored russh, all but the
  actor's part in `SshShell`. These are
  pure functions or I/O without a state the other parts depend on, or not this
  program's code.

What the models leave open on purpose: `shutdown` may return while a session is
between `remove` and its Disconnected event (`QuitLeavesNothing` says so);
an exit status that is still in a queue when a write or a size is refused by an actor
that has ended is not read, and the shell counts as lost (`ShellReadWhole` says so);
writes accepted between `telnet://closed` and the end of the task are dropped
although `send` returned `Ok` (`Leave`); bytes read by an abandoned serial
worker are lost (`StaleReadEnds`); a store may grow past the size the next start
reads, since nothing that writes it looks at its size (`StoresAreSafe` excludes
just that); a VNC request with a domain can be sent but not saved
(`RequestsAreHonoured` names it).

## 6. Findings

1. **A reconnect of a Telnet session can report Failed and not be retryable**
   (`telnet_failed`). The lifecycle is in Connected before the capabilities are
   sent; when that write fails, the renderer is told Failed, but the next
   reconnect is skipped because the state is Connected. The decoder is not ended
   either, and completes an old character with bytes of the new socket: the exception
   of `TelnetStartsAnew`. ADR 0015 promises
   "either `Connected` or retryable `Failed`".
2. **Input can be written into a negotiation response** (`telnet_frames`). A
   read that loses to a command is dropped between two writes of one response;
   the command writes at once, the response goes on afterwards. The code is
   prepared for the first half only.
3. **An idle serial session can fail** (`serial_idle`). The guard of a read
   counts the time spent behind abandoned reads. Two keystrokes that are framed
   as nothing, within one driver timeout, are enough.
4. **A channel of a stopped remote forward can reach the target of the next one**
   (`tunnel_stale`). Channels the server has opened wait in one queue of the
   connection; a forward that ends leaves them there, and the next takes them
   from it and connects them to its own target. ADR 0009 gives every forward an
   explicit target.
5. **The last word about a remote desktop can be Active** (`desktop_last_word`).
   The writer claims an unexpected end and reports Crashed while the reader has
   accepted an event and not delivered it; the window hears that event last.
   `docs/research/vnc.md` has an unexpected end transition to `Crashed`.

## 7. Plan

1. *Done:* the SSH session with its contract, both proved about; connections,
   the shell; transfers with their contract, editor, tunnels, X11; local, Telnet and serial
   terminals; device list; remote desktop from the request to the canvas;
   network operations; stores, vault, import.
2. Next: Telnet option negotiation; batching and decoding of output.
3. Proofs: none of the safety properties of the passing runs is left. What is modelled next is to be
   proved with it.
