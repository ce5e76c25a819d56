----------------------------- MODULE SshSession -----------------------------
(***************************************************************************)
(* One terminal of SshManager (apps/desktop/src-tauri/src/ssh.rs): its     *)
(* command queue, the callers that feed it, the session task that serves   *)
(* it over successive connections, the jobs that task owns, and the three  *)
(* ways the terminal ends: the shell exits, the user closes it, the        *)
(* application quits.                                                      *)
(*                                                                         *)
(* Every step is one critical section of a std::sync::Mutex, one channel   *)
(* operation, or the code between two awaits of one task.  Tauri runs      *)
(* commands and session tasks on a thread pool, so steps of different      *)
(* tasks interleave freely.                                                *)
(*                                                                         *)
(* A generation is one connection of the terminal together with the        *)
(* mpsc channel opened for it; of[c] is the generation of the Sender that  *)
(* call c cloned, ran[c] the generation on which its command was started.  *)
(***************************************************************************)
EXTENDS Naturals, FiniteSets, Sequences

CONSTANTS
    Calls,           \* invocations of the manager's commands on this terminal
    Kind,            \* Kind[c]: which command the invocation is
    Capacity,        \* COMMAND_CAPACITY
    OperationLimit,  \* SESSION_OPERATION_LIMIT
    MaxGeneration,   \* bound of the model: connections one terminal may have
    NoCall           \* an empty remote-forward slot

\* "operation" stands for the six file, editor and monitor commands that answer
\* through a oneshot; "forward" for the local and the SOCKS tunnel.
Kinds == {"write", "operation", "transfer", "forward", "remote"}

ASSUME CallsAssumption == IsFiniteSet(Calls) /\ NoCall \notin Calls
ASSUME KindAssumption == Kind \in [Calls -> Kinds]
ASSUME CapacityAssumption == Capacity \in Nat \ {0}
ASSUME LimitAssumption == OperationLimit \in Nat /\ MaxGeneration \in Nat

Transfers == {c \in Calls : Kind[c] = "transfer"}
Tunnels == {c \in Calls : Kind[c] \in {"forward", "remote"}}
Remotes == {c \in Calls : Kind[c] = "remote"}

\* Commands that reply or report once they are settled: all but terminal input.
Finite == {c \in Calls : Kind[c] # "write"}

VARIABLES
    stage,       \* where the session task is
    result,      \* what run_shell_once returned last
    gen,         \* the current generation; 0 before the first connection
    open,        \* ~sender.is_closed() of the registered Sender
    registered,  \* the terminal is in SshManager.sessions
    workers,     \* the task's JoinSet: jobs that run, and ended ones not yet reaped
    close,       \* the session's close watch
    shutdown,    \* the manager's shutdown watch
    queue,       \* the buffered commands of the current generation's channel
    at,          \* where each call, and then its command, is
    of,
    ran,
    notices,     \* final replies and terminal events each call has had
    controls,    \* SshManager.transfers and .tunnels, by owner
    cancelled,   \* jobs whose cancel channel has been signalled
    slot,        \* SshManager.remote_forwards[terminal]
    closer,      \* progress of SshManager.close
    quitter      \* progress of SshManager.shutdown

sessionVars == <<stage, result, gen, open, registered, workers>>
jobVars == <<controls, cancelled, slot>>
callVars == <<queue, at, of, ran, notices>>
exitVars == <<close, shutdown, closer, quitter>>
vars == <<sessionVars, jobVars, callVars, exitVars>>

Places == {"new", "sender", "permit", "slot", "ready", "queued", "running",
           "settled", "over", "refused"}

\* The three cancellation sweeps of the session task, two locks each.
SweepStages == {"retire_transfers", "retire_tunnels", "finish_transfers",
                "finish_tunnels", "remove_transfers", "remove_tunnels"}
Stages == {"connecting", "shell", "writing", "retire", "drain", "eof", "join",
           "decide", "reconnecting", "reopen", "remove", "report", "done",
           "unconnected"} \cup SweepStages

TypeOK ==
    /\ stage \in Stages
    /\ result \in {"none", "closed", "lost"}
    /\ gen \in Nat
    /\ open \in BOOLEAN /\ registered \in BOOLEAN
    /\ workers \subseteq Finite
    /\ close \in BOOLEAN /\ shutdown \in BOOLEAN
    /\ queue \in Seq(Calls)
    /\ at \in [Calls -> Places]
    /\ of \in [Calls -> Nat]
    /\ ran \in [Calls -> Nat]
    /\ notices \in [Calls -> Nat]
    /\ controls \subseteq Transfers \cup Tunnels
    /\ cancelled \subseteq Transfers \cup Tunnels
    /\ slot \in Remotes \cup {NoCall}
    /\ closer \in {"idle", "transfers", "tunnels"}
    /\ quitter \in {"idle", "transfers", "tunnels", "signal", "wait", "returned"}

Init ==
    /\ stage = "connecting"
    /\ result = "none"
    /\ gen = 0
    /\ open = FALSE
    /\ registered = FALSE
    /\ workers = {}
    /\ close = FALSE
    /\ shutdown = FALSE
    /\ queue = <<>>
    /\ at = [c \in Calls |-> "new"]
    /\ of = [c \in Calls |-> 0]
    /\ ran = [c \in Calls |-> 0]
    /\ notices = [c \in Calls |-> 0]
    /\ controls = {}
    /\ cancelled = {}
    /\ slot = NoCall
    /\ closer = "idle"
    /\ quitter = "idle"

-----------------------------------------------------------------------------
\* Shared pieces.

Move(c, place) == at' = [at EXCEPT ![c] = place]

\* mpsc permits that are out: reserved, the command not yet sent.
Permits == {c \in Calls : at[c] \in {"permit", "slot", "ready"}}

\* The jobs whose task has not ended.
Running == {c \in Finite : at[c] \in {"running", "settled"}}

\* The JoinSet once try_join_next has taken out what has ended.
Reaped == workers \cap Running

\* sender(): a Sender can be had from the registry.
CanSend == registered /\ open /\ ~close /\ ~shutdown

\* ensure_current_sender(): the Sender c holds is still the registered one.
CurrentSender(c) == CanSend /\ of[c] = gen

\* Fault: the slot stays taken when the remote forward is over.
FinishJobKeepsSlot(c) ==
    /\ controls' = controls \ {c}
    /\ UNCHANGED <<slot, cancelled>>

\* finish_transfer / finish_tunnel: the control goes, and the slot if c has it.
FinishJob(c) ==
    /\ controls' = controls \ {c}
    /\ slot' = IF slot = c THEN NoCall ELSE slot
    /\ UNCHANGED cancelled

\* The receiver of the caller's oneshot, or the listener of the job's events.
Notify(c) == notices' = [notices EXCEPT ![c] = @ + IF c \in Finite THEN 1 ELSE 0]

\* Fault: a cancellation that is not kept for a job that has yet to start.
CancelUnlatched(jobs) ==
    /\ controls' = controls \ jobs
    /\ cancelled' = cancelled \cup {c \in controls \cap jobs : at[c] = "running"}
    /\ UNCHANGED slot

\* One lock of cancel_for_terminal: take the controls out, signal each.
Cancel(jobs) ==
    /\ controls' = controls \ jobs
    /\ cancelled' = cancelled \cup (controls \cap jobs)
    /\ UNCHANGED slot

-----------------------------------------------------------------------------
\* The callers: write, list_directory .. remote file operations, start_transfer,
\* start_local_forward, start_dynamic_forward, start_remote_forward.

\* sender(): clone the Sender out of the registry, or fail.
Issue(c) ==
    /\ at[c] = "new"
    /\ IF CanSend THEN Move(c, "sender") /\ of' = [of EXCEPT ![c] = gen]
                  ELSE Move(c, "refused") /\ UNCHANGED of
    /\ UNCHANGED <<sessionVars, jobVars, queue, ran, notices, exitVars>>

\* A local or SOCKS tunnel binds its listener after it has a Sender.
BindFails(c) ==
    /\ at[c] = "sender"
    /\ Kind[c] = "forward"
    /\ Move(c, "refused")
    /\ UNCHANGED <<sessionVars, jobVars, queue, of, ran, notices, exitVars>>

\* Fault: the caller's Sender is looked up again, so any open channel will do.
ChannelOpenAny(c) == open

\* The channel of c's Sender still takes commands.
ChannelOpen(c) == open /\ of[c] = gen

Room == Len(queue) + Cardinality(Permits) < Capacity

\* reserve_command (try_reserve); send().await of terminal input waits for room.
Reserve(c) ==
    /\ at[c] = "sender"
    /\ \/ ChannelOpen(c) /\ Room /\ Move(c, "permit")
       \/ ChannelOpen(c) /\ ~Room /\ c \in Finite /\ Move(c, "refused")
       \/ ~ChannelOpen(c) /\ Move(c, "refused")
    /\ UNCHANGED <<sessionVars, jobVars, queue, of, ran, notices, exitVars>>

\* Fault: every job takes the slot of the remote forward.
TakeSlotAny(c) ==
    /\ at[c] = "permit"
    /\ c \in Transfers \cup Tunnels
    /\ IF slot = NoCall THEN slot' = c /\ Move(c, "slot")
                        ELSE UNCHANGED slot /\ Move(c, "refused")
    /\ UNCHANGED <<sessionVars, controls, cancelled, queue, of, ran, notices, exitVars>>

\* start_remote_forward: one remote forward per terminal.
TakeSlot(c) ==
    /\ at[c] = "permit"
    /\ Kind[c] = "remote"
    /\ IF slot = NoCall THEN slot' = c /\ Move(c, "slot")
                        ELSE UNCHANGED slot /\ Move(c, "refused")
    /\ UNCHANGED <<sessionVars, controls, cancelled, queue, of, ran, notices, exitVars>>

\* Insert the job's control under its registry lock, the Sender checked again.
Register(c) ==
    /\ \/ at[c] = "permit" /\ Kind[c] \in {"transfer", "forward"}
       \/ at[c] = "slot"
    /\ IF CurrentSender(c)
       THEN /\ Move(c, "ready")
            /\ controls' = controls \cup {c}
            /\ UNCHANGED <<cancelled, slot>>
       ELSE Move(c, "refused") /\ FinishJob(c)
    /\ UNCHANGED <<sessionVars, queue, of, ran, notices, exitVars>>

\* permit.send: never waits, and succeeds on a closed channel too.
Send(c) ==
    /\ \/ at[c] = "ready"
       \/ at[c] = "permit" /\ Kind[c] \in {"write", "operation"}
    /\ Move(c, "queued")
    /\ queue' = Append(queue, c)
    /\ UNCHANGED <<sessionVars, jobVars, of, ran, notices, exitVars>>

\* cancel_transfer, cancel_tunnel.
CancelJob(c) ==
    /\ c \in controls
    /\ Cancel({c})
    /\ UNCHANGED <<sessionVars, callVars, exitVars>>

CallStep(c) == Issue(c) \/ Reserve(c) \/ TakeSlot(c) \/ Register(c) \/ Send(c)

-----------------------------------------------------------------------------
\* connect: the terminal is registered under the lock that shutdown also takes.

\* Fault: a connection that completes after Quit is registered all the same.
MayRegisterAlways == TRUE

MayRegister == ~shutdown

Connect ==
    /\ stage = "connecting"
    /\ MayRegister
    /\ stage' = "shell"
    /\ registered' = TRUE
    /\ open' = TRUE
    /\ gen' = 1
    /\ UNCHANGED <<result, workers, jobVars, callVars, exitVars>>

ConnectFails ==
    /\ stage = "connecting"
    /\ stage' = "unconnected"
    /\ UNCHANGED <<result, gen, open, registered, workers, jobVars, callVars, exitVars>>

-----------------------------------------------------------------------------
\* run_shell_once, and the jobs it starts.

ShellEnds(how) ==
    /\ stage' = "retire"
    /\ result' = how
    /\ UNCHANGED <<gen, open, registered>>

\* Fault: the command is dropped without a word to its caller.
RejectSilently(c) ==
    /\ Move(c, "over")
    /\ FinishJob(c)
    /\ UNCHANGED <<of, ran, notices>>

\* reject_command: settle a command that will not run.
Reject(c) ==
    /\ Move(c, "over")
    /\ Notify(c)
    /\ FinishJob(c)
    /\ UNCHANGED <<of, ran>>

\* The loop head, or the close arm of the select, sees the flag.
ShellSeesClose ==
    /\ stage = "shell"
    /\ close \/ shutdown
    /\ ShellEnds("closed")
    /\ UNCHANGED <<workers, jobVars, callVars, exitVars>>

\* The remote shell exits, or its channel or transport fails.
ShellStops ==
    /\ stage = "shell"
    /\ \E how \in {"closed", "lost"} : ShellEnds(how)
    /\ UNCHANGED <<workers, jobVars, callVars, exitVars>>

\* Fault: a job that was told to stop is no longer counted.
BusyUntilCancelled(c) ==
    c \in Finite /\ Cardinality(Reaped \ cancelled) >= OperationLimit

\* Fault: entries that have ended are counted.
BusyUnreaped(c) == c \in Finite /\ Cardinality(workers) >= OperationLimit

\* admit_session_command: too many workers for one more.
Busy(c) == c \in Finite /\ Cardinality(Reaped) >= OperationLimit

\* commands.recv() wins the select although the terminal is closing.
ReceiveClosing(c) ==
    /\ close \/ shutdown
    /\ Reject(c)
    /\ ShellEnds("closed")
    /\ UNCHANGED workers

ReceiveBusy(c) ==
    /\ ~close /\ ~shutdown
    /\ Busy(c)
    /\ Reject(c)
    /\ workers' = Reaped
    /\ UNCHANGED <<stage, result, gen, open, registered>>

ReceiveStart(c) ==
    /\ ~close /\ ~shutdown
    /\ ~Busy(c)
    /\ Move(c, "running")
    /\ ran' = [ran EXCEPT ![c] = gen]
    /\ stage' = IF c \in Finite THEN "shell" ELSE "writing"
    /\ workers' = Reaped \cup ({c} \cap Finite)
    /\ UNCHANGED <<result, gen, open, registered, jobVars, of, notices>>

Receive ==
    /\ stage = "shell"
    /\ queue # <<>>
    /\ queue' = Tail(queue)
    /\ LET c == Head(queue)
       IN ReceiveClosing(c) \/ ReceiveBusy(c) \/ ReceiveStart(c)
    /\ UNCHANGED exitVars

\* run_shell_operation(writer.write): done; or the shell ends under it.
WriteEnds(c) ==
    /\ stage = "writing"
    /\ at[c] = "running" /\ Kind[c] = "write"
    /\ Move(c, "over")
    /\ \/ stage' = "shell" /\ UNCHANGED <<result, gen, open, registered>>
       \/ \E how \in {"closed", "lost"} : ShellEnds(how)
    /\ UNCHANGED <<workers, jobVars, queue, of, ran, notices, exitVars>>

\* Fault: the write is awaited without watching close.
WriteSeesCloseNever(c) == FALSE

\* Its close arm, which is polled first.
WriteSeesClose(c) ==
    /\ stage = "writing"
    /\ close
    /\ at[c] = "running" /\ Kind[c] = "write"
    /\ Move(c, "over")
    /\ ShellEnds("closed")
    /\ UNCHANGED <<workers, jobVars, queue, of, ran, notices, exitVars>>

\* A worker of spawn_session_operation sends its reply and ends.
OperationSettles(c) ==
    /\ at[c] = "running" /\ Kind[c] = "operation"
    /\ Move(c, "over")
    /\ Notify(c)
    /\ UNCHANGED <<sessionVars, jobVars, queue, of, ran, exitVars>>

\* run_transfer, run_local_forward, run_dynamic_forward, run_remote_forward emit
\* their terminal event (or a remote forward its refusal) ...
JobSettles(c) ==
    /\ at[c] = "running" /\ c \in Transfers \cup Tunnels
    /\ Move(c, "settled")
    /\ Notify(c)
    /\ UNCHANGED <<sessionVars, jobVars, queue, of, ran, exitVars>>

\* ... and then give up their control.
JobFinishes(c) ==
    /\ at[c] = "settled"
    /\ Move(c, "over")
    /\ FinishJob(c)
    /\ UNCHANGED <<sessionVars, queue, of, ran, notices, exitVars>>

-----------------------------------------------------------------------------
\* run_remote_session, after the shell.

Advance(from, to) ==
    /\ stage = from
    /\ stage' = to
    /\ UNCHANGED <<result, gen, registered>>

\* retire_command_queue: commands.close().
CloseQueue ==
    /\ Advance("retire", "retire_transfers")
    /\ open' = FALSE
    /\ UNCHANGED <<workers, jobVars, callVars, exitVars>>

\* cancel_for_terminal by the session task: while the queue is retired, before
\* the jobs are joined, and in remove.
SweepTransfers ==
    /\ \/ Advance("retire_transfers", "retire_tunnels")
       \/ Advance("finish_transfers", "finish_tunnels")
       \/ Advance("remove_transfers", "remove_tunnels")
    /\ Cancel(Transfers)
    /\ UNCHANGED <<open, workers, callVars, exitVars>>

SweepTunnels ==
    /\ \/ Advance("retire_tunnels", "drain")
       \/ Advance("finish_tunnels", "join")
       \/ Advance("remove_tunnels", "remove")
    /\ Cancel(Tunnels)
    /\ UNCHANGED <<open, workers, callVars, exitVars>>

\* recv() on the closed channel: a command ...
Drain ==
    /\ stage = "drain"
    /\ queue # <<>>
    /\ queue' = Tail(queue)
    /\ Reject(Head(queue))
    /\ UNCHANGED <<sessionVars, exitVars>>

\* Fault: try_recv, which does not wait for permits.
ExhaustedTry == queue = <<>>

\* The channel is at its end: nothing buffered, no permit out.
Exhausted == queue = <<>> /\ Permits = {}

\* ... or the end.
Drained ==
    /\ Advance("drain", "eof")
    /\ Exhausted
    /\ UNCHANGED <<open, workers, jobVars, callVars, exitVars>>

\* retire_shell_output: the transport has taken the end of input (SshShell says when).
ShellRetired ==
    /\ Advance("eof", "finish_transfers")
    /\ UNCHANGED <<open, workers, jobVars, callVars, exitVars>>

\* Fault: jobs without a control are taken to be over.
AllReleased == controls = {}

\* finish_session_operations: join_next returns None.
AllJoined == Reaped = {}

Joined ==
    /\ Advance("join", "decide")
    /\ AllJoined
    /\ workers' = {}
    /\ UNCHANGED <<open, jobVars, callVars, exitVars>>

\* The retry budget (next_shell_reconnect_count) is a choice here.
Decide ==
    /\ \/ Advance("decide", "remove_transfers")
       \/ result = "lost" /\ ~close /\ Advance("decide", "reconnecting")
    /\ UNCHANGED <<open, workers, jobVars, callVars, exitVars>>

\* reconnect_with_backoff: a new shell, or failed, or cancelled by close.
ReconnectEnds ==
    /\ \/ gen < MaxGeneration /\ Advance("reconnecting", "reopen")
       \/ Advance("reconnecting", "remove_transfers")
    /\ UNCHANGED <<open, workers, jobVars, callVars, exitVars>>

\* reopen_command_queue.
Reopen ==
    /\ stage = "reopen"
    /\ IF registered /\ ~shutdown /\ ~close /\ ~open
       THEN /\ stage' = "shell"
            /\ open' = TRUE
            /\ gen' = gen + 1
       ELSE /\ stage' = "remove_transfers"
            /\ UNCHANGED <<open, gen>>
    /\ UNCHANGED <<result, registered, workers, jobVars, callVars, exitVars>>

Remove ==
    /\ stage = "remove"
    /\ stage' = "report"
    /\ registered' = FALSE
    /\ UNCHANGED <<result, gen, open, workers, jobVars, callVars, exitVars>>

\* The Disconnected event, then finished.send_replace(true).
Report ==
    /\ Advance("report", "done")
    /\ UNCHANGED <<open, workers, jobVars, callVars, exitVars>>

-----------------------------------------------------------------------------
\* SshManager.close, also answer_authentication(None): signal, then sweep.

CloseSignal ==
    /\ closer = "idle"
    /\ registered
    /\ close' = TRUE
    /\ closer' = "transfers"
    /\ UNCHANGED <<sessionVars, jobVars, callVars, shutdown, quitter>>

CloseSweepTransfers ==
    /\ closer = "transfers"
    /\ closer' = "tunnels"
    /\ Cancel(Transfers)
    /\ UNCHANGED <<sessionVars, callVars, close, shutdown, quitter>>

CloseSweepTunnels ==
    /\ closer = "tunnels"
    /\ closer' = "idle"
    /\ Cancel(Tunnels)
    /\ UNCHANGED <<sessionVars, callVars, close, shutdown, quitter>>

CloserStep == CloseSweepTransfers \/ CloseSweepTunnels

\* SshManager.shutdown: flag and snapshot under the sessions lock, then for the
\* terminals found sweep and signal, then wait for each to be finished.
Quit ==
    /\ quitter = "idle"
    /\ shutdown' = TRUE
    /\ quitter' = IF registered THEN "transfers" ELSE "returned"
    /\ UNCHANGED <<sessionVars, jobVars, callVars, close, closer>>

QuitSweepTransfers ==
    /\ quitter = "transfers"
    /\ quitter' = "tunnels"
    /\ Cancel(Transfers)
    /\ UNCHANGED <<sessionVars, callVars, close, shutdown, closer>>

QuitSweepTunnels ==
    /\ quitter = "tunnels"
    /\ quitter' = "signal"
    /\ Cancel(Tunnels)
    /\ UNCHANGED <<sessionVars, callVars, close, shutdown, closer>>

QuitSignal ==
    /\ quitter = "signal"
    /\ quitter' = "wait"
    /\ close' = TRUE
    /\ UNCHANGED <<sessionVars, jobVars, callVars, shutdown, closer>>

QuitReturns ==
    /\ quitter = "wait"
    /\ stage = "done"
    /\ quitter' = "returned"
    /\ UNCHANGED <<sessionVars, jobVars, callVars, close, shutdown, closer>>

QuitStep == QuitSweepTransfers \/ QuitSweepTunnels \/ QuitSignal \/ QuitReturns

-----------------------------------------------------------------------------
\* What the session task does without any help from the remote host.
SessionStep ==
    \/ ShellSeesClose
    \/ Receive
    \/ \E c \in Calls : WriteSeesClose(c)
    \/ CloseQueue
    \/ SweepTransfers
    \/ SweepTunnels
    \/ Drain
    \/ Drained
    \/ ShellRetired
    \/ Joined
    \/ Decide
    \/ ReconnectEnds
    \/ Reopen
    \/ Remove
    \/ Report

\* What a worker does without any help: an operation has its own deadline, a
\* job that was cancelled stops, a settled job finishes.
SettlesAlone(c) == Kind[c] = "operation" \/ c \in cancelled

WorkerStep(c) ==
    \/ SettlesAlone(c) /\ (OperationSettles(c) \/ JobSettles(c))
    \/ JobFinishes(c)

\* The terminal is gone and no call on it is still running.
Terminated ==
    /\ stage \in {"done", "unconnected"}
    /\ \A c \in Calls : at[c] \in {"over", "refused"}
    /\ closer = "idle"
    /\ quitter = "returned"
    /\ UNCHANGED vars

Next ==
    \/ Connect \/ ConnectFails
    \/ ShellStops
    \/ SessionStep
    \/ \E c \in Calls :
          \/ CallStep(c) \/ BindFails(c) \/ CancelJob(c)
          \/ WriteEnds(c) \/ JobSettles(c) \/ WorkerStep(c)
    \/ CloseSignal \/ CloserStep
    \/ Quit \/ QuitStep
    \/ Terminated

Spec == Init /\ [][Next]_vars

\* The runtime polls every task that can make progress.  Nobody has to call a
\* command, close the terminal or quit, and no remote host has to answer.
Fairness ==
    /\ WF_vars(SessionStep)
    /\ \A c \in Calls : WF_vars(CallStep(c)) /\ WF_vars(WorkerStep(c))
    /\ WF_vars(CloserStep)
    /\ WF_vars(QuitStep)

FairSpec == Spec /\ Fairness

-----------------------------------------------------------------------------
\* Properties.

\* The connection of the terminal, if any, owes nothing to a caller.
Quiet == {"connecting", "unconnected", "decide", "reconnecting", "reopen",
          "remove_transfers", "remove_tunnels", "remove", "report", "done"}

\* A command that is buffered or running, or a permit for one, belongs to the
\* channel of the current connection, and every command that was ever started
\* was started on the connection whose queue accepted it: input and file
\* operations are not replayed on a replacement connection
\* (retire_command_queue, reopen_command_queue).
StaysHome ==
    \A c \in Calls :
        /\ at[c] \in {"permit", "slot", "ready", "queued", "running", "settled"}
              => of[c] = gen
        /\ ran[c] # 0 => ran[c] = of[c]

\* Before a replacement connection is attempted, and before Disconnected is
\* reported, no command or permit of the old connection is outstanding and no
\* control or remote-forward slot of the terminal is left in the registries.
NothingLeftBehind ==
    stage \in Quiet =>
        /\ queue = <<>>
        /\ Permits = {}
        /\ \A c \in Calls : at[c] \notin {"queued", "running", "settled"}
        /\ controls = {}
        /\ slot = NoCall

\* Once the session task waits for its jobs, each of them that does not end by
\* itself has been told to stop, however late its caller registered it:
\* otherwise Close would wait on a tunnel for ever.
ToldToStop ==
    stage = "join" =>
        \A c \in Transfers \cup Tunnels : at[c] = "running" => c \in cancelled

\* Nobody is told twice how a command ended, and nobody is left waiting.
ToldOnce ==
    \A c \in Finite : notices[c] = IF at[c] \in {"settled", "over"} THEN 1 ELSE 0

\* The terminal's remote forwards exclude each other from the moment the slot
\* is taken until the job is over, and a slot that is taken has such an owner.
OneRemoteForward ==
    \A c \in Remotes :
        at[c] \in {"slot", "ready", "queued", "running", "settled"} <=> slot = c

\* The session never runs more jobs than its limit, those included that were told to
\* stop and have not stopped yet; and a live session refuses a command for want of a
\* worker only while that many jobs really run, however many have ended unreaped.
WorkersBounded == Cardinality(Running) <= OperationLimit

RefusedOnlyWhenFull ==
    \A c \in Finite :
        /\ stage = "shell" /\ stage' = "shell"
        /\ at[c] = "queued" /\ at'[c] = "over"
        => Cardinality(Running) >= OperationLimit

Limits == []WorkersBounded /\ [][RefusedOnlyWhenFull]_vars

\* When shutdown() has returned, the terminal is not registered, its session
\* task has at most the Disconnected event left to emit (remove comes first, so
\* Quit may miss a session in between), and no call on it is between admission
\* and its end.
QuitLeavesNothing ==
    quitter = "returned" =>
        /\ ~registered
        /\ stage \in {"connecting", "unconnected", "report", "done"}
        /\ Permits = {} /\ Running = {} /\ queue = <<>> /\ controls = {}

\* A closed terminal comes to its end, whatever its shell, its jobs and its
\* callers are in the middle of.
CloseCompletes == close ~> stage = "done"

\* shutdown() returns.
QuitCompletes == shutdown ~> quitter = "returned"

\* The commands of the terminal keep their contract.
Window ==
    IF stage = "connecting" THEN "before"
    ELSE IF stage \in {"shell", "writing", "retire"} THEN "open"
    ELSE IF stage \in {"done", "unconnected"} THEN "ended"
    ELSE IF stage \in Quiet THEN "empty"
    ELSE "closing"

Phase ==
    [c \in Calls |->
        IF at[c] \in {"new", "sender", "permit", "slot", "ready"} THEN "new"
        ELSE IF at[c] = "queued" THEN "accepted"
        ELSE IF at[c] = "running" THEN "started"
        ELSE IF at[c] = "refused" THEN "refused"
        ELSE "settled"]

Home ==
    [c \in Calls |-> IF Phase[c] \in {"new", "refused"} THEN 0 ELSE of[c]]

Contract == INSTANCE SshCommandContract
    WITH window <- Window, connection <- gen, phase <- Phase, home <- Home

KeepsContract == Contract!ContractSpec

-----------------------------------------------------------------------------
\* The inductive invariant behind these properties.

\* Where a call holds a part of the channel, and where its job is alive.
Holding == {"permit", "slot", "ready"}
Alive == {"slot", "ready", "queued", "running", "settled"}

\* The stages after the channel has been drained, before the jobs are joined.
Finishing == {"eof", "finish_transfers", "finish_tunnels", "join"}

\* Which stages have an open channel and a registered terminal.
StagesAgree ==
    /\ open <=> stage \in {"shell", "writing", "retire"}
    /\ registered <=> stage \notin {"connecting", "unconnected", "report", "done"}

\* The buffer holds the queued calls, each once.
QueueAgrees ==
    /\ \A c \in Calls : at[c] = "queued" <=> \E i \in 1..Len(queue) : queue[i] = c
    /\ \A i, j \in 1..Len(queue) : queue[i] = queue[j] => i = j

\* After the drain nothing is held or buffered, after the join nothing runs; a
\* write runs only while the session task is in it.
StagesEmpty ==
    /\ stage \in Finishing \cup Quiet
          => \A c \in Calls : at[c] \notin Holding \cup {"queued"}
    /\ stage \in Quiet => \A c \in Calls : at[c] \notin {"running", "settled"}
    /\ \A c \in Calls : at[c] = "running" /\ c \notin Finite => stage = "writing"
    /\ \A c, d \in Calls \ Finite :
          at[c] = "running" /\ at[d] = "running" => c = d

\* A control belongs to a live job, and a live job without one was cancelled;
\* the sweeps of finish_session_operations leave no control behind.
ControlsAgree ==
    /\ \A c \in controls : at[c] \in {"ready", "queued", "running", "settled"}
    /\ \A c \in Transfers \cup Tunnels :
          at[c] \in {"ready", "queued", "running"} => c \in controls \cup cancelled
    /\ stage \in {"finish_tunnels", "join"} => controls \cap Transfers = {}
    /\ stage = "join" => controls \cap Tunnels = {}

\* Tunnels that take no slot, and commands that are no jobs, skip some places.
PlacesAgree ==
    \A c \in Calls :
        /\ at[c] = "slot" => c \in Remotes
        /\ at[c] \in {"ready", "settled"} => c \in Transfers \cup Tunnels
        /\ at[c] = "new" => ran[c] = 0

\* No job runs that the JoinSet has lost.
WorkersAgree == Running \subseteq workers

\* Who has returned from shutdown has set the flag, and found no terminal.
QuitAgrees ==
    /\ quitter # "idle" => shutdown
    /\ quitter = "returned" => ~registered

Inductive ==
    /\ TypeOK
    /\ StagesAgree
    /\ QueueAgrees
    /\ StagesEmpty
    /\ ControlsAgree
    /\ PlacesAgree
    /\ QuitAgrees
    /\ StaysHome
    /\ ToldOnce
    /\ OneRemoteForward
    /\ WorkersAgree
    /\ WorkersBounded
=============================================================================
