--------------------------- MODULE SerialTerminal ---------------------------
(***************************************************************************)
(* A serial terminal: run_serial_session (apps/desktop/src-tauri/src/      *)
(* serial.rs) over SerialConnection (crates/mobarust-serial/src/lib.rs).   *)
(* Reads and writes run on blocking workers that take turns at the port    *)
(* lock.  The session task waits for its worker for twice the driver       *)
(* timeout; a read that loses the select to a command is abandoned, but    *)
(* its worker stays in the line for the lock.                              *)
(*                                                                         *)
(* Time is counted in driver timeouts (io_timeout): an idle read holds the *)
(* lock for one of them, everything else takes no time, and whatever is    *)
(* due happens before time goes on.                                        *)
(***************************************************************************)
EXTENDS StreamTerminal, ConnectionLifecycle

\* The guard around every operation: io_timeout.saturating_mul(2).
Patience == 2

VARIABLES
    state,    \* ConnectionLifecycle.state
    told,     \* the latest serial://state event
    task,     \* where the session task is
    device,   \* the hardware
    arrived,  \* bytes that the driver has for a reader
    sent,     \* chunks the device has sent
    port,     \* the open handle in SerialConnection.port, by number; 0 for None
    handles,  \* handles opened so far
    mine,     \* the worker the session task waits for
    stale,    \* abandoned reads that wait for the port lock
    holder,   \* who has the port lock
    using,    \* the handle the holder works with
    held,     \* for how long
    waited    \* how long the session task has waited for its worker

sessionVars == <<state, told, task>>
deviceVars == <<device, arrived, sent>>
portVars == <<port, handles>>
workerVars == <<mine, stale, holder, using, held, waited>>
vars == <<streamVars, sessionVars, deviceVars, portVars, workerVars>>

TypeOK ==
    /\ StreamTypeOK
    /\ state \in LifecycleStates
    /\ told \in {"connected", "reconnecting", "disconnected", "failed"}
    /\ task \in {"select", "writing", "detaching", "opening", "opened", "ending",
                 "closing", "closed", "over"}
    /\ device \in {"well", "gone", "broken"}
    /\ arrived \in BOOLEAN /\ sent \in 0..MaxTexts
    /\ port \in 0..handles /\ handles \in Nat
    /\ mine \in {"none", "read", "write"} /\ stale \in Nat
    /\ holder \in {"none", "mine", "stale"} /\ using \in 0..handles
    /\ held \in 0..1 /\ waited \in 0..Patience

Init ==
    /\ StreamInit
    /\ state = "connected"
    /\ told = "connected"
    /\ task = "select"
    /\ device = "well"
    /\ arrived = FALSE
    /\ sent = 0
    /\ port = 1
    /\ handles = 1
    /\ mine = "none"
    /\ stale = 0
    /\ holder = "none"
    /\ using = 0
    /\ held = 0
    /\ waited = 0

-----------------------------------------------------------------------------
\* Callers, output and hardware.

OtherVars == <<sessionVars, deviceVars, portVars, workerVars>>

CallIssues(c) == Issue(c) /\ UNCHANGED OtherVars
CallSends(c) == Send(c) /\ UNCHANGED OtherVars
Attaches == Attach /\ UNCHANGED OtherVars
Emits == Emit /\ UNCHANGED OtherVars

DeviceSends ==
    /\ device = "well" /\ sent < MaxTexts
    /\ sent' = sent + 1
    /\ arrived' = TRUE
    /\ UNCHANGED <<streamVars, sessionVars, device, portVars, workerVars>>

\* Unplugged, plugged in again, or failing for good.
DeviceChanges ==
    /\ device' \in (IF device = "well" THEN {"gone", "broken"}
                    ELSE IF device = "gone" THEN {"well"} ELSE {})
    /\ arrived' = FALSE
    /\ UNCHANGED <<streamVars, sessionVars, sent, portVars, workerVars>>

-----------------------------------------------------------------------------
\* The workers.

\* A worker gets the lock, in no particular order, and finds the port or None.
Acquire ==
    /\ holder = "none"
    /\ \/ mine # "none" /\ holder' = "mine" /\ UNCHANGED stale
       \/ stale > 0 /\ holder' = "stale" /\ stale' = stale - 1
    /\ using' = port
    /\ held' = 0
    /\ UNCHANGED <<streamVars, sessionVars, deviceVars, portVars, mine, waited>>

Release == holder' = "none" /\ using' = 0 /\ held' = 0

\* Fault: a driver without a timeout.
StaleReadEndsLate ==
    /\ holder = "stale"
    /\ using = 0 \/ device # "well" \/ arrived
    /\ arrived' = (arrived /\ using = 0)
    /\ Release
    /\ UNCHANGED <<streamVars, sessionVars, device, sent, portVars, mine, stale, waited>>

\* An abandoned read ends: with the bytes that were there, which nobody gets,
\* with an error that nobody sees, or after the driver timeout.
StaleReadEnds ==
    /\ holder = "stale"
    /\ using = 0 \/ device # "well" \/ arrived \/ held = 1
    /\ arrived' = (arrived /\ using = 0)
    /\ Release
    /\ UNCHANGED <<streamVars, sessionVars, device, sent, portVars, mine, stale, waited>>

\* Everything that is due has happened.
Idle ==
    /\ holder = "none" => mine = "none" /\ stale = 0
    /\ holder # "none" => using # 0 /\ held = 0 /\ device = "well" /\ ~arrived
    /\ ~(holder = "mine" /\ mine = "write")
    /\ waited < Patience

Tick ==
    /\ Idle
    /\ held' = IF holder # "none" THEN held + 1 ELSE held
    /\ waited' = IF mine # "none" THEN waited + 1 ELSE waited
    /\ UNCHANGED <<streamVars, sessionVars, deviceVars, portVars, mine, stale, holder, using>>

-----------------------------------------------------------------------------
\* The read branch of the select.

Selecting == task = "select" /\ speaking = <<>>

StartRead ==
    /\ Selecting
    /\ state = "connected" /\ mine = "none"
    /\ mine' = "read"
    /\ waited' = 0
    /\ UNCHANGED <<streamVars, sessionVars, deviceVars, portVars, stale, holder, using, held>>

\* The session's own worker is done.
Done ==
    /\ holder = "mine"
    /\ Release
    /\ mine' = "none"
    /\ waited' = 0

ReadDelivers ==
    /\ Selecting /\ mine = "read"
    /\ device = "well" /\ arrived
    /\ Done
    /\ arrived' = FALSE
    /\ PublishFrom(using)
    /\ UNCHANGED <<registered, receiving, callVars, sessionVars, device, sent, portVars, stale>>

\* TimedOut and WouldBlock are an empty read.
ReadIdles ==
    /\ Selecting /\ mine = "read"
    /\ device = "well" /\ ~arrived /\ held = 1
    /\ Done
    /\ UNCHANGED <<streamVars, sessionVars, deviceVars, portVars, stale>>

\* DeviceDisconnected: mark_lost, and the event.
Lose ==
    /\ state' = Apply(state, "ConnectionLost")
    /\ told' = "reconnecting"
    /\ task' = "select"

\* Any other error ends the session.
Fail ==
    /\ told' = "failed"
    /\ task' = "ending"
    /\ UNCHANGED state

ReadFails ==
    /\ Selecting /\ mine = "read"
    /\ device # "well"
    /\ Done
    /\ IF device = "gone" THEN Lose ELSE Fail
    /\ UNCHANGED <<streamVars, deviceVars, portVars, stale>>

\* The session gives up on its worker, which stays in line or keeps the lock.
GiveUp ==
    /\ mine' = "none"
    /\ waited' = 0
    /\ IF holder = "mine" THEN holder' = "stale" /\ UNCHANGED stale
                          ELSE stale' = stale + 1 /\ UNCHANGED holder
    /\ UNCHANGED <<using, held>>

\* The guard expires before the worker is done.
ReadTimesOut ==
    /\ Selecting /\ mine = "read"
    /\ waited = Patience
    /\ ~(holder = "mine" /\ held = 1)
    /\ holder # "none"
    /\ GiveUp
    /\ Fail
    /\ UNCHANGED <<streamVars, deviceVars, portVars>>

-----------------------------------------------------------------------------
\* The command branch.  The read in progress, if any, is abandoned.

Serve(c) ==
    /\ task = "select"
    /\ Take(c)
    /\ UNCHANGED <<registered, receiving, outputVars, deviceVars, portVars>>

AbandonRead == IF mine = "read" THEN GiveUp ELSE UNCHANGED workerVars

\* An Enter that is framed as nothing (LineEnding::None), and a reconnect while
\* there is a connection.
SkipCommand(c) ==
    /\ Serve(c)
    /\ \/ Kind[c] = "enter"
       \/ Kind[c] = "reconnect" /\ state = "connected"
    /\ AbandonRead
    /\ UNCHANGED sessionVars

StartWrite(c) ==
    /\ Serve(c)
    /\ Kind[c] = "write" /\ state = "connected"
    /\ task' = "writing"
    /\ mine' = "write"
    /\ waited' = 0
    /\ stale' = IF mine = "read" /\ holder # "mine" THEN stale + 1 ELSE stale
    /\ holder' = IF holder = "mine" THEN "stale" ELSE holder
    /\ UNCHANGED <<state, told, using, held>>

\* write finds no connection: the event says Failed, and the session goes on.
RefuseWrite(c) ==
    /\ Serve(c)
    /\ Kind[c] = "write" /\ state # "connected"
    /\ told' = "failed"
    /\ UNCHANGED <<state, task, workerVars>>

WriteEnds ==
    /\ task = "writing"
    /\ Done
    /\ IF device = "well" THEN task' = "select" /\ UNCHANGED <<state, told>>
       ELSE IF device = "gone" THEN Lose ELSE Fail
    /\ UNCHANGED <<streamVars, deviceVars, portVars, stale>>

\* Its worker stays in line like an abandoned read, and writes in the end.
WriteTimesOut ==
    /\ task = "writing"
    /\ waited = Patience /\ holder = "stale"
    /\ GiveUp
    /\ Fail
    /\ UNCHANGED <<streamVars, deviceVars, portVars>>

StartReconnect(c) ==
    /\ Serve(c)
    /\ Kind[c] = "reconnect" /\ state # "connected"
    /\ state' = Apply(state, "BeginReconnect")
    /\ told' = "reconnecting"
    /\ task' = "detaching"
    /\ UNCHANGED workerVars

StartClose(c) ==
    /\ Serve(c)
    /\ Kind[c] = "close"
    /\ AbandonRead
    /\ task' = "ending"
    /\ UNCHANGED <<state, told>>

\* Fault: the handle is replaced while a worker is using it.
PortFreeAlways == TRUE

\* take_port waits for the lock.
PortFree == holder = "none"

DetachPort ==
    /\ task = "detaching" /\ PortFree
    /\ port' = 0
    /\ task' = "opening"
    /\ UNCHANGED <<streamVars, state, told, deviceVars, handles, workerVars>>

\* An error, or open_timeout.
OpenFails ==
    /\ task = "opening"
    /\ state' = Apply(state, "Fail")
    /\ told' = "failed"
    /\ task' = "select"
    /\ UNCHANGED <<streamVars, deviceVars, portVars, workerVars>>

\* The new handle is stored under the lock, and the decoder is emptied.
OpenSucceeds ==
    /\ task = "opening" /\ device # "gone" /\ PortFree
    /\ handles' = handles + 1
    /\ port' = handles + 1
    /\ state' = Apply(Apply(state, "BeginAuthentication"), "AuthenticationSucceeded")
    /\ task' = "opened"
    /\ FinishOutput
    /\ UNCHANGED <<registered, receiving, callVars, told, deviceVars, workerVars>>

ReconnectDone ==
    /\ task = "opened" /\ speaking = <<>>
    /\ told' = "connected"
    /\ task' = "select"
    /\ UNCHANGED <<streamVars, state, deviceVars, portVars, workerVars>>

-----------------------------------------------------------------------------
\* The end of the session.

\* The rest of the output, then close: DisconnectRequested (not from failed),
\* take_port ...
Close ==
    /\ task = "ending"
    /\ FinishOutput
    /\ state' = IF state = "failed" THEN state ELSE Apply(state, "DisconnectRequested")
    /\ task' = "closing"
    /\ UNCHANGED <<registered, receiving, callVars, told, deviceVars, portVars, workerVars>>

\* ... Disconnected, and the two last events.
ClosePort ==
    /\ task = "closing" /\ speaking = <<>> /\ PortFree
    /\ port' = 0
    /\ state' = Apply(state, "Disconnected")
    /\ told' = "disconnected"
    /\ task' = "closed"
    /\ UNCHANGED <<streamVars, deviceVars, handles, workerVars>>

Forget ==
    /\ task = "closed" /\ registered
    /\ Remove
    /\ UNCHANGED OtherVars

End ==
    /\ task = "closed" /\ ~registered
    /\ task' = "over"
    /\ Leave
    /\ UNCHANGED <<state, told, deviceVars, portVars, workerVars>>

-----------------------------------------------------------------------------
WorkerStep == Acquire \/ StaleReadEnds

SessionStep ==
    \/ Emits
    \/ StartRead \/ ReadDelivers \/ ReadIdles \/ ReadFails \/ ReadTimesOut
    \/ WriteEnds \/ WriteTimesOut
    \/ DetachPort \/ OpenFails \/ OpenSucceeds \/ ReconnectDone
    \/ Close \/ ClosePort \/ Forget \/ End

CommandStep(c) ==
    SkipCommand(c) \/ StartWrite(c) \/ RefuseWrite(c) \/ StartReconnect(c) \/ StartClose(c)

Next ==
    \/ \E c \in Calls : CallIssues(c) \/ CallSends(c)
    \/ Attaches
    \/ DeviceSends \/ DeviceChanges
    \/ WorkerStep \/ Tick
    \/ SessionStep
    \/ \E c \in Calls : CommandStep(c)

Spec == Init /\ [][Next]_vars

\* A driver call ends within its timeout and the session task sees it, however
\* often the device comes and goes meanwhile; the select takes a command that is
\* there again and again, as it polls its branches in random order.
Fairness ==
    /\ SF_vars(WorkerStep \/ Tick \/ SessionStep)
    /\ SF_vars(\E c \in Calls : CommandStep(c))

FairSpec == Spec /\ Fairness

-----------------------------------------------------------------------------
\* Properties.

\* A worker never works with a handle that has been replaced or closed
\* (take_port, and docs/testing/hardware-interoperability.md: "no stale handle
\* is reused").
NoStaleHandle == using \in {0, port}

\* What the renderer has been told holds: with Connected there is a port, and no
\* text mixes the bytes of two handles; with Failed a reconnect is accepted (ADR
\* 0016: reconnect "leaves a failed attempt retryable").
ToldTheTruth ==
    /\ told = "connected" => carry \in {0, port}
    /\ task = "select" /\ told = "connected" => state = "connected" /\ port # 0
    /\ task = "select" /\ told = "failed" => state \in {"reconnecting", "failed"}

\* As long as its device is well, a session ends by a close only: "an idle read
\* is not a session failure" (crates/mobarust-serial/tests/local_pty.rs).
EndsByCloseOnly ==
    [][task # "ending" /\ task' = "ending" /\ device = "well" =>
          \E c \in Calls : Kind[c] = "close" /\ at[c] = "queued" /\ at'[c] = "taken"]_vars

\* Every accepted command is served or, after the end, dropped; and close() ends the
\* session, whatever the device is doing.
CommandsServed ==
    \A c \in Calls :
        /\ at[c] = "queued" ~> at[c] \in {"taken", "dropped"}
        /\ Kind[c] = "close" /\ at[c] = "queued" ~> task = "over"
=============================================================================
