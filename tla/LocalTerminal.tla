---------------------------- MODULE LocalTerminal ----------------------------
(***************************************************************************)
(* TerminalManager (apps/desktop/src-tauri/src/terminal.rs): terminals     *)
(* that are children of this process on a PTY.  Four kinds of thread work  *)
(* on a terminal: the one that runs the synchronous commands (spawn and    *)
(* close), the asynchronous attach and write, the stream thread that waits *)
(* for attachment, forwards output and reports the end, and the thread of  *)
(* shutdown.  Whoever stops a child must also reap it, and exactly one     *)
(* place must own it until then.                                           *)
(***************************************************************************)
EXTENDS Naturals

CONSTANTS
    Terminals,  \* terminals the user opens
    Attachers,  \* calls of attach on each of them
    Stubborn,   \* terminals whose child may resist kill (an I/O error)
    Quitters,   \* calls of shutdown
    Nobody      \* no terminal

ASSUME StubbornAssumption == Stubborn \subseteq Terminals
ASSUME NobodyAssumption == Nobody \notin Terminals
ASSUME AttachersAssumption == Attachers \cap {"main", "reader", "quit"} = {}

\* Who can run cleanup_session on a terminal.
Cleaners == {"main", "reader", "quit"} \cup Attachers

VARIABLES
    child,       \* the native process of each terminal
    registered,  \* TerminalManager.sessions
    closing,     \* TerminalSession.closing
    start,       \* TerminalSession.start: the way to release the reader
    stream,      \* the stream thread
    input,       \* who holds the writer lock
    startups,    \* how often the saved startup command was submitted
    attach,      \* progress of each attach
    typing,      \* progress of a write on each terminal
    cleanup,     \* progress of close or cleanup_session, for each cleaner
    main,        \* the terminal the synchronous command is about
    phase,       \* ShutdownPhase
    failed,      \* its Complete { failed }
    quitting     \* progress of each shutdown call

vars == <<child, registered, closing, start, stream, input, startups, attach,
          typing, cleanup, main, phase, failed, quitting>>

TypeOK ==
    /\ child \in [Terminals -> {"none", "running", "exited", "reaped"}]
    /\ registered \subseteq Terminals
    /\ closing \subseteq Terminals
    /\ start \in [Terminals -> {"none", "held", "taken", "sent", "dropped"}]
    /\ stream \in [Terminals -> {"none", "waiting", "streaming", "ending", "over"}]
    /\ input \in [Terminals -> {"free", "startup", "typing"}]
    /\ startups \in [Terminals -> {0, 1}]
    /\ attach \in [Terminals -> [Attachers ->
          {"idle", "found", "taken", "startup", "writing", "close", "ok", "failed"}]]
    /\ typing \in [Terminals -> {"idle", "found", "writing"}]
    /\ cleanup \in [Terminals -> [Cleaners ->
          {"idle", "find", "mark", "cancel", "reap", "take", "done"}]]
    /\ main \in Terminals \cup {Nobody}
    /\ phase \in {"open", "closing", "cleaning", "complete"}
    /\ failed \in BOOLEAN
    /\ quitting \in [Quitters -> {"idle", "waiting", "returned"}]

Init ==
    /\ child = [t \in Terminals |-> "none"]
    /\ registered = {}
    /\ closing = {}
    /\ start = [t \in Terminals |-> "none"]
    /\ stream = [t \in Terminals |-> "none"]
    /\ input = [t \in Terminals |-> "free"]
    /\ startups = [t \in Terminals |-> 0]
    /\ attach = [t \in Terminals |-> [a \in Attachers |-> "idle"]]
    /\ typing = [t \in Terminals |-> "idle"]
    /\ cleanup = [t \in Terminals |-> [k \in Cleaners |-> "idle"]]
    /\ main = Nobody
    /\ phase = "open"
    /\ failed = FALSE
    /\ quitting = [q \in Quitters |-> "idle"]

-----------------------------------------------------------------------------
\* Shared pieces.

\* session(): the terminal can be found and is not being closed.
Session(t) == t \in registered /\ t \notin closing

\* The id of the terminal has been returned to the renderer.
Published(t) == stream[t] # "none"

Step(t, k, from, to) ==
    /\ cleanup[t][k] = from
    /\ cleanup' = [cleanup EXCEPT ![t][k] = to]

Attach(t, a, from, to) ==
    /\ attach[t][a] = from
    /\ attach' = [attach EXCEPT ![t][a] = to]

-----------------------------------------------------------------------------
\* spawn: the child first, then the registry, then the stream thread.

Spawn(t) ==
    /\ main = Nobody
    /\ child[t] = "none"
    /\ phase = "open"
    /\ main' = t
    /\ child' = [child EXCEPT ![t] = "running"]
    /\ start' = [start EXCEPT ![t] = "held"]
    /\ UNCHANGED <<registered, closing, stream, input, startups, attach, typing, cleanup,
                   phase, failed, quitting>>

\* The reader or the writer of the PTY cannot be had: only the child is cleaned up.
SpawnFails(t) ==
    /\ main = t
    /\ t \notin registered \cup closing
    /\ stream[t] = "none" /\ cleanup[t]["quit"] = "idle"
    /\ Step(t, "main", "idle", "reap")
    /\ UNCHANGED <<child, registered, closing, start, stream, input, startups, attach,
                   typing, main, phase, failed, quitting>>

MayPublish == phase = "open"

\* register_session: a child that comes too late is cleaned up instead.
Register(t) ==
    /\ main = t
    /\ t \notin registered \cup closing
    /\ stream[t] = "none" /\ cleanup[t]["main"] = "idle" /\ cleanup[t]["quit"] = "idle"
    /\ IF MayPublish
       THEN registered' = registered \cup {t} /\ UNCHANGED cleanup
       ELSE cleanup' = [cleanup EXCEPT ![t]["main"] = "mark"] /\ UNCHANGED registered
    /\ UNCHANGED <<child, closing, start, stream, input, startups, attach, typing, main,
                   phase, failed, quitting>>

\* The stream thread starts and the id is returned, or it cannot be started.
StartStream(t) ==
    /\ main = t
    /\ stream[t] = "none" /\ cleanup[t]["main"] = "idle"
    /\ t \in registered \/ cleanup[t]["quit"] # "idle"
    /\ \/ /\ stream' = [stream EXCEPT ![t] = "waiting"]
          /\ main' = Nobody
          /\ UNCHANGED cleanup
       \/ Step(t, "main", "idle", "find") /\ UNCHANGED <<stream, main>>
    /\ UNCHANGED <<child, registered, closing, start, input, startups, attach, typing,
                   phase, failed, quitting>>

\* The process ends by itself.
Exit(t) ==
    /\ child[t] = "running"
    /\ child' = [child EXCEPT ![t] = "exited"]
    /\ UNCHANGED <<registered, closing, start, stream, input, startups, attach, typing,
                   cleanup, main, phase, failed, quitting>>

-----------------------------------------------------------------------------
\* close: look the session up, mark it, cancel its start, stop and reap the
\* child under its lock, and only then take it out of the registry.

\* terminal_close.
CloseCommand(t) ==
    /\ main = Nobody
    /\ Published(t)
    /\ main' = t
    /\ Step(t, "main", "idle", "find")
    /\ UNCHANGED <<child, registered, closing, start, stream, input, startups, attach,
                   typing, phase, failed, quitting>>

Find(t, k) ==
    /\ \/ Session(t) /\ Step(t, k, "find", "mark")
       \/ ~Session(t) /\ Step(t, k, "find", "done")
    /\ UNCHANGED <<child, registered, closing, start, stream, input, startups, attach,
                   typing, main, phase, failed, quitting>>

\* Fault: the session is taken out as soon as it is found.
MarkAndTake(t, k) ==
    /\ Step(t, k, "mark", "cancel")
    /\ k = "quit" => \A u \in Terminals : cleanup[u][k] \in {"idle", "mark", "done"}
    /\ closing' = closing \cup {t}
    /\ registered' = registered \ {t}
    /\ UNCHANGED <<child, start, stream, input, startups, attach, typing, main, phase,
                   failed, quitting>>

\* finish_shutdown cleans up one session after the other.
Mark(t, k) ==
    /\ Step(t, k, "mark", "cancel")
    /\ k = "quit" => \A u \in Terminals : cleanup[u][k] \in {"idle", "mark", "done"}
    /\ closing' = closing \cup {t}
    /\ UNCHANGED <<child, registered, start, stream, input, startups, attach, typing, main,
                   phase, failed, quitting>>

CancelStart(t, k) ==
    /\ Step(t, k, "cancel", "reap")
    /\ start' = IF start[t] = "held" THEN [start EXCEPT ![t] = "dropped"] ELSE start
    /\ UNCHANGED <<child, registered, closing, stream, input, startups, attach, typing,
                   main, phase, failed, quitting>>

\* Fault: cleanup needs the writer, as a graceful exit command would.
MayReapIdle(t) == input[t] = "free"

\* cleanup_child takes the child lock, never the writer lock.
MayReap(t) == TRUE

\* spawn and finish_shutdown have nothing to take; close has.
AfterReap(t, k) ==
    IF k = "quit" \/ (k = "main" /\ t \notin registered) THEN "done" ELSE "take"

Reap(t, k) ==
    /\ MayReap(t)
    /\ Step(t, k, "reap", AfterReap(t, k))
    /\ child' = [child EXCEPT ![t] = "reaped"]
    /\ UNCHANGED <<registered, closing, start, stream, input, startups, attach, typing,
                   main, phase, failed, quitting>>

\* try_wait or kill fails: close gives up, and the session stays registered.
ReapFails(t, k) ==
    /\ t \in Stubborn
    /\ child[t] = "running"
    /\ Step(t, k, "reap", "done")
    /\ failed' = (failed \/ k = "quit")
    /\ UNCHANGED <<child, registered, closing, start, stream, input, startups, attach,
                   typing, main, phase, quitting>>

Take(t, k) ==
    /\ Step(t, k, "take", "done")
    /\ registered' = registered \ {t}
    /\ UNCHANGED <<child, closing, start, stream, input, startups, attach, typing, main,
                   phase, failed, quitting>>

\* The synchronous command returns.
MainReturns(t) ==
    /\ main = t
    /\ Step(t, "main", "done", "idle")
    /\ main' = Nobody
    /\ UNCHANGED <<child, registered, closing, start, stream, input, startups, attach,
                   typing, phase, failed, quitting>>

CleanupStep(t, k) ==
    Find(t, k) \/ Mark(t, k) \/ CancelStart(t, k) \/ Reap(t, k) \/ Take(t, k)

-----------------------------------------------------------------------------
\* attach: take the start, release the reader, submit the startup command.

AttachFinds(t, a) ==
    /\ Published(t)
    /\ \/ Session(t) /\ Attach(t, a, "idle", "found")
       \/ ~Session(t) /\ Attach(t, a, "idle", "failed")
    /\ UNCHANGED <<child, registered, closing, start, stream, input, startups, typing,
                   cleanup, main, phase, failed, quitting>>

\* Fault: the start is read, not taken.
AttachPeeks(t, a) ==
    /\ IF start[t] \in {"held", "taken", "sent"}
       THEN Attach(t, a, "found", "taken") /\ start' = [start EXCEPT ![t] = "taken"]
       ELSE Attach(t, a, "found", "failed") /\ UNCHANGED start
    /\ UNCHANGED <<child, registered, closing, stream, input, startups, typing, cleanup,
                   main, phase, failed, quitting>>

\* AlreadyAttached for whoever comes second.
AttachTakes(t, a) ==
    /\ IF start[t] = "held"
       THEN Attach(t, a, "found", "taken") /\ start' = [start EXCEPT ![t] = "taken"]
       ELSE Attach(t, a, "found", "failed") /\ UNCHANGED start
    /\ UNCHANGED <<child, registered, closing, stream, input, startups, typing, cleanup,
                   main, phase, failed, quitting>>

\* ready.send fails only when the stream thread is gone with its receiver.
AttachReleases(t, a) ==
    /\ IF stream[t] # "over"
       THEN \E next \in {"startup", "ok"} : Attach(t, a, "taken", next)
       ELSE Attach(t, a, "taken", "close")
    /\ start' = [start EXCEPT ![t] = IF stream[t] # "over" THEN "sent" ELSE "dropped"]
    /\ UNCHANGED <<child, registered, closing, stream, input, startups, typing, cleanup,
                   main, phase, failed, quitting>>

\* The saved command goes through write like any input.
AttachWrites(t, a) ==
    /\ IF Session(t) /\ input[t] = "free"
       THEN /\ Attach(t, a, "startup", "writing")
            /\ input' = [input EXCEPT ![t] = "startup"]
            /\ startups' = [startups EXCEPT ![t] = @ + 1]
       ELSE Attach(t, a, "startup", "close") /\ UNCHANGED <<input, startups>>
    /\ UNCHANGED <<child, registered, closing, start, stream, typing, cleanup, main, phase,
                   failed, quitting>>

\* The blocking write returns; it cannot fail while the child is running, and a
\* child that does not read keeps it waiting.
AttachWrote(t, a) ==
    /\ \/ Attach(t, a, "writing", "ok")
       \/ child[t] # "running" /\ Attach(t, a, "writing", "close")
    /\ input' = [input EXCEPT ![t] = "free"]
    /\ UNCHANGED <<child, registered, closing, start, stream, startups, typing, cleanup,
                   main, phase, failed, quitting>>

\* An attachment that failed half-way closes its terminal.
AttachCloses(t, a) ==
    /\ attach[t][a] = "close"
    /\ \/ Step(t, a, "idle", "find") /\ UNCHANGED attach
       \/ /\ cleanup[t][a] = "done"
          /\ Attach(t, a, "close", "failed")
          /\ UNCHANGED cleanup
    /\ UNCHANGED <<child, registered, closing, start, stream, input, startups, typing, main,
                   phase, failed, quitting>>

\* write: reserve the writer without waiting, then write on a worker thread.
TypeFinds(t) ==
    /\ Published(t)
    /\ Session(t)
    /\ typing[t] = "idle"
    /\ typing' = [typing EXCEPT ![t] = "found"]
    /\ UNCHANGED <<child, registered, closing, start, stream, input, startups, attach,
                   cleanup, main, phase, failed, quitting>>

TypeReserves(t) ==
    /\ typing[t] = "found"
    /\ IF input[t] = "free"
       THEN /\ typing' = [typing EXCEPT ![t] = "writing"]
            /\ input' = [input EXCEPT ![t] = "typing"]
       ELSE typing' = [typing EXCEPT ![t] = "idle"] /\ UNCHANGED input
    /\ UNCHANGED <<child, registered, closing, start, stream, startups, attach, cleanup,
                   main, phase, failed, quitting>>

TypeWrote(t) ==
    /\ typing[t] = "writing"
    /\ typing' = [typing EXCEPT ![t] = "idle"]
    /\ input' = [input EXCEPT ![t] = "free"]
    /\ UNCHANGED <<child, registered, closing, start, stream, startups, attach, cleanup,
                   main, phase, failed, quitting>>

-----------------------------------------------------------------------------
\* The stream thread.

\* ready.recv_timeout: released, the start dropped, or nobody in ATTACH_TIMEOUT.
StreamReleased(t) ==
    /\ stream[t] = "waiting"
    /\ start[t] = "sent"
    /\ stream' = [stream EXCEPT ![t] = "streaming"]
    /\ UNCHANGED <<child, registered, closing, start, input, startups, attach, typing,
                   cleanup, main, phase, failed, quitting>>

\* Fault: the end is reported without a cleanup.
AfterWaitReport == "over"

AfterWait == "ending"

StreamGivesUp(t) ==
    /\ stream[t] = "waiting"
    /\ stream' = [stream EXCEPT ![t] = AfterWait]
    /\ UNCHANGED <<child, registered, closing, start, input, startups, attach, typing,
                   cleanup, main, phase, failed, quitting>>

\* stream_output ends: the reader met the end of the PTY, or was never started.
StreamEnds(t) ==
    /\ stream[t] = "streaming"
    /\ stream' = [stream EXCEPT ![t] = "ending"]
    /\ UNCHANGED <<child, registered, closing, start, input, startups, attach, typing,
                   cleanup, main, phase, failed, quitting>>

\* cleanup_stream_session, then the terminal://closed event.
StreamReports(t) ==
    /\ stream[t] = "ending"
    /\ \/ Step(t, "reader", "idle", "find") /\ UNCHANGED stream
       \/ /\ cleanup[t]["reader"] = "done"
          /\ stream' = [stream EXCEPT ![t] = "over"]
          /\ UNCHANGED cleanup
    /\ UNCHANGED <<child, registered, closing, start, input, startups, attach, typing, main,
                   phase, failed, quitting>>

-----------------------------------------------------------------------------
\* shutdown: the first call seals the manager and starts finish_shutdown; every
\* call waits for its completion.

Shutdown(q) ==
    /\ quitting[q] = "idle"
    /\ quitting' = [quitting EXCEPT ![q] = "waiting"]
    /\ phase' = IF phase = "open" THEN "closing" ELSE phase
    /\ UNCHANGED <<child, registered, closing, start, stream, input, startups, attach,
                   typing, cleanup, main, failed>>

TakeSessions ==
    /\ phase = "closing"
    /\ phase' = "cleaning"
    /\ registered' = {}
    /\ cleanup' = [t \in Terminals |->
                      IF t \in registered THEN [cleanup[t] EXCEPT !["quit"] = "mark"]
                                          ELSE cleanup[t]]
    /\ UNCHANGED <<child, closing, start, stream, input, startups, attach, typing, main,
                   failed, quitting>>

Complete ==
    /\ phase = "cleaning"
    /\ \A t \in Terminals : cleanup[t]["quit"] \in {"idle", "done"}
    /\ phase' = "complete"
    /\ UNCHANGED <<child, registered, closing, start, stream, input, startups, attach,
                   typing, cleanup, main, failed, quitting>>

\* Fault: a repeated shutdown is satisfied by an emptied registry.
MayReturnEmpty == phase # "open" /\ registered = {}

MayReturn == phase = "complete"

ShutdownReturns(q) ==
    /\ quitting[q] = "waiting"
    /\ MayReturn
    /\ quitting' = [quitting EXCEPT ![q] = "returned"]
    /\ UNCHANGED <<child, registered, closing, start, stream, input, startups, attach,
                   typing, cleanup, main, phase, failed>>

-----------------------------------------------------------------------------
MainStep(t) == Register(t) \/ StartStream(t) \/ MainReturns(t)

AttachStep(t, a) ==
    AttachTakes(t, a) \/ AttachReleases(t, a) \/ AttachWrites(t, a) \/ AttachCloses(t, a)

StreamStep(t) ==
    \/ StreamReleased(t)
    \/ StreamGivesUp(t)
    \/ child[t] # "running" /\ StreamEnds(t)
    \/ StreamReports(t)

ShutdownStep == TakeSessions \/ Complete \/ \E q \in Quitters : ShutdownReturns(q)

\* A write into the PTY of a child that is gone returns.
WriteReturns(t) ==
    /\ child[t] # "running"
    /\ TypeWrote(t) \/ \E a \in Attachers : AttachWrote(t, a)

TerminalNext(t) ==
    \/ Spawn(t) \/ SpawnFails(t) \/ MainStep(t) \/ CloseCommand(t) \/ Exit(t)
    \/ \E k \in Cleaners : CleanupStep(t, k) \/ ReapFails(t, k)
    \/ \E a \in Attachers : AttachFinds(t, a) \/ AttachStep(t, a) \/ AttachWrote(t, a)
    \/ TypeFinds(t) \/ TypeReserves(t) \/ TypeWrote(t)
    \/ StreamStep(t) \/ StreamEnds(t)

Next ==
    \/ \E t \in Terminals : TerminalNext(t)
    \/ ShutdownStep
    \/ \E q \in Quitters : Shutdown(q)

Spec == Init /\ [][Next]_vars

\* Threads run, and ATTACH_TIMEOUT expires.  Nobody has to spawn, attach, type,
\* close or quit, and no child has to read its input or to exit.
Fairness ==
    /\ \A t \in Terminals :
          /\ WF_vars(MainStep(t))
          /\ WF_vars(StreamStep(t))
          /\ WF_vars(TypeReserves(t) \/ WriteReturns(t))
          /\ \A k \in Cleaners : WF_vars(CleanupStep(t, k))
          /\ \A a \in Attachers : WF_vars(AttachStep(t, a))
    /\ WF_vars(ShutdownStep)

FairSpec == Spec /\ Fairness

-----------------------------------------------------------------------------
\* Properties.

\* Between fork and wait, exactly one place is responsible for a child: the
\* registry, the spawn that has not published it yet, or the shutdown that took
\* the registry over.  The only exception is a child whose kill failed in one of
\* the two places that do not try again: a refused spawn, and shutdown.
ChildOwned ==
    \A t \in Terminals :
        child[t] \in {"running", "exited"} =>
            \/ t \in registered
            \/ main = t /\ stream[t] = "none"
            \/ cleanup[t]["quit"] \in {"mark", "cancel", "reap"}
            \/ t \in Stubborn /\ (stream[t] = "none" \/ cleanup[t]["quit"] = "done")

\* "All shutdown callers share completion": whichever call of shutdown returns,
\* every child the manager ever published has been reaped, unless the shutdown
\* itself reports a failure.
QuitReaps ==
    (\E q \in Quitters : quitting[q] = "returned") /\ ~failed =>
        \A t \in Terminals : Published(t) => child[t] = "reaped"

\* The saved startup command is submitted at most once, whatever attachments
\* race, and two attachments never both succeed.
StartupOnce ==
    \A t \in Terminals :
        /\ startups[t] <= 1
        /\ \A a, b \in Attachers :
              attach[t][a] \in {"startup", "writing", "ok"}
              /\ attach[t][b] \in {"startup", "writing", "ok"} => a = b

\* The synchronous commands return although input is blocked in a child that
\* does not read (close stops the child without the writer), and so does Quit.
CommandsReturn ==
    /\ \A t \in Terminals : main = t ~> main # t
    /\ \A q \in Quitters : quitting[q] = "waiting" ~> quitting[q] = "returned"

\* Every child that ends is reaped and, if its id was published, reported closed,
\* attached or not.
EndIsReported ==
    \A t \in Terminals :
        child[t] \in {"exited", "reaped"} ~>
            child[t] = "reaped" /\ stream[t] \in {"none", "over"}
=============================================================================
