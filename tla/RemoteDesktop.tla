---------------------------- MODULE RemoteDesktop ----------------------------
(***************************************************************************)
(* RemoteDesktopManager (remote_desktop.rs) and one session: start, the    *)
(* task that reads the helper's events, the one that writes its commands,  *)
(* and the send and stop of the window.  The framebuffer is DesktopFrames. *)
(***************************************************************************)
EXTENDS DesktopHelper

CONSTANTS
    Capacity,  \* COMMAND_CAPACITY
    Inputs     \* bound: inputs the window sends

ASSUME DesktopAssumption == Capacity \in Nat /\ Inputs \in Nat

VARIABLES
    starter,       \* start: "sending", "reaping", then "returned" or "refused"
    registered,    \* the session is in `sessions`
    stopRequested,
    phase,         \* it is Active
    progress,      \* HelperEventProgress: what was seen, and data_phase
    reader, event, \* read_helper_events and what it has in hand
    writer,        \* write_helper_commands
    commands, inputs,
    sender,        \* send: "idle" or "checked"
    stopper,       \* stop: "idle", "removed", "sent" or "done"
    said,          \* the states the window was told; "revived": one after a final one
    blames,        \* unexpected ends the manager reported by itself
    verdict        \* why the reader ended

desktopVars == <<helperVars, starter, registered, stopRequested, phase, progress,
                 reader, event, writer, commands, inputs, sender, stopper, said, blames, verdict>>

taskVars == <<phase, progress, reader, event, verdict>>
callVars == <<starter, registered, commands, inputs, sender, stopper>>

DesktopTypeOK ==
    /\ HelperTypeOK
    /\ starter \in {"sending", "reaping", "returned", "refused"}
    /\ {registered, stopRequested, phase} \subseteq BOOLEAN
    /\ progress \in [seen : SUBSET {"hello", "starting", "ready", "capabilities"},
                     data : {"capabilities", "active", "data"}]
    /\ reader \in {"none", "reading", "delivering", "ending", "over"}
    /\ event \in HelperEvents \cup {"none"}
    /\ writer \in {"none", "idle", "reaping", "over"}
    /\ commands \in Seq({"input", "stop"}) /\ Len(commands) <= Capacity
    /\ inputs \in 0..Inputs
    /\ sender \in {"idle", "checked"}
    /\ stopper \in {"idle", "removed", "sent", "done"}
    /\ said \in {"nothing", "live", "final", "revived"}
    /\ blames \in 0..2
    /\ verdict \in {"none", "eof", "timeout", "garbled", "rejected", "final", "undelivered"}

NothingSeen == [seen |-> {}, data |-> "capabilities"]

DesktopInit ==
    /\ HelperInit
    /\ starter = "sending"
    /\ registered = FALSE /\ stopRequested = FALSE
    /\ phase = FALSE
    /\ progress = NothingSeen
    /\ reader = "none" /\ event = "none" /\ writer = "none"
    /\ commands = <<>> /\ inputs = 0
    /\ sender = "idle" /\ stopper = "idle"
    /\ said = "nothing"
    /\ blames = 0
    /\ verdict = "none"

-----------------------------------------------------------------------------
\* start.

\* Start and the credentials are written; the tasks begin.
Starts ==
    /\ starter = "sending"
    /\ starter' = "returned"
    /\ registered' = TRUE
    /\ reader' = "reading" /\ writer' = "idle"
    /\ UNCHANGED <<helperVars, stopRequested, phase, progress, event, commands,
                   inputs, sender, stopper, said, blames, verdict>>

\* ... or writing them fails.
StartFails ==
    /\ starter = "sending"
    /\ starter' = "reaping"
    /\ UNCHANGED <<helperVars, taskVars, registered, stopRequested, writer, commands, inputs,
                   sender, stopper, said, blames>>

\* Fault: stop gives up when the grace period is over.
GivesUp == UNCHANGED <<helper, child, place, toSay, stdout, stdin, attempt, active>>

\* HelperSupervisor::stop waits for the child, and kills it after the grace period.
StopsChild == IF child = "running" THEN Dies
              ELSE UNCHANGED <<helper, child, place, toSay, stdout, stdin, attempt, active>>

StartGivesUp ==
    /\ starter = "reaping"
    /\ StopsChild
    /\ stdinOpen' = FALSE
    /\ starter' = "refused"
    /\ UNCHANGED <<taskVars, registered, stopRequested, writer, commands, inputs, sender,
                   stopper, said, blames>>

-----------------------------------------------------------------------------
\* read_helper_events.

\* Fault: the claim does not look whether another task has claimed the end.
BlamesAgain ==
    /\ stopRequested' = TRUE
    /\ said' = "final"
    /\ blames' = blames + 1

\* claim_unexpected_helper_exit: the end is reported unless it was expected or is reported.
Blames ==
    /\ stopRequested' = TRUE
    /\ IF stopRequested THEN UNCHANGED <<said, blames>>
       ELSE /\ said' = "final"
            /\ blames' = blames + 1

ReaderEnds(why) ==
    /\ reader' = "ending"
    /\ event' = "none"
    /\ verdict' = why
    /\ progress' = NothingSeen
    /\ UNCHANGED phase

\* validate_helper_event.
Accepts(e) ==
    /\ e # "garbage"
    /\ "hello" \in progress.seen <=> e # "hello"
    /\ CASE e = "capabilities" -> "ready" \in progress.seen /\ progress.data = "capabilities"
         [] e = "poor" -> FALSE
         [] e = "ready" -> "starting" \in progress.seen /\ "ready" \notin progress.seen
         [] e = "reconnecting" -> "ready" \in progress.seen
         [] e = "active" -> progress.data = "active"
         [] e \in {"frame", "clipboard"} -> progress.data = "data"
         [] OTHER -> TRUE

\* Fault: a loss keeps the readiness seen before it.
KeepsProgress(e) ==
    CASE e \in {"hello", "starting", "ready"} -> [progress EXCEPT !.seen = @ \cup {e}]
      [] e = "capabilities" -> [seen |-> progress.seen \cup {e}, data |-> "active"]
      [] e = "reconnecting" -> [progress EXCEPT !.data = "capabilities"]
      [] e = "active" -> [progress EXCEPT !.data = "data"]
      [] OTHER -> progress

Progressed(e) ==
    CASE e \in {"hello", "starting", "ready"} ->
            [progress EXCEPT !.seen = @ \cup {e}]
      [] e = "capabilities" ->
            [seen |-> progress.seen \cup {e}, data |-> "active"]
      [] e = "reconnecting" -> [seen |-> {"hello"}, data |-> "capabilities"]
      [] e = "active" -> [progress EXCEPT !.data = "data"]
      [] OTHER -> progress

ReadsEvent ==
    /\ reader = "reading" /\ stdout # <<>>
    /\ stdout' = Tail(stdout)
    /\ LET e == Head(stdout)
       IN \/ /\ Accepts(e)
             /\ reader' = "delivering"
             /\ event' = e
             /\ progress' = Progressed(e)
             /\ phase' = IF e \in States THEN e = "active" ELSE phase
             /\ UNCHANGED <<stopRequested, said, blames, verdict>>
          \/ /\ ~Accepts(e)
             /\ ReaderEnds(IF e = "garbage" THEN "garbled" ELSE "rejected")
             /\ Blames
    /\ UNCHANGED <<helper, child, place, toSay, stdin, stdinOpen, attempt, active, writer,
                   callVars>>

ReadsEnd ==
    /\ reader = "reading" /\ stdout = <<>> /\ child = "exited"
    /\ ReaderEnds("eof")
    /\ Blames
    /\ UNCHANGED <<helperVars, writer, callVars>>

\* HELPER_HANDSHAKE_TIMEOUT, started anew by each loss.
HandshakeTimesOut ==
    /\ reader = "reading" /\ "capabilities" \notin progress.seen
    /\ ReaderEnds("timeout")
    /\ Blames
    /\ UNCHANGED <<helperVars, writer, callVars>>

\* The window was told of the end.
Told == said \in {"final", "revived"}

Delivers ==
    /\ reader = "delivering"
    /\ said' = IF event \in Finals THEN "final"
               ELSE IF event \notin States THEN said
               ELSE IF Told THEN "revived" ELSE "live"
    /\ \/ /\ event \in Finals
          /\ ReaderEnds("final")
          /\ stopRequested' = TRUE
       \/ /\ event \notin Finals
          /\ reader' = "reading" /\ event' = "none"
          /\ UNCHANGED <<phase, progress, verdict, stopRequested>>
    /\ UNCHANGED <<helperVars, writer, callVars, blames>>

\* The window is gone.
DeliveryFails ==
    /\ reader = "delivering"
    /\ ReaderEnds("undelivered")
    /\ UNCHANGED <<helperVars, stopRequested, writer, callVars, said, blames>>

ReaderReaps ==
    /\ reader = "ending"
    /\ reader' = "over"
    /\ stopRequested' = TRUE
    /\ StopsChild
    /\ registered' = FALSE
    /\ UNCHANGED <<stdinOpen, starter, phase, progress, event, verdict, writer,
                   commands, inputs, sender, stopper, said, blames>>

-----------------------------------------------------------------------------
\* write_helper_commands.

WritesCommand ==
    /\ writer = "idle" /\ commands # <<>>
    /\ child = "running" /\ Len(stdin) < PipeRoom
    /\ stdin' = Append(stdin, Head(commands))
    /\ commands' = Tail(commands)
    /\ UNCHANGED <<helper, child, place, toSay, stdout, stdinOpen, attempt, active, taskVars,
                   writer, starter, registered, inputs, sender, stopper, stopRequested, said,
                   blames>>

\* The pipe is broken, or full until the deadline.  What waited in the channel is dropped.
WriteFails ==
    /\ writer = "idle" /\ commands # <<>>
    /\ child = "exited" \/ Len(stdin) = PipeRoom
    /\ commands' = <<>>
    /\ Blames
    /\ writer' = IF stopRequested THEN "over" ELSE "reaping"
    /\ stdinOpen' = (stdinOpen /\ ~stopRequested)
    /\ UNCHANGED <<helper, child, place, toSay, stdout, stdin, attempt, active, taskVars,
                   starter, registered, inputs, sender, stopper>>

WriterReaps ==
    /\ writer = "reaping"
    /\ writer' = "over"
    /\ StopsChild
    /\ stdinOpen' = FALSE
    /\ commands' = <<>>
    /\ UNCHANGED <<taskVars, starter, registered, inputs, sender, stopper, stopRequested, said,
                   blames>>

\* Every sender is gone: those of the registry, of a send and of a stop.
WriterEnds ==
    /\ writer = "idle" /\ commands = <<>>
    /\ ~registered /\ sender = "idle" /\ stopper \in {"idle", "done"}
    /\ writer' = "over"
    /\ stdinOpen' = FALSE
    /\ UNCHANGED <<helper, child, place, toSay, stdout, stdin, attempt, active, taskVars,
                   callVars, stopRequested, said, blames>>

-----------------------------------------------------------------------------
\* send and stop.

\* validate_command_for_session; the locks are released before the command is sent.
Checks ==
    /\ starter = "returned" /\ registered /\ phase
    /\ sender = "idle" /\ inputs < Inputs
    /\ sender' = "checked"
    /\ inputs' = inputs + 1
    /\ UNCHANGED <<helperVars, taskVars, writer, starter, registered, commands, stopper,
                   stopRequested, said, blames>>

\* The channel has room, or its receiver is gone.
Queues(command) ==
    IF writer = "over" THEN UNCHANGED commands
    ELSE Len(commands) < Capacity /\ commands' = Append(commands, command)

Sends ==
    /\ sender = "checked"
    /\ Queues("input")
    /\ sender' = "idle"
    /\ UNCHANGED <<helperVars, taskVars, writer, starter, registered, inputs, stopper,
                   stopRequested, said, blames>>

Stops ==
    /\ starter = "returned" /\ stopper = "idle"
    /\ IF registered THEN stopper' = "removed" /\ registered' = FALSE /\ stopRequested' = TRUE
       ELSE stopper' = "done" /\ UNCHANGED <<registered, stopRequested>>
    /\ UNCHANGED <<helperVars, taskVars, writer, starter, commands, inputs, sender, said,
                   blames>>

SendsStop ==
    /\ stopper = "removed"
    /\ Queues("stop")
    /\ stopper' = "sent"
    /\ UNCHANGED <<helperVars, taskVars, writer, starter, registered, inputs, sender,
                   stopRequested, said, blames>>

StopReaps ==
    /\ stopper = "sent"
    /\ StopsChild
    /\ stopper' = "done"
    /\ UNCHANGED <<stdinOpen, taskVars, writer, starter, registered, commands, inputs, sender,
                   stopRequested, said, blames>>

-----------------------------------------------------------------------------
Crashes ==
    /\ child = "running"
    /\ Dies
    /\ UNCHANGED <<stdinOpen, taskVars, writer, callVars, stopRequested, said, blames>>

Reader == ReadsEvent \/ ReadsEnd \/ Delivers \/ ReaderReaps
Writer == WritesCommand \/ WriteFails \/ WriterReaps \/ WriterEnds
Caller == StartGivesUp \/ Sends \/ SendsStop \/ StopReaps

DesktopNext ==
    \/ HelperActs /\ UNCHANGED <<taskVars, writer, callVars, stopRequested, said, blames>>
    \/ Reader \/ HandshakeTimesOut \/ DeliveryFails \/ Crashes
    \/ Writer
    \/ Caller \/ Starts \/ StartFails \/ Checks \/ Stops

\* The tasks run, and the calls proceed when they can; the helper does as it likes,
\* and the window stops the session only if it wants to.
DesktopFairness == WF_desktopVars(Reader) /\ WF_desktopVars(Writer) /\ WF_desktopVars(Caller)

DesktopSpec == DesktopInit /\ [][DesktopNext]_desktopVars /\ DesktopFairness

-----------------------------------------------------------------------------
\* The project's own helpers keep to the order of events their parent demands, over
\* any number of losses, inputs and stops.
HelpersKeepTheOrder == helper # "any" => verdict # "rejected"

\* The manager reports one unexpected end, whichever task meets it first, and no session
\* ends unnoticed: the window asked for it, is gone, or was told of an end.
EndsAreTold ==
    /\ blames <= 1
    /\ reader = "over" =>
          stopper # "idle" \/ verdict = "undelivered" \/ Told

\* No helper outlives its session: when its reader, a stop or a failed start is over,
\* the process is gone, and the reader leaves no registration.
HelpersAreReaped ==
    /\ reader = "over" \/ starter = "refused" => child = "exited"
    /\ stopper = "done" => ~registered
    /\ reader = "over" => ~registered

\* Both: a session's end is told, and leaves no process and no registration behind.
DesktopEndsWell == EndsAreTold /\ HelpersAreReaped

\* A session whose helper exits, that is stopped or that is told a final state comes to
\* its end: both tasks are over and every call returns.
Over == reader = "over" /\ writer = "over" /\ sender = "idle" /\ stopper \in {"idle", "done"}
DesktopEnds == (starter = "returned" /\ (child = "exited" \/ stopper # "idle" \/ Told)) ~> Over

\* docs/research/vnc.md:95-97: an unexpected end transitions the session to `Crashed`.
\* The last state the window is told of a session that ended by itself is a final one.
LastWord ==
    reader = "over" /\ stopper = "idle" /\ verdict # "undelivered" => said = "final"
=============================================================================
