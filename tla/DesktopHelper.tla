---------------------------- MODULE DesktopHelper ----------------------------
(***************************************************************************)
(* The helper process of a remote desktop: tools/vnc-helper and            *)
(* tools/rdp-helper, or, because its parent trusts it with nothing, a      *)
(* program that says whatever it likes.  It speaks through two pipes.      *)
(* Diagnostics and the content of frames and clipboards are left out; the  *)
(* remote server does anything at any time.                                *)
(***************************************************************************)
EXTENDS Naturals, Sequences, Functions

CONSTANTS
    Attempts,  \* ReconnectPolicy: attempts per loss, 0 for never
    PipeRoom   \* bound: frames in a pipe and in the queue of the thread that reads it

ASSUME HelperAssumption == Attempts \in Nat /\ PipeRoom \in Nat \ {0}

VARIABLES
    helper,    \* which program it is
    child,     \* the process runs or has exited
    place,     \* where its main task is
    toSay,     \* events it has yet to write
    stdout, stdin,
    stdinOpen, \* the parent still holds its end
    attempt,   \* reconnect attempt it is at; 0 before the first loss
    active     \* this attempt has said "active" (active_sent)

helperVars == <<helper, child, place, toSay, stdout, stdin, stdinOpen, attempt, active>>

\* "poor" is a capability report that does not meet the request, "garbage" whatever
\* does not decode.
States == {"starting", "ready", "active", "reconnecting", "stopping", "stopped", "failed",
           "crashed"}
Finals == {"stopped", "failed", "crashed"}
HelperEvents == States \cup {"hello", "capabilities", "poor", "frame", "clipboard", "garbage"}

HelperTypeOK ==
    /\ helper \in {"vnc", "rdp", "any"}
    /\ child \in {"running", "exited"}
    /\ place \in {"boot", "await", "connecting", "serving", "backoff", "exit"}
    /\ toSay \in Seq(HelperEvents)
    /\ stdout \in Seq(HelperEvents) /\ Len(stdout) <= PipeRoom
    /\ stdin \in Seq({"start", "input", "stop"}) /\ Len(stdin) <= PipeRoom
    /\ stdinOpen \in BOOLEAN /\ active \in BOOLEAN
    /\ attempt \in 0..Attempts

\* HelperSupervisor::spawn, send_command(Start) and send_credentials.
HelperInit ==
    /\ helper \in {"vnc", "rdp", "any"}
    /\ child = "running"
    /\ place = "boot"
    /\ toSay = <<>>
    /\ stdout = <<>>
    /\ stdin = <<"start">>
    /\ stdinOpen = TRUE
    /\ attempt = 0
    /\ active = FALSE

-----------------------------------------------------------------------------
\* Shared pieces.

Runs(h, p) == helper \in h /\ child = "running" /\ place = p /\ toSay = <<>>
Says(events, next) == toSay' = events /\ place' = next
Leaves(event) == Says(<<event>>, "exit") /\ UNCHANGED <<attempt, active>>
Goes(next) == Says(<<>>, next)

Takes(command) == stdin # <<>> /\ Head(stdin) = command /\ stdin' = Tail(stdin)
InputEnds == stdin = <<>> /\ ~stdinOpen /\ UNCHANGED stdin
Silent == UNCHANGED stdin

\* run_vnc_session and run_rdp_session announce each attempt.
Announces == <<"ready", "capabilities">>

\* Fault: the helper goes on with the readiness it had before the loss.
ResumesSilently == <<"starting">>

\* What the RDP helper says when a backoff is over.
Resumes == <<"starting">> \o Announces

\* Fault: the attempts are not counted against the limit.
LosesForever(reconnected) ==
    /\ Says(<<"reconnecting">>, "backoff")
    /\ attempt' = (IF reconnected THEN 0 ELSE attempt) + 1
    /\ active' = FALSE

\* The loss of a connection; reconnected: this was an established reconnect.
Loses(reconnected) ==
    LET done == IF reconnected THEN 0 ELSE attempt
    IN IF done < Attempts
       THEN Says(<<"reconnecting">>, "backoff") /\ attempt' = done + 1 /\ active' = FALSE
       ELSE Leaves("failed")

-----------------------------------------------------------------------------
\* run_main.

Boots ==
    /\ Runs({"vnc", "rdp"}, "boot")
    /\ \/ Says(<<"hello", "starting">>, "await")
       \/ Says(<<"hello", "starting", "failed">>, "exit")
    /\ Silent
    /\ UNCHANGED <<attempt, active>>

\* Start and the credentials count as one command.
TakesStart ==
    /\ \/ Runs({"vnc"}, "await") /\ Goes("connecting")
       \/ Runs({"rdp"}, "await") /\ (Says(Announces, "serving") \/ Says(<<"failed">>, "exit"))
    /\ Takes("start")
    /\ UNCHANGED <<attempt, active>>

\* wait_for_vnc_connection, wait_reconnect_backoff, wait_rdp_reconnect_backoff, and
\* run_main before the start: everything but the end of the session is ignored.
Waits ==
    /\ \E p \in {"await", "connecting", "backoff"} : Runs({"vnc", "rdp"}, p)
    /\ \/ Takes("input") /\ Goes(place) /\ UNCHANGED <<attempt, active>>
       \/ Takes("stop") /\ Leaves("stopped")
       \/ InputEnds /\ Leaves("stopped")

BackoffOver ==
    /\ \/ Runs({"vnc"}, "backoff") /\ Says(<<"starting">>, "connecting")
       \/ Runs({"rdp"}, "backoff") /\ Says(Resumes, "serving")
       \/ Runs({"rdp"}, "backoff") /\ Says(<<"starting", "failed">>, "exit")
    /\ Silent
    /\ UNCHANGED <<attempt, active>>

\* connect_vnc_client, and reconnect_vnc_client when it fails.
VncConnects ==
    /\ Runs({"vnc"}, "connecting")
    /\ \/ Says(Announces, "serving") /\ UNCHANGED attempt
       \/ attempt \in 1..(Attempts - 1) /\ Goes("backoff") /\ attempt' = attempt + 1
       \/ attempt \in {0, Attempts} /\ Says(<<"failed">>, "exit") /\ UNCHANGED attempt
    /\ Silent
    /\ UNCHANGED active

\* run_connected_vnc_session and run_rdp_attempt: the server sends something to show.
Shows ==
    /\ \E e \in {"frame", "clipboard"} :
          /\ Runs({"vnc"} \cup IF e = "frame" THEN {"rdp"} ELSE {}, "serving")
          /\ Says(IF active THEN <<e>> ELSE <<"active", e>>, "serving")
    /\ active' = TRUE
    /\ Silent
    /\ UNCHANGED attempt

\* ... or what it sends is no valid picture.
ShowsInvalid ==
    /\ Runs({"vnc", "rdp"}, "serving")
    /\ IF helper = "rdp" /\ ~active THEN Says(<<"active", "failed">>, "exit") /\ UNCHANGED <<attempt, active>>
                                    ELSE Leaves("failed")
    /\ Silent

VncLoses == attempt' = 1 /\ Says(<<"reconnecting">>, "backoff") /\ active' = FALSE
Lost == IF helper = "vnc" THEN IF Attempts = 0 THEN Leaves("failed") ELSE VncLoses
        ELSE Loses(active /\ attempt > 0)

\* handle_command, whose own timeouts and failures count as a loss.
TakesInput ==
    /\ Runs({"vnc", "rdp"}, "serving")
    /\ Takes("input")
    /\ \/ Goes("serving") /\ UNCHANGED <<attempt, active>>
       \/ IF helper = "vnc" \/ active \/ attempt > 0 THEN Lost ELSE Leaves("failed")

\* The VNC helper hears Stop past the commands that wait before it (StopSignal).
TakesStop ==
    \/ /\ Runs({"vnc"}, "serving")
       /\ "stop" \in Range(stdin) /\ stdin' = <<>>
       /\ Leaves("stopped")
    \/ /\ Runs({"rdp"}, "serving")
       /\ Takes("stop")
       /\ Says(<<"stopping", "stopped">>, "exit")
       /\ UNCHANGED <<attempt, active>>
    \/ /\ Runs({"vnc", "rdp"}, "serving")
       /\ InputEnds
       /\ Leaves("stopped")

\* The connection fails, times out or ends.
ServerFails ==
    /\ Runs({"vnc", "rdp"}, "serving")
    /\ \/ IF helper = "vnc" \/ active \/ attempt > 0 THEN Lost
          ELSE \E e \in {"failed", "crashed"} : Leaves(e)
       \/ helper = "rdp" /\ Leaves(IF active THEN "stopped" ELSE "failed")
    /\ Silent

-----------------------------------------------------------------------------
\* The process is gone, with what it knew and what it had not read.
Gone ==
    /\ child' = "exited"
    /\ place' = "exit" /\ toSay' = <<>> /\ stdin' = <<>>
    /\ attempt' = 0 /\ active' = FALSE
    /\ UNCHANGED helper

\* write_event_frame, with its deadline: the process exits when the pipe stays full.
Writes ==
    /\ child = "running" /\ toSay # <<>>
    /\ \/ /\ Len(stdout) < PipeRoom
          /\ stdout' = Append(stdout, Head(toSay))
          /\ toSay' = Tail(toSay)
          /\ UNCHANGED <<helper, child, place, stdin, attempt, active>>
       \/ Len(stdout) = PipeRoom /\ Gone /\ UNCHANGED stdout
    /\ UNCHANGED stdinOpen

Exits ==
    /\ Runs({"vnc", "rdp"}, "exit")
    /\ Gone
    /\ UNCHANGED <<stdout, stdinOpen>>

\* A crash, or the kill of HelperSupervisor::stop; a frame may be cut short.
Dies ==
    /\ Gone
    /\ \/ UNCHANGED stdout
       \/ toSay # <<>> /\ Len(stdout) < PipeRoom /\ stdout' = Append(stdout, "garbage")

\* One event of each kind the manager tells apart.
Rogueries == HelperEvents \ {"failed", "crashed", "stopping", "clipboard", "poor"}

\* Any other program, which need not read.
Misbehaves ==
    /\ Runs({"any"}, "boot")
    /\ \/ Len(stdout) < PipeRoom /\ (\E e \in Rogueries : stdout' = Append(stdout, e)) /\ Silent
       \/ stdin # <<>> /\ stdin' = <<>> /\ UNCHANGED stdout
    /\ UNCHANGED <<helper, child, place, toSay, stdinOpen, attempt, active>>

HelperActs ==
    \/ /\ \/ Boots \/ TakesStart \/ Waits \/ BackoffOver \/ VncConnects \/ Shows
          \/ ShowsInvalid \/ TakesInput \/ TakesStop \/ ServerFails
       /\ UNCHANGED <<helper, child, stdout, stdinOpen>>
    \/ Writes
    \/ Exits
    \/ Misbehaves
=============================================================================
