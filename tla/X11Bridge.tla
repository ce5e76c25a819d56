------------------------------ MODULE X11Bridge ------------------------------
(***************************************************************************)
(* X11 forwarding of one SSH connection: the channels a server opens       *)
(* (server_channel_open_x11 in crates/mobarust-ssh/src/lib.rs) and the     *)
(* task that joins each with the local display (run_x11_bridge in          *)
(* apps/desktop/src-tauri/src/ssh.rs).  The session does not wait for the  *)
(* task: Close, the loss of the connection and the end of a program race.  *)
(***************************************************************************)
EXTENDS Naturals, FiniteSets

CONSTANTS
    Programs,       \* remote programs, each opening one channel
    X11QueueLimit,  \* MAX_QUEUED_X11_CHANNELS
    X11Limit        \* X11_CHANNEL_LIMIT

ASSUME X11Assumption == IsFiniteSet(Programs) /\ X11QueueLimit \in Nat /\ X11Limit \in Nat

VARIABLES
    display,      \* x11_enabled: the user configured a display
    bridge,       \* the task: off, serving, stopping, over
    program,      \* where each channel is
    x11Event,     \* the event the renderer has got about it
    x11Close,     \* close of the session holds true
    x11Transport  \* the connection is up

x11Vars == <<display, bridge, program, x11Event, x11Close, x11Transport>>

X11TypeOK ==
    /\ display \in BOOLEAN
    /\ bridge \in {"off", "serving", "stopping", "over"}
    /\ program \in [Programs -> {"away", "refused", "queued", "dropped", "bridged", "ended"}]
    /\ x11Event \in [Programs -> {"none", "failed", "disconnected"}]
    /\ x11Close \in BOOLEAN
    /\ x11Transport \in BOOLEAN

X11Init ==
    /\ display = FALSE
    /\ bridge = "off"
    /\ program = [p \in Programs |-> "away"]
    /\ x11Event = [p \in Programs |-> "none"]
    /\ x11Close = FALSE
    /\ x11Transport = FALSE

InState(state) == {p \in Programs : program[p] = state}
ProgramGoes(p, state) == program' = [program EXCEPT ![p] = state]

\* A connection is made; without a display there is no task.
StartX11Bridge(configured) ==
    /\ bridge = "off" /\ ~x11Transport
    /\ x11Transport' = TRUE
    /\ display' = configured
    /\ bridge' = IF configured THEN "serving" ELSE "over"
    /\ UNCHANGED <<program, x11Event, x11Close>>

ServerChannelOpenX11(p) ==
    /\ x11Transport
    /\ program[p] = "away"
    /\ ProgramGoes(p, IF display /\ Cardinality(InState("queued")) < X11QueueLimit
                      THEN "queued" ELSE "refused")
    /\ UNCHANGED <<display, bridge, x11Event, x11Close, x11Transport>>

CloseX11 ==
    /\ x11Transport /\ ~x11Close
    /\ x11Close' = TRUE
    /\ UNCHANGED <<display, bridge, program, x11Event, x11Transport>>

LoseX11 ==
    /\ x11Transport
    /\ x11Transport' = FALSE
    /\ UNCHANGED <<display, bridge, program, x11Event, x11Close>>

\* A channel beyond the limit is dropped.
BridgeX11(p) ==
    /\ bridge = "serving"
    /\ program[p] = "queued"
    /\ ProgramGoes(p, IF Cardinality(InState("bridged")) < X11Limit THEN "bridged" ELSE "dropped")
    /\ UNCHANGED <<display, bridge, x11Event, x11Close, x11Transport>>

\* The copy ends or fails, which is told; or the worker sees Close itself.
X11WorkerEnds(p) ==
    /\ program[p] = "bridged"
    /\ ProgramGoes(p, "ended")
    /\ \/ UNCHANGED x11Event
       \/ x11Event' = [x11Event EXCEPT ![p] = "failed"]
       \/ x11Close /\ x11Event' = [x11Event EXCEPT ![p] = "disconnected"]
    /\ UNCHANGED <<display, bridge, x11Close, x11Transport>>

\* Close, or no more channels.
StopX11Bridge ==
    /\ bridge = "serving"
    /\ x11Close \/ (~x11Transport /\ InState("queued") = {})
    /\ bridge' = "stopping"
    /\ UNCHANGED <<display, program, x11Event, x11Close, x11Transport>>

\* abort_all and the join: what has not ended by itself ends without an event.
JoinX11Workers ==
    /\ bridge = "stopping"
    /\ program' = [p \in Programs |-> IF program[p] = "bridged" THEN "ended" ELSE program[p]]
    /\ bridge' = "over"
    /\ UNCHANGED <<display, x11Event, x11Close, x11Transport>>

RunX11Bridge ==
    \/ \E p \in Programs : BridgeX11(p) \/ X11WorkerEnds(p)
    \/ StopX11Bridge
    \/ JoinX11Workers

X11Next ==
    \/ \E configured \in BOOLEAN : StartX11Bridge(configured)
    \/ \E p \in Programs : ServerChannelOpenX11(p)
    \/ CloseX11
    \/ LoseX11
    \/ RunX11Bridge

\* select! does not starve a channel that has been signalled.
X11Fairness ==
    /\ WF_x11Vars(JoinX11Workers)
    /\ WF_x11Vars(\E p \in Programs : BridgeX11(p))
    /\ SF_x11Vars(StopX11Bridge)

X11Spec == X11Init /\ [][X11Next]_x11Vars /\ X11Fairness

-----------------------------------------------------------------------------
\* A display is reached only when it was configured, by no more channels than
\* allowed, and by none once the task is over.
X11LeavesNothing ==
    /\ InState("bridged") # {} => display /\ bridge \in {"serving", "stopping"}
    /\ Cardinality(InState("bridged")) <= X11Limit
    /\ \A p \in Programs : x11Event[p] # "none" => program[p] = "ended"

\* The task ends with the session and with the connection.
X11Ends == (bridge = "serving" /\ (x11Close \/ ~x11Transport)) ~> bridge = "over"
=============================================================================
