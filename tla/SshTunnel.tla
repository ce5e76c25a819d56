------------------------------ MODULE SshTunnel ------------------------------
(***************************************************************************)
(* The tunnels of one SSH session, one after the other: a local forward, a *)
(* SOCKS5 proxy or a remote forward (start_*_forward, run_*_forward in     *)
(* apps/desktop/src-tauri/src/ssh.rs; negotiate_socks5,                    *)
(* request_remote_forward, cancel_remote_forward and the handler of        *)
(* server-opened channels in crates/mobarust-ssh/src/lib.rs).              *)
(*                                                                         *)
(* A tunnel is a task with a listener and one worker for each client; a    *)
(* remote forward listens on the server, whose requests may be answered    *)
(* late or not at all, and shares one queue of channels with every remote  *)
(* forward of the session before and after it.                             *)
(***************************************************************************)
EXTENDS Naturals, FiniteSets

CONSTANTS
    TunnelClients,   \* who connects, each once
    TunnelStarts,    \* bound: how many tunnels the user starts
    ClientLimit,     \* MAX_CONNECTIONS
    ForwardQueue     \* capacity of the queue of server-opened channels

ASSUME TunnelAssumption ==
    TunnelStarts \in Nat /\ ClientLimit \in Nat \ {0} /\ ForwardQueue \in Nat \ {0}

VARIABLES
    tunnelKind,      \* local, dynamic or remote
    tunnelRun,       \* how many tunnels have been started
    tunnelStep,      \* where its task is; off between tunnels
    tunnelCancel,    \* the cancel channel holds true
    tunnelTold,      \* TunnelState of the last event
    tunnelFailed,    \* failure is set
    caller,          \* start_remote_forward waits for its reply, or is gone
    serverListens,   \* the server listens for the remote forwards with these numbers
    transport,       \* up, or retired
    clientAt,        \* where each client is
    cameFor,         \* the tunnel whose listener took it
    wentTo,          \* the tunnel whose target it was connected to, or 0
    socksReplies     \* what a SOCKS client has been answered

tunnelVars == <<tunnelKind, tunnelRun, tunnelStep, tunnelCancel, tunnelTold, tunnelFailed, caller,
                serverListens, transport, clientAt, cameFor, wentTo, socksReplies>>

ClientStates == {"away", "waiting", "negotiate", "opening", "granting", "copying", "done", "gone"}
Working == {"negotiate", "opening", "granting", "copying", "done"}
Told == {"none", "listening", "running", "stopping", "stopped", "failed"}

TunnelTypeOK ==
    /\ tunnelKind \in {"local", "dynamic", "remote"}
    /\ tunnelRun \in 0..TunnelStarts
    /\ tunnelStep \in {"off", "queued", "request", "reply", "withdraw", "serve", "shutdown", "revoke",
                       "report"}
    /\ tunnelCancel \in BOOLEAN
    /\ tunnelTold \in Told
    /\ tunnelFailed \in BOOLEAN
    /\ caller \in {"none", "waits", "gone"}
    /\ serverListens \subseteq 1..TunnelStarts
    /\ transport \in {"up", "retired"}
    /\ clientAt \in [TunnelClients -> ClientStates]
    /\ cameFor \in [TunnelClients -> 0..TunnelStarts]
    /\ wentTo \in [TunnelClients -> 0..TunnelStarts]
    /\ socksReplies \in [TunnelClients -> {"none", "granted", "refused", "muddled"}]

TunnelInit ==
    /\ tunnelKind = "local"
    /\ tunnelRun = 0
    /\ tunnelStep = "off"
    /\ tunnelCancel = FALSE
    /\ tunnelTold = "none"
    /\ tunnelFailed = FALSE
    /\ caller = "none"
    /\ serverListens = {}
    /\ transport = "up"
    /\ clientAt = [c \in TunnelClients |-> "away"]
    /\ cameFor = [c \in TunnelClients |-> 0]
    /\ wentTo = [c \in TunnelClients |-> 0]
    /\ socksReplies = [c \in TunnelClients |-> "none"]

-----------------------------------------------------------------------------
\* Shared pieces.

Task == <<tunnelKind, tunnelRun, tunnelCancel, tunnelTold, tunnelFailed, caller>>
Clients == <<clientAt, cameFor, wentTo, socksReplies>>
Server == <<serverListens, transport>>

On(step) == tunnelStep = step
Moves(step) == tunnelStep' = step
Tell(state) == tunnelTold' = state
Workers == {c \in TunnelClients : clientAt[c] \in Working}

\* Who waits at the local listener of the tunnel that runs, and who in the queue of
\* channels that remote forwards share.
Backlog == {c \in TunnelClients :
               clientAt[c] = "waiting" /\ tunnelKind # "remote" /\ cameFor[c] = tunnelRun}
Queue == {c \in TunnelClients : clientAt[c] = "waiting"} \ Backlog
MovesTo(c, state) == clientAt' = [clientAt EXCEPT ![c] = state]

\* abort_transport: the listeners of this connection end with it.
Retire == transport' = "retired" /\ serverListens' = {}

\* A SOCKS client reads one reply; a second one is no longer a reply.
Answers(c, reply) ==
    socksReplies' = IF tunnelKind = "dynamic"
                    THEN [socksReplies EXCEPT ![c] = IF @ = "none" THEN reply
                                                     ELSE IF @ = "refused" /\ reply = "refused" THEN @
                                                     ELSE "muddled"]
                    ELSE socksReplies

\* The task is over (finish_tunnel).  A local listener ends with it, with whoever
\* waits there; the queue of server-opened channels belongs to the connection.
Over ==
    /\ Moves("off")
    /\ clientAt' = [c \in TunnelClients |-> IF c \in Backlog THEN "gone" ELSE clientAt[c]]
    /\ UNCHANGED <<cameFor, wentTo, socksReplies>>

-----------------------------------------------------------------------------
\* The user.

CanStart == On("off") /\ tunnelRun < TunnelStarts /\ transport = "up"

Start(kind) ==
    /\ tunnelKind' = kind
    /\ tunnelRun' = tunnelRun + 1
    /\ tunnelCancel' = FALSE
    /\ tunnelFailed' = FALSE
    /\ UNCHANGED <<serverListens, transport>>
    /\ UNCHANGED Clients

\* The listener is bound before the control is registered; the task comes later.
StartLocalForward ==
    CanStart /\ Start("local") /\ Moves("queued") /\ Tell("listening") /\ caller' = "none"

StartDynamicForward ==
    CanStart /\ Start("dynamic") /\ Moves("queued") /\ Tell("listening") /\ caller' = "none"

\* Registered first; nothing is said before the server has answered.
StartRemoteForward ==
    CanStart /\ Start("remote") /\ Moves("queued") /\ Tell("none") /\ caller' = "waits"

\* From the list, by Close or by the loss of the session: the control is signalled.
CancelTunnel ==
    /\ ~On("off") /\ ~tunnelCancel
    /\ tunnelCancel' = TRUE
    /\ UNCHANGED <<tunnelKind, tunnelRun, tunnelStep, tunnelTold, tunnelFailed, caller>>
    /\ UNCHANGED Clients /\ UNCHANGED Server

CallerGoes ==
    /\ caller = "waits"
    /\ caller' = "gone"
    /\ UNCHANGED <<tunnelKind, tunnelRun, tunnelStep, tunnelCancel, tunnelTold, tunnelFailed>>
    /\ UNCHANGED Clients /\ UNCHANGED Server

-----------------------------------------------------------------------------
\* The server, and the clients.

\* It listens as soon as it has handled the request, whenever its answer arrives.
ServerListens ==
    /\ On("request") /\ transport = "up"
    /\ serverListens' = serverListens \cup {tunnelRun}
    /\ UNCHANGED <<tunnelStep, transport>>
    /\ UNCHANGED Task /\ UNCHANGED Clients

TransportBreaks ==
    /\ tunnelRun > 0 /\ transport = "up"
    /\ Retire
    /\ UNCHANGED tunnelStep
    /\ UNCHANGED Task /\ UNCHANGED Clients

\* server_channel_open_forwarded_tcpip: into the queue, or refused for want of room.
ServerChannelOpenForwardedTcpip(c) ==
    /\ clientAt[c] = "away"
    /\ \E run \in serverListens : cameFor' = [cameFor EXCEPT ![c] = run]
    /\ MovesTo(c, IF Cardinality(Queue) < ForwardQueue THEN "waiting" ELSE "gone")
    /\ UNCHANGED <<tunnelStep, wentTo, socksReplies>>
    /\ UNCHANGED Task /\ UNCHANGED Server

\* The backlog of a local listener, which lives until the task is over.
ClientConnects(c) ==
    /\ clientAt[c] = "away"
    /\ tunnelKind # "remote" /\ ~On("off")
    /\ cameFor' = [cameFor EXCEPT ![c] = tunnelRun]
    /\ MovesTo(c, "waiting")
    /\ UNCHANGED <<tunnelStep, wentTo, socksReplies>>
    /\ UNCHANGED Task /\ UNCHANGED Server

-----------------------------------------------------------------------------
\* The workers.

\* Methods, then the request; what it cannot serve it refuses (sometimes twice: the
\* handshake and its caller both answer).
NegotiateSocks5(c) ==
    /\ clientAt[c] = "negotiate"
    /\ \/ MovesTo(c, "opening") /\ UNCHANGED socksReplies
       \/ MovesTo(c, "done") /\ (Answers(c, "refused") \/ UNCHANGED socksReplies)
    /\ UNCHANGED <<cameFor, wentTo>>

\* A channel of the connection, or the local target of a remote forward.
OpenDirectTcpip(c) ==
    /\ clientAt[c] = "opening"
    /\ \/ /\ tunnelKind # "remote" => transport = "up"
          /\ MovesTo(c, IF tunnelKind = "dynamic" THEN "granting" ELSE "copying")
          /\ UNCHANGED socksReplies
       \/ MovesTo(c, "done") /\ Answers(c, "refused")
    /\ UNCHANGED <<cameFor, wentTo>>

SendSocks5Success(c) ==
    /\ clientAt[c] = "granting"
    /\ \/ MovesTo(c, "copying") /\ Answers(c, "granted")
       \/ MovesTo(c, "done") /\ UNCHANGED socksReplies
    /\ UNCHANGED <<cameFor, wentTo>>

\* End of file, an error, or the cancel channel; before the copy a SOCKS client is told.
\* A local forward that opens its channel does not look at the cancel channel.
CopyEnds(c) ==
    /\ \/ clientAt[c] = "copying" /\ UNCHANGED socksReplies
       \/ /\ tunnelCancel
          /\ clientAt[c] = "negotiate" \/ (clientAt[c] = "opening" /\ tunnelKind # "local")
          /\ Answers(c, "refused")
    /\ MovesTo(c, "done")
    /\ UNCHANGED <<cameFor, wentTo>>

Worker ==
    /\ \E c \in TunnelClients :
           NegotiateSocks5(c) \/ OpenDirectTcpip(c) \/ SendSocks5Success(c) \/ CopyEnds(c)
    /\ UNCHANGED tunnelStep
    /\ UNCHANGED Task /\ UNCHANGED Server

-----------------------------------------------------------------------------
\* The task.

\* The session has taken the command from its queue.
TaskStarts ==
    /\ On("queued")
    /\ IF tunnelKind = "remote"
       THEN Moves("request") /\ UNCHANGED tunnelTold
       ELSE Moves("serve") /\ Tell("running")
    /\ UNCHANGED <<tunnelKind, tunnelRun, tunnelCancel, tunnelFailed, caller>>
    /\ UNCHANGED Clients /\ UNCHANGED Server

\* reject_command: the session is busy, or ends with the command in its queue.
RejectTunnel ==
    /\ On("queued")
    /\ tunnelTold' \in {"failed", "stopped"}
    /\ Over
    /\ caller' = "none"
    /\ UNCHANGED <<tunnelKind, tunnelRun, tunnelCancel, tunnelFailed>>
    /\ UNCHANGED Server

\* Fault: the dropped request does not retire the transport.
DropRequest ==
    /\ On("request")
    /\ \/ /\ transport = "up" /\ tunnelRun \in serverListens
          /\ Moves("reply") /\ Tell("listening")
          /\ UNCHANGED caller
          /\ UNCHANGED Clients
       \/ /\ tunnelCancel
          /\ UNCHANGED tunnelTold /\ caller' = "none"
          /\ Over
    /\ UNCHANGED <<tunnelKind, tunnelRun, tunnelCancel, tunnelFailed>>
    /\ UNCHANGED Server

\* Fault: an unconfirmed revocation returns early.
ForgetUnconfirmed ==
    /\ On("revoke") \/ On("withdraw")
    /\ Retire
    /\ Over
    /\ UNCHANGED <<tunnelKind, tunnelRun, tunnelCancel, tunnelFailed, tunnelTold, caller>>

\* request_remote_forward: granted, refused, or unknown; an unknown outcome, also
\* that of a request dropped because of the cancel channel, costs the transport.
RequestRemoteForward ==
    /\ On("request")
    /\ \/ /\ transport = "up" /\ tunnelRun \in serverListens
          /\ Moves("reply") /\ Tell("listening")
          /\ UNCHANGED <<caller, serverListens, transport>>
          /\ UNCHANGED Clients
       \/ /\ transport = "up" /\ tunnelRun \notin serverListens
          /\ Tell("failed") /\ caller' = "none"
          /\ Over
          /\ UNCHANGED <<serverListens, transport>>
       \/ /\ Tell("failed") /\ caller' = "none"
          /\ Retire
          /\ Over
       \/ /\ tunnelCancel
          /\ UNCHANGED tunnelTold /\ caller' = "none"
          /\ Retire
          /\ Over
    /\ UNCHANGED <<tunnelKind, tunnelRun, tunnelCancel, tunnelFailed>>

ReplyToCaller ==
    /\ On("reply")
    /\ IF caller = "waits" THEN Moves("serve") /\ Tell("running")
                           ELSE Moves("withdraw") /\ UNCHANGED tunnelTold
    /\ caller' = "none"
    /\ UNCHANGED <<tunnelKind, tunnelRun, tunnelCancel, tunnelFailed>>
    /\ UNCHANGED Clients /\ UNCHANGED Server

\* Accepted while there is room among the workers, dropped otherwise.
AcceptClient(c) ==
    /\ On("serve")
    /\ c \in IF tunnelKind = "remote" THEN Queue ELSE Backlog
    /\ IF Cardinality(Workers) >= ClientLimit
       THEN MovesTo(c, "gone") /\ UNCHANGED wentTo
       ELSE /\ MovesTo(c, IF tunnelKind = "dynamic" THEN "negotiate" ELSE "opening")
            /\ wentTo' = [wentTo EXCEPT ![c] = tunnelRun]
    /\ Tell("running")
    /\ UNCHANGED <<tunnelStep, tunnelKind, tunnelRun, tunnelCancel, tunnelFailed, caller, cameFor,
                   socksReplies>>
    /\ UNCHANGED Server

\* A finished worker counts against the limit until it is joined.
JoinWorker(c) ==
    /\ On("serve")
    /\ clientAt[c] = "done"
    /\ MovesTo(c, "gone")
    /\ Tell("running")
    /\ UNCHANGED <<tunnelStep, tunnelKind, tunnelRun, tunnelCancel, tunnelFailed, caller, cameFor,
                   wentTo, socksReplies>>
    /\ UNCHANGED Server

SeeCancel ==
    /\ On("serve") /\ tunnelCancel
    /\ Moves("shutdown") /\ Tell("stopping")
    /\ UNCHANGED <<tunnelKind, tunnelRun, tunnelCancel, tunnelFailed, caller>>
    /\ UNCHANGED Clients /\ UNCHANGED Server

\* The local listener fails; the queue of channels ends with its connection.
ListenerFails ==
    /\ On("serve")
    /\ tunnelKind = "remote" => transport = "retired" /\ Queue = {}
    /\ Moves("shutdown")
    /\ tunnelFailed' = TRUE
    /\ UNCHANGED <<tunnelKind, tunnelRun, tunnelCancel, tunnelTold, caller>>
    /\ UNCHANGED Clients /\ UNCHANGED Server

ShutDownWorkers ==
    /\ On("shutdown")
    /\ clientAt' = [c \in TunnelClients |-> IF c \in Workers THEN "gone" ELSE clientAt[c]]
    /\ Moves(IF tunnelKind = "remote" THEN "revoke" ELSE "report")
    /\ UNCHANGED <<cameFor, wentTo, socksReplies>>
    /\ UNCHANGED Task /\ UNCHANGED Server

\* cancel_remote_forward: confirmed, or the transport is retired.
CancelRemoteForward ==
    /\ On("revoke") \/ On("withdraw")
    /\ \/ /\ transport = "up"
          /\ serverListens' = serverListens \ {tunnelRun}
          /\ UNCHANGED <<transport, tunnelFailed>>
       \/ Retire /\ tunnelFailed' = TRUE
    /\ IF On("revoke") THEN Moves("report") /\ UNCHANGED Clients ELSE Over
    /\ UNCHANGED <<tunnelKind, tunnelRun, tunnelCancel, tunnelTold, caller>>

ReportTunnel ==
    /\ On("report")
    /\ Tell(IF tunnelFailed THEN "failed" ELSE "stopped")
    /\ Over
    /\ UNCHANGED <<tunnelKind, tunnelRun, tunnelCancel, tunnelFailed, caller>>
    /\ UNCHANGED Server

\* What the three kinds of task do; each job carries its kind.
ServeClients ==
    \/ \E c \in TunnelClients : AcceptClient(c) \/ JoinWorker(c)
    \/ SeeCancel
    \/ ListenerFails
    \/ ShutDownWorkers
    \/ ReportTunnel

RunLocalForward == tunnelKind = "local" /\ (TaskStarts \/ ServeClients)
RunDynamicForward == tunnelKind = "dynamic" /\ (TaskStarts \/ ServeClients)
RunRemoteForward ==
    /\ tunnelKind = "remote"
    /\ TaskStarts \/ RequestRemoteForward \/ ReplyToCaller \/ CancelRemoteForward \/ ServeClients

TunnelTask == RunLocalForward \/ RunDynamicForward \/ RunRemoteForward

TunnelNext ==
    \/ StartLocalForward
    \/ StartDynamicForward
    \/ StartRemoteForward
    \/ CancelTunnel
    \/ CallerGoes
    \/ ServerListens
    \/ TransportBreaks
    \/ \E c \in TunnelClients : ServerChannelOpenForwardedTcpip(c) \/ ClientConnects(c)
    \/ Worker
    \/ TunnelTask
    \/ RejectTunnel

\* The runtime runs the task, and its select! is random: what stays ready in a loop
\* is taken.  Requests to the server have deadlines.
TunnelFairness == WF_tunnelVars(TunnelTask) /\ SF_tunnelVars(SeeCancel)

TunnelSpec == TunnelInit /\ [][TunnelNext]_tunnelVars /\ TunnelFairness

-----------------------------------------------------------------------------
\* Whatever the order of request, answer, cancel, loss and revocation: the server
\* listens only for the tunnel that runs; once the tunnel is over the server does not
\* listen for it, unless the connection that could have asked it to stop is gone.
NoListenerLeft ==
    /\ serverListens \subseteq {tunnelRun}
    /\ On("off") => serverListens = {}
    /\ transport = "retired" => serverListens = {}

\* A SOCKS client hears "succeeded" once, and nothing else, before a byte is copied.
SocksAnswersOnce ==
    \A c \in TunnelClients :
        /\ socksReplies[c] # "muddled"
        /\ tunnelKind = "dynamic" /\ clientAt[c] = "copying" => socksReplies[c] = "granted"
        /\ clientAt[c] \in {"negotiate", "opening", "granting"} => socksReplies[c] = "none"

\* The events of a tunnel: running until it stops, one ending, nothing after it; only
\* a remote forward whose caller is gone, or which is cancelled before the server has
\* answered, is not told an ending.
TunnelEvents ==
    [][/\ tunnelTold \in {"stopped", "failed"} => tunnelTold' = tunnelTold \/ tunnelRun' > tunnelRun
       /\ tunnelTold = "stopping" => tunnelTold' \in {"stopping", "stopped", "failed"}
       /\ ~On("off") /\ tunnelStep' = "off"
              => tunnelTold' \in {"stopped", "failed"} \/ On("withdraw") \/ (On("request") /\ tunnelTold' = "none")
      ]_tunnelVars

\* A cancelled tunnel is over at last, however busy its listener is.
TunnelStops == tunnelCancel ~> On("off")

\* docs/adr/0009: one remote forward per session because the queue is shared, and
\* each channel goes to the explicit target of its forward.
OwnTarget == \A c \in TunnelClients : wentTo[c] \in {0, cameFor[c]}
=============================================================================
