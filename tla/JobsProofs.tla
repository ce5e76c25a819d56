----------------------------- MODULE JobsProofs -----------------------------
(***************************************************************************)
(* What MCSshJobs puts side by side, for any programs, editors, tunnels    *)
(* and connections: the promises of transfers, of editors of one remote    *)
(* document, of X11 bridges, of tunnels and of the terminal.               *)
(***************************************************************************)
EXTENDS MCSshJobs, SshConnectProofs

-----------------------------------------------------------------------------
\* Tunnels, any number of them one after the other.

\* What the task has said at each of its steps, and of which kind it is there.
TaskAgrees ==
    /\ tunnelStep \in {"request", "reply", "withdraw", "revoke"} => tunnelKind = "remote"
    /\ ~On("off") => tunnelRun # 0
    /\ On("off") => tunnelTold # "stopping"
    /\ On("queued") => tunnelTold = IF tunnelKind = "remote" THEN "none" ELSE "listening"
    /\ On("request") => tunnelTold = "none"
    /\ tunnelStep \in {"reply", "withdraw"} => tunnelTold = "listening"
    /\ On("serve") => tunnelTold = "running"
    /\ tunnelStep \in {"shutdown", "revoke", "report"} => tunnelTold \in {"running", "stopping"}

\* The server listens for a remote forward between its request and its revocation.
ServerAgrees ==
    /\ serverListens \subseteq {tunnelRun}
    /\ serverListens # {} =>
          /\ tunnelKind = "remote"
          /\ tunnelStep \in {"request", "reply", "withdraw", "serve", "shutdown", "revoke"}
    /\ transport = "retired" => serverListens = {}

\* The worker of a client belongs to the tunnel that runs, so the kind of that tunnel
\* says what the client was answered.
ClientAgrees(c) ==
    /\ clientAt[c] \in Working => tunnelStep \in {"serve", "shutdown"}
    /\ clientAt[c] \in {"away", "waiting", "negotiate", "opening", "granting"} =>
          socksReplies[c] = "none"
    /\ clientAt[c] \in {"negotiate", "granting"} => tunnelKind = "dynamic"
    /\ clientAt[c] = "copying" /\ tunnelKind = "dynamic" => socksReplies[c] = "granted"
    /\ socksReplies[c] # "muddled"

TunnelInductive ==
    TunnelTypeOK /\ TaskAgrees /\ ServerAgrees /\ \A c \in TunnelClients : ClientAgrees(c)

-----------------------------------------------------------------------------
\* What a step keeps.

LEMMA StartFacts ==
    ASSUME TunnelTypeOK, CanStart
    PROVE  /\ tunnelRun + 1 \in 0..TunnelStarts
           /\ tunnelRun + 1 # 0 /\ tunnelRun + 1 > tunnelRun
BY TunnelAssumption DEF TunnelTypeOK, CanStart

LEMMA StartLocalForwardKeeps ==
    ASSUME TunnelInductive, StartLocalForward
    PROVE  TunnelInductive'
<1>0. tunnelRun + 1 \in 0..TunnelStarts /\ tunnelRun + 1 # 0
    BY StartFacts DEF TunnelInductive, StartLocalForward
<1>1. TunnelTypeOK'
    BY <1>0 DEF TunnelInductive, TunnelTypeOK, StartLocalForward, Start, CanStart, Server, Clients,
        On, Moves, Tell, Told, ClientStates
<1>2. TaskAgrees'
    BY <1>0 DEF TunnelInductive, TunnelTypeOK, TaskAgrees, StartLocalForward, Start, CanStart,
        Server, Clients, On, Moves, Tell
<1>3. ServerAgrees'
    BY DEF TunnelInductive, TunnelTypeOK, TaskAgrees, ServerAgrees, StartLocalForward, Start,
        CanStart, Server, Clients, On, Moves
<1>4. ASSUME NEW d \in TunnelClients
      PROVE  ClientAgrees(d)'
    BY DEF TunnelInductive, TunnelTypeOK, ClientAgrees, Working, StartLocalForward, Start,
        CanStart, Server, Clients, On, Moves
<1> QED
    BY <1>1, <1>2, <1>3, <1>4 DEF TunnelInductive

LEMMA StartDynamicForwardKeeps ==
    ASSUME TunnelInductive, StartDynamicForward
    PROVE  TunnelInductive'
<1>0. tunnelRun + 1 \in 0..TunnelStarts /\ tunnelRun + 1 # 0
    BY StartFacts DEF TunnelInductive, StartDynamicForward
<1>1. TunnelTypeOK'
    BY <1>0 DEF TunnelInductive, TunnelTypeOK, StartDynamicForward, Start, CanStart, Server,
        Clients, On, Moves, Tell, Told, ClientStates
<1>2. TaskAgrees'
    BY <1>0 DEF TunnelInductive, TunnelTypeOK, TaskAgrees, StartDynamicForward, Start, CanStart,
        Server, Clients, On, Moves, Tell
<1>3. ServerAgrees'
    BY DEF TunnelInductive, TunnelTypeOK, TaskAgrees, ServerAgrees, StartDynamicForward, Start,
        CanStart, Server, Clients, On, Moves
<1>4. ASSUME NEW d \in TunnelClients
      PROVE  ClientAgrees(d)'
    BY DEF TunnelInductive, TunnelTypeOK, ClientAgrees, Working, StartDynamicForward, Start,
        CanStart, Server, Clients, On, Moves
<1> QED
    BY <1>1, <1>2, <1>3, <1>4 DEF TunnelInductive

LEMMA StartRemoteForwardKeeps ==
    ASSUME TunnelInductive, StartRemoteForward
    PROVE  TunnelInductive'
<1>0. tunnelRun + 1 \in 0..TunnelStarts /\ tunnelRun + 1 # 0
    BY StartFacts DEF TunnelInductive, StartRemoteForward
<1>1. TunnelTypeOK'
    BY <1>0 DEF TunnelInductive, TunnelTypeOK, StartRemoteForward, Start, CanStart, Server,
        Clients, On, Moves, Tell, Told, ClientStates
<1>2. TaskAgrees'
    BY <1>0 DEF TunnelInductive, TunnelTypeOK, TaskAgrees, StartRemoteForward, Start, CanStart,
        Server, Clients, On, Moves, Tell
<1>3. ServerAgrees'
    BY DEF TunnelInductive, TunnelTypeOK, TaskAgrees, ServerAgrees, StartRemoteForward, Start,
        CanStart, Server, Clients, On, Moves
<1>4. ASSUME NEW d \in TunnelClients
      PROVE  ClientAgrees(d)'
    BY DEF TunnelInductive, TunnelTypeOK, ClientAgrees, Working, StartRemoteForward, Start,
        CanStart, Server, Clients, On, Moves
<1> QED
    BY <1>1, <1>2, <1>3, <1>4 DEF TunnelInductive

LEMMA CancelTunnelKeeps ==
    ASSUME TunnelInductive, CancelTunnel
    PROVE  TunnelInductive'
<1>1. TunnelTypeOK'
    BY DEF TunnelInductive, TunnelTypeOK, CancelTunnel, Task, Server, Clients, On, Moves, Tell,
        Told, ClientStates
<1>2. TaskAgrees'
    BY DEF TunnelInductive, TunnelTypeOK, TaskAgrees, CancelTunnel, Task, Server, Clients, On,
        Moves, Tell
<1>3. ServerAgrees'
    BY DEF TunnelInductive, TunnelTypeOK, TaskAgrees, ServerAgrees, CancelTunnel, Task, Server,
        Clients, On, Moves
<1>4. ASSUME NEW d \in TunnelClients
      PROVE  ClientAgrees(d)'
    BY DEF TunnelInductive, TunnelTypeOK, ClientAgrees, Working, CancelTunnel, Task, Server,
        Clients, On, Moves
<1> QED
    BY <1>1, <1>2, <1>3, <1>4 DEF TunnelInductive

LEMMA CallerGoesKeeps ==
    ASSUME TunnelInductive, CallerGoes
    PROVE  TunnelInductive'
<1>1. TunnelTypeOK'
    BY DEF TunnelInductive, TunnelTypeOK, CallerGoes, Task, Server, Clients, On, Moves, Tell, Told,
        ClientStates
<1>2. TaskAgrees'
    BY DEF TunnelInductive, TunnelTypeOK, TaskAgrees, CallerGoes, Task, Server, Clients, On, Moves,
        Tell
<1>3. ServerAgrees'
    BY DEF TunnelInductive, TunnelTypeOK, TaskAgrees, ServerAgrees, CallerGoes, Task, Server,
        Clients, On, Moves
<1>4. ASSUME NEW d \in TunnelClients
      PROVE  ClientAgrees(d)'
    BY DEF TunnelInductive, TunnelTypeOK, ClientAgrees, Working, CallerGoes, Task, Server, Clients,
        On, Moves
<1> QED
    BY <1>1, <1>2, <1>3, <1>4 DEF TunnelInductive

LEMMA ServerListensKeeps ==
    ASSUME TunnelInductive, ServerListens
    PROVE  TunnelInductive'
<1>1. TunnelTypeOK'
    BY DEF TunnelInductive, TunnelTypeOK, TaskAgrees, ServerListens, Task, Server, Clients, On,
        Moves, Tell, Told, ClientStates
<1>2. TaskAgrees'
    BY DEF TunnelInductive, TunnelTypeOK, TaskAgrees, ServerListens, Task, Server, Clients, On,
        Moves, Tell
<1>3. ServerAgrees'
    BY DEF TunnelInductive, TunnelTypeOK, TaskAgrees, ServerAgrees, ServerListens, Task, Server,
        Clients, On, Moves
<1>4. ASSUME NEW d \in TunnelClients
      PROVE  ClientAgrees(d)'
    BY DEF TunnelInductive, TunnelTypeOK, ClientAgrees, Working, ServerListens, Task, Server,
        Clients, On, Moves
<1> QED
    BY <1>1, <1>2, <1>3, <1>4 DEF TunnelInductive

LEMMA TransportBreaksKeeps ==
    ASSUME TunnelInductive, TransportBreaks
    PROVE  TunnelInductive'
<1>1. TunnelTypeOK'
    BY DEF TunnelInductive, TunnelTypeOK, TransportBreaks, Task, Server, Clients, Retire, On,
        Moves, Tell, Told, ClientStates
<1>2. TaskAgrees'
    BY DEF TunnelInductive, TunnelTypeOK, TaskAgrees, TransportBreaks, Task, Server, Clients,
        Retire, On, Moves, Tell
<1>3. ServerAgrees'
    BY DEF TunnelInductive, TunnelTypeOK, TaskAgrees, ServerAgrees, TransportBreaks, Task, Server,
        Clients, Retire, On, Moves
<1>4. ASSUME NEW d \in TunnelClients
      PROVE  ClientAgrees(d)'
    BY DEF TunnelInductive, TunnelTypeOK, ClientAgrees, Working, TransportBreaks, Task, Server,
        Clients, Retire, On, Moves
<1> QED
    BY <1>1, <1>2, <1>3, <1>4 DEF TunnelInductive

LEMMA ServerChannelOpenForwardedTcpipKeeps ==
    ASSUME TunnelInductive, NEW c \in TunnelClients, ServerChannelOpenForwardedTcpip(c)
    PROVE  TunnelInductive'
<1>1. TunnelTypeOK'
    BY DEF TunnelInductive, TunnelTypeOK, ServerChannelOpenForwardedTcpip, Task, Server, Clients,
        MovesTo, On, Moves, Tell, Told, ClientStates
<1>2. TaskAgrees'
    BY DEF TunnelInductive, TunnelTypeOK, TaskAgrees, ServerChannelOpenForwardedTcpip, Task,
        Server, Clients, MovesTo, On, Moves, Tell
<1>3. ServerAgrees'
    BY DEF TunnelInductive, TunnelTypeOK, TaskAgrees, ServerAgrees,
        ServerChannelOpenForwardedTcpip, Task, Server, Clients, MovesTo, On, Moves
<1>4. ASSUME NEW d \in TunnelClients
      PROVE  ClientAgrees(d)'
    BY DEF TunnelInductive, TunnelTypeOK, ClientAgrees, Working, ServerChannelOpenForwardedTcpip,
        Task, Server, Clients, MovesTo, On, Moves
<1> QED
    BY <1>1, <1>2, <1>3, <1>4 DEF TunnelInductive

LEMMA ClientConnectsKeeps ==
    ASSUME TunnelInductive, NEW c \in TunnelClients, ClientConnects(c)
    PROVE  TunnelInductive'
<1>1. TunnelTypeOK'
    BY DEF TunnelInductive, TunnelTypeOK, ClientConnects, Task, Server, Clients, MovesTo, On,
        Moves, Tell, Told, ClientStates
<1>2. TaskAgrees'
    BY DEF TunnelInductive, TunnelTypeOK, TaskAgrees, ClientConnects, Task, Server, Clients,
        MovesTo, On, Moves, Tell
<1>3. ServerAgrees'
    BY DEF TunnelInductive, TunnelTypeOK, TaskAgrees, ServerAgrees, ClientConnects, Task, Server,
        Clients, MovesTo, On, Moves
<1>4. ASSUME NEW d \in TunnelClients
      PROVE  ClientAgrees(d)'
    BY DEF TunnelInductive, TunnelTypeOK, ClientAgrees, Working, ClientConnects, Task, Server,
        Clients, MovesTo, On, Moves
<1> QED
    BY <1>1, <1>2, <1>3, <1>4 DEF TunnelInductive

LEMMA NegotiateSocks5Keeps ==
    ASSUME TunnelInductive, NEW c \in TunnelClients,
        NegotiateSocks5(c) /\ UNCHANGED tunnelStep /\ UNCHANGED Task /\ UNCHANGED Server
    PROVE  TunnelInductive'
<1>1. TunnelTypeOK'
    BY DEF TunnelInductive, TunnelTypeOK, NegotiateSocks5, Task, Server, Clients, MovesTo, Answers,
        On, Moves, Tell, Told, ClientStates
<1>2. TaskAgrees'
    BY DEF TunnelInductive, TunnelTypeOK, TaskAgrees, NegotiateSocks5, Task, Server, Clients,
        MovesTo, Answers, On, Moves, Tell
<1>3. ServerAgrees'
    BY DEF TunnelInductive, TunnelTypeOK, TaskAgrees, ServerAgrees, NegotiateSocks5, Task, Server,
        Clients, MovesTo, Answers, On, Moves
<1>4. ASSUME NEW d \in TunnelClients
      PROVE  ClientAgrees(d)'
    BY DEF TunnelInductive, TunnelTypeOK, ClientAgrees, Working, NegotiateSocks5, Task, Server,
        Clients, MovesTo, Answers, On, Moves
<1> QED
    BY <1>1, <1>2, <1>3, <1>4 DEF TunnelInductive

LEMMA OpenDirectTcpipKeeps ==
    ASSUME TunnelInductive, NEW c \in TunnelClients,
        OpenDirectTcpip(c) /\ UNCHANGED tunnelStep /\ UNCHANGED Task /\ UNCHANGED Server
    PROVE  TunnelInductive'
<1>1. TunnelTypeOK'
    BY DEF TunnelInductive, TunnelTypeOK, OpenDirectTcpip, Task, Server, Clients, MovesTo, Answers,
        On, Moves, Tell, Told, ClientStates
<1>2. TaskAgrees'
    BY DEF TunnelInductive, TunnelTypeOK, TaskAgrees, OpenDirectTcpip, Task, Server, Clients,
        MovesTo, Answers, On, Moves, Tell
<1>3. ServerAgrees'
    BY DEF TunnelInductive, TunnelTypeOK, TaskAgrees, ServerAgrees, OpenDirectTcpip, Task, Server,
        Clients, MovesTo, Answers, On, Moves
<1>4. ASSUME NEW d \in TunnelClients
      PROVE  ClientAgrees(d)'
    BY DEF TunnelInductive, TunnelTypeOK, ClientAgrees, Working, OpenDirectTcpip, Task, Server,
        Clients, MovesTo, Answers, On, Moves
<1> QED
    BY <1>1, <1>2, <1>3, <1>4 DEF TunnelInductive

LEMMA SendSocks5SuccessKeeps ==
    ASSUME TunnelInductive, NEW c \in TunnelClients,
        SendSocks5Success(c) /\ UNCHANGED tunnelStep /\ UNCHANGED Task /\ UNCHANGED Server
    PROVE  TunnelInductive'
<1>1. TunnelTypeOK'
    BY DEF TunnelInductive, TunnelTypeOK, SendSocks5Success, Task, Server, Clients, MovesTo,
        Answers, On, Moves, Tell, Told, ClientStates
<1>2. TaskAgrees'
    BY DEF TunnelInductive, TunnelTypeOK, TaskAgrees, SendSocks5Success, Task, Server, Clients,
        MovesTo, Answers, On, Moves, Tell
<1>3. ServerAgrees'
    BY DEF TunnelInductive, TunnelTypeOK, TaskAgrees, ServerAgrees, SendSocks5Success, Task,
        Server, Clients, MovesTo, Answers, On, Moves
<1>4. ASSUME NEW d \in TunnelClients
      PROVE  ClientAgrees(d)'
    BY DEF TunnelInductive, TunnelTypeOK, ClientAgrees, Working, SendSocks5Success, Task, Server,
        Clients, MovesTo, Answers, On, Moves
<1> QED
    BY <1>1, <1>2, <1>3, <1>4 DEF TunnelInductive

LEMMA CopyEndsKeeps ==
    ASSUME TunnelInductive, NEW c \in TunnelClients,
        CopyEnds(c) /\ UNCHANGED tunnelStep /\ UNCHANGED Task /\ UNCHANGED Server
    PROVE  TunnelInductive'
<1>1. TunnelTypeOK'
    BY DEF TunnelInductive, TunnelTypeOK, CopyEnds, Task, Server, Clients, MovesTo, Answers, On,
        Moves, Tell, Told, ClientStates
<1>2. TaskAgrees'
    BY DEF TunnelInductive, TunnelTypeOK, TaskAgrees, CopyEnds, Task, Server, Clients, MovesTo,
        Answers, On, Moves, Tell
<1>3. ServerAgrees'
    BY DEF TunnelInductive, TunnelTypeOK, TaskAgrees, ServerAgrees, CopyEnds, Task, Server,
        Clients, MovesTo, Answers, On, Moves
<1>4. ASSUME NEW d \in TunnelClients
      PROVE  ClientAgrees(d)'
    BY DEF TunnelInductive, TunnelTypeOK, ClientAgrees, Working, CopyEnds, Task, Server, Clients,
        MovesTo, Answers, On, Moves
<1> QED
    BY <1>1, <1>2, <1>3, <1>4 DEF TunnelInductive

LEMMA TaskStartsKeeps ==
    ASSUME TunnelInductive, TaskStarts
    PROVE  TunnelInductive'
<1>1. TunnelTypeOK'
    BY DEF TunnelInductive, TunnelTypeOK, TaskStarts, Task, Server, Clients, On, Moves, Tell, Told,
        ClientStates
<1>2. TaskAgrees'
    BY DEF TunnelInductive, TunnelTypeOK, TaskAgrees, TaskStarts, Task, Server, Clients, On, Moves,
        Tell
<1>3. ServerAgrees'
    BY DEF TunnelInductive, TunnelTypeOK, TaskAgrees, ServerAgrees, TaskStarts, Task, Server,
        Clients, On, Moves
<1>4. ASSUME NEW d \in TunnelClients
      PROVE  ClientAgrees(d)'
    BY DEF TunnelInductive, TunnelTypeOK, ClientAgrees, Working, TaskStarts, Task, Server, Clients,
        On, Moves
<1> QED
    BY <1>1, <1>2, <1>3, <1>4 DEF TunnelInductive

LEMMA RejectTunnelKeeps ==
    ASSUME TunnelInductive, RejectTunnel
    PROVE  TunnelInductive'
<1>1. TunnelTypeOK'
    BY DEF TunnelInductive, TunnelTypeOK, RejectTunnel, Task, Server, Clients, Over, Backlog,
        Retire, On, Moves, Tell, Told, ClientStates
<1>2. TaskAgrees'
    BY DEF TunnelInductive, TunnelTypeOK, TaskAgrees, RejectTunnel, Task, Server, Clients, Over,
        Backlog, Retire, On, Moves, Tell
<1>3. ServerAgrees'
    BY DEF TunnelInductive, TunnelTypeOK, TaskAgrees, ServerAgrees, RejectTunnel, Task, Server,
        Clients, Over, Backlog, Retire, On, Moves
<1>4. ASSUME NEW d \in TunnelClients
      PROVE  ClientAgrees(d)'
    BY DEF TunnelInductive, TunnelTypeOK, ClientAgrees, Working, RejectTunnel, Task, Server,
        Clients, Over, Backlog, Retire, On, Moves
<1> QED
    BY <1>1, <1>2, <1>3, <1>4 DEF TunnelInductive

LEMMA RequestRemoteForwardKeeps ==
    ASSUME TunnelInductive, RequestRemoteForward
    PROVE  TunnelInductive'
<1>1. TunnelTypeOK'
    BY DEF TunnelInductive, TunnelTypeOK, RequestRemoteForward, Task, Server, Clients, Over,
        Backlog, Retire, On, Moves, Tell, Told, ClientStates
<1>2. TaskAgrees'
    BY DEF TunnelInductive, TunnelTypeOK, TaskAgrees, RequestRemoteForward, Task, Server, Clients,
        Over, Backlog, Retire, On, Moves, Tell
<1>3. ServerAgrees'
    BY DEF TunnelInductive, TunnelTypeOK, TaskAgrees, ServerAgrees, RequestRemoteForward, Task,
        Server, Clients, Over, Backlog, Retire, On, Moves
<1>4. ASSUME NEW d \in TunnelClients
      PROVE  ClientAgrees(d)'
    BY DEF TunnelInductive, TunnelTypeOK, ClientAgrees, Working, RequestRemoteForward, Task,
        Server, Clients, Over, Backlog, Retire, On, Moves
<1> QED
    BY <1>1, <1>2, <1>3, <1>4 DEF TunnelInductive

LEMMA CancelRemoteForwardKeeps ==
    ASSUME TunnelInductive, CancelRemoteForward
    PROVE  TunnelInductive'
<1>1. TunnelTypeOK'
    BY DEF TunnelInductive, TunnelTypeOK, CancelRemoteForward, Task, Server, Clients, Over,
        Backlog, Retire, On, Moves, Tell, Told, ClientStates
<1>2. TaskAgrees'
    BY DEF TunnelInductive, TunnelTypeOK, TaskAgrees, CancelRemoteForward, Task, Server, Clients,
        Over, Backlog, Retire, On, Moves, Tell
<1>3. ServerAgrees'
    BY DEF TunnelInductive, TunnelTypeOK, TaskAgrees, ServerAgrees, CancelRemoteForward, Task,
        Server, Clients, Over, Backlog, Retire, On, Moves
<1>4. ASSUME NEW d \in TunnelClients
      PROVE  ClientAgrees(d)'
    BY DEF TunnelInductive, TunnelTypeOK, ClientAgrees, Working, CancelRemoteForward, Task, Server,
        Clients, Over, Backlog, Retire, On, Moves
<1> QED
    BY <1>1, <1>2, <1>3, <1>4 DEF TunnelInductive

LEMMA ReportTunnelKeeps ==
    ASSUME TunnelInductive, ReportTunnel
    PROVE  TunnelInductive'
<1>1. TunnelTypeOK'
    BY DEF TunnelInductive, TunnelTypeOK, ReportTunnel, Task, Server, Clients, Over, Backlog,
        Retire, On, Moves, Tell, Told, ClientStates
<1>2. TaskAgrees'
    BY DEF TunnelInductive, TunnelTypeOK, TaskAgrees, ReportTunnel, Task, Server, Clients, Over,
        Backlog, Retire, On, Moves, Tell
<1>3. ServerAgrees'
    BY DEF TunnelInductive, TunnelTypeOK, TaskAgrees, ServerAgrees, ReportTunnel, Task, Server,
        Clients, Over, Backlog, Retire, On, Moves
<1>4. ASSUME NEW d \in TunnelClients
      PROVE  ClientAgrees(d)'
    BY DEF TunnelInductive, TunnelTypeOK, ClientAgrees, Working, ReportTunnel, Task, Server,
        Clients, Over, Backlog, Retire, On, Moves
<1> QED
    BY <1>1, <1>2, <1>3, <1>4 DEF TunnelInductive

LEMMA ReplyToCallerKeeps ==
    ASSUME TunnelInductive, ReplyToCaller
    PROVE  TunnelInductive'
<1>1. TunnelTypeOK'
    BY DEF TunnelInductive, TunnelTypeOK, ReplyToCaller, Task, Server, Clients, On, Moves, Tell,
        Told, ClientStates
<1>2. TaskAgrees'
    BY DEF TunnelInductive, TunnelTypeOK, TaskAgrees, ReplyToCaller, Task, Server, Clients, On,
        Moves, Tell
<1>3. ServerAgrees'
    BY DEF TunnelInductive, TunnelTypeOK, TaskAgrees, ServerAgrees, ReplyToCaller, Task, Server,
        Clients, On, Moves
<1>4. ASSUME NEW d \in TunnelClients
      PROVE  ClientAgrees(d)'
    BY DEF TunnelInductive, TunnelTypeOK, ClientAgrees, Working, ReplyToCaller, Task, Server,
        Clients, On, Moves
<1> QED
    BY <1>1, <1>2, <1>3, <1>4 DEF TunnelInductive

LEMMA AcceptClientKeeps ==
    ASSUME TunnelInductive, NEW c \in TunnelClients, AcceptClient(c)
    PROVE  TunnelInductive'
<1>1. TunnelTypeOK'
    BY DEF TunnelInductive, TunnelTypeOK, AcceptClient, Task, Server, Clients, MovesTo, Backlog,
        Queue, On, Moves, Tell, Told, ClientStates
<1>2. TaskAgrees'
    BY DEF TunnelInductive, TunnelTypeOK, TaskAgrees, AcceptClient, Task, Server, Clients, MovesTo,
        Backlog, Queue, On, Moves, Tell
<1>3. ServerAgrees'
    BY DEF TunnelInductive, TunnelTypeOK, TaskAgrees, ServerAgrees, AcceptClient, Task, Server,
        Clients, MovesTo, Backlog, Queue, On, Moves
<1>4. ASSUME NEW d \in TunnelClients
      PROVE  ClientAgrees(d)'
    BY DEF TunnelInductive, TunnelTypeOK, ClientAgrees, Working, AcceptClient, Task, Server,
        Clients, MovesTo, Backlog, Queue, On, Moves
<1> QED
    BY <1>1, <1>2, <1>3, <1>4 DEF TunnelInductive

LEMMA JoinWorkerKeeps ==
    ASSUME TunnelInductive, NEW c \in TunnelClients, JoinWorker(c)
    PROVE  TunnelInductive'
<1>1. TunnelTypeOK'
    BY DEF TunnelInductive, TunnelTypeOK, JoinWorker, Task, Server, Clients, MovesTo, Backlog,
        Queue, On, Moves, Tell, Told, ClientStates
<1>2. TaskAgrees'
    BY DEF TunnelInductive, TunnelTypeOK, TaskAgrees, JoinWorker, Task, Server, Clients, MovesTo,
        Backlog, Queue, On, Moves, Tell
<1>3. ServerAgrees'
    BY DEF TunnelInductive, TunnelTypeOK, TaskAgrees, ServerAgrees, JoinWorker, Task, Server,
        Clients, MovesTo, Backlog, Queue, On, Moves
<1>4. ASSUME NEW d \in TunnelClients
      PROVE  ClientAgrees(d)'
    BY DEF TunnelInductive, TunnelTypeOK, ClientAgrees, Working, JoinWorker, Task, Server, Clients,
        MovesTo, Backlog, Queue, On, Moves
<1> QED
    BY <1>1, <1>2, <1>3, <1>4 DEF TunnelInductive

LEMMA SeeCancelKeeps ==
    ASSUME TunnelInductive, SeeCancel
    PROVE  TunnelInductive'
<1>1. TunnelTypeOK'
    BY DEF TunnelInductive, TunnelTypeOK, SeeCancel, Task, Server, Clients, On, Moves, Tell, Told,
        ClientStates
<1>2. TaskAgrees'
    BY DEF TunnelInductive, TunnelTypeOK, TaskAgrees, SeeCancel, Task, Server, Clients, On, Moves,
        Tell
<1>3. ServerAgrees'
    BY DEF TunnelInductive, TunnelTypeOK, TaskAgrees, ServerAgrees, SeeCancel, Task, Server,
        Clients, On, Moves
<1>4. ASSUME NEW d \in TunnelClients
      PROVE  ClientAgrees(d)'
    BY DEF TunnelInductive, TunnelTypeOK, ClientAgrees, Working, SeeCancel, Task, Server, Clients,
        On, Moves
<1> QED
    BY <1>1, <1>2, <1>3, <1>4 DEF TunnelInductive

LEMMA ListenerFailsKeeps ==
    ASSUME TunnelInductive, ListenerFails
    PROVE  TunnelInductive'
<1>1. TunnelTypeOK'
    BY DEF TunnelInductive, TunnelTypeOK, ListenerFails, Task, Server, Clients, On, Moves, Tell,
        Told, ClientStates
<1>2. TaskAgrees'
    BY DEF TunnelInductive, TunnelTypeOK, TaskAgrees, ListenerFails, Task, Server, Clients, On,
        Moves, Tell
<1>3. ServerAgrees'
    BY DEF TunnelInductive, TunnelTypeOK, TaskAgrees, ServerAgrees, ListenerFails, Task, Server,
        Clients, On, Moves
<1>4. ASSUME NEW d \in TunnelClients
      PROVE  ClientAgrees(d)'
    BY DEF TunnelInductive, TunnelTypeOK, ClientAgrees, Working, ListenerFails, Task, Server,
        Clients, On, Moves
<1> QED
    BY <1>1, <1>2, <1>3, <1>4 DEF TunnelInductive

LEMMA ShutDownWorkersKeeps ==
    ASSUME TunnelInductive, ShutDownWorkers
    PROVE  TunnelInductive'
<1>1. TunnelTypeOK'
    BY DEF TunnelInductive, TunnelTypeOK, ShutDownWorkers, Task, Server, Clients, Workers, On,
        Moves, Tell, Told, ClientStates
<1>2. TaskAgrees'
    BY DEF TunnelInductive, TunnelTypeOK, TaskAgrees, ShutDownWorkers, Task, Server, Clients,
        Workers, On, Moves, Tell
<1>3. ServerAgrees'
    BY DEF TunnelInductive, TunnelTypeOK, TaskAgrees, ServerAgrees, ShutDownWorkers, Task, Server,
        Clients, Workers, On, Moves
<1>4. ASSUME NEW d \in TunnelClients
      PROVE  ClientAgrees(d)'
    BY DEF TunnelInductive, TunnelTypeOK, ClientAgrees, Working, ShutDownWorkers, Task, Server,
        Clients, Workers, On, Moves
<1> QED
    BY <1>1, <1>2, <1>3, <1>4 DEF TunnelInductive

-----------------------------------------------------------------------------
\* The invariant of a behaviour.

LEMMA TunnelInitEstablishes == TunnelInit => TunnelInductive
<1> SUFFICES ASSUME TunnelInit PROVE TunnelInductive
    OBVIOUS
<1>1. TunnelTypeOK
  <2>1. 0 \in 0..TunnelStarts
    BY TunnelAssumption
  <2> QED
    BY <2>1 DEF TunnelInit, TunnelTypeOK, Told, ClientStates
<1>2. TaskAgrees /\ ServerAgrees
    BY DEF TunnelInit, TaskAgrees, ServerAgrees, On
<1>3. ASSUME NEW c \in TunnelClients
      PROVE  ClientAgrees(c)
    BY DEF TunnelInit, ClientAgrees, Working
<1> QED
    BY <1>1, <1>2, <1>3 DEF TunnelInductive

LEMMA StutterKeeps == TunnelInductive /\ UNCHANGED tunnelVars => TunnelInductive'
BY DEF TunnelInductive, TunnelTypeOK, TaskAgrees, ServerAgrees, ClientAgrees, On, tunnelVars

LEMMA WorkerKeeps ==
    ASSUME TunnelInductive, Worker
    PROVE  TunnelInductive'
BY NegotiateSocks5Keeps, OpenDirectTcpipKeeps, SendSocks5SuccessKeeps,
    CopyEndsKeeps DEF Worker

LEMMA TaskKeeps ==
    ASSUME TunnelInductive, TunnelTask
    PROVE  TunnelInductive'
<1>1. CASE ServeClients
    BY <1>1, AcceptClientKeeps, JoinWorkerKeeps, SeeCancelKeeps, ListenerFailsKeeps,
        ShutDownWorkersKeeps, ReportTunnelKeeps DEF ServeClients
<1>2. CASE TaskStarts
    BY <1>2, TaskStartsKeeps
<1>3. CASE RequestRemoteForward \/ ReplyToCaller \/ CancelRemoteForward
    BY <1>3, RequestRemoteForwardKeeps, ReplyToCallerKeeps, CancelRemoteForwardKeeps
<1> QED
    BY <1>1, <1>2, <1>3 DEF TunnelTask, RunLocalForward, RunDynamicForward, RunRemoteForward

LEMMA TunnelNextKeeps == TunnelInductive /\ [TunnelNext]_tunnelVars => TunnelInductive'
<1> SUFFICES ASSUME TunnelInductive, [TunnelNext]_tunnelVars PROVE TunnelInductive'
    OBVIOUS
<1>1. CASE StartLocalForward \/ StartDynamicForward \/ StartRemoteForward
    BY <1>1, StartLocalForwardKeeps, StartDynamicForwardKeeps, StartRemoteForwardKeeps
<1>2. CASE CancelTunnel \/ CallerGoes \/ ServerListens \/ TransportBreaks
    BY <1>2, CancelTunnelKeeps, CallerGoesKeeps, ServerListensKeeps, TransportBreaksKeeps
<1>3. CASE \E c \in TunnelClients : ServerChannelOpenForwardedTcpip(c) \/ ClientConnects(c)
    BY <1>3, ServerChannelOpenForwardedTcpipKeeps, ClientConnectsKeeps
<1>4. CASE Worker \/ TunnelTask \/ RejectTunnel
    BY <1>4, WorkerKeeps, TaskKeeps, RejectTunnelKeeps
<1>5. CASE UNCHANGED tunnelVars
    BY <1>5, StutterKeeps
<1> QED
    BY <1>1, <1>2, <1>3, <1>4, <1>5 DEF TunnelNext

LEMMA Invariance == TunnelSpec => []TunnelInductive
BY TunnelInitEstablishes, TunnelNextKeeps, PTL DEF TunnelSpec

-----------------------------------------------------------------------------
\* The events.

\* What TunnelEvents says of a step.
EventStep ==
    /\ tunnelTold \in {"stopped", "failed"} => tunnelTold' = tunnelTold \/ tunnelRun' > tunnelRun
    /\ tunnelTold = "stopping" => tunnelTold' \in {"stopping", "stopped", "failed"}
    /\ ~On("off") /\ tunnelStep' = "off"
           => \/ tunnelTold' \in {"stopped", "failed"} \/ On("withdraw")
              \/ On("request") /\ tunnelTold' = "none"

\* Only the task, and who starts or rejects a tunnel, tells anything.
LEMMA QuietStep ==
    ASSUME TunnelInductive, UNCHANGED <<tunnelTold, tunnelStep>>
    PROVE  EventStep
BY DEF EventStep, On, TunnelInductive, TunnelTypeOK

LEMMA EventsStep == TunnelInductive /\ [TunnelNext]_tunnelVars => EventStep
<1> SUFFICES ASSUME TunnelInductive, [TunnelNext]_tunnelVars PROVE EventStep
    OBVIOUS
<1>1. TaskAgrees /\ TunnelTypeOK
    BY DEF TunnelInductive
<1>2. CASE StartLocalForward \/ StartDynamicForward \/ StartRemoteForward
  <2>1. CanStart /\ tunnelStep' = "queued" /\ tunnelRun' = tunnelRun + 1
    BY <1>2 DEF StartLocalForward, StartDynamicForward, StartRemoteForward, Start, Moves
  <2>2. tunnelRun' > tunnelRun
    BY <1>1, <2>1, StartFacts
  <2> QED
    BY <1>1, <2>1, <2>2 DEF EventStep, TaskAgrees, CanStart, On
<1>3. CASE CancelTunnel \/ CallerGoes \/ ServerListens \/ TransportBreaks \/ Worker
    BY <1>3, QuietStep DEF CancelTunnel, CallerGoes, ServerListens, TransportBreaks, Worker,
        Task
<1>4. CASE \E c \in TunnelClients : ServerChannelOpenForwardedTcpip(c) \/ ClientConnects(c)
    BY <1>4, QuietStep DEF ServerChannelOpenForwardedTcpip, ClientConnects, Task
<1>5. CASE TaskStarts \/ RejectTunnel
    BY <1>1, <1>5 DEF TaskStarts, RejectTunnel, Over, EventStep, TaskAgrees, On, Moves, Tell
<1>6. CASE RequestRemoteForward \/ ReplyToCaller
    BY <1>1, <1>6 DEF RequestRemoteForward, ReplyToCaller, Over, EventStep, TaskAgrees, On,
        Moves, Tell
<1>7. CASE CancelRemoteForward \/ ReportTunnel
    BY <1>1, <1>7 DEF CancelRemoteForward, ReportTunnel, Over, EventStep, TaskAgrees, On,
        Moves,
        Tell
<1>8. CASE \E c \in TunnelClients : AcceptClient(c) \/ JoinWorker(c)
    BY <1>1, <1>8 DEF AcceptClient, JoinWorker, EventStep, TaskAgrees, On, Tell
<1>9. CASE SeeCancel \/ ListenerFails \/ ShutDownWorkers
    BY <1>1, <1>9 DEF SeeCancel, ListenerFails, ShutDownWorkers, EventStep, TaskAgrees, On,
        Moves, Tell, Task
<1>10. CASE UNCHANGED tunnelVars
    BY <1>10, QuietStep DEF tunnelVars
<1>11. TunnelTask =>
           \/ TaskStarts \/ RequestRemoteForward \/ ReplyToCaller \/ CancelRemoteForward
           \/ (\E c \in TunnelClients : AcceptClient(c) \/ JoinWorker(c))
           \/ SeeCancel \/ ListenerFails \/ ShutDownWorkers \/ ReportTunnel
    BY DEF TunnelTask, RunLocalForward, RunDynamicForward, RunRemoteForward, ServeClients
<1> QED
    BY <1>2, <1>3, <1>4, <1>5, <1>6, <1>7, <1>8, <1>9, <1>10, <1>11 DEF TunnelNext

-----------------------------------------------------------------------------
\* The theorems.

\* In whatever order a tunnel is cancelled, loses its server or its caller, its events
\* are in order: one ending, nothing after it, and only a remote forward that nobody
\* waits for any more goes without one.
THEOREM EventsAreInOrder == TunnelSpec => TunnelEvents
<1>1. TunnelSpec => [][TunnelNext]_tunnelVars
    BY PTL DEF TunnelSpec
<1>2. TunnelInductive /\ [TunnelNext]_tunnelVars => [EventStep]_tunnelVars
    BY EventsStep
<1>3. TunnelSpec => [][EventStep]_tunnelVars
    BY <1>1, <1>2, Invariance, PTL
<1>4. [EventStep]_tunnelVars =>
         [/\ tunnelTold \in {"stopped", "failed"} => tunnelTold' = tunnelTold \/ tunnelRun' > tunnelRun
          /\ tunnelTold = "stopping" => tunnelTold' \in {"stopping", "stopped", "failed"}
          /\ ~On("off") /\ tunnelStep' = "off"
                => tunnelTold' \in {"stopped", "failed"} \/ On("withdraw") \/ (On("request") /\ tunnelTold' = "none")
         ]_tunnelVars
    BY DEF EventStep
<1> QED
    BY <1>3, <1>4, PTL DEF TunnelEvents

\* The server listens for the tunnel that runs and no other, and for none between two:
\* a forward whose answer was late, dropped or never came, and one whose revocation was
\* not confirmed, has taken the connection with it.
THEOREM ListenersEnd == TunnelSpec => []NoListenerLeft
<1>1. TunnelInductive => NoListenerLeft
    BY DEF TunnelInductive, ServerAgrees, NoListenerLeft, On
<1> QED
    BY <1>1, Invariance, PTL

\* However many clients a SOCKS proxy has, each hears "succeeded" once, before its first
\* byte, or that it is refused, and never both.
THEOREM SocksClientsHearOnce == TunnelSpec => []SocksAnswersOnce
<1>1. TunnelInductive => SocksAnswersOnce
    BY DEF TunnelInductive, ClientAgrees, SocksAnswersOnce
<1> QED
    BY <1>1, Invariance, PTL

-----------------------------------------------------------------------------
\* A transfer.

\* What the renderer was told, and which request is carried out.
ToldAgrees ==
    /\ transferStep \in {"off", "slot"} => told = "queued"
    /\ transferStep \notin {"off", "slot", "over"} => told = "running"
    /\ From("over") => Ended
    /\ ~From("off") => request \in Accepted
    /\ transferStep \in {"walk", "pick", "close"} => request.recursive
    /\ transferStep \in {"sync", "commit", "place", "unlink"} => ~Up
    /\ transferStep \in {"promote", "rename", "close"} => Up
    /\ transferStep \in {"verify", "backup", "swap", "restore", "unbackup"} =>
          Up /\ request.overwrite

\* Before the file is replaced there is no error but one that ends the work on it, and
\* after it only in doubt.
ProgressAgrees ==
    /\ transferStep \in {"off", "slot", "walk"} => progress = "idle"
    /\ From("pick") => progress \in {"idle", "replaced"}
    /\ transferStep \in {"inspect", "create", "copy", "sync", "appear", "commit", "place",
                         "promote", "rename", "backup", "swap"} => progress = "trying"
    /\ transferStep \in {"unlink", "unbackup"} => progress = "replaced"
    /\ transferStep \in {"verify", "restore", "discard"} => progress # "idle" /\ problem # "none"
    /\ transferStep \in {"close", "report"} /\ problem = "none" => progress # "trying"
    /\ progress = "replaced" /\ problem # "none" =>
          transferStep \in {"unbackup", "over"} \/ (problem = "failed" /\ unsure)
    /\ transferStep \in {"off", "slot", "walk", "pick", "inspect", "create", "copy", "sync",
                         "appear", "commit", "place", "unlink", "promote", "rename"} => problem = "none"

\* The temporary file and the backup, at every step, as long as every request was answered.
FilesAgree ==
    /\ dest # "partial" /\ (transferStep \in {"off", "slot"} => dest = "none")
    /\ transferStep \in {"off", "slot", "walk", "pick", "inspect", "create", "unbackup"} =>
          part = "none"
    /\ From("copy") => part = "partial"
    /\ transferStep \in {"sync", "appear", "commit", "place", "unlink", "promote", "rename",
                         "backup", "swap"} => part = "new"
    /\ transferStep \in {"verify", "restore"} =>
          part \in {"none", "new"} /\ (part = "none" <=> unsure)
    /\ transferStep \in {"close", "report", "over"} => part = "none" \/ unsure
    /\ transferStep \in {"swap", "restore", "unbackup"} => backup # "none"
    /\ transferStep \notin {"swap", "restore", "unbackup"} => backup = "none" \/ unsure
    /\ From("unbackup") => dest # "none"
    /\ unsure => transferStep \in {"verify", "restore", "discard", "close", "report", "over"}
    /\ sink => ~Sftp /\ transferStep \in {"discard", "report", "over"} /\ progress # "idle"

TransferInductive == TransferTypeOK /\ ToldAgrees /\ ProgressAgrees /\ FilesAgree

\* TransferTypeOK in two parts.
FlagsTyped ==
    cancelled \in BOOLEAN /\ unsure \in BOOLEAN /\ foreign \in BOOLEAN /\ sink \in BOOLEAN

ValuesTyped ==
    /\ request \in Requests /\ transferStep \in Steps
    /\ told \in TransferStates /\ problem \in {"none", "cancelled", "failed"}
    /\ dest \in Contents \cup {"partial"} /\ part \in {"none", "partial", "new"}
    /\ backup \in Contents /\ progress \in {"idle", "trying", "replaced"}

\* The steps of a transfer, one by one.
LEMMA TransferCases ==
    ASSUME [TransferNext]_transferVars
    PROVE  \/ \E r \in Requests : StartTransfer(r)
           \/ CancelTransfer \/ WaitForSlot \/ ReportTransfer \/ CollectRemoteFiles
           \/ CollectLocalFiles \/ NextFile \/ Inspect \/ CreateLocalDownloadFile
           \/ DownloadTo \/ ScpDownload \/ SyncLocalFile \/ DownloadDestinationExists
           \/ UploadDestinationExists \/ CheckCommit \/ PlaceLocalFile \/ UnlinkLocalPart
           \/ RemovePartialDownload \/ OpenUploadTemporary \/ UploadTemporaryFrom \/ ScpUpload
           \/ CheckPromotion \/ RenameToDestination \/ VerifyBoth \/ MoveToBackup \/ SwapIn
           \/ RestoreBackup \/ RemoveBackup \/ CleanupTemporaryFile \/ CloseAfterUpload
           \/ OtherWrites \/ RemoteScpCreates \/ UNCHANGED transferVars
BY DEF TransferNext, TransferWork, RunTransfer, DownloadDirectory, UploadDirectory,
   RunScpDownload,
       RunDownload, DownloadFileAtomically, RunScpUpload, RunUpload, UploadFileAtomically,
       CommitLocalFile, PromoteUploadedFile

\* The steps keep the types of the flags.
LEMMA TransferFlags ==
    ASSUME TransferInductive, [TransferNext]_transferVars
    PROVE  FlagsTyped'
<1> USE DEF FlagsTyped, TransferInductive, TransferTypeOK, From, Proceed, Fails, OnlyMoves,
    OnlyPart, FileDone, GivesUp, Asks, RemoteChange, Copied, DestinationExists, Renamable, Up,
    Sftp, transferFiles
<1>1. ASSUME NEW r \in Requests, StartTransfer(r)
      PROVE  FlagsTyped'
  BY <1>1 DEF StartTransfer
<1>2. CASE CancelTransfer
  BY <1>2 DEF CancelTransfer
<1>3. CASE WaitForSlot
  BY <1>3 DEF WaitForSlot
<1>4. CASE ReportTransfer
  BY <1>4 DEF ReportTransfer
<1>5. CASE CollectRemoteFiles
  BY <1>5 DEF CollectRemoteFiles
<1>6. CASE CollectLocalFiles
  BY <1>6 DEF CollectLocalFiles
<1>7. CASE NextFile
  BY <1>7 DEF NextFile
<1>8. CASE Inspect
  BY <1>8 DEF Inspect
<1>9. CASE CreateLocalDownloadFile
  BY <1>9 DEF CreateLocalDownloadFile
<1>10. CASE DownloadTo
  BY <1>10 DEF DownloadTo
<1>11. CASE ScpDownload
  BY <1>11 DEF ScpDownload
<1>12. CASE SyncLocalFile
  BY <1>12 DEF SyncLocalFile
<1>13. CASE DownloadDestinationExists
  BY <1>13 DEF DownloadDestinationExists
<1>14. CASE UploadDestinationExists
  BY <1>14 DEF UploadDestinationExists
<1>15. CASE CheckCommit
  BY <1>15 DEF CheckCommit
<1>16. CASE PlaceLocalFile
  BY <1>16 DEF PlaceLocalFile
<1>17. CASE UnlinkLocalPart
  BY <1>17 DEF UnlinkLocalPart
<1>18. CASE RemovePartialDownload
  BY <1>18 DEF RemovePartialDownload
<1>19. CASE OpenUploadTemporary
  BY <1>19 DEF OpenUploadTemporary
<1>20. CASE UploadTemporaryFrom
  BY <1>20 DEF UploadTemporaryFrom
<1>21. CASE ScpUpload
  BY <1>21 DEF ScpUpload
<1>22. CASE CheckPromotion
  BY <1>22 DEF CheckPromotion
<1>23. CASE RenameToDestination
  BY <1>23 DEF RenameToDestination
<1>24. CASE VerifyBoth
  BY <1>24 DEF VerifyBoth
<1>25. CASE MoveToBackup
  BY <1>25 DEF MoveToBackup
<1>26. CASE SwapIn
  BY <1>26 DEF SwapIn
<1>27. CASE RestoreBackup
  BY <1>27 DEF RestoreBackup
<1>28. CASE RemoveBackup
  BY <1>28 DEF RemoveBackup
<1>29. CASE CleanupTemporaryFile
  BY <1>29 DEF CleanupTemporaryFile
<1>30. CASE CloseAfterUpload
  BY <1>30 DEF CloseAfterUpload
<1>31. CASE OtherWrites
  BY <1>31 DEF OtherWrites
<1>32. CASE RemoteScpCreates
  BY <1>32 DEF RemoteScpCreates
<1>33. CASE UNCHANGED transferVars
  BY <1>33 DEF transferVars, transferFiles
<1> QED
  BY <1>1, <1>2, <1>3, <1>4, <1>5, <1>6, <1>7, <1>8, <1>9, <1>10, <1>11, <1>12, <1>13, <1>14,
     <1>15, <1>16, <1>17, <1>18, <1>19, <1>20, <1>21, <1>22, <1>23, <1>24, <1>25, <1>26, <1>27,
     <1>28, <1>29, <1>30, <1>31, <1>32, <1>33, TransferCases

\* The steps keep the types of the request, the files and the report.
LEMMA TransferValues ==
    ASSUME TransferInductive, [TransferNext]_transferVars
    PROVE  ValuesTyped'
<1> USE DEF ValuesTyped, TransferInductive, TransferTypeOK, FilesAgree, Requests, Accepted,
    Directions, Protocols, Contents, Steps, TransferStates, Lifecycle, Ended, From, Proceed,
    Fails, OnlyMoves, OnlyPart, FileDone, GivesUp, Asks, RemoteChange, Copied, DestinationExists,
    Renamable, Up, Sftp, transferFiles
<1>1. ASSUME NEW r \in Requests, StartTransfer(r)
      PROVE  ValuesTyped'
  BY <1>1 DEF StartTransfer
<1>2. CASE CancelTransfer
  BY <1>2 DEF CancelTransfer
<1>3. CASE WaitForSlot
  BY <1>3 DEF WaitForSlot
<1>4. CASE ReportTransfer
  BY <1>4 DEF ReportTransfer
<1>5. CASE CollectRemoteFiles
  BY <1>5 DEF CollectRemoteFiles
<1>6. CASE CollectLocalFiles
  BY <1>6 DEF CollectLocalFiles
<1>7. CASE NextFile
  BY <1>7 DEF NextFile
<1>8. CASE Inspect
  BY <1>8 DEF Inspect
<1>9. CASE CreateLocalDownloadFile
  BY <1>9 DEF CreateLocalDownloadFile
<1>10. CASE DownloadTo
  BY <1>10 DEF DownloadTo
<1>11. CASE ScpDownload
  BY <1>11 DEF ScpDownload
<1>12. CASE SyncLocalFile
  BY <1>12 DEF SyncLocalFile
<1>13. CASE DownloadDestinationExists
  BY <1>13 DEF DownloadDestinationExists
<1>14. CASE UploadDestinationExists
  BY <1>14 DEF UploadDestinationExists
<1>15. CASE CheckCommit
  BY <1>15 DEF CheckCommit
<1>16. CASE PlaceLocalFile
  BY <1>16 DEF PlaceLocalFile
<1>17. CASE UnlinkLocalPart
  BY <1>17 DEF UnlinkLocalPart
<1>18. CASE RemovePartialDownload
  BY <1>18 DEF RemovePartialDownload
<1>19. CASE OpenUploadTemporary
  BY <1>19 DEF OpenUploadTemporary
<1>20. CASE UploadTemporaryFrom
  BY <1>20 DEF UploadTemporaryFrom
<1>21. CASE ScpUpload
  BY <1>21 DEF ScpUpload
<1>22. CASE CheckPromotion
  BY <1>22 DEF CheckPromotion
<1>23. CASE RenameToDestination
  BY <1>23 DEF RenameToDestination
<1>24. CASE VerifyBoth
  BY <1>24 DEF VerifyBoth
<1>25. CASE MoveToBackup
  BY <1>25 DEF MoveToBackup
<1>26. CASE SwapIn
  BY <1>26 DEF SwapIn
<1>27. CASE RestoreBackup
  BY <1>27 DEF RestoreBackup
<1>28. CASE RemoveBackup
  BY <1>28 DEF RemoveBackup
<1>29. CASE CleanupTemporaryFile
  BY <1>29 DEF CleanupTemporaryFile
<1>30. CASE CloseAfterUpload
  BY <1>30 DEF CloseAfterUpload
<1>31. CASE OtherWrites
  BY <1>31 DEF OtherWrites
<1>32. CASE RemoteScpCreates
  BY <1>32 DEF RemoteScpCreates
<1>33. CASE UNCHANGED transferVars
  BY <1>33 DEF transferVars, transferFiles
<1> QED
  BY <1>1, <1>2, <1>3, <1>4, <1>5, <1>6, <1>7, <1>8, <1>9, <1>10, <1>11, <1>12, <1>13, <1>14,
     <1>15, <1>16, <1>17, <1>18, <1>19, <1>20, <1>21, <1>22, <1>23, <1>24, <1>25, <1>26, <1>27,
     <1>28, <1>29, <1>30, <1>31, <1>32, <1>33, TransferCases

\* The steps keep what a step knows of the report, the progress and the files.
LEMMA TransferKeeps ==
    ASSUME TransferInductive, [TransferNext]_transferVars
    PROVE  ToldAgrees' /\ ProgressAgrees' /\ FilesAgree'
<1> USE DEF TransferInductive, TransferTypeOK, ToldAgrees, ProgressAgrees, FilesAgree, Requests,
    Accepted, Directions, Protocols, Contents, Steps, TransferStates, Lifecycle, Ended, From,
    Proceed, Fails, OnlyMoves, OnlyPart, FileDone, GivesUp, Asks, RemoteChange, Copied,
    DestinationExists, Renamable, Up, Sftp, transferFiles
<1>1. ASSUME NEW r \in Requests, StartTransfer(r)
      PROVE  ToldAgrees' /\ ProgressAgrees' /\ FilesAgree'
  BY <1>1 DEF StartTransfer
<1>2. CASE CancelTransfer
  BY <1>2 DEF CancelTransfer
<1>3. CASE WaitForSlot
  BY <1>3 DEF WaitForSlot
<1>4. CASE ReportTransfer
  BY <1>4 DEF ReportTransfer
<1>5. CASE CollectRemoteFiles
  BY <1>5 DEF CollectRemoteFiles
<1>6. CASE CollectLocalFiles
  BY <1>6 DEF CollectLocalFiles
<1>7. CASE NextFile
  BY <1>7 DEF NextFile
<1>8. CASE Inspect
  BY <1>8 DEF Inspect
<1>9. CASE CreateLocalDownloadFile
  BY <1>9 DEF CreateLocalDownloadFile
<1>10. CASE DownloadTo
  BY <1>10 DEF DownloadTo
<1>11. CASE ScpDownload
  BY <1>11 DEF ScpDownload
<1>12. CASE SyncLocalFile
  BY <1>12 DEF SyncLocalFile
<1>13. CASE DownloadDestinationExists
  BY <1>13 DEF DownloadDestinationExists
<1>14. CASE UploadDestinationExists
  BY <1>14 DEF UploadDestinationExists
<1>15. CASE CheckCommit
  BY <1>15 DEF CheckCommit
<1>16. CASE PlaceLocalFile
  BY <1>16 DEF PlaceLocalFile
<1>17. CASE UnlinkLocalPart
  BY <1>17 DEF UnlinkLocalPart
<1>18. CASE RemovePartialDownload
  BY <1>18 DEF RemovePartialDownload
<1>19. CASE OpenUploadTemporary
  BY <1>19 DEF OpenUploadTemporary
<1>20. CASE UploadTemporaryFrom
  BY <1>20 DEF UploadTemporaryFrom
<1>21. CASE ScpUpload
  BY <1>21 DEF ScpUpload
<1>22. CASE CheckPromotion
  BY <1>22 DEF CheckPromotion
<1>23. CASE RenameToDestination
  BY <1>23 DEF RenameToDestination
<1>24. CASE VerifyBoth
  BY <1>24 DEF VerifyBoth
<1>25. CASE MoveToBackup
  BY <1>25 DEF MoveToBackup
<1>26. CASE SwapIn
  BY <1>26 DEF SwapIn
<1>27. CASE RestoreBackup
  BY <1>27 DEF RestoreBackup
<1>28. CASE RemoveBackup
  BY <1>28 DEF RemoveBackup
<1>29. CASE CleanupTemporaryFile
  BY <1>29 DEF CleanupTemporaryFile
<1>30. CASE CloseAfterUpload
  BY <1>30 DEF CloseAfterUpload
<1>31. CASE OtherWrites
  BY <1>31 DEF OtherWrites
<1>32. CASE RemoteScpCreates
  BY <1>32 DEF RemoteScpCreates
<1>33. CASE UNCHANGED transferVars
  BY <1>33 DEF transferVars, transferFiles
<1> QED
  BY <1>1, <1>2, <1>3, <1>4, <1>5, <1>6, <1>7, <1>8, <1>9, <1>10, <1>11, <1>12, <1>13, <1>14,
     <1>15, <1>16, <1>17, <1>18, <1>19, <1>20, <1>21, <1>22, <1>23, <1>24, <1>25, <1>26, <1>27,
     <1>28, <1>29, <1>30, <1>31, <1>32, <1>33, TransferCases

\* The lifecycle events a transfer sends, from the states it sends them in.
LEMMA Lifecycles ==
    /\ Lifecycle(Lifecycle("queued", "prepare"), "start") = "running"
    /\ Lifecycle(Lifecycle("queued", "cancel"), "cancelled") = "cancelled"
    /\ Lifecycle("running", "complete") = "completed"
    /\ Lifecycle(Lifecycle("running", "cancel"), "cancelled") = "cancelled"
    /\ Lifecycle("running", "fail") = "failed"
BY DEF Lifecycle

\* A step of a transfer is a step of the replacement of a file, or none.
LEMMA TransferImplements ==
    ASSUME TransferInductive, [TransferNext]_transferVars
    PROVE  [Promise!ReplacementNext]_(Promise!replacementVars)
<1> USE DEF TransferInductive, TransferTypeOK, ToldAgrees, ProgressAgrees, FilesAgree, Requests,
    Accepted, Directions, Protocols, Contents, Steps, TransferStates, Ended, From, Proceed,
    Fails, OnlyMoves, OnlyPart, FileDone, GivesUp, Asks, RemoteChange, Copied, DestinationExists,
    Renamable, Up, Sftp, transferFiles, Promise!ReplacementNext, Promise!Request, Promise!Turn,
    Promise!Replace, Promise!Interfere, Promise!Report, Promise!StopBetween, Promise!Doubt,
    Promise!replacementVars, Promise!Reports
<1>1. ASSUME NEW r \in Requests, StartTransfer(r)
      PROVE  [Promise!ReplacementNext]_(Promise!replacementVars)
  BY <1>1 DEF StartTransfer
<1>2. CASE CancelTransfer
  BY <1>2 DEF CancelTransfer
<1>3. CASE WaitForSlot
  <2>1. /\ told = "queued" /\ dest = "none" /\ backup = "none" /\ progress = "idle"
        /\ UNCHANGED <<request, backup, unsure>>
    BY <1>3 DEF WaitForSlot
  <2>2. \/ told' = "cancelled" /\ dest' = "none" /\ progress' = "idle"
        \/ told' = "running" /\ dest' = "none" /\ progress' = "idle"
        \/ told' = "running" /\ dest' \in {"none", "old"} /\ progress' = "trying"
    BY <1>3, <2>1, Lifecycles DEF WaitForSlot
  <2> QED
    BY <2>1, <2>2
<1>4. CASE ReportTransfer
  BY <1>4, Lifecycles DEF ReportTransfer
<1>5. CASE CollectRemoteFiles
  BY <1>5 DEF CollectRemoteFiles
<1>6. CASE CollectLocalFiles
  BY <1>6 DEF CollectLocalFiles
<1>7. CASE NextFile
  BY <1>7 DEF NextFile
<1>8. CASE Inspect
  BY <1>8 DEF Inspect
<1>9. CASE CreateLocalDownloadFile
  BY <1>9 DEF CreateLocalDownloadFile
<1>10. CASE DownloadTo
  BY <1>10 DEF DownloadTo
<1>11. CASE ScpDownload
  BY <1>11 DEF ScpDownload
<1>12. CASE SyncLocalFile
  BY <1>12 DEF SyncLocalFile
<1>13. CASE DownloadDestinationExists
  BY <1>13 DEF DownloadDestinationExists
<1>14. CASE UploadDestinationExists
  BY <1>14 DEF UploadDestinationExists
<1>15. CASE CheckCommit
  BY <1>15 DEF CheckCommit
<1>16. CASE PlaceLocalFile
  BY <1>16 DEF PlaceLocalFile
<1>17. CASE UnlinkLocalPart
  BY <1>17 DEF UnlinkLocalPart
<1>18. CASE RemovePartialDownload
  BY <1>18 DEF RemovePartialDownload
<1>19. CASE OpenUploadTemporary
  BY <1>19 DEF OpenUploadTemporary
<1>20. CASE UploadTemporaryFrom
  BY <1>20 DEF UploadTemporaryFrom
<1>21. CASE ScpUpload
  BY <1>21 DEF ScpUpload
<1>22. CASE CheckPromotion
  BY <1>22 DEF CheckPromotion
<1>23. CASE RenameToDestination
  BY <1>23 DEF RenameToDestination
<1>24. CASE VerifyBoth
  BY <1>24 DEF VerifyBoth
<1>25. CASE MoveToBackup
  BY <1>25 DEF MoveToBackup
<1>26. CASE SwapIn
  BY <1>26 DEF SwapIn
<1>27. CASE RestoreBackup
  BY <1>27 DEF RestoreBackup
<1>28. CASE RemoveBackup
  BY <1>28 DEF RemoveBackup
<1>29. CASE CleanupTemporaryFile
  BY <1>29 DEF CleanupTemporaryFile
<1>30. CASE CloseAfterUpload
  BY <1>30 DEF CloseAfterUpload
<1>31. CASE OtherWrites
  BY <1>31 DEF OtherWrites
<1>32. CASE RemoteScpCreates
  BY <1>32 DEF RemoteScpCreates
<1>33. CASE UNCHANGED transferVars
  BY <1>33 DEF transferVars, transferFiles
<1> QED
  BY <1>1, <1>2, <1>3, <1>4, <1>5, <1>6, <1>7, <1>8, <1>9, <1>10, <1>11, <1>12, <1>13, <1>14,
     <1>15, <1>16, <1>17, <1>18, <1>19, <1>20, <1>21, <1>22, <1>23, <1>24, <1>25, <1>26, <1>27,
     <1>28, <1>29, <1>30, <1>31, <1>32, <1>33, TransferCases

LEMMA TransferNextKeeps == TransferInductive /\ [TransferNext]_transferVars => TransferInductive'
BY TransferFlags, TransferValues, TransferKeeps
   DEF TransferInductive, TransferTypeOK, FlagsTyped, ValuesTyped

LEMMA TransferInitEstablishes == TransferInit => TransferInductive
<1> SUFFICES ASSUME TransferInit PROVE TransferInductive
  OBVIOUS
<1> USE DEF TransferInit
<1>1. request \in Requests
  BY DEF Requests, Directions, Protocols
<1>2. TransferTypeOK
  BY <1>1 DEF TransferTypeOK, Steps, TransferStates, Contents
<1>3. ToldAgrees
  BY DEF ToldAgrees, Ended, From, Up, Sftp
<1>4. ProgressAgrees
  BY DEF ProgressAgrees, From
<1>5. FilesAgree
  BY DEF FilesAgree, From, Up, Sftp
<1> QED
  BY <1>2, <1>3, <1>4, <1>5 DEF TransferInductive

-----------------------------------------------------------------------------
\* The editors of one remote document.

\* A save, from its first read to its end.
SaveAgrees(e) ==
    /\ saveStep[e] \notin {"idle", "discard"} => outcome[e] = "none"
    /\ saveStep[e] \in {"exists", "read"} => temp[e] \in {"none", "text"}
    /\ saveStep[e] \in {"appeared", "mode", "recheck", "backup", "swap", "name"} =>
          temp[e] = "text"
    /\ saveStep[e] \in {"upload", "mode", "recheck", "backup", "swap", "unbackup"}
          /\ ~save[e].as =>
          save[e].seen = opened[e] /\ save[e].seen # "none"
    /\ At(e, "backup") /\ ~save[e].overtaken => path = save[e].seen
    /\ saveStep[e] \in {"swap", "restore"} => aside[e] # "none"
    /\ saveStep[e] \in {"swap", "unbackup"} /\ ~save[e].overtaken => aside[e] = save[e].seen

\* There was a document: somebody has opened it, or replaced it.
Existed == \E e \in Editors : opened[e] # "unopened" \/ At(e, "unbackup")

\* While there is nothing at the path, it is under a backup name that is not about to go.
Findable ==
    path = "none" /\ Existed => \E e \in Editors : aside[e] # "none" /\ ~At(e, "unbackup")

EditorInductive ==
    EditorTypeOK /\ path # "partial" /\ Findable /\ \A e \in Editors : SaveAgrees(e)

LEMMA RemembersIs ==
    ASSUME EditorTypeOK, NEW e \in Editors, NEW found \in Texts, NEW changes \in BOOLEAN,
           Remembers(e, found, changes)
    PROVE  /\ save' \in [Editors -> Saves]
           /\ saveStep'[e] # "idle" =>
                 /\ save'[e].as = save[e].as /\ save'[e].seen = found
                 /\ save'[e].overtaken = save[e].overtaken
           /\ saveStep'[e] = "idle" => save'[e] = NoSave
           /\ \A f \in Editors : f # e =>
                 /\ save'[f].as = save[f].as /\ save'[f].seen = save[f].seen
                 /\ ~save'[f].overtaken =>
                    ~save[f].overtaken /\ (changes => saveStep[f] # "backup")
<1> DEFINE Overtakes(f) == save[f].overtaken \/ (changes /\ saveStep[f] \in {"backup", "swap"})
           Later(f) == IF f = e
                        THEN IF saveStep'[e] = "idle" THEN NoSave ELSE [save[e] EXCEPT !.seen = found]
                       ELSE [save[f] EXCEPT !.overtaken = Overtakes(f)]
<1>1. \A f \in Editors : save[f] \in Saves /\ Overtakes(f) \in BOOLEAN
  BY DEF EditorTypeOK, Saves
<1>2. NoSave \in Saves
  BY DEF NoSave, Saves, Texts
<1>3. \A f \in Editors : Later(f) \in Saves
  BY <1>1, <1>2 DEF Saves
<1>4. save' = [f \in Editors |-> Later(f)]
  BY DEF Remembers
<1>5. \A f \in Editors : save'[f] = Later(f)
  BY <1>4
<1>6. save' \in [Editors -> Saves]
  BY <1>3, <1>4
<1>7. saveStep'[e] # "idle" => save'[e] = [save[e] EXCEPT !.seen = found]
  BY <1>5
<1>8. \A f \in Editors : f # e => save'[f] = [save[f] EXCEPT !.overtaken = Overtakes(f)]
  BY <1>5
<1>9. ASSUME NEW f \in Editors, f # e
      PROVE  /\ save'[f].as = save[f].as /\ save'[f].seen = save[f].seen
             /\ save'[f].overtaken = Overtakes(f)
  BY <1>1, <1>8, <1>9 DEF Saves
<1>10. saveStep'[e] # "idle" => /\ save'[e].as = save[e].as /\ save'[e].seen = found
                                /\ save'[e].overtaken = save[e].overtaken
  BY <1>1, <1>7 DEF Saves
<1> QED
  BY <1>5, <1>6, <1>9, <1>10

\* What a step of one editor leaves of the others: a save that has compared revisions is
\* overtaken when the path changes.
Alone(e) ==
    \A f \in Editors : f # e =>
        /\ saveStep'[f] = saveStep[f] /\ opened'[f] = opened[f] /\ outcome'[f] = outcome[f]
        /\ temp'[f] = temp[f] /\ aside'[f] = aside[f]
        /\ save'[f].as = save[f].as /\ save'[f].seen = save[f].seen
        /\ ~save'[f].overtaken => ~save[f].overtaken /\ (path' # path => saveStep[f] # "backup")

\* What the step remembers of its own save and of the others.
SaveMoves(e, found) ==
    /\ save' \in [Editors -> Saves]
    /\ saveStep'[e] # "idle" => /\ save'[e].as = save[e].as /\ save'[e].seen = found
                                /\ save'[e].overtaken = save[e].overtaken
    /\ \A f \in Editors : f # e =>
          /\ save'[f].as = save[f].as /\ save'[f].seen = save[f].seen
          /\ ~save'[f].overtaken => ~save[f].overtaken /\ (path' # path => saveStep[f] # "backup")

LEMMA PathStays ==
    ASSUME EditorTypeOK, NEW e \in Editors, SamePath(e)
    PROVE  path' = path /\ SaveMoves(e, save[e].seen)
<1>1. path' = path /\ Remembers(e, save[e].seen, FALSE) /\ save[e].seen \in Texts
  BY DEF SamePath, EditorTypeOK, Saves
<1> QED
  BY <1>1, RemembersIs DEF SaveMoves

LEMMA PathMoves ==
    ASSUME EditorTypeOK, NEW e \in Editors, NEW text, PathBecomes(e, text)
    PROVE  path' = text /\ SaveMoves(e, save[e].seen)
<1>1. path' = text /\ Remembers(e, save[e].seen, TRUE) /\ save[e].seen \in Texts
  BY DEF PathBecomes, EditorTypeOK, Saves
<1> QED
  BY <1>1, RemembersIs DEF SaveMoves

LEMMA ElsewhereSaves ==
    ASSUME EditorTypeOK, NEW e \in Editors, Alone(e), NEW f \in Editors, f # e, SaveAgrees(f)
    PROVE  SaveAgrees(f)'
BY DEF Alone, SaveAgrees, At, EditorTypeOK, Saves

\* Nothing is lost as long as the path stays, or something is put there.
LEMMA StillFindable ==
    ASSUME Findable, NEW e \in Editors, Alone(e), EditorTypeOK,
           path' = "none" =>
               \/ aside'[e] # "none" /\ saveStep'[e] # "unbackup"
               \/ /\ path = "none"
                  /\ aside[e] # "none" => aside'[e] = aside[e] \/ At(e, "unbackup")
                  /\ saveStep'[e] = "unbackup" => At(e, "unbackup")
                  /\ opened'[e] # "unopened" => opened[e] # "unopened" \/ At(e, "unbackup")
    PROVE  Findable'
<1> SUFFICES ASSUME path' = "none", Existed'
             PROVE  \E f \in Editors : aside'[f] # "none" /\ ~At(f, "unbackup")'
  BY DEF Findable
<1>1. CASE aside'[e] # "none" /\ saveStep'[e] # "unbackup"
  BY <1>1 DEF At
<1>2. CASE ~(aside'[e] # "none" /\ saveStep'[e] # "unbackup")
  <2>1. Existed
    BY <1>2 DEF Existed, At, Alone
  <2>2. PICK f \in Editors : aside[f] # "none" /\ ~At(f, "unbackup")
    BY <1>2, <2>1 DEF Findable
  <2> QED
    BY <1>2, <2>2 DEF Alone, At
<1> QED
  BY <1>1, <1>2

LEMMA ReadTextDocumentKeeps ==
    ASSUME EditorInductive, NEW e \in Editors, ReadTextDocument(e)
    PROVE  EditorTypeOK' /\ path' # "partial" /\ Findable' /\ Alone(e) /\ SaveAgrees(e)'
<1> USE DEF EditorInductive, EditorTypeOK, At, GoesTo, Tells, Goes, Discards, Ends, Files,
    Abandons
<1>1. /\ saveStep' \in [Editors -> SaveSteps] /\ outcome' \in [Editors -> Outcomes]
      /\ \A f \in Editors : f # e => saveStep'[f] = saveStep[f] /\ outcome'[f] = outcome[f]
  BY DEF ReadTextDocument, SaveSteps, Outcomes
<1>2. /\ opened' \in [Editors -> Texts \cup {"unopened"}]
      /\ temp' \in [Editors -> {"none", "partial", "text"}] /\ aside' \in [Editors -> Texts]
      /\ replacing' \in BOOLEAN
      /\ \A f \in Editors : f # e =>
             opened'[f] = opened[f] /\ temp'[f] = temp[f] /\ aside'[f] = aside[f]
  BY DEF ReadTextDocument, Texts, Saved
<1>3. path' = path /\ save' \in [Editors -> Saves]
  BY DEF ReadTextDocument, Saves, NoSave, Texts
<1>4. \A f \in Editors : f # e => save'[f] = save[f]
  BY DEF ReadTextDocument
<1>5. Alone(e)
  BY <1>1, <1>2, <1>3, <1>4 DEF Alone
<1>6. SaveAgrees(e)'
  BY <1>3 DEF SaveAgrees, ReadTextDocument, Saves, NoSave
<1>7. Findable'
  BY EditorsAssumption, <1>3, <1>5, StillFindable DEF SaveAgrees, ReadTextDocument, Saved
<1> QED
  BY <1>1, <1>2, <1>3, <1>4, <1>5, <1>6, <1>7

LEMMA StartSaveKeeps ==
    ASSUME EditorInductive, NEW e \in Editors, StartSave(e)
    PROVE  EditorTypeOK' /\ path' # "partial" /\ Findable' /\ Alone(e) /\ SaveAgrees(e)'
<1> USE DEF EditorInductive, EditorTypeOK, At, GoesTo, Tells, Goes, Discards, Ends, Files,
    Abandons
<1>1. /\ saveStep' \in [Editors -> SaveSteps] /\ outcome' \in [Editors -> Outcomes]
      /\ \A f \in Editors : f # e => saveStep'[f] = saveStep[f] /\ outcome'[f] = outcome[f]
  BY DEF StartSave, SaveSteps, Outcomes
<1>2. /\ opened' \in [Editors -> Texts \cup {"unopened"}]
      /\ temp' \in [Editors -> {"none", "partial", "text"}] /\ aside' \in [Editors -> Texts]
      /\ replacing' \in BOOLEAN
      /\ \A f \in Editors : f # e =>
             opened'[f] = opened[f] /\ temp'[f] = temp[f] /\ aside'[f] = aside[f]
  BY DEF StartSave, Texts, Saved
<1>3. path' = path /\ save' \in [Editors -> Saves]
  BY DEF StartSave, Saves, NoSave, Texts
<1>4. \A f \in Editors : f # e => save'[f] = save[f]
  BY DEF StartSave
<1>5. Alone(e)
  BY <1>1, <1>2, <1>3, <1>4 DEF Alone
<1>6. SaveAgrees(e)'
  BY <1>3 DEF SaveAgrees, StartSave, Fresh, Saves, NoSave
<1>7. Findable'
  BY EditorsAssumption, <1>3, <1>5, StillFindable DEF SaveAgrees, StartSave, Saved
<1> QED
  BY <1>1, <1>2, <1>3, <1>4, <1>5, <1>6, <1>7

LEMMA StartSaveAsKeeps ==
    ASSUME EditorInductive, NEW e \in Editors, StartSaveAs(e)
    PROVE  EditorTypeOK' /\ path' # "partial" /\ Findable' /\ Alone(e) /\ SaveAgrees(e)'
<1> USE DEF EditorInductive, EditorTypeOK, At, GoesTo, Tells, Goes, Discards, Ends, Files,
    Abandons
<1>1. /\ saveStep' \in [Editors -> SaveSteps] /\ outcome' \in [Editors -> Outcomes]
      /\ \A f \in Editors : f # e => saveStep'[f] = saveStep[f] /\ outcome'[f] = outcome[f]
  BY DEF StartSaveAs, SaveSteps, Outcomes
<1>2. /\ opened' \in [Editors -> Texts \cup {"unopened"}]
      /\ temp' \in [Editors -> {"none", "partial", "text"}] /\ aside' \in [Editors -> Texts]
      /\ replacing' \in BOOLEAN
      /\ \A f \in Editors : f # e =>
             opened'[f] = opened[f] /\ temp'[f] = temp[f] /\ aside'[f] = aside[f]
  BY DEF StartSaveAs, Texts, Saved
<1>3. path' = path /\ save' \in [Editors -> Saves]
  <2>1. PICK overwrite \in BOOLEAN :
            save' = [save EXCEPT ![e] = [NoSave EXCEPT !.as = TRUE, !.overwrite = overwrite]]
    BY DEF StartSaveAs
  <2>2. [NoSave EXCEPT !.as = TRUE, !.overwrite = overwrite] \in Saves
    BY DEF Saves, NoSave, Texts
  <2> QED
    BY <2>1, <2>2 DEF StartSaveAs
<1>4. \A f \in Editors : f # e => save'[f] = save[f]
  BY DEF StartSaveAs
<1>5. Alone(e)
  BY <1>1, <1>2, <1>3, <1>4 DEF Alone
<1>6. SaveAgrees(e)'
  BY <1>3 DEF SaveAgrees, StartSaveAs, Fresh, Saves, NoSave
<1>7. Findable'
  BY EditorsAssumption, <1>3, <1>5, StillFindable DEF SaveAgrees, StartSaveAs, Saved
<1> QED
  BY <1>1, <1>2, <1>3, <1>4, <1>5, <1>6, <1>7

LEMMA ReadCurrentKeeps ==
    ASSUME EditorInductive, NEW e \in Editors, ReadCurrent(e)
    PROVE  EditorTypeOK' /\ path' # "partial" /\ Findable' /\ Alone(e) /\ SaveAgrees(e)'
<1> USE DEF EditorInductive, EditorTypeOK, At, GoesTo, Tells, Goes, Discards, Ends, Files,
    Abandons
<1>1. /\ saveStep' \in [Editors -> SaveSteps] /\ outcome' \in [Editors -> Outcomes]
      /\ \A f \in Editors : f # e => saveStep'[f] = saveStep[f] /\ outcome'[f] = outcome[f]
  <2>1. \E step \in {"upload", "mode", "idle", "discard"} :
           saveStep' = [saveStep EXCEPT ![e] = step]
    BY DEF ReadCurrent
  <2>2. \/ UNCHANGED outcome
        \/ \E word \in {"conflict", "failed"} : outcome' = [outcome EXCEPT ![e] = word]
    BY DEF ReadCurrent
  <2> QED
    BY <2>1, <2>2 DEF SaveSteps, Outcomes
<1>2. /\ opened' \in [Editors -> Texts \cup {"unopened"}]
      /\ temp' \in [Editors -> {"none", "partial", "text"}] /\ aside' \in [Editors -> Texts]
      /\ replacing' \in BOOLEAN
      /\ \A f \in Editors : f # e =>
             opened'[f] = opened[f] /\ temp'[f] = temp[f] /\ aside'[f] = aside[f]
  BY DEF ReadCurrent, Texts, Saved
<1>3. path' = path /\ \E found \in {path, "none"} : SaveMoves(e, found)
  BY RemembersIs DEF ReadCurrent, SaveMoves, Texts
<1>4. path' \in Texts /\ path' # "partial"
  BY <1>3, EditorsAssumption, PathStays, PathMoves DEF ReadCurrent, Texts, SaveAgrees
<1>5. Alone(e)
  BY <1>1, <1>2, <1>3 DEF Alone, SaveMoves
<1>6. SaveAgrees(e)'
  <2>1. CASE path # "none" /\ (save[e].as \/ path = opened[e])
             /\ Goes(e, IF temp[e] = "none" THEN "upload" ELSE "mode") /\ Remembers(e, path, FALSE)
    <3>1. /\ saveStep'[e] = IF temp[e] = "none" THEN "upload" ELSE "mode"
          /\ outcome' = outcome /\ temp' = temp /\ opened' = opened /\ At(e, "read")
      BY <2>1 DEF ReadCurrent
    <3>2. save'[e].as = save[e].as /\ save'[e].seen = path
      <4>1. EditorTypeOK /\ path \in Texts /\ Remembers(e, path, FALSE) /\ saveStep'[e] # "idle"
        BY <2>1, <3>1 DEF Texts
      <4> HIDE DEF EditorInductive, EditorTypeOK
      <4> QED
        BY <4>1, RemembersIs
    <3> QED
      BY <2>1, <3>1, <3>2 DEF SaveAgrees
  <2>2. CASE ~save[e].as /\ path \notin {"none", opened[e]} /\ Ends(e, "conflict")
    BY <2>2 DEF SaveAgrees
  <2>3. CASE Abandons(e, "failed")
    BY <2>3 DEF SaveAgrees
  <2> QED
    BY <2>1, <2>2, <2>3 DEF ReadCurrent
<1>7. Findable'
  BY EditorsAssumption, <1>3, <1>5, StillFindable DEF SaveAgrees, ReadCurrent, Saved
<1> QED
  BY <1>1, <1>2, <1>3, <1>4, <1>5, <1>6, <1>7 DEF SaveMoves

LEMMA TargetExistsKeeps ==
    ASSUME EditorInductive, NEW e \in Editors, TargetExists(e), save[e].as
    PROVE  EditorTypeOK' /\ path' # "partial" /\ Findable' /\ Alone(e) /\ SaveAgrees(e)'
<1> USE DEF EditorInductive, EditorTypeOK, At, GoesTo, Tells, Goes, Discards, Ends, Files,
    Abandons
<1>1. /\ saveStep' \in [Editors -> SaveSteps] /\ outcome' \in [Editors -> Outcomes]
      /\ \A f \in Editors : f # e => saveStep'[f] = saveStep[f] /\ outcome'[f] = outcome[f]
  BY DEF TargetExists, SaveSteps, Outcomes
<1>2. /\ opened' \in [Editors -> Texts \cup {"unopened"}]
      /\ temp' \in [Editors -> {"none", "partial", "text"}] /\ aside' \in [Editors -> Texts]
      /\ replacing' \in BOOLEAN
      /\ \A f \in Editors : f # e =>
             opened'[f] = opened[f] /\ temp'[f] = temp[f] /\ aside'[f] = aside[f]
  BY DEF TargetExists, Texts, Saved
<1>3. path' = path /\ SaveMoves(e, save[e].seen)
  BY PathStays DEF TargetExists
<1>4. path' \in Texts /\ path' # "partial"
  BY <1>3, EditorsAssumption, PathStays, PathMoves DEF TargetExists, Texts, SaveAgrees
<1>5. Alone(e)
  BY <1>1, <1>2, <1>3 DEF Alone, SaveMoves
<1>6. SaveAgrees(e)'
  <2>1. /\ saveStep'[e] \in {"upload", "name", "read", "idle", "discard"}
        /\ saveStep'[e] = "upload" => At(e, "exists")
        /\ saveStep'[e] = "name" => At(e, "appeared")
        /\ saveStep'[e] \notin {"idle", "discard"} => outcome' = outcome
        /\ temp' = temp /\ saveStep[e] \in {"exists", "appeared"}
    BY DEF TargetExists
  <2>2. saveStep'[e] # "idle" => save'[e].as = save[e].as
    BY <1>3 DEF SaveMoves
  <2> QED
    BY <2>1, <2>2 DEF SaveAgrees
<1>7. Findable'
  BY EditorsAssumption, <1>3, <1>5, StillFindable DEF SaveAgrees, TargetExists, Saved
<1> QED
  BY <1>1, <1>2, <1>3, <1>4, <1>5, <1>6, <1>7 DEF SaveMoves

LEMMA UploadEditorTemporaryKeeps ==
    ASSUME EditorInductive, NEW e \in Editors, UploadEditorTemporary(e)
    PROVE  EditorTypeOK' /\ path' # "partial" /\ Findable' /\ Alone(e) /\ SaveAgrees(e)'
<1> USE DEF EditorInductive, EditorTypeOK, At, GoesTo, Tells, Goes, Discards, Ends, Files,
    Abandons
<1>1. /\ saveStep' \in [Editors -> SaveSteps] /\ outcome' \in [Editors -> Outcomes]
      /\ \A f \in Editors : f # e => saveStep'[f] = saveStep[f] /\ outcome'[f] = outcome[f]
  BY DEF UploadEditorTemporary, SaveSteps, Outcomes
<1>2. /\ opened' \in [Editors -> Texts \cup {"unopened"}]
      /\ temp' \in [Editors -> {"none", "partial", "text"}] /\ aside' \in [Editors -> Texts]
      /\ replacing' \in BOOLEAN
      /\ \A f \in Editors : f # e =>
             opened'[f] = opened[f] /\ temp'[f] = temp[f] /\ aside'[f] = aside[f]
  BY DEF UploadEditorTemporary, Texts, Saved
<1>3. path' = path /\ SaveMoves(e, save[e].seen)
  BY PathStays DEF UploadEditorTemporary
<1>4. path' \in Texts /\ path' # "partial"
  BY <1>3, EditorsAssumption, PathStays, PathMoves DEF UploadEditorTemporary, Texts, SaveAgrees
<1>5. Alone(e)
  BY <1>1, <1>2, <1>3 DEF Alone, SaveMoves
<1>6. SaveAgrees(e)'
  <2>1. saveStep'[e] # "idle" =>
           /\ save'[e].as = save[e].as /\ save'[e].seen = save[e].seen
           /\ save'[e].overtaken = save[e].overtaken
    BY <1>3 DEF SaveMoves
  <2> QED
    BY <1>3, <1>4, <2>1, EditorsAssumption, PathMoves, PathStays DEF SaveAgrees,
       UploadEditorTemporary, Saved, Texts
<1>7. Findable'
  BY EditorsAssumption, <1>3, <1>5, StillFindable DEF SaveAgrees, UploadEditorTemporary, Saved
<1> QED
  BY <1>1, <1>2, <1>3, <1>4, <1>5, <1>6, <1>7 DEF SaveMoves

LEMMA SetModeKeeps ==
    ASSUME EditorInductive, NEW e \in Editors, SetMode(e)
    PROVE  EditorTypeOK' /\ path' # "partial" /\ Findable' /\ Alone(e) /\ SaveAgrees(e)'
<1> USE DEF EditorInductive, EditorTypeOK, At, GoesTo, Tells, Goes, Discards, Ends, Files,
    Abandons
<1>1. /\ saveStep' \in [Editors -> SaveSteps] /\ outcome' \in [Editors -> Outcomes]
      /\ \A f \in Editors : f # e => saveStep'[f] = saveStep[f] /\ outcome'[f] = outcome[f]
  BY DEF SetMode, SaveSteps, Outcomes
<1>2. /\ opened' \in [Editors -> Texts \cup {"unopened"}]
      /\ temp' \in [Editors -> {"none", "partial", "text"}] /\ aside' \in [Editors -> Texts]
      /\ replacing' \in BOOLEAN
      /\ \A f \in Editors : f # e =>
             opened'[f] = opened[f] /\ temp'[f] = temp[f] /\ aside'[f] = aside[f]
  BY DEF SetMode, Texts, Saved
<1>3. path' = path /\ SaveMoves(e, save[e].seen)
  BY PathStays DEF SetMode
<1>4. path' \in Texts /\ path' # "partial"
  BY <1>3, EditorsAssumption, PathStays, PathMoves DEF SetMode, Texts, SaveAgrees
<1>5. Alone(e)
  BY <1>1, <1>2, <1>3 DEF Alone, SaveMoves
<1>6. SaveAgrees(e)'
  <2>1. saveStep'[e] # "idle" =>
           /\ save'[e].as = save[e].as /\ save'[e].seen = save[e].seen
           /\ save'[e].overtaken = save[e].overtaken
    BY <1>3 DEF SaveMoves
  <2> QED
    BY <1>3, <1>4, <2>1, EditorsAssumption, PathMoves, PathStays DEF SaveAgrees, SetMode, Saved,
       Texts
<1>7. Findable'
  BY EditorsAssumption, <1>3, <1>5, StillFindable DEF SaveAgrees, SetMode, Saved
<1> QED
  BY <1>1, <1>2, <1>3, <1>4, <1>5, <1>6, <1>7 DEF SaveMoves

LEMMA RecheckKeeps ==
    ASSUME EditorInductive, NEW e \in Editors, Recheck(e)
    PROVE  EditorTypeOK' /\ path' # "partial" /\ Findable' /\ Alone(e) /\ SaveAgrees(e)'
<1> USE DEF EditorInductive, EditorTypeOK, At, GoesTo, Tells, Goes, Discards, Ends, Files,
    Abandons
<1>1. /\ saveStep' \in [Editors -> SaveSteps] /\ outcome' \in [Editors -> Outcomes]
      /\ \A f \in Editors : f # e => saveStep'[f] = saveStep[f] /\ outcome'[f] = outcome[f]
  BY DEF Recheck, SaveSteps, Outcomes
<1>2. /\ opened' \in [Editors -> Texts \cup {"unopened"}]
      /\ temp' \in [Editors -> {"none", "partial", "text"}] /\ aside' \in [Editors -> Texts]
      /\ replacing' \in BOOLEAN
      /\ \A f \in Editors : f # e =>
             opened'[f] = opened[f] /\ temp'[f] = temp[f] /\ aside'[f] = aside[f]
  BY DEF Recheck, Texts, Saved
<1>3. path' = path /\ SaveMoves(e, save[e].seen)
  BY PathStays DEF Recheck
<1>4. path' \in Texts /\ path' # "partial"
  BY <1>3, EditorsAssumption, PathStays, PathMoves DEF Recheck, Texts, SaveAgrees
<1>5. Alone(e)
  BY <1>1, <1>2, <1>3 DEF Alone, SaveMoves
<1>6. SaveAgrees(e)'
  <2>1. saveStep'[e] # "idle" =>
           /\ save'[e].as = save[e].as /\ save'[e].seen = save[e].seen
           /\ save'[e].overtaken = save[e].overtaken
    BY <1>3 DEF SaveMoves
  <2> QED
    BY <1>3, <1>4, <2>1, EditorsAssumption, PathMoves, PathStays DEF SaveAgrees, Recheck, Saved,
       Texts
<1>7. Findable'
  BY EditorsAssumption, <1>3, <1>5, StillFindable DEF SaveAgrees, Recheck, Saved
<1> QED
  BY <1>1, <1>2, <1>3, <1>4, <1>5, <1>6, <1>7 DEF SaveMoves

LEMMA MoveToBackupNameKeeps ==
    ASSUME EditorInductive, NEW e \in Editors, MoveToBackupName(e)
    PROVE  EditorTypeOK' /\ path' # "partial" /\ Findable' /\ Alone(e) /\ SaveAgrees(e)'
<1> USE DEF EditorInductive, EditorTypeOK, At, GoesTo, Tells, Goes, Discards, Ends, Files,
    Abandons
<1>1. /\ saveStep' \in [Editors -> SaveSteps] /\ outcome' \in [Editors -> Outcomes]
      /\ \A f \in Editors : f # e => saveStep'[f] = saveStep[f] /\ outcome'[f] = outcome[f]
  BY DEF MoveToBackupName, SaveSteps, Outcomes
<1>2. /\ opened' \in [Editors -> Texts \cup {"unopened"}]
      /\ temp' \in [Editors -> {"none", "partial", "text"}] /\ aside' \in [Editors -> Texts]
      /\ replacing' \in BOOLEAN
      /\ \A f \in Editors : f # e =>
             opened'[f] = opened[f] /\ temp'[f] = temp[f] /\ aside'[f] = aside[f]
  BY DEF MoveToBackupName, Texts, Saved
<1>3. SaveMoves(e, save[e].seen)
  BY PathStays, PathMoves DEF MoveToBackupName
<1>4. path' \in Texts /\ path' # "partial"
  BY <1>3, EditorsAssumption, PathStays, PathMoves DEF MoveToBackupName, Texts, SaveAgrees
<1>5. Alone(e)
  BY <1>1, <1>2, <1>3 DEF Alone, SaveMoves
<1>6. SaveAgrees(e)'
  <2>1. saveStep'[e] # "idle" =>
           /\ save'[e].as = save[e].as /\ save'[e].seen = save[e].seen
           /\ save'[e].overtaken = save[e].overtaken
    BY <1>3 DEF SaveMoves
  <2> QED
    BY <1>3, <1>4, <2>1, EditorsAssumption, PathMoves, PathStays DEF SaveAgrees,
       MoveToBackupName, Saved, Texts
<1>7. Findable'
  <2>1. CASE path # "none" /\ aside' = [aside EXCEPT ![e] = path]
    BY <1>1, <1>5, <2>1, StillFindable DEF MoveToBackupName
  <2>2. CASE UNCHANGED aside /\ SamePath(e)
    BY <1>1, <1>5, <2>2, StillFindable, PathStays DEF MoveToBackupName
  <2> QED
    BY <2>1, <2>2 DEF MoveToBackupName
<1> QED
  BY <1>1, <1>2, <1>3, <1>4, <1>5, <1>6, <1>7 DEF SaveMoves

LEMMA MoveIntoPlaceKeeps ==
    ASSUME EditorInductive, NEW e \in Editors, MoveIntoPlace(e)
    PROVE  EditorTypeOK' /\ path' # "partial" /\ Findable' /\ Alone(e) /\ SaveAgrees(e)'
<1> USE DEF EditorInductive, EditorTypeOK, At, GoesTo, Tells, Goes, Discards, Ends, Files,
    Abandons
<1>1. /\ saveStep' \in [Editors -> SaveSteps] /\ outcome' \in [Editors -> Outcomes]
      /\ \A f \in Editors : f # e => saveStep'[f] = saveStep[f] /\ outcome'[f] = outcome[f]
  BY DEF MoveIntoPlace, SaveSteps, Outcomes
<1>2. /\ opened' \in [Editors -> Texts \cup {"unopened"}]
      /\ temp' \in [Editors -> {"none", "partial", "text"}] /\ aside' \in [Editors -> Texts]
      /\ replacing' \in BOOLEAN
      /\ \A f \in Editors : f # e =>
             opened'[f] = opened[f] /\ temp'[f] = temp[f] /\ aside'[f] = aside[f]
  BY DEF MoveIntoPlace, Texts, Saved
<1>3. SaveMoves(e, save[e].seen)
  BY PathStays, PathMoves DEF MoveIntoPlace
<1>4. path' \in Texts /\ path' # "partial"
  BY <1>3, EditorsAssumption, PathStays, PathMoves DEF MoveIntoPlace, Texts, SaveAgrees
<1>5. Alone(e)
  BY <1>1, <1>2, <1>3 DEF Alone, SaveMoves
<1>6. SaveAgrees(e)'
  <2>1. saveStep'[e] # "idle" =>
           /\ save'[e].as = save[e].as /\ save'[e].seen = save[e].seen
           /\ save'[e].overtaken = save[e].overtaken
    BY <1>3 DEF SaveMoves
  <2> QED
    BY <1>3, <1>4, <2>1, EditorsAssumption, PathMoves, PathStays DEF SaveAgrees, MoveIntoPlace,
       Saved, Texts
<1>7. Findable'
  <2>1. CASE PathBecomes(e, IF temp[e] = "text" THEN e ELSE temp[e])
    <3>1. path' # "none"
      BY <2>1, PathMoves, EditorsAssumption DEF MoveIntoPlace, SaveAgrees
    <3> QED
      BY <1>5, <3>1, StillFindable
  <2>2. CASE SamePath(e) /\ IF At(e, "swap") THEN Goes(e, "restore") ELSE Discards(e, "failed")
    BY <1>1, <1>5, <2>2, StillFindable, PathStays DEF MoveIntoPlace, Saved, SaveAgrees
  <2> QED
    BY <2>1, <2>2 DEF MoveIntoPlace
<1> QED
  BY <1>1, <1>2, <1>3, <1>4, <1>5, <1>6, <1>7 DEF SaveMoves

LEMMA RestoreDocumentKeeps ==
    ASSUME EditorInductive, NEW e \in Editors, RestoreDocument(e)
    PROVE  EditorTypeOK' /\ path' # "partial" /\ Findable' /\ Alone(e) /\ SaveAgrees(e)'
<1> USE DEF EditorInductive, EditorTypeOK, At, GoesTo, Tells, Goes, Discards, Ends, Files,
    Abandons
<1>1. /\ saveStep' \in [Editors -> SaveSteps] /\ outcome' \in [Editors -> Outcomes]
      /\ \A f \in Editors : f # e => saveStep'[f] = saveStep[f] /\ outcome'[f] = outcome[f]
  BY DEF RestoreDocument, SaveSteps, Outcomes
<1>2. /\ opened' \in [Editors -> Texts \cup {"unopened"}]
      /\ temp' \in [Editors -> {"none", "partial", "text"}] /\ aside' \in [Editors -> Texts]
      /\ replacing' \in BOOLEAN
      /\ \A f \in Editors : f # e =>
             opened'[f] = opened[f] /\ temp'[f] = temp[f] /\ aside'[f] = aside[f]
  BY DEF RestoreDocument, Texts, Saved
<1>3. SaveMoves(e, save[e].seen)
  BY PathStays, PathMoves DEF RestoreDocument
<1>4. path' \in Texts /\ path' # "partial"
  BY <1>3, EditorsAssumption, PathStays, PathMoves DEF RestoreDocument, Texts, SaveAgrees
<1>5. Alone(e)
  BY <1>1, <1>2, <1>3 DEF Alone, SaveMoves
<1>6. SaveAgrees(e)'
  <2>1. saveStep'[e] # "idle" =>
           /\ save'[e].as = save[e].as /\ save'[e].seen = save[e].seen
           /\ save'[e].overtaken = save[e].overtaken
    BY <1>3 DEF SaveMoves
  <2> QED
    BY <1>3, <1>4, <2>1, EditorsAssumption, PathMoves, PathStays DEF SaveAgrees, RestoreDocument,
       Saved, Texts
<1>7. Findable'
  <2>1. CASE PathBecomes(e, aside[e])
    <3>1. path' # "none"
      BY <2>1, PathMoves DEF RestoreDocument, SaveAgrees
    <3> QED
      BY <1>5, <3>1, StillFindable
  <2>2. CASE UNCHANGED aside /\ SamePath(e)
    BY <1>1, <1>5, <2>2, StillFindable, PathStays DEF RestoreDocument
  <2> QED
    BY <2>1, <2>2 DEF RestoreDocument
<1> QED
  BY <1>1, <1>2, <1>3, <1>4, <1>5, <1>6, <1>7 DEF SaveMoves

LEMMA RemoveBackupNameKeeps ==
    ASSUME EditorInductive, NEW e \in Editors, RemoveBackupName(e)
    PROVE  EditorTypeOK' /\ path' # "partial" /\ Findable' /\ Alone(e) /\ SaveAgrees(e)'
<1> USE DEF EditorInductive, EditorTypeOK, At, GoesTo, Tells, Goes, Discards, Ends, Files,
    Abandons
<1>1. /\ saveStep' \in [Editors -> SaveSteps] /\ outcome' \in [Editors -> Outcomes]
      /\ \A f \in Editors : f # e => saveStep'[f] = saveStep[f] /\ outcome'[f] = outcome[f]
  BY DEF RemoveBackupName, SaveSteps, Outcomes
<1>2. /\ opened' \in [Editors -> Texts \cup {"unopened"}]
      /\ temp' \in [Editors -> {"none", "partial", "text"}] /\ aside' \in [Editors -> Texts]
      /\ replacing' \in BOOLEAN
      /\ \A f \in Editors : f # e =>
             opened'[f] = opened[f] /\ temp'[f] = temp[f] /\ aside'[f] = aside[f]
  BY DEF RemoveBackupName, Texts, Saved
<1>3. path' = path /\ SaveMoves(e, save[e].seen)
  BY PathStays DEF RemoveBackupName
<1>4. path' \in Texts /\ path' # "partial"
  BY <1>3, EditorsAssumption, PathStays, PathMoves DEF RemoveBackupName, Texts, SaveAgrees
<1>5. Alone(e)
  BY <1>1, <1>2, <1>3 DEF Alone, SaveMoves
<1>6. SaveAgrees(e)'
  <2>1. saveStep'[e] # "idle" =>
           /\ save'[e].as = save[e].as /\ save'[e].seen = save[e].seen
           /\ save'[e].overtaken = save[e].overtaken
    BY <1>3 DEF SaveMoves
  <2> QED
    BY <1>3, <1>4, <2>1, EditorsAssumption, PathMoves, PathStays DEF SaveAgrees,
       RemoveBackupName, Saved, Texts
<1>7. Findable'
  BY EditorsAssumption, <1>3, <1>5, StillFindable DEF SaveAgrees, RemoveBackupName, Saved
<1> QED
  BY <1>1, <1>2, <1>3, <1>4, <1>5, <1>6, <1>7 DEF SaveMoves

LEMMA DiscardTemporaryKeeps ==
    ASSUME EditorInductive, NEW e \in Editors, DiscardTemporary(e)
    PROVE  EditorTypeOK' /\ path' # "partial" /\ Findable' /\ Alone(e) /\ SaveAgrees(e)'
<1> USE DEF EditorInductive, EditorTypeOK, At, GoesTo, Tells, Goes, Discards, Ends, Files,
    Abandons
<1>1. /\ saveStep' \in [Editors -> SaveSteps] /\ outcome' \in [Editors -> Outcomes]
      /\ \A f \in Editors : f # e => saveStep'[f] = saveStep[f] /\ outcome'[f] = outcome[f]
  BY DEF DiscardTemporary, SaveSteps, Outcomes
<1>2. /\ opened' \in [Editors -> Texts \cup {"unopened"}]
      /\ temp' \in [Editors -> {"none", "partial", "text"}] /\ aside' \in [Editors -> Texts]
      /\ replacing' \in BOOLEAN
      /\ \A f \in Editors : f # e =>
             opened'[f] = opened[f] /\ temp'[f] = temp[f] /\ aside'[f] = aside[f]
  BY DEF DiscardTemporary, Texts, Saved
<1>3. path' = path /\ SaveMoves(e, save[e].seen)
  BY PathStays DEF DiscardTemporary
<1>4. path' \in Texts /\ path' # "partial"
  BY <1>3, EditorsAssumption, PathStays, PathMoves DEF DiscardTemporary, Texts, SaveAgrees
<1>5. Alone(e)
  BY <1>1, <1>2, <1>3 DEF Alone, SaveMoves
<1>6. SaveAgrees(e)'
  <2>1. saveStep'[e] # "idle" =>
           /\ save'[e].as = save[e].as /\ save'[e].seen = save[e].seen
           /\ save'[e].overtaken = save[e].overtaken
    BY <1>3 DEF SaveMoves
  <2> QED
    BY <1>3, <1>4, <2>1, EditorsAssumption, PathMoves, PathStays DEF SaveAgrees,
       DiscardTemporary, Saved, Texts
<1>7. Findable'
  BY EditorsAssumption, <1>3, <1>5, StillFindable DEF SaveAgrees, DiscardTemporary, Saved
<1> QED
  BY <1>1, <1>2, <1>3, <1>4, <1>5, <1>6, <1>7 DEF SaveMoves

LEMMA EditorCases ==
    ASSUME EditorNext
    PROVE  \E e \in Editors :
               \/ ReadTextDocument(e) \/ StartSave(e) \/ StartSaveAs(e)
               \/ ReadCurrent(e) \/ (TargetExists(e) /\ save[e].as) \/ UploadEditorTemporary(e)
               \/ SetMode(e) \/ Recheck(e) \/ MoveToBackupName(e) \/ MoveIntoPlace(e)
               \/ RestoreDocument(e) \/ RemoveBackupName(e) \/ DiscardTemporary(e)
BY DEF EditorNext, SaveTextDocument, SaveTextDocumentAs

LEMMA EditorNextKeeps == EditorInductive /\ [EditorNext]_editorVars => EditorInductive'
<1> SUFFICES ASSUME EditorInductive, [EditorNext]_editorVars PROVE EditorInductive'
  OBVIOUS
<1>1. CASE EditorNext
  <2>1. PICK e \in Editors :
            EditorTypeOK' /\ path' # "partial" /\ Findable' /\ Alone(e) /\ SaveAgrees(e)'
    BY <1>1, EditorCases, ReadTextDocumentKeeps, StartSaveKeeps, StartSaveAsKeeps,
       ReadCurrentKeeps,
       TargetExistsKeeps, UploadEditorTemporaryKeeps, SetModeKeeps, RecheckKeeps,
       MoveToBackupNameKeeps, MoveIntoPlaceKeeps, RestoreDocumentKeeps, RemoveBackupNameKeeps,
       DiscardTemporaryKeeps
  <2>2. \A f \in Editors : f # e => SaveAgrees(f)'
    BY <2>1, ElsewhereSaves DEF EditorInductive
  <2> QED
    BY <2>1, <2>2 DEF EditorInductive
<1>2. CASE UNCHANGED editorVars
  BY <1>2 DEF editorVars, EditorInductive, EditorTypeOK, Findable, Existed, SaveAgrees, At
<1> QED
  BY <1>1, <1>2

LEMMA EditorInitEstablishes == EditorInit => EditorInductive
BY DEF EditorInit, EditorInductive, EditorTypeOK, Findable, Existed, SaveAgrees, At, Texts,
   SaveSteps,
       Saves, NoSave, Outcomes

LEMMA EditorSafe == EditorInductive => EditorsKeepTheDocument
BY DEF EditorInductive, SaveAgrees, Findable, Existed, EditorsKeepTheDocument, ReplacesWhatItSaw,
       NeverVanishes, At

-----------------------------------------------------------------------------
\* An X11 bridge.

\* Nothing is joined before the task serves or after it joined its workers.
X11Inductive ==
    /\ X11TypeOK
    /\ InState("bridged") # {} => bridge \in {"serving", "stopping"}
    /\ bridge \in {"serving", "stopping"} => display
    /\ Cardinality(InState("bridged")) <= X11Limit
    /\ \A p \in Programs : x11Event[p] # "none" => program[p] = "ended"

LEMMA Joined ==
    /\ IsFiniteSet(InState("bridged")) /\ Cardinality(InState("bridged")) \in Nat
    /\ IsFiniteSet(InState("bridged")') /\ Cardinality(InState("bridged")') \in Nat
    /\ InState("bridged")' \subseteq InState("bridged") =>
          Cardinality(InState("bridged")') <= Cardinality(InState("bridged"))
    /\ \A p : InState("bridged")' = InState("bridged") \cup {p} =>
          Cardinality(InState("bridged")') <= Cardinality(InState("bridged")) + 1
<1>1. InState("bridged") \subseteq Programs /\ InState("bridged")' \subseteq Programs
  BY DEF InState
<1>2. IsFiniteSet(InState("bridged")) /\ IsFiniteSet(InState("bridged")')
  BY <1>1, X11Assumption, FS_Subset
<1>3. Cardinality(InState("bridged")) \in Nat /\ Cardinality(InState("bridged")') \in Nat
  BY <1>2, FS_CardinalityType
<1>4. InState("bridged")' \subseteq InState("bridged") =>
          Cardinality(InState("bridged")') <= Cardinality(InState("bridged"))
  BY <1>2, FS_Subset
<1>5. ASSUME NEW p, InState("bridged")' = InState("bridged") \cup {p}
      PROVE  Cardinality(InState("bridged")') <= Cardinality(InState("bridged")) + 1
  <2>1. Cardinality(InState("bridged") \cup {p})
           \in {Cardinality(InState("bridged")), Cardinality(InState("bridged")) + 1}
    BY <1>2, FS_AddElement
  <2> QED
    BY <1>3, <1>5, <2>1
<1> QED
  BY <1>2, <1>3, <1>4, <1>5

LEMMA X11NextKeeps == X11Inductive /\ [X11Next]_x11Vars => X11Inductive'
<1> SUFFICES ASSUME X11Inductive, [X11Next]_x11Vars PROVE X11Inductive'
  OBVIOUS
<1> USE DEF X11Inductive, X11TypeOK, ProgramGoes
<1>1. ASSUME NEW p \in Programs, BridgeX11(p) PROVE X11Inductive'
  <2>1. /\ bridge' = "serving" /\ display' = display /\ bridge = "serving"
        /\ UNCHANGED <<x11Event, x11Close, x11Transport>>
        /\ program' = [program EXCEPT ![p] = IF Cardinality(InState("bridged")) < X11Limit
                                             THEN "bridged" ELSE "dropped"]
        /\ program[p] = "queued"
    BY <1>1 DEF BridgeX11
  <2>2. CASE Cardinality(InState("bridged")) < X11Limit
    <3>1. InState("bridged")' = InState("bridged") \cup {p}
      BY <2>1, <2>2 DEF InState
    <3>2. Cardinality(InState("bridged")') <= X11Limit
      BY <2>2, <3>1, Joined, X11Assumption
    <3> QED
      BY <2>1, <2>2, <3>2
  <2>3. CASE ~(Cardinality(InState("bridged")) < X11Limit)
    <3>1. InState("bridged")' \subseteq InState("bridged")
      BY <2>1, <2>3 DEF InState
    <3>2. Cardinality(InState("bridged")') <= X11Limit
      BY <3>1, Joined, X11Assumption
    <3> QED
      BY <2>1, <2>3, <3>2
  <2> QED
    BY <2>2, <2>3
<1>2. ASSUME InState("bridged")' \subseteq InState("bridged")
      PROVE  Cardinality(InState("bridged")') <= X11Limit
  BY <1>2, Joined, X11Assumption
<1>3. ASSUME NEW p \in Programs, ServerChannelOpenX11(p) \/ X11WorkerEnds(p) PROVE X11Inductive'
  <2>1. InState("bridged")' \subseteq InState("bridged")
    BY <1>3 DEF ServerChannelOpenX11, X11WorkerEnds, InState
  <2> QED
    BY <1>2, <1>3, <2>1 DEF ServerChannelOpenX11, X11WorkerEnds
<1>4. CASE UNCHANGED program /\ \/ \E configured \in BOOLEAN : StartX11Bridge(configured)
                                \/ CloseX11 \/ LoseX11 \/ StopX11Bridge \/ UNCHANGED x11Vars
  <2>1. InState("bridged")' = InState("bridged")
    BY <1>4 DEF InState
  <2>2. Cardinality(InState("bridged")') <= X11Limit /\ program' = program
    BY <1>2, <1>4, <2>1
  <2>3. ASSUME NEW configured \in BOOLEAN, StartX11Bridge(configured) PROVE X11Inductive'
    <3>1. /\ display' \in BOOLEAN /\ (bridge' = "serving" => display')
          /\ bridge' \in {"serving", "over"}
      BY <2>3 DEF StartX11Bridge
    <3> QED
      BY <2>1, <2>2, <2>3, <3>1 DEF StartX11Bridge
  <2>4. CASE CloseX11 \/ LoseX11 \/ StopX11Bridge \/ UNCHANGED x11Vars
    BY <2>1, <2>2, <2>4 DEF CloseX11, LoseX11, StopX11Bridge, x11Vars
  <2> QED
    BY <1>4, <2>3, <2>4
<1>5. CASE JoinX11Workers
  <2>1. InState("bridged")' = {}
    BY <1>5 DEF JoinX11Workers, InState
  <2> QED
    BY <1>2, <1>5, <2>1 DEF JoinX11Workers
<1> QED
  BY <1>1, <1>3, <1>4, <1>5 DEF X11Next, RunX11Bridge, StartX11Bridge, CloseX11, LoseX11,
     StopX11Bridge, x11Vars

LEMMA X11InitEstablishes == X11Init => X11Inductive
<1> SUFFICES ASSUME X11Init PROVE X11Inductive
  OBVIOUS
<1>1. InState("bridged") = {}
  BY DEF X11Init, InState
<1>2. Cardinality(InState("bridged")) <= X11Limit
  BY <1>1, FS_EmptySet, X11Assumption
<1> QED
  BY <1>1, <1>2 DEF X11Init, X11Inductive, X11TypeOK


-----------------------------------------------------------------------------
\* The terminal, of one operation.

Proven == INSTANCE SshSessionProofs WITH
    Calls <- {o}, Kind <- [c \in {o} |-> "operation"], Capacity <- 1, OperationLimit <- 1,
    MaxGeneration <- 2, cancelled <- signalled

\* What SshSessionProofs proves is about the same steps.
LEMMA SameSteps == Session!Next <=> Proven!Next
<1>1. Session!Connect <=> Proven!Connect
  BY DEF Session!Connect, Proven!Connect, Session!MayRegister, Proven!MayRegister,
     Session!callVars, Proven!callVars, Session!exitVars, Proven!exitVars, Session!jobVars,
     Proven!jobVars
<1>2. Session!ConnectFails <=> Proven!ConnectFails
  BY DEF Session!ConnectFails, Proven!ConnectFails, Session!callVars, Proven!callVars,
     Session!exitVars, Proven!exitVars, Session!jobVars, Proven!jobVars
<1>3. Session!ShellStops <=> Proven!ShellStops
  BY DEF Session!ShellEnds, Proven!ShellEnds, Session!ShellStops, Proven!ShellStops,
     Session!callVars, Proven!callVars, Session!exitVars, Proven!exitVars, Session!jobVars,
     Proven!jobVars
<1>4. Session!ShellSeesClose <=> Proven!ShellSeesClose
  BY DEF Session!ShellEnds, Proven!ShellEnds, Session!ShellSeesClose, Proven!ShellSeesClose,
     Session!callVars, Proven!callVars, Session!exitVars, Proven!exitVars, Session!jobVars,
     Proven!jobVars
<1>5. Session!Receive <=> Proven!Receive
  BY DEF Session!Busy, Proven!Busy, Session!FinishJob, Proven!FinishJob, Session!Finite,
     Proven!Finite, Session!Move, Proven!Move, Session!Notify, Proven!Notify, Session!Receive,
     Proven!Receive, Session!ReceiveBusy, Proven!ReceiveBusy, Session!ReceiveClosing,
     Proven!ReceiveClosing, Session!ReceiveStart, Proven!ReceiveStart, Session!Reject,
     Proven!Reject, Session!ShellEnds, Proven!ShellEnds, Session!Reaped, Proven!Reaped,
     Session!Running, Proven!Running,
     Session!Cardinality, Proven!Cardinality, Session!exitVars, Proven!exitVars,
     Session!jobVars, Proven!jobVars, Session!sessionVars, Proven!sessionVars
<1>6. \A c \in {o} : Session!WriteSeesClose(c) <=> Proven!WriteSeesClose(c)
  BY DEF Session!Move, Proven!Move, Session!ShellEnds, Proven!ShellEnds,
     Session!WriteSeesClose, Proven!WriteSeesClose, Session!exitVars, Proven!exitVars,
     Session!jobVars, Proven!jobVars
<1>7. Session!CloseQueue <=> Proven!CloseQueue
  BY DEF Session!Advance, Proven!Advance, Session!CloseQueue, Proven!CloseQueue,
     Session!callVars, Proven!callVars, Session!exitVars, Proven!exitVars, Session!jobVars,
     Proven!jobVars
<1>8. Session!SweepTransfers <=> Proven!SweepTransfers
  BY DEF Session!Advance, Proven!Advance, Session!Cancel, Proven!Cancel,
     Session!SweepTransfers, Proven!SweepTransfers, Session!Transfers, Proven!Transfers,
     Session!callVars, Proven!callVars, Session!exitVars, Proven!exitVars
<1>9. Session!SweepTunnels <=> Proven!SweepTunnels
  BY DEF Session!Advance, Proven!Advance, Session!Cancel, Proven!Cancel, Session!SweepTunnels,
     Proven!SweepTunnels, Session!Tunnels, Proven!Tunnels, Session!callVars, Proven!callVars,
     Session!exitVars, Proven!exitVars
<1>10. Session!Drain <=> Proven!Drain
  BY DEF Session!Drain, Proven!Drain, Session!FinishJob, Proven!FinishJob, Session!Finite,
     Proven!Finite, Session!Move, Proven!Move, Session!Notify, Proven!Notify, Session!Reject,
     Proven!Reject, Session!exitVars, Proven!exitVars, Session!sessionVars, Proven!sessionVars
<1>11. Session!Drained <=> Proven!Drained
  BY DEF Session!Advance, Proven!Advance, Session!Drained, Proven!Drained, Session!Exhausted,
     Proven!Exhausted, Session!Permits, Proven!Permits, Session!callVars, Proven!callVars,
     Session!exitVars, Proven!exitVars, Session!jobVars, Proven!jobVars
<1>12. Session!Joined <=> Proven!Joined
  BY DEF Session!Advance, Proven!Advance, Session!AllJoined, Proven!AllJoined, Session!Finite,
     Proven!Finite, Session!Joined, Proven!Joined, Session!Reaped, Proven!Reaped,
     Session!Running, Proven!Running,
     Session!callVars, Proven!callVars, Session!exitVars, Proven!exitVars, Session!jobVars,
     Proven!jobVars
<1>13. Session!Decide <=> Proven!Decide
  BY DEF Session!Advance, Proven!Advance, Session!Decide, Proven!Decide, Session!callVars,
     Proven!callVars, Session!exitVars, Proven!exitVars, Session!jobVars, Proven!jobVars
<1>14. Session!ReconnectEnds <=> Proven!ReconnectEnds
  BY DEF Session!Advance, Proven!Advance, Session!ReconnectEnds, Proven!ReconnectEnds,
     Session!callVars, Proven!callVars, Session!exitVars, Proven!exitVars, Session!jobVars,
     Proven!jobVars
<1>15. Session!Reopen <=> Proven!Reopen
  BY DEF Session!Reopen, Proven!Reopen, Session!callVars, Proven!callVars, Session!exitVars,
     Proven!exitVars, Session!jobVars, Proven!jobVars
<1>16. Session!Remove <=> Proven!Remove
  BY DEF Session!Remove, Proven!Remove, Session!callVars, Proven!callVars, Session!exitVars,
     Proven!exitVars, Session!jobVars, Proven!jobVars
<1>17. Session!Report <=> Proven!Report
  BY DEF Session!Advance, Proven!Advance, Session!Report, Proven!Report, Session!callVars,
     Proven!callVars, Session!exitVars, Proven!exitVars, Session!jobVars, Proven!jobVars
<1>18. \A c \in {o} : Session!CallStep(c) <=> Proven!CallStep(c)
  BY DEF Session!CallStep, Proven!CallStep, Session!CanSend, Proven!CanSend,
     Session!ChannelOpen, Proven!ChannelOpen, Session!CurrentSender, Proven!CurrentSender,
     Session!FinishJob, Proven!FinishJob, Session!Finite, Proven!Finite, Session!Issue,
     Proven!Issue, Session!Move, Proven!Move, Session!Permits, Proven!Permits,
     Session!Register, Proven!Register, Session!Reserve, Proven!Reserve, Session!Room,
     Proven!Room, Session!Cardinality, Proven!Cardinality, Session!Send, Proven!Send,
     Session!TakeSlot, Proven!TakeSlot, Session!exitVars, Proven!exitVars, Session!jobVars,
     Proven!jobVars, Session!sessionVars, Proven!sessionVars
<1>19. \A c \in {o} : Session!BindFails(c) <=> Proven!BindFails(c)
  BY DEF Session!BindFails, Proven!BindFails, Session!Move, Proven!Move, Session!exitVars,
     Proven!exitVars, Session!jobVars, Proven!jobVars, Session!sessionVars, Proven!sessionVars
<1>20. \A c \in {o} : Session!CancelJob(c) <=> Proven!CancelJob(c)
  BY DEF Session!Cancel, Proven!Cancel, Session!CancelJob, Proven!CancelJob, Session!callVars,
     Proven!callVars, Session!exitVars, Proven!exitVars, Session!sessionVars,
     Proven!sessionVars
<1>21. \A c \in {o} : Session!WriteEnds(c) <=> Proven!WriteEnds(c)
  BY DEF Session!Move, Proven!Move, Session!ShellEnds, Proven!ShellEnds, Session!WriteEnds,
     Proven!WriteEnds, Session!exitVars, Proven!exitVars, Session!jobVars, Proven!jobVars
<1>22. \A c \in {o} : Session!JobSettles(c) <=> Proven!JobSettles(c)
  BY DEF Session!Finite, Proven!Finite, Session!JobSettles, Proven!JobSettles, Session!Move,
     Proven!Move, Session!Notify, Proven!Notify, Session!Transfers, Proven!Transfers,
     Session!Tunnels, Proven!Tunnels, Session!exitVars, Proven!exitVars, Session!jobVars,
     Proven!jobVars, Session!sessionVars, Proven!sessionVars
<1>23. \A c \in {o} : Session!WorkerStep(c) <=> Proven!WorkerStep(c)
  BY DEF Session!FinishJob, Proven!FinishJob, Session!Finite, Proven!Finite,
     Session!JobFinishes, Proven!JobFinishes, Session!JobSettles, Proven!JobSettles,
     Session!Move, Proven!Move, Session!Notify, Proven!Notify, Session!OperationSettles,
     Proven!OperationSettles, Session!SettlesAlone, Proven!SettlesAlone, Session!Transfers,
     Proven!Transfers, Session!Tunnels, Proven!Tunnels, Session!WorkerStep, Proven!WorkerStep,
     Session!exitVars, Proven!exitVars, Session!jobVars, Proven!jobVars, Session!sessionVars,
     Proven!sessionVars
<1>24. Session!CloseSignal <=> Proven!CloseSignal
  BY DEF Session!CloseSignal, Proven!CloseSignal, Session!callVars, Proven!callVars,
     Session!jobVars, Proven!jobVars, Session!sessionVars, Proven!sessionVars
<1>25. Session!CloserStep <=> Proven!CloserStep
  BY DEF Session!Cancel, Proven!Cancel, Session!CloseSweepTransfers,
     Proven!CloseSweepTransfers, Session!CloseSweepTunnels, Proven!CloseSweepTunnels,
     Session!CloserStep, Proven!CloserStep, Session!Transfers, Proven!Transfers,
     Session!Tunnels, Proven!Tunnels, Session!callVars, Proven!callVars, Session!sessionVars,
     Proven!sessionVars
<1>26. Session!Quit <=> Proven!Quit
  BY DEF Session!Quit, Proven!Quit, Session!callVars, Proven!callVars, Session!jobVars,
     Proven!jobVars, Session!sessionVars, Proven!sessionVars
<1>27. Session!QuitStep <=> Proven!QuitStep
  BY DEF Session!Cancel, Proven!Cancel, Session!QuitReturns, Proven!QuitReturns,
     Session!QuitSignal, Proven!QuitSignal, Session!QuitStep, Proven!QuitStep,
     Session!QuitSweepTransfers, Proven!QuitSweepTransfers, Session!QuitSweepTunnels,
     Proven!QuitSweepTunnels, Session!Transfers, Proven!Transfers, Session!Tunnels,
     Proven!Tunnels, Session!callVars, Proven!callVars, Session!jobVars, Proven!jobVars,
     Session!sessionVars, Proven!sessionVars
<1>28. Session!Terminated <=> Proven!Terminated
  BY DEF Session!Terminated, Proven!Terminated, Session!callVars, Proven!callVars,
     Session!exitVars, Proven!exitVars, Session!jobVars, Proven!jobVars, Session!sessionVars,
     Proven!sessionVars, Session!vars, Proven!vars
<1>29. Session!ShellRetired <=> Proven!ShellRetired
  BY DEF Session!Advance, Proven!Advance, Session!ShellRetired, Proven!ShellRetired,
     Session!callVars, Proven!callVars, Session!exitVars, Proven!exitVars, Session!jobVars,
     Proven!jobVars
<1> QED
  BY <1>1, <1>2, <1>3, <1>4, <1>5, <1>6, <1>7, <1>8, <1>9, <1>10, <1>11, <1>12, <1>13, <1>14,
     <1>15, <1>16, <1>17, <1>18, <1>19, <1>20, <1>21, <1>22, <1>23, <1>24, <1>25, <1>26,
     <1>27, <1>28, <1>29 DEF Session!Next, Proven!Next, Session!SessionStep, Proven!SessionStep

LEMMA SameVariables ==
    (UNCHANGED Session!vars <=> UNCHANGED Proven!vars) /\ (Session!Init <=> Proven!Init)
BY DEF Session!vars, Proven!vars, Session!sessionVars, Proven!sessionVars, Session!jobVars,
       Proven!jobVars, Session!callVars, Proven!callVars, Session!exitVars, Proven!exitVars,
       Session!Init, Proven!Init

LEMMA SamePromises ==
    /\ Session!TypeOK <=> Proven!TypeOK
    /\ Session!ToldOnce <=> Proven!ToldOnce
    /\ Session!StaysHome <=> Proven!StaysHome
    /\ Session!NothingLeftBehind <=> Proven!NothingLeftBehind
BY DEF Session!Finite, Proven!Finite, Session!NothingLeftBehind, Proven!NothingLeftBehind,
       Session!Permits, Proven!Permits, Session!Places, Proven!Places, Session!Quiet,
       Proven!Quiet, Session!Remotes, Proven!Remotes, Session!Stages, Proven!Stages,
       Session!StaysHome, Proven!StaysHome, Session!SweepStages, Proven!SweepStages,
       Session!ToldOnce, Proven!ToldOnce, Session!Transfers, Proven!Transfers, Session!Tunnels,
       Proven!Tunnels, Session!TypeOK, Proven!TypeOK

\* The values of its constants are among those it is proved for.
LEMMA ProvenAssumptions ==
    /\ Proven!IsFiniteSet({o}) /\ NoCall \notin {o}
    /\ [c \in {o} |-> "operation"] \in [{o} -> Proven!Kinds]
    /\ 1 \in Nat \ {0} /\ 1 \in Nat /\ 2 \in Nat
<1>1. IsFiniteSet({o})
  BY FS_Singleton
<1>2. Proven!IsFiniteSet({o})
  BY <1>1 DEF IsFiniteSet, Proven!IsFiniteSet
<1> QED
  BY <1>2, JobsAssumption DEF Proven!Kinds

-----------------------------------------------------------------------------
\* Side by side.

JobsInductive ==
    /\ ConnectInductive /\ TunnelInductive /\ X11Inductive
    /\ TransferInductive /\ EditorInductive

LEMMA JobsInitEstablishes == JobsInit => JobsInductive
BY ConnectInitEstablishes, TunnelInitEstablishes, X11InitEstablishes, TransferInitEstablishes,
   EditorInitEstablishes DEF JobsInit, JobsInductive

\* A step of one subject leaves the others as they are.
LEMMA JobsSteps ==
    ASSUME [JobsNext]_jobVars
    PROVE  /\ [ConnectNext]_connectVars /\ [TunnelNext]_tunnelVars /\ [X11Next]_x11Vars
           /\ [TransferNext]_transferVars /\ [EditorNext]_editorVars
           /\ [Proven!Next]_Proven!vars
<1>1. UNCHANGED sessionVars => UNCHANGED Proven!vars
  BY DEF sessionVars, Proven!vars, Proven!sessionVars, Proven!jobVars, Proven!callVars,
     Proven!exitVars
<1> QED
  BY <1>1, SameSteps DEF JobsNext, jobVars

LEMMA JobsHold == JobsSpec => []JobsInductive
<1>1. JobsInductive /\ [JobsNext]_jobVars => JobsInductive'
  BY JobsSteps, ConnectNextKeeps, TunnelNextKeeps, X11NextKeeps, TransferNextKeeps,
     EditorNextKeeps DEF JobsInductive
<1> QED
  BY <1>1, JobsInitEstablishes, PTL DEF JobsSpec

LEMMA SessionHolds ==
    JobsSpec => [](Session!TypeOK /\ Session!ToldOnce /\ Session!StaysHome
                   /\ Session!NothingLeftBehind)
<1>1. JobsInit => Proven!Init
  BY SameVariables DEF JobsInit
<1>2. [JobsNext]_jobVars => [Proven!Next]_Proven!vars
  BY JobsSteps
<1>3. JobsSpec => Proven!Spec
  BY <1>1, <1>2, PTL DEF JobsSpec, Proven!Spec
<1>4. Proven!Spec => []Proven!TypeOK
  BY ProvenAssumptions, Proven!TypeCorrect
<1>5. Proven!Spec => []Proven!ToldOnce
  BY ProvenAssumptions, Proven!CallersToldOnce
<1>6. Proven!Spec => []Proven!StaysHome
  BY ProvenAssumptions, Proven!CommandsStayHome
<1>7. Proven!Spec => []Proven!NothingLeftBehind
  BY ProvenAssumptions, Proven!ConnectionsLeaveNothing
<1> QED
  BY <1>3, <1>4, <1>5, <1>6, <1>7, SamePromises, PTL

\* Every variable of all that works for the SSH sessions keeps its type.
THEOREM JobsAreTyped == JobsSpec => []JobsTypeOK
<1>1. JobsInductive =>
         ConnectTypeOK /\ TunnelTypeOK /\ X11TypeOK /\ TransferTypeOK /\ EditorTypeOK
  BY DEF JobsInductive, ConnectInductive, TunnelInductive, X11Inductive, TransferInductive,
     EditorInductive
<1>2. JobsInductive /\ Session!TypeOK => JobsTypeOK
  BY <1>1 DEF JobsTypeOK
<1> QED
  BY <1>2, JobsHold, SessionHolds, PTL

\* A transfer that ends and knows what became of its requests leaves no temporary file and
\* no backup; of any number of editors none loses the save of another, or the document
\* itself; and the operation of a terminal stays on its connection and is answered once.
THEOREM FilesStaySafe == JobsSpec => []FilesAreSafe
<1>1. JobsInductive => LeavesNothing /\ EditorsKeepTheDocument
  BY EditorSafe DEF JobsInductive, TransferInductive, ToldAgrees, FilesAgree, LeavesNothing, From
<1>2. JobsInductive /\ Session!ToldOnce /\ Session!StaysHome /\ Session!NothingLeftBehind
      => FilesAreSafe
  BY <1>1 DEF FilesAreSafe
<1> QED
  BY <1>2, JobsHold, SessionHolds, PTL

\* A server listens for no tunnel that is over, a SOCKS client hears one answer, and the
\* display is reached by no more programs than allowed, and by none after the session.
THEOREM ForwardsStayHonest == JobsSpec => []ForwardsAreHonest
<1>1. TunnelInductive => NoListenerLeft /\ SocksAnswersOnce
  BY DEF TunnelInductive, ServerAgrees, ClientAgrees, NoListenerLeft, SocksAnswersOnce, On
<1>2. X11Inductive => X11LeavesNothing
  BY DEF X11Inductive, X11LeavesNothing
<1>3. JobsInductive => ForwardsAreHonest
  BY <1>1, <1>2 DEF JobsInductive, ForwardsAreHonest
<1> QED
  BY <1>3, JobsHold, PTL

\* Whatever fails, is cancelled or interferes, and whoever looks when: the destination of a
\* transfer is what was there or the whole new file, it is replaced only when that was asked
\* for, and the report of the job is true (run_transfer, promote_uploaded_file).
THEOREM ReplacementIsKept == TransferSpec => KeepsReplacement
<1>1. TransferInit => Promise!ReplacementInit
  BY DEF TransferInit, Promise!ReplacementInit, Ended, Contents
<1>2. TransferInductive /\ [TransferNext]_transferVars
      => [Promise!ReplacementNext]_(Promise!replacementVars)
  BY TransferImplements
<1> QED
  BY <1>1, <1>2, TransferInitEstablishes, TransferNextKeeps, PTL
  DEF TransferSpec, KeepsReplacement, Promise!ReplacementSpec
=============================================================================
