------------------------------ MODULE SshConnect ------------------------------
(***************************************************************************)
(* Making, losing and ending SSH connections: SshManager::connect,         *)
(* answer_authentication and the reconnect loop of run_remote_session in   *)
(* apps/desktop/src-tauri/src/ssh.rs over SshConnection in                 *)
(* crates/mobarust-ssh/src/lib.rs.  A connection is a chain of hops, each  *)
(* reached through the one before it, each with a host key to approve and  *)
(* credentials of its own, some of them asked of the user in the middle of *)
(* the handshake.                                                          *)
(*                                                                         *)
(* One step is the code between two awaits.  What the server, the network  *)
(* or a deadline does is the failing outcome every await has.              *)
(***************************************************************************)
EXTENDS Naturals, FiniteSets

CONSTANTS
    Connects,      \* the connections the user opens, each once
    Wanted(_),     \* bound: the requests the user makes on each
    Hops,          \* bound: hops of a chain (MAX_SSH_JUMP_HOSTS + 1)
    AttemptLimit,  \* reconnect_attempts of a request
    PromptLimit,   \* prompts that may be open in the application (32)
    Asked,         \* bound: prompts one connection shows
    Losses(_)      \* bound: how often the session of each is lost

ASSUME ConnectAssumption ==
    Hops \in Nat \ {0} /\ AttemptLimit \in Nat /\ PromptLimit \in Nat /\ Asked \in Nat

VARIABLES
    plan,          \* SshConnectRequest
    connectStep,   \* where each connection is
    hop,           \* the hop that is connected or disconnected
    attempt,       \* 0, or the number of the reconnect attempt
    openHops,      \* hops with an open transport
    approvedHops,  \* hops whose key check_server_key has approved
    toldHops,      \* hops that have been sent a credential
    prompts,       \* PendingAuthentication: <<connection, number>>
    dialogs,       \* Challenge events without their Closed event
    replies,       \* answers taken out of the map: <<connection, number, answer>>
    reply,         \* what the oneshot of the current prompt holds
    asks,          \* how many prompts it has shown
    sessions,      \* the registered terminals
    closing,       \* close holds true
    startupSent,   \* no, yes, or nobody knows how much of it
    lost,          \* how often its shell has been lost
    streak,        \* reconnects_since_stable_shell
    quitting       \* shutdown holds true

chainVars == <<openHops, approvedHops, toldHops>>
promptVars == <<prompts, dialogs, replies, reply, asks>>
setupVars == <<chainVars, promptVars, attempt, startupSent>>
connectVars == <<plan, connectStep, hop, setupVars, sessions, closing, lost, streak, quitting>>

Plans == [hops : 1..Hops, policy : {"known", "none", "both"},
          auth : {"stored", "prompt", "inspect"}, startup : BOOLEAN]

ConnectSteps == {"off", "prepare", "reach", "verify", "authenticate", "ask", "asked", "shell",
                 "startup", "register", "live", "hangup", "backoff", "remove", "over"}
Setup == {"prepare", "reach", "verify", "authenticate", "ask", "asked", "shell", "startup"}
PromptAnswers == {"answer", "cancel"}

ConnectTypeOK ==
    /\ plan \in [Connects -> Plans]
    /\ connectStep \in [Connects -> ConnectSteps]
    /\ hop \in [Connects -> 0..Hops]
    /\ attempt \in [Connects -> 0..AttemptLimit]
    /\ openHops \in [Connects -> SUBSET (1..Hops)]
    /\ approvedHops \in [Connects -> SUBSET (1..Hops)]
    /\ toldHops \in [Connects -> SUBSET (1..Hops)]
    /\ prompts \cup dialogs \subseteq Connects \X (1..Asked)
    /\ replies \subseteq Connects \X (1..Asked) \X PromptAnswers
    /\ reply \in [Connects -> PromptAnswers \cup {"none"}]
    /\ asks \in [Connects -> 0..Asked]
    /\ sessions \subseteq Connects
    /\ closing \in [Connects -> BOOLEAN]
    /\ startupSent \in [Connects -> {"no", "yes", "unknown"}]
    /\ lost \in [Connects -> Nat]
    /\ streak \in [Connects -> 0..AttemptLimit]
    /\ quitting \in BOOLEAN

ConnectInit ==
    /\ plan = [c \in Connects |->
                  [hops |-> 1, policy |-> "none", auth |-> "stored", startup |-> FALSE]]
    /\ connectStep = [c \in Connects |-> "off"]
    /\ hop = [c \in Connects |-> 0]
    /\ attempt = [c \in Connects |-> 0]
    /\ openHops = [c \in Connects |-> {}]
    /\ approvedHops = [c \in Connects |-> {}]
    /\ toldHops = [c \in Connects |-> {}]
    /\ prompts = {} /\ dialogs = {} /\ replies = {}
    /\ reply = [c \in Connects |-> "none"]
    /\ asks = [c \in Connects |-> 0]
    /\ sessions = {}
    /\ closing = [c \in Connects |-> FALSE]
    /\ startupSent = [c \in Connects |-> "no"]
    /\ lost = [c \in Connects |-> 0]
    /\ streak = [c \in Connects |-> 0]
    /\ quitting = FALSE

-----------------------------------------------------------------------------
\* Shared pieces.

Stands(c, step) == connectStep[c] = step
Advances(c, step) == connectStep' = [connectStep EXCEPT ![c] = step]
Current(c) == <<c, asks[c]>>

\* What is set up is dropped: the handles of every hop, and the guard of a prompt,
\* which takes it out of the map and emits Closed.
DropsChain(c) ==
    /\ openHops' = [openHops EXCEPT ![c] = {}]
    /\ approvedHops' = [approvedHops EXCEPT ![c] = {}]
    /\ toldHops' = [toldHops EXCEPT ![c] = {}]
DropsPrompt(c) ==
    /\ prompts' = prompts \ {Current(c)}
    /\ dialogs' = dialogs \ {Current(c)}
    /\ reply' = [reply EXCEPT ![c] = "none"]
    /\ UNCHANGED <<replies, asks>>

Aborts(c, step) == Advances(c, step) /\ DropsChain(c) /\ DropsPrompt(c)

\* Where a failed setup goes: an error of connect, the next attempt of a session, or
\* its end, which is also where startup input that may have arrived leads.
\* Fault: the attempts are not counted; the startup input is not asked about.
RetryForEver(c) == attempt[c] > 0 /\ startupSent'[c] # "unknown"
RetryAfterStartup(c) == attempt[c] \in 1..AttemptLimit - 1
MayRetry(c) == attempt[c] \in 1..AttemptLimit - 1 /\ startupSent'[c] # "unknown"

GivesUpSetup(c) ==
    /\ Aborts(c, IF attempt[c] = 0 THEN "over" ELSE IF MayRetry(c) THEN "backoff" ELSE "remove")
    /\ attempt' = IF MayRetry(c) THEN [attempt EXCEPT ![c] = @ + 1] ELSE attempt
FailsSetup(c) == UNCHANGED startupSent /\ GivesUpSetup(c)

Registry == <<sessions, closing, quitting, lost, streak>>

-----------------------------------------------------------------------------
\* connect and connect_transport, up to the first packet.

\* validate_ssh_connection_policy, and no connection after Quit.
StartConnect(c, p) ==
    /\ Stands(c, "off")
    /\ plan' = [plan EXCEPT ![c] = p]
    /\ Advances(c, IF quitting THEN "over" ELSE "prepare")
    /\ UNCHANGED <<hop, setupVars>>
    /\ UNCHANGED Registry

\* Both policies at once are refused; credentials_from_auth asks the vault.
PrepareTransport(c) ==
    /\ Stands(c, "prepare")
    /\ hop' = [hop EXCEPT ![c] = 1]
    /\ \/ /\ plan[c].policy # "both" /\ Advances(c, "reach")
          /\ UNCHANGED setupVars
       \/ FailsSetup(c)
    /\ UNCHANGED plan
    /\ UNCHANGED Registry

\* A socket to the first hop, direct-tcpip through its predecessor to any other.
ReachHop(c) ==
    /\ Stands(c, "reach")
    /\ \/ /\ openHops' = [openHops EXCEPT ![c] = @ \cup {hop[c]}]
          /\ Advances(c, "verify")
          /\ UNCHANGED <<approvedHops, toldHops, promptVars, attempt, startupSent>>
       \/ FailsSetup(c)
    /\ UNCHANGED <<plan, hop>>
    /\ UNCHANGED Registry

\* An inspection accepts any key and only reports it; without a policy none is.
CheckServerKey(c) ==
    /\ Stands(c, "verify")
    /\ \/ /\ plan[c].auth # "inspect" /\ plan[c].policy = "known"
          /\ approvedHops' = [approvedHops EXCEPT ![c] = @ \cup {hop[c]}]
          /\ Advances(c, "authenticate")
          /\ UNCHANGED <<openHops, toldHops, promptVars, attempt, startupSent>>
       \/ /\ plan[c].auth = "inspect"
          /\ Advances(c, "hangup")
          /\ UNCHANGED setupVars
       \/ FailsSetup(c)
    /\ UNCHANGED <<plan, hop>>
    /\ UNCHANGED Registry

-----------------------------------------------------------------------------
\* authenticate.

\* finish_authenticated: the next hop, or the shell.
NextHop(c) ==
    IF hop[c] < plan[c].hops THEN hop' = [hop EXCEPT ![c] = @ + 1] /\ Advances(c, "reach")
                             ELSE UNCHANGED hop /\ Advances(c, "shell")

\* A password, a key or the agent: what is sent is sent, accepted or not.
SendStored(c) ==
    /\ Stands(c, "authenticate") /\ plan[c].auth = "stored"
    /\ \/ /\ toldHops' = [toldHops EXCEPT ![c] = @ \cup {hop[c]}]
          /\ NextHop(c)
          /\ UNCHANGED <<openHops, approvedHops, promptVars, attempt, startupSent>>
       \/ FailsSetup(c) /\ UNCHANGED hop
    /\ UNCHANGED plan
    /\ UNCHANGED Registry

\* The server is content, refuses, or sends a challenge within the limits.
KeyboardInteractive(c) ==
    /\ Stands(c, "authenticate") /\ plan[c].auth = "prompt"
    /\ \/ NextHop(c) /\ UNCHANGED setupVars
       \/ asks[c] < Asked /\ Advances(c, "ask") /\ UNCHANGED <<hop, setupVars>>
       \/ FailsSetup(c) /\ UNCHANGED hop
    /\ UNCHANGED plan
    /\ UNCHANGED Registry

Ask(c) ==
    /\ Stands(c, "ask")
    /\ IF quitting \/ Cardinality(prompts) >= PromptLimit
       THEN FailsSetup(c)
       ELSE /\ asks' = [asks EXCEPT ![c] = @ + 1]
            /\ prompts' = prompts \cup {<<c, asks[c] + 1>>}
            /\ dialogs' = dialogs \cup {<<c, asks[c] + 1>>}
            /\ Advances(c, "asked")
            /\ UNCHANGED <<chainVars, replies, reply, attempt, startupSent>>
    /\ UNCHANGED <<plan, hop>>
    /\ UNCHANGED Registry

\* The answer goes to the server; a cancel, Quit, the deadline or the loss of the
\* transport is an error.
TakeReply(c) ==
    /\ Stands(c, "asked")
    /\ \/ /\ reply[c] = "answer"
          /\ toldHops' = [toldHops EXCEPT ![c] = @ \cup {hop[c]}]
          /\ Advances(c, "authenticate")
          /\ DropsPrompt(c)
          /\ UNCHANGED <<openHops, approvedHops, attempt, startupSent>>
       \/ FailsSetup(c)
    /\ UNCHANGED <<plan, hop>>
    /\ UNCHANGED Registry

\* answer_authentication, under its locks: only a prompt in the map, and not that of
\* a session which closes.
TakePrompt(id, answer) ==
    /\ id \in prompts
    /\ ~quitting
    /\ attempt[id[1]] > 0 => id[1] \in sessions /\ ~closing[id[1]]
    /\ prompts' = prompts \ {id}
    /\ replies' = replies \cup {<<id[1], id[2], answer>>}
    /\ UNCHANGED <<plan, connectStep, hop, chainVars, dialogs, reply, asks, attempt, startupSent>>
    /\ UNCHANGED Registry

\* The locks are gone: a cancelled reconnect closes its session, and the reply is
\* sent, if somebody still waits for it.
SendReply(id, answer) ==
    /\ <<id[1], id[2], answer>> \in replies
    /\ replies' = replies \ {<<id[1], id[2], answer>>}
    /\ reply' = IF Stands(id[1], "asked") /\ Current(id[1]) = id
                THEN [reply EXCEPT ![id[1]] = answer] ELSE reply
    /\ closing' = [closing EXCEPT ![id[1]] =
                      @ \/ (answer = "cancel" /\ attempt[id[1]] > 0 /\ id[1] \in sessions)]
    /\ UNCHANGED <<plan, connectStep, hop, chainVars, prompts, dialogs, asks, attempt, startupSent,
                   sessions, lost, streak, quitting>>

-----------------------------------------------------------------------------
\* The shell, and the registration.

OpenShell(c) ==
    /\ Stands(c, "shell")
    /\ \/ Advances(c, IF plan[c].startup THEN "startup" ELSE "register")
          /\ UNCHANGED setupVars
       \/ FailsSetup(c)
    /\ UNCHANGED <<plan, hop>>
    /\ UNCHANGED Registry

\* Once started, the input may be on its way whatever happens to the future.
WriteStartup(c) ==
    /\ Stands(c, "startup")
    /\ \/ /\ startupSent' = [startupSent EXCEPT ![c] = "yes"]
          /\ Advances(c, "register")
          /\ UNCHANGED <<chainVars, promptVars, attempt>>
       \/ /\ startupSent' = [startupSent EXCEPT ![c] = "unknown"]
          /\ GivesUpSetup(c)
    /\ UNCHANGED <<plan, hop>>
    /\ UNCHANGED Registry

\* Under the sessions lock: no session that Quit has not seen.
RegisterSession(c) ==
    /\ Stands(c, "register") /\ attempt[c] = 0
    /\ IF quitting THEN Aborts(c, "over") /\ UNCHANGED sessions
                   ELSE /\ Advances(c, "live")
                        /\ sessions' = sessions \cup {c}
                        /\ UNCHANGED <<chainVars, promptVars>>
    /\ UNCHANGED <<plan, hop, attempt, startupSent, closing, lost, streak, quitting>>

\* reopen_command_queue: the new connection is used, or disconnected again.
ReopenSession(c) ==
    /\ Stands(c, "register") /\ attempt[c] > 0
    /\ Advances(c, IF closing[c] THEN "hangup" ELSE "live")
    /\ attempt' = [attempt EXCEPT ![c] = 0]
    /\ UNCHANGED <<plan, hop, chainVars, promptVars, startupSent>>
    /\ UNCHANGED Registry

\* connect and the reconnect loop race the setup with Quit and Close.
SetupCancelled(c) ==
    /\ connectStep[c] \in Setup
    /\ IF attempt[c] = 0 THEN quitting ELSE closing[c]
    /\ Aborts(c, IF attempt[c] = 0 THEN "over" ELSE "remove")
    /\ startupSent' = IF Stands(c, "startup") THEN [startupSent EXCEPT ![c] = "unknown"]
                      ELSE startupSent
    /\ UNCHANGED <<plan, hop, attempt>>
    /\ UNCHANGED Registry

-----------------------------------------------------------------------------
\* The session.

\* The shell exits or is closed; or it is lost, and reconnected unless too many
\* shells were lost soon after they had been opened.
ShellOver(c) ==
    /\ Stands(c, "live")
    /\ Advances(c, "hangup")
    /\ \/ UNCHANGED <<lost, streak, attempt>>
       \/ /\ lost[c] < Losses(c) /\ ~closing[c]
          /\ lost' = [lost EXCEPT ![c] = @ + 1]
          /\ \E previous \in {0, streak[c]} :
                 /\ previous < AttemptLimit
                 /\ streak' = [streak EXCEPT ![c] = previous + 1]
          /\ attempt' = [attempt EXCEPT ![c] = 1]
    /\ UNCHANGED <<plan, hop, chainVars, promptVars, startupSent, sessions, closing, quitting>>

\* disconnect: the last hop first, then every parent, whether or not it worked.
DisconnectOne(c) ==
    /\ Stands(c, "hangup")
    /\ openHops' = [openHops EXCEPT ![c] = @ \ {hop[c]}]
    /\ IF hop[c] > 1
       THEN /\ hop' = [hop EXCEPT ![c] = @ - 1]
            /\ UNCHANGED <<connectStep, approvedHops, toldHops>>
       ELSE /\ Advances(c, IF plan[c].auth = "inspect" THEN "over"
                           ELSE IF attempt[c] > 0 THEN "backoff" ELSE "remove")
            /\ approvedHops' = [approvedHops EXCEPT ![c] = {}]
            /\ toldHops' = [toldHops EXCEPT ![c] = {}]
            /\ UNCHANGED hop
    /\ UNCHANGED <<plan, promptVars, attempt, startupSent>>
    /\ UNCHANGED Registry

\* reconnect_with_backoff: the delay before an attempt.
Backoff(c) ==
    /\ Stands(c, "backoff")
    /\ Advances(c, IF closing[c] THEN "remove" ELSE "prepare")
    /\ UNCHANGED <<plan, hop, setupVars>>
    /\ UNCHANGED Registry

RemoveSession(c) ==
    /\ Stands(c, "remove")
    /\ sessions' = sessions \ {c}
    /\ Advances(c, "over")
    /\ UNCHANGED <<plan, hop, setupVars, closing, lost, streak, quitting>>

CloseSession(c) ==
    /\ c \in sessions /\ ~closing[c]
    /\ closing' = [closing EXCEPT ![c] = TRUE]
    /\ UNCHANGED <<plan, connectStep, hop, setupVars, sessions, lost, streak, quitting>>

\* shutdown, under the sessions lock.
QuitConnects ==
    /\ ~quitting
    /\ \E c \in Connects : ~Stands(c, "off")
    /\ quitting' = TRUE
    /\ closing' = [c \in Connects |-> closing[c] \/ c \in sessions]
    /\ UNCHANGED <<plan, connectStep, hop, setupVars, sessions, lost, streak>>

-----------------------------------------------------------------------------
SshConnectTransport(c) ==
    \/ PrepareTransport(c) \/ ReachHop(c) \/ CheckServerKey(c) \/ SendStored(c)
    \/ KeyboardInteractive(c) \/ Ask(c) \/ TakeReply(c)

RunRemoteSession(c) ==
    /\ plan[c].auth # "inspect"
    /\ \/ SshConnectTransport(c) \/ OpenShell(c) \/ WriteStartup(c) \/ RegisterSession(c)
       \/ ReopenSession(c) \/ SetupCancelled(c) \/ DisconnectOne(c) \/ Backoff(c)
       \/ RemoveSession(c) \/ ShellOver(c)

\* One hop, nothing but its key, which is reported; Quit does not wait for it.
InspectHostKey(c) ==
    /\ plan[c].auth = "inspect"
    /\ PrepareTransport(c) \/ ReachHop(c) \/ CheckServerKey(c) \/ DisconnectOne(c)

ConnectStep(c) == RunRemoteSession(c) \/ InspectHostKey(c)

ConnectNext ==
    \/ \E c \in Connects, p \in Plans : p \in Wanted(c) /\ StartConnect(c, p)
    \/ \E c \in Connects : ConnectStep(c) \/ CloseSession(c)
    \/ \E id \in Connects \X (1..Asked), a \in PromptAnswers : TakePrompt(id, a) \/ SendReply(id, a)
    \/ QuitConnects

\* Every await of a setup has a deadline; an open shell that is closed is left, and a
\* shell may stay open for ever.
ConnectFairness ==
    \A c \in Connects : WF_connectVars(ConnectStep(c) /\ (Stands(c, "live") => closing[c]))

ConnectSpec == ConnectInit /\ [][ConnectNext]_connectVars /\ ConnectFairness

-----------------------------------------------------------------------------
\* A credential is sent only over a transport whose host key has been approved in
\* this attempt, over hops that were all approved and authenticated before, and
\* never by an inspection, however often the connection is lost and made again.
HostTrust ==
    \A c \in Connects :
        /\ toldHops[c] \subseteq approvedHops[c]
        /\ approvedHops[c] # {} => plan[c].policy = "known" /\ plan[c].auth # "inspect"
        /\ connectStep[c] \in Setup \ {"prepare"} => 1..hop[c] - 1 \subseteq openHops[c] \cap approvedHops[c]
        /\ connectStep[c] \in {"shell", "startup", "register", "live"}
               => openHops[c] = 1..plan[c].hops /\ approvedHops[c] = openHops[c]

\* A prompt can be answered, and its dialog is shown, exactly while its handshake
\* waits for it; there are never more of them than allowed.
PromptsAreLive ==
    /\ \A id \in prompts \cup dialogs : Stands(id[1], "asked") /\ id = Current(id[1])
    /\ \A c \in Connects : Stands(c, "asked") => Current(c) \in dialogs
    /\ Cardinality(prompts) <= PromptLimit
    /\ \A c \in Connects : reply[c] # "none" => Stands(c, "asked") /\ Current(c) \notin prompts

\* Startup input that may have reached a shell is not sent again by another attempt.
StartupNotReplayed ==
    \A c \in Connects :
        startupSent[c] = "unknown" => connectStep[c] \in {"remove", "over"}

\* No open transport and no session is left when it is over, and after Quit every
\* session knows that it closes.
NothingLeftOpen ==
    \A c \in Connects :
        /\ Stands(c, "over") => openHops[c] = {} /\ c \notin sessions
        /\ quitting /\ c \in sessions => closing[c]
        /\ Stands(c, "live") => c \in sessions

ConnectSafety == HostTrust /\ PromptsAreLive /\ StartupNotReplayed /\ NothingLeftOpen

\* Closing a session, cancelling the prompt of its reconnect and Quit end it.
ConnectsEnd ==
    \A c \in Connects :
        (closing[c] \/ (quitting /\ ~Stands(c, "off"))) ~> Stands(c, "over")
=============================================================================
