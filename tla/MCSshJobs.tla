------------------------------ MODULE MCSshJobs ------------------------------
(***************************************************************************)
(* What works for the SSH sessions: connections and their prompts, one     *)
(* transfer, the editors of one remote document, the tunnels of one        *)
(* connection, its X11 bridge, and a terminal with one file operation.     *)
(* They share no variable (each has its own channels, files and deadlines; *)
(* what they share, the terminal's queue and registries, is SshSession),   *)
(* so an interleaving of two of them reaches nothing that one alone does   *)
(* not.  Hence a behaviour is about one subject, and TLC explores them     *)
(* side by side.                                                           *)
(***************************************************************************)
EXTENDS SshConnect, SshTunnel, X11Bridge, SshTransfer, RemoteEditor

CONSTANTS x, y,    \* two connections
          o,       \* the operation of the terminal
          NoCall

ASSUME JobsAssumption == o # NoCall

VARIABLES
    stage, result, gen, open, registered, workers, close, shutdown, queue, at, of, ran, notices,
    controls, signalled, slot, closer, quitter,
    subject

Session == INSTANCE SshSession WITH
    Calls <- {o}, Kind <- [c \in {o} |-> "operation"], Capacity <- 1, OperationLimit <- 1,
    MaxGeneration <- 2, cancelled <- signalled

sessionVars == <<stage, result, gen, open, registered, workers, close, shutdown, queue, at,
                 of, ran, notices, controls, signalled, slot, closer, quitter>>
jobVars == <<connectVars, tunnelVars, x11Vars, transferVars, editorVars, sessionVars, subject>>

\* x makes every kind of connection and loses its shell once (a chain is also a chain
\* of one hop while its first is made); y is the other one that wants a prompt.
ConnectWanted(c) ==
    IF c = x
    THEN [hops : {2}, policy : {"known"}, auth : {"stored"}, startup : {TRUE}]
         \cup [hops : {1}, policy : {"known"}, auth : {"prompt", "inspect"}, startup : {FALSE}]
         \cup [hops : {1}, policy : {"none", "both"}, auth : {"stored"}, startup : {FALSE}]
    ELSE [hops : {1}, policy : {"known"}, auth : {"prompt"}, startup : {FALSE}]

ConnectLosses(c) == IF c = x THEN 1 ELSE 0

JobsInit ==
    /\ subject \in {"connect", "tunnel", "x11", "transfer", "editor", "session"}
    /\ ConnectInit
    /\ TunnelInit
    /\ X11Init
    /\ TransferInit
    /\ EditorInit
    /\ Session!Init
    /\ subject # "editor" => path = "none" /\ ~replacing

JobsNext ==
    \/ /\ subject = "connect"
       /\ ConnectNext
       /\ UNCHANGED <<tunnelVars, x11Vars, transferVars, editorVars, sessionVars, subject>>
    \/ /\ subject = "tunnel"
       /\ TunnelNext
       /\ UNCHANGED <<connectVars, x11Vars, transferVars, editorVars, sessionVars, subject>>
    \/ /\ subject = "x11"
       /\ X11Next
       /\ UNCHANGED <<connectVars, tunnelVars, transferVars, editorVars, sessionVars, subject>>
    \/ /\ subject = "transfer"
       /\ TransferNext
       /\ UNCHANGED <<connectVars, tunnelVars, x11Vars, editorVars, sessionVars, subject>>
    \/ /\ subject = "editor"
       /\ EditorNext
       /\ UNCHANGED <<connectVars, tunnelVars, x11Vars, transferVars, sessionVars, subject>>
    \/ /\ subject = "session"
       /\ Session!Next
       /\ UNCHANGED <<connectVars, tunnelVars, x11Vars, transferVars, editorVars, subject>>

JobsFairness ==
    ConnectFairness /\ TunnelFairness /\ X11Fairness /\ TransferFairness

JobsSpec == JobsInit /\ [][JobsNext]_jobVars /\ JobsFairness

-----------------------------------------------------------------------------
JobsTypeOK ==
    /\ ConnectTypeOK
    /\ TunnelTypeOK
    /\ X11TypeOK
    /\ TransferTypeOK
    /\ EditorTypeOK
    /\ Session!TypeOK

\* The promises of the components, each stated in its module.
FilesAreSafe ==
    /\ LeavesNothing
    /\ EditorsKeepTheDocument
    /\ Session!ToldOnce /\ Session!StaysHome /\ Session!NothingLeftBehind
ForwardsAreHonest == NoListenerLeft /\ SocksAnswersOnce /\ X11LeavesNothing

\* Whatever was cancelled, closed or lost is over in the end.
JobsEnd == CancelEnds /\ TunnelStops /\ X11Ends /\ ConnectsEnd
=============================================================================
