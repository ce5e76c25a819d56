----------------------------- MODULE MCServices -----------------------------
(***************************************************************************)
(* The parts of the backend besides the sessions and their jobs: the shell *)
(* of an SSH terminal, a request for a remote desktop, the session with    *)
(* its helper, the frames it hands to the window, network operations, the  *)
(* list of serial devices, a store, the portable vault and the import of   *)
(* an OpenSSH configuration.  As in MCSshJobs they share no variable, and  *)
(* a behaviour is about one of them.                                       *)
(***************************************************************************)
EXTENDS RemoteDesktop, DesktopFrames, BoundedWork, SshShell

CONSTANTS
    Ids, Versions, MaxEvents, MaxRecords, Local, Settings,
    Passphrases, MaxCredentials,
    Letters, PatternLength, HostLength, ConfigLength,
    Windows

VARIABLES
    disk, temporary, step, memory, previous, answer, store, running,
    vaultDisk, vaultTemporary, vaultStep, vaultMemory, vaultPrevious, vaultAnswer,
    seal, key, creating, platform,
    pattern, host, patternIndex, hostIndex, starIndex, starMatch, matched, config, known, imported,
    asked, request, record, stage, refuser, arguments, requestInbox, heard, target,
    subject

ASSUME ServicesAssumption ==
    /\ 1 \in Versions
    /\ {Local, Settings} \subseteq Ids
    /\ {MaxEvents, MaxRecords, PatternLength, HostLength} \subseteq Nat
    /\ MaxCredentials \in Nat \ {0}
    /\ Letters \cap {"*", "?", "end"} = {}

\* Two hosts, one that is matched by every pattern and one that is excluded from one;
\* values, a value that makes its host skipped, and lines that count for nothing.
Glob(n, g) == [negated |-> n, glob |-> g]
Line(d, ps, v) == [directive |-> d, patterns |-> ps, value |-> v]
ConfigLines ==
    {Line("host", <<Glob(FALSE, <<"a">>)>>, "none"),
     Line("host", <<Glob(FALSE, <<"b">>), Glob(FALSE, <<"a">>)>>, "none"),
     Line("host", <<Glob(FALSE, <<"*">>), Glob(TRUE, <<"b">>)>>, "none"),
     Line("match", <<>>, "none"), Line("other", <<>>, "none"),
     Line("port", <<>>, "22"), Line("port", <<>>, "bad")}

Store == INSTANCE LocalStores
Vault == INSTANCE PortableVault WITH
    disk <- vaultDisk, temporary <- vaultTemporary, step <- vaultStep, memory <- vaultMemory,
    previous <- vaultPrevious, answer <- vaultAnswer
OpenSsh == INSTANCE OpenSshImport WITH verdict <- matched
Desired == INSTANCE DesktopRequests WITH inbox <- requestInbox

\* A scan of every port there is and one of a single port.
ScanPorts == {[start |-> 1, end |-> 3], [start |-> 2, end |-> 2]}

storeVars == <<disk, temporary, step, memory, previous, answer, store, running>>
vaultVars == <<vaultDisk, vaultTemporary, vaultStep, vaultMemory, vaultPrevious, vaultAnswer,
               seal, key, creating, platform>>
openSshVars == <<pattern, host, patternIndex, hostIndex, starIndex, starMatch, matched, config,
                 known, imported>>
requestVars == <<asked, request, record, stage, refuser, arguments, requestInbox, heard, target>>
serviceVars == <<desktopVars, networkVars, listVars, framesVars, storeVars, vaultVars,
                 openSshVars, requestVars, shellVars, subject>>

\* What a behaviour is not about begins in one state.
ServicesInit ==
    /\ subject \in {"desktop", "frames", "network", "devices", "store", "vault", "openssh",
                   "request", "shell"}
    /\ DesktopInit /\ (subject # "desktop" => helper = "any")
    /\ FramesInit
    /\ NetworkInit /\ (subject # "network" => \A s \in Scans : ports[s].start = 1)
    /\ ListInit
    /\ Store!StoreInit
    /\ subject # "store" => store = "audit" /\ disk.there = "no"
    /\ Vault!VaultInit
    /\ subject # "vault" => vaultDisk.there = "no" /\ platform = {}
    /\ OpenSsh!OpenSshInit
    /\ subject # "openssh" => pattern = <<>> /\ host = <<>>
    /\ IF subject = "request" THEN Desired!RequestsInit
       ELSE Desired!RequestsOf({Desired!Rdp})
    /\ ShellInit
    /\ subject # "shell" => early = <<>>

ServicesNext ==
    \/ /\ subject = "desktop"
       /\ DesktopNext
       /\ UNCHANGED <<networkVars, listVars, framesVars, storeVars, vaultVars, openSshVars,
                      requestVars, shellVars, subject>>
    \/ /\ subject = "frames"
       /\ FramesNext
       /\ UNCHANGED <<desktopVars, networkVars, listVars, storeVars, vaultVars, openSshVars,
                      requestVars, shellVars, subject>>
    \/ /\ subject = "network"
       /\ NetworkNext
       /\ UNCHANGED <<desktopVars, listVars, framesVars, storeVars, vaultVars, openSshVars,
                      requestVars, shellVars, subject>>
    \/ /\ subject = "devices"
       /\ ListNext
       /\ UNCHANGED <<desktopVars, networkVars, framesVars, storeVars, vaultVars, openSshVars,
                      requestVars, shellVars, subject>>
    \/ /\ subject = "store"
       /\ Store!StoreNext
       /\ UNCHANGED <<desktopVars, networkVars, listVars, framesVars, vaultVars, openSshVars,
                      requestVars, shellVars, subject>>
    \/ /\ subject = "vault"
       /\ Vault!VaultNext
       /\ UNCHANGED <<desktopVars, networkVars, listVars, framesVars, storeVars, openSshVars,
                      requestVars, shellVars, subject>>
    \/ /\ subject = "openssh"
       /\ OpenSsh!OpenSshNext
       /\ UNCHANGED <<desktopVars, networkVars, listVars, framesVars, storeVars, vaultVars,
                      requestVars, shellVars, subject>>
    \/ /\ subject = "request"
       /\ Desired!RequestsNext
       /\ UNCHANGED <<desktopVars, networkVars, listVars, framesVars, storeVars, vaultVars,
                      openSshVars, shellVars, subject>>
    \/ /\ subject = "shell"
       /\ ShellNext
       /\ UNCHANGED <<desktopVars, networkVars, listVars, framesVars, storeVars, vaultVars,
                      openSshVars, requestVars, subject>>

\* The fairness of each, as its module states it.  Frames, the matching of a host and
\* a shell have something to do from the start, and only a behaviour about them does it.
ServicesFairness ==
    /\ DesktopFairness
    /\ NetworkFairness
    /\ WF_framesVars(subject = "frames" /\ FramesProgress)
    /\ WF_openSshVars(subject = "openssh" /\ OpenSsh!MatchStep)
    /\ WF_shellVars(subject = "shell" /\ ShellTask)
    /\ WF_shellVars(subject = "shell" /\ SetupEnds)
    /\ WF_shellVars(subject = "shell" /\ ActorDelivers)
    /\ WF_shellVars(subject = "shell" /\ ActorSends)

ServicesSpec == ServicesInit /\ [][ServicesNext]_serviceVars /\ ServicesFairness

-----------------------------------------------------------------------------
ServicesTypeOK ==
    /\ DesktopTypeOK
    /\ FramesTypeOK
    /\ NetworkTypeOK
    /\ ListTypeOK
    /\ Store!StoreTypeOK
    /\ Vault!VaultTypeOK
    /\ OpenSsh!OpenSshTypeOK
    /\ Desired!RequestsTypeOK

\* The promises of the components, each stated in its module.
StoresAreSafe == Store!StoresAreSafe /\ Vault!VaultIsItsFile
VaultKeepsFile == Vault!VaultKeepsFile
ConfigurationIsHonoured ==
    /\ OpenSsh!GlobIsExact /\ OpenSsh!ImportIsExact
    /\ Desired!RequestsAreHonoured

\* Whatever was started, sent or stopped comes to its end: DesktopEnds, and
\* FramesArrive, NetworkEnds and OpenSsh!GlobEnds in one, as a behaviour is about
\* one of them and the others are at rest all along.
AtRest ==
    /\ FramesDelivered
    /\ NetworkAtRest
    /\ subject = "openssh" => matched # "scanning"

ServicesEnd == DesktopEnds /\ []<>AtRest
=============================================================================
