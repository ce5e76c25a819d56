------------------------------ MODULE MCStreams ------------------------------
(***************************************************************************)
(* A Telnet terminal or a serial terminal: the two are managed in the same *)
(* way and share nothing, so a behaviour is about one of them.             *)
(***************************************************************************)
EXTENDS TelnetTerminal

CONSTANTS w, z, r, x

VARIABLES device, arrived, sent, port, handles, mine, stale, holder, using, held, waited,
          subject

\* Input, a size, a reconnect and a close.
MCKind ==
    [c \in Calls |-> CASE c = w -> "write" [] c = z -> "resize"
                       [] c = r -> "reconnect" [] c = x -> "close"]

Serial == INSTANCE SerialTerminal WITH
    Capacity <- 1

telnetVars == <<connection, greeted, wireVars, chunks, inputVars>>
serialVars == <<device, arrived, sent, port, handles, mine, stale, holder, using, held, waited>>
ofSerialVars == <<streamVars, state, told, task, serialVars>>
streamsVars == <<vars, serialVars, subject>>

StreamsInit ==
    \/ /\ subject = "telnet"
       /\ Init
       /\ device = "none" /\ arrived = FALSE /\ sent = 0
       /\ port = 0 /\ handles = 0
       /\ mine = "none" /\ stale = 0 /\ holder = "none" /\ using = 0 /\ held = 0 /\ waited = 0
    \/ /\ subject = "serial"
       /\ Serial!Init
       /\ connection = 0 /\ greeted = 0 /\ chunks = 0
       /\ unread = <<>> /\ responses = <<>> /\ partial = FALSE /\ torn = FALSE
       /\ pinned = [c \in Calls |-> 0] /\ written = [c \in Calls |-> 0]

StreamsNext ==
    \/ subject = "telnet" /\ Next /\ UNCHANGED <<serialVars, subject>>
    \/ /\ subject = "serial"
       /\ Serial!Next
       /\ \A c \in Calls : Kind[c] = "resize" => at'[c] = "new"   \* a line has no size
       /\ UNCHANGED <<telnetVars, subject>>

\* The fairness of each, as its module states it.
StreamsFairness ==
    /\ WF_vars(subject = "telnet" /\ SessionStep)
    /\ SF_ofSerialVars(subject = "serial" /\ (Serial!WorkerStep \/ Serial!Tick \/ Serial!SessionStep))
    /\ SF_ofSerialVars(subject = "serial" /\ \E c \in Calls : Serial!CommandStep(c))

StreamsSafetySpec == StreamsInit /\ [][StreamsNext]_streamsVars
StreamsSpec == StreamsSafetySpec /\ StreamsFairness

-----------------------------------------------------------------------------
StreamsTypeOK ==
    /\ subject = "telnet" => TypeOK
    /\ subject = "serial" => Serial!TypeOK

\* Nothing of a Telnet connection is used on the one that replaces it: no input typed
\* for it, none of its bytes in a buffer, and, once the capabilities of the new one
\* have been sent, none in the decoder.
TelnetStartsAnew == subject = "telnet" => InputStaysHome /\ NothingFromBefore

\* A serial handle that was replaced is not used any more, and the renderer is told of
\* every loss, so that what it shows is so.
SerialIsHonest == subject = "serial" => Serial!NoStaleHandle /\ Serial!ToldTheTruth

\* CommandsServed of the two, in one formula: again and again no call waits, and whoever
\* has asked for the end has it.
NothingPending ==
    \A c \in Calls :
        /\ at[c] # "queued"
        /\ Kind[c] = "close" /\ at[c] \in {"taken", "dropped"} => task = "over"

StreamsServed == []<>NothingPending
=============================================================================
