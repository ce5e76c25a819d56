------------------------------ MODULE SshShell ------------------------------
(***************************************************************************)
(* Input, output and geometry of an SSH terminal: run_shell_once,          *)
(* run_shell_operation, retire_shell_output and the opening of a shell     *)
(* (apps/desktop/src-tauri/src/ssh.rs, SshShellReader and open_shell in    *)
(* crates/mobarust-ssh/src/lib.rs) over the actor of a connection, which   *)
(* is russh's.  The actor handles one packet of the server at a time.      *)
(* While the channel's bounded queue has no room for it, the actor does    *)
(* nothing else: it takes no request, and gives no window credit.          *)
(*                                                                         *)
(* One step is the code between two awaits.  A packet is output with its   *)
(* number, or what ends a shell.  What is passed on goes to the decoder    *)
(* and from there to the renderer, retained and replayed as StreamTerminal *)
(* has it for the other terminals.                                         *)
(***************************************************************************)
EXTENDS Naturals, Sequences

CONSTANTS
    ChannelRoom,  \* channel_buffer_size
    OutboxRoom,   \* capacity of the actor's queue of requests
    ShellData,    \* bound: output packets of one shell
    Shells,       \* bound: shells opened one after the other
    MaxSize,      \* bound: the sizes are numbered
    Startup       \* there is a startup directory or command

ASSUME ShellAssumption ==
    /\ ChannelRoom \in Nat
    /\ {OutboxRoom, ShellData, Shells, MaxSize} \subseteq Nat \ {0}

VARIABLES
    shell,       \* number of the current one
    shellStep,   \* where the session task is
    operation,   \* the request run_shell_operation has under way
    ended,       \* ShellRunResult: none yet, closed or lost
    leaving,     \* close of the session, or Quit
    up,          \* the actor of the current connection runs
    hand,        \* the packet the actor has to put into the channel's queue
    inbox,       \* that queue
    early,       \* pending_output: what came while the shell was being opened
    reads,       \* the reader exists
    exitKnown, eofKnown,  \* exit_status, output_eof
    spoken,        \* what the server has said on this channel
    emitted,     \* number of the last packet passed on
    carry,       \* shell of the incomplete character in output_decoder; 0 for none
    outbox,      \* requests for the actor
    credit,      \* the server's receive window is open
    size,        \* the latest one
    unseen,      \* the session task has not seen it
    remoteSize   \* what the server knows; 0 for nothing

actorVars == <<up, hand, spoken, outbox, credit, remoteSize>>
readerVars == <<inbox, early, reads, exitKnown, eofKnown, emitted, carry>>
sizeVars == <<size, unseen>>
shellVars == <<shell, shellStep, operation, ended, leaving, actorVars, readerVars, sizeVars>>

Packet(kind, n) == [kind |-> kind, number |-> n]
Packets == [kind : {"data", "exit", "eof", "close", "success"}, number : 0..ShellData]
Request(kind, n) == [kind |-> kind, size |-> n]
NoRequest == Request("input", 0)
ActorRequests == [kind : {"input", "size", "eof"}, size : 0..MaxSize]
Operating == {"window", "room"}
Opening == {"accept", "startup", "deliver"}

ShellTypeOK ==
    /\ shell \in 1..Shells
    /\ shellStep \in {"select", "retire", "eof", "finish", "backoff", "opened", "over"}
                     \cup Operating \cup Opening
    /\ operation \in ActorRequests
    /\ ended \in {"none", "closed", "lost"}
    /\ {leaving, up, reads, exitKnown, eofKnown, unseen, credit} \subseteq BOOLEAN
    /\ hand \in Seq(Packets) /\ Len(hand) <= 1
    /\ inbox \in Seq(Packets) /\ Len(inbox) <= ChannelRoom
    /\ early \in Seq(Packets)
    /\ spoken \in [data : 0..ShellData, exit : BOOLEAN, eof : BOOLEAN, close : BOOLEAN,
                 success : BOOLEAN]
    /\ emitted \in 0..spoken.data
    /\ carry \in 0..Shells
    /\ outbox \in Seq(ActorRequests) /\ Len(outbox) <= OutboxRoom
    /\ size \in 1..MaxSize /\ remoteSize \in 0..MaxSize

Silence == [data |-> 0, exit |-> FALSE, eof |-> FALSE, close |-> FALSE, success |-> FALSE]

\* The first shell is open, and has perhaps said something in the meantime.
ShellInit ==
    /\ shell = 1
    /\ shellStep = "select"
    /\ operation = NoRequest
    /\ ended = "none"
    /\ leaving = FALSE
    /\ up = TRUE
    /\ hand = <<>> /\ inbox = <<>>
    /\ \E n \in {0, 1} :
          /\ spoken = [Silence EXCEPT !.data = n, !.success = TRUE]
          /\ early = IF n = 0 THEN <<>> ELSE <<Packet("data", 1)>>
    /\ reads = TRUE /\ exitKnown = FALSE /\ eofKnown = FALSE
    /\ emitted = 0 /\ carry = 0
    /\ outbox = <<>> /\ credit = TRUE
    /\ size = 1 /\ unseen = FALSE /\ remoteSize = 1

Does(step) == shellStep = step
Then(step) == shellStep' = step

-----------------------------------------------------------------------------
\* The server and the actor.

Hands(packet, saying) ==
    /\ hand' = <<packet>>
    /\ spoken' = saying
    /\ UNCHANGED <<shell, shellStep, operation, ended, leaving, up, outbox, credit, remoteSize,
                   readerVars, sizeVars>>

\* A packet has been read from the connection: output until EOF, the exit status at any
\* time before Close, and the answer to the request for the shell.  What it says when
\* nobody reads is one packet here.
ServerSpeaks ==
    /\ up /\ hand = <<>> /\ ~spoken.close
    /\ \/ Hands(Packet("close", 0), [spoken EXCEPT !.close = TRUE])
       \/ /\ reads
          /\ \/ /\ ~spoken.eof /\ spoken.data < ShellData
                /\ Hands(Packet("data", spoken.data + 1), [spoken EXCEPT !.data = @ + 1])
             \/ ~spoken.exit /\ Hands(Packet("exit", 0), [spoken EXCEPT !.exit = TRUE])
             \/ ~spoken.eof /\ Hands(Packet("eof", 0), [spoken EXCEPT !.eof = TRUE])
             \/ /\ ~spoken.success /\ remoteSize # 0
                /\ Hands(Packet("success", 0), [spoken EXCEPT !.success = TRUE])

\* CHANNEL_WINDOW_ADJUST.
ServerGrants ==
    /\ up /\ hand = <<>> /\ ~credit
    /\ credit' = TRUE
    /\ UNCHANGED <<shell, shellStep, operation, ended, leaving, up, hand, spoken, outbox,
                   remoteSize, readerVars, sizeVars>>

\* A packet for a channel nobody reads any more is dropped.
ActorDelivers ==
    /\ hand # <<>>
    /\ reads => Len(inbox) < ChannelRoom
    /\ inbox' = IF reads THEN inbox \o hand ELSE inbox
    /\ hand' = <<>>
    /\ UNCHANGED <<shell, shellStep, operation, ended, leaving, up, spoken, outbox, credit,
                   remoteSize, early, reads, exitKnown, eofKnown,
                   emitted, carry, sizeVars>>

\* Sizes for a closed channel go nowhere.
ActorSends ==
    /\ up /\ hand = <<>> /\ outbox # <<>>
    /\ outbox' = Tail(outbox)
    /\ remoteSize' = IF Head(outbox).kind = "size" /\ ~spoken.close THEN Head(outbox).size
                                                                  ELSE remoteSize
    /\ UNCHANGED <<shell, shellStep, operation, ended, leaving, up, hand, spoken, credit,
                   readerVars, sizeVars>>

\* The actor meets the end of the connection between two packets.
ActorEnds ==
    /\ up /\ hand = <<>>
    /\ up' = FALSE
    /\ outbox' = <<>>
    /\ UNCHANGED <<shell, shellStep, operation, ended, leaving, hand, spoken, credit, remoteSize,
                   readerVars, sizeVars>>

-----------------------------------------------------------------------------
\* The user.

\* resize: the watch keeps the latest size only.
ResizeTerminal ==
    /\ ~Does("over") /\ ~leaving /\ size < MaxSize
    /\ size' = size + 1
    /\ unseen' = TRUE
    /\ UNCHANGED <<shell, shellStep, operation, ended, leaving, actorVars, readerVars>>

CloseShell ==
    /\ ~Does("over") /\ ~leaving
    /\ leaving' = TRUE
    /\ UNCHANGED <<shell, shellStep, operation, ended, actorVars, readerVars, sizeVars>>

-----------------------------------------------------------------------------
\* Reading.

Ends(how) == ended' = how /\ shellStep' = "retire"
GoesOn == UNCHANGED <<ended, shellStep>>

\* Fault: the exit status ends the shell at once.
ExitFirst(exit, eof) == IF exit THEN Ends("closed") ELSE GoesOn

\* next_output returns the exit status only when no output can follow.
ExitAfterOutput(exit, eof) == IF exit /\ eof THEN Ends("closed") ELSE GoesOn

Knows(exit, eof) ==
    /\ exitKnown' = exit /\ eofKnown' = eof
    /\ ExitAfterOutput(exit, eof)
    /\ UNCHANGED <<emitted, carry>>

\* Close, or the end of the queue: the shell has exited, or was lost.
NoMore ==
    /\ Ends(IF exitKnown THEN "closed" ELSE "lost")
    /\ UNCHANGED <<exitKnown, eofKnown, emitted, carry>>

\* emit_output, for output; anything else but an exit status is Control.
PassesOn(packet) ==
    /\ IF packet.kind = "data" THEN emitted' = packet.number /\ carry' \in {0, shell}
                               ELSE UNCHANGED <<emitted, carry>>
    /\ GoesOn
    /\ UNCHANGED <<exitKnown, eofKnown>>

\* What was read while the shell was opened comes first.  The state of an exit is in the
\* reader: a read that is dropped for another branch has lost nothing.
NextOutput ==
    /\ \/ /\ early # <<>>
          /\ early' = Tail(early)
          /\ PassesOn(Head(early))
          /\ UNCHANGED inbox
       \/ /\ early = <<>> /\ inbox # <<>>
          /\ inbox' = Tail(inbox)
          /\ CASE Head(inbox).kind = "exit" -> Knows(TRUE, eofKnown)
               [] Head(inbox).kind = "eof" -> Knows(exitKnown, TRUE)
               [] Head(inbox).kind = "close" -> NoMore
               [] OTHER -> PassesOn(Head(inbox))
          /\ UNCHANGED early
       \/ /\ early = <<>> /\ inbox = <<>> /\ hand = <<>> /\ ~up
          /\ NoMore
          /\ UNCHANGED <<inbox, early>>
    /\ UNCHANGED <<shell, operation, leaving, actorVars, reads, sizeVars>>

-----------------------------------------------------------------------------
\* run_shell_once: output, input, a new size or the end.

ReadsOutput == Does("select") /\ NextOutput

\* A command taken when the session closes is refused.
StartsInput ==
    /\ Does("select") /\ ~leaving
    /\ Then("window")
    /\ operation' = Request("input", 0)
    /\ UNCHANGED <<shell, ended, leaving, actorVars, readerVars, sizeVars>>

\* borrow_and_update, and window_change of that size.
StartsResize ==
    /\ Does("select") /\ unseen
    /\ Then("room")
    /\ operation' = Request("size", size)
    /\ unseen' = FALSE
    /\ UNCHANGED <<shell, ended, leaving, actorVars, readerVars, size>>

SeesClose ==
    /\ Does("select") /\ leaving
    /\ Ends("closed")
    /\ UNCHANGED <<shell, operation, leaving, actorVars, readerVars, sizeVars>>

-----------------------------------------------------------------------------
\* run_shell_operation: close first, then the operation, then output.

HasRoom == Len(outbox) < OutboxRoom

\* Nobody gives credit any more when the actor has ended, but a request is refused.
OperationReady == IF shellStep = "window" THEN credit ELSE ~up \/ HasRoom

OperationCloses ==
    /\ shellStep \in Operating
    /\ leaving
    /\ Ends("closed")
    /\ UNCHANGED <<shell, operation, leaving, actorVars, readerVars, sizeVars>>

\* Input goes chunk by chunk: credit, room, and perhaps again; a size needs room only.
OperationProceeds ==
    /\ shellStep \in Operating
    /\ ~leaving /\ OperationReady
    /\ \/ /\ shellStep = "window"
          /\ credit' = FALSE
          /\ Then("room")
          /\ UNCHANGED <<operation, outbox, ended>>
       \/ /\ shellStep = "room" /\ up
          /\ outbox' = Append(outbox, operation)
          /\ \/ Then("select") /\ operation' = NoRequest
             \/ operation.kind = "input" /\ Then("window") /\ UNCHANGED operation
          /\ UNCHANGED <<credit, ended>>
       \/ /\ shellStep = "room" /\ ~up
          /\ Ends("lost")
          /\ UNCHANGED <<operation, outbox, credit>>
    /\ UNCHANGED <<shell, leaving, up, hand, spoken, remoteSize, readerVars,
                   sizeVars>>

\* Fault: the operation is awaited alone.
OperationAlone == FALSE

OperationReads ==
    /\ shellStep \in Operating
    /\ ~leaving /\ ~OperationReady
    /\ NextOutput

-----------------------------------------------------------------------------
\* retire_shell_output, and what run_remote_session does about the result.

\* Nothing of the reader, and of what the server says to it, is told apart from here on.
ReaderIsDropped ==
    /\ reads' = FALSE /\ inbox' = <<>> /\ early' = <<>> /\ spoken' = Silence
    /\ exitKnown' = FALSE /\ eofKnown' = FALSE /\ emitted' = 0

ConnectionIsEnded ==
    up' = FALSE /\ hand' = <<>> /\ outbox' = <<>> /\ credit' = FALSE /\ remoteSize' = 0

DropsReader ==
    /\ Does("retire")
    /\ Then("eof")
    /\ ReaderIsDropped
    /\ operation' = NoRequest
    /\ UNCHANGED <<shell, ended, leaving, up, hand, outbox, credit, remoteSize, carry, sizeVars>>

\* Without a deadline; an error is ignored.
SendsEof ==
    /\ Does("eof")
    /\ up => HasRoom
    /\ outbox' = IF up THEN Append(outbox, Request("eof", 0)) ELSE outbox
    /\ Then("finish")
    /\ UNCHANGED <<shell, operation, ended, leaving, up, hand, spoken, credit, remoteSize,
                   readerVars, sizeVars>>

\* finish_output flushes the decoder when the jobs of the session are over.  A shell that
\* was lost is opened again unless the session closes or has been unlucky too often; the
\* connection is ended first.
Decides ==
    /\ Does("finish")
    /\ carry' = 0
    /\ \/ ended = "lost" /\ ~leaving /\ shell < Shells /\ Then("backoff")
       \/ Then("over")
    /\ ConnectionIsEnded
    /\ UNCHANGED <<shell, operation, ended, leaving, spoken, inbox, early, reads, exitKnown,
                   eofKnown, emitted, sizeVars>>

-----------------------------------------------------------------------------
\* A new connection and open_shell on it.

\* Fault: the size is marked as seen when the new shell is there.
BecomesCurrentSeen == unseen' = FALSE

\* The watch is only read when a shell is opened: what changes later is still to be seen.
BecomesCurrent == UNCHANGED unseen

\* open_shell_at_current_size: the size goes out with the request for a terminal.
OpensShell ==
    /\ Does("backoff") /\ ~leaving /\ shell < Shells
    /\ shell' = shell + 1
    /\ Then("accept")
    /\ up' = TRUE /\ hand' = <<>> /\ spoken' = Silence /\ credit' = FALSE /\ remoteSize' = 0
    /\ outbox' = <<Request("size", size)>>
    /\ inbox' = <<>> /\ early' = <<>> /\ reads' = TRUE
    /\ exitKnown' = FALSE /\ eofKnown' = FALSE /\ emitted' = 0 /\ ended' = "none"
    /\ UNCHANGED <<operation, leaving, carry, sizeVars>>

\* close_failed_shell_setup: the reader is dropped before the channel is closed.  There
\* may be another attempt, but not after startup input, which may have arrived.
SetupFails ==
    /\ ReaderIsDropped
    /\ ConnectionIsEnded
    /\ \/ shellStep = "accept" /\ Then("backoff")
       \/ Then("over")
    /\ UNCHANGED <<shell, operation, ended, leaving, carry, sizeVars>>

\* write_shell_startup awaits credit, and then room, before it reads.
StartupReady == IF Does("startup") THEN credit ELSE Does("deliver") /\ HasRoom

\* wait_for_channel_request, and the reads of write_shell_startup: output that comes
\* early is kept; anything that ends the shell is an error.
ReadsSetup ==
    /\ shellStep \in Opening
    /\ ~StartupReady
    /\ inbox # <<>>
    /\ \/ /\ Head(inbox).kind = "data"
          /\ inbox' = Tail(inbox)
          /\ early' = Append(early, Head(inbox))
          /\ UNCHANGED shellStep
       \/ /\ Head(inbox).kind = "success"
          /\ inbox' = Tail(inbox)
          /\ Then(IF Startup THEN "startup" ELSE "opened")
          /\ UNCHANGED early
    /\ UNCHANGED <<shell, operation, ended, leaving, actorVars, reads, exitKnown, eofKnown,
                   emitted, carry, sizeVars>>

\* Refused or ended by the server, timed out, closed by the user; the connection is lost,
\* or the output too much to keep.
SetupEnds ==
    /\ shellStep \in Opening
    /\ SetupFails

\* Chunk by chunk, as input.
WritesStartup ==
    /\ up /\ StartupReady
    /\ \/ /\ Does("startup")
          /\ credit' = FALSE
          /\ Then("deliver")
          /\ UNCHANGED outbox
       \/ /\ Does("deliver")
          /\ outbox' = Append(outbox, Request("input", 0))
          /\ Then("startup") \/ Then("opened")
          /\ UNCHANGED credit
    /\ UNCHANGED <<shell, operation, ended, leaving, up, hand, spoken, remoteSize,
                   readerVars, sizeVars>>

\* reopen_command_queue: the session goes on, or closes.
UsesShell ==
    /\ Does("opened")
    /\ IF leaving
       THEN SetupFails
       ELSE /\ Then("select")
            /\ BecomesCurrent
            /\ UNCHANGED <<shell, operation, ended, leaving, actorVars, readerVars, size>>

\* No connection, or no longer wanted.
NoLonger ==
    /\ Does("backoff")
    /\ Then("over")
    /\ UNCHANGED <<shell, operation, ended, leaving, actorVars, readerVars, sizeVars>>

-----------------------------------------------------------------------------
RunShellOperation == OperationCloses \/ OperationProceeds \/ OperationReads
RetireShellOutput == DropsReader \/ SendsEof
SetupProceeds == ReadsSetup \/ SetupEnds \/ WritesStartup

\* What the session task does without being asked.
ShellTask ==
    \/ ReadsOutput \/ StartsResize \/ SeesClose \/ RunShellOperation
    \/ RetireShellOutput \/ Decides
    \/ OpensShell \/ SetupProceeds \/ UsesShell \/ NoLonger

ShellNext ==
    \/ ServerSpeaks \/ ServerGrants \/ ActorDelivers \/ ActorSends \/ ActorEnds
    \/ ResizeTerminal \/ CloseShell
    \/ StartsInput \/ ShellTask

\* The runtime runs the task, and the actor, whose socket takes what it is given: an
\* open connection whose server stops reading it is one that keepalives end.
ShellFairness ==
    /\ WF_shellVars(ShellTask)
    /\ WF_shellVars(SetupEnds)
    /\ WF_shellVars(ActorDelivers)
    /\ WF_shellVars(ActorSends)

ShellSpec == ShellInit /\ [][ShellNext]_shellVars /\ ShellFairness

-----------------------------------------------------------------------------
\* Properties.

IsData(packet) == packet.kind = "data"

\* The output in a sequence of packets is what comes after a packet up to another one,
\* in its order.
Carries(packets, after, upto) ==
    LET data == {i \in DOMAIN packets : IsData(packets[i])}
    IN  /\ {packets[i].number : i \in data} = (after + 1)..upto
        /\ \A i, j \in data : i < j => packets[i].number < packets[j].number

\* While a shell is read, what was passed on, what waits in the reader, in the queue and
\* in the hand of the actor is all the server said, in its order; a shell that ends by
\* itself with its exit status has been read to its end; and one that told its exit
\* status is not taken for lost, unless its connection has ended as well.  No character
\* is put together from the output of two.
ShellReadWhole ==
    /\ reads => Carries(early \o inbox \o hand, emitted, spoken.data)
    /\ Does("retire") =>
          /\ ended = "closed" /\ ~leaving => emitted = spoken.data
          /\ ended = "lost" /\ spoken.exit => ~up
    /\ carry \in {0, shell}

\* ... of states that have their types.
OutputReadWhole == ShellTypeOK /\ ShellReadWhole

\* The size the server has when it has what is on its way: the last of the requests
\* that has one, or the one it knows.
Learns(requests, known, n) ==
    LET sizes == {i \in DOMAIN requests : requests[i].kind = "size"}
    IN  \/ sizes = {} /\ known = n
        \/ \E i \in sizes : requests[i].size = n /\ \A j \in sizes : j <= i

\* When no change of the size is left to be seen, the last size on its way to the server,
\* or the one it has, is the latest: no change is lost, also not while a shell is opened.
SizeIsCurrent ==
    shellStep = "select" /\ ~unseen /\ up /\ ~spoken.close => Learns(outbox, remoteSize, size)

\* Whatever the terminal is doing, it does not hold up the connection it shares with the
\* transfers and tunnels of its session; and a closed one is over in the end.
ShellGoesOn ==
    /\ hand # <<>> ~> hand = <<>>
    /\ leaving ~> shellStep = "over"
=============================================================================
