--------------------------- MODULE TelnetTerminal ---------------------------
(***************************************************************************)
(* A Telnet terminal: run_telnet_session (apps/desktop/src-tauri/src/      *)
(* telnet.rs) over TelnetConnection (crates/mobarust-telnet/src/lib.rs).   *)
(* The session task selects between reading and commands; the read that is *)
(* dropped when a command wins has three awaits, and leaves its progress   *)
(* in the connection.  After a loss the session waits for an explicit      *)
(* reconnect, on the same terminal.                                        *)
(***************************************************************************)
EXTENDS StreamTerminal, ConnectionLifecycle

VARIABLES
    state,       \* ConnectionLifecycle.state
    told,        \* the latest telnet://state event
    task,        \* where the session task is
    connection,  \* number of the TCP connection
    greeted,     \* history: the latest connection whose reconnect() returned Ok
    chunks,      \* chunks received from the server so far
    unread,      \* the decoded chunk not yet delivered (TelnetConnection.pending), as
                 \* <<connection it came from>>, or <<>>
    responses,   \* the negotiation response to be sent, in the same way
    partial,     \* it has been written in part
    torn,        \* on this connection something was written inside a response
    pinned,      \* the only connection that a queued write is meant for; 0 for any
    written      \* the connection each write was put on; 0 for none

wireVars == <<unread, responses, partial, torn>>
inputVars == <<pinned, written>>
sessionVars == <<state, told, task, connection, greeted>>
vars == <<streamVars, sessionVars, wireVars, chunks, inputVars>>

TypeOK ==
    /\ StreamTypeOK
    /\ state \in LifecycleStates
    /\ told \in {"connected", "reconnecting", "disconnected", "failed"}
    /\ task \in {"select", "writing", "dialing", "greeting", "greeted",
                 "ending", "closing", "closed", "over"}
    /\ connection \in Nat /\ greeted \in 1..connection /\ chunks \in 0..MaxTexts
    /\ unread \in Seq(1..connection) /\ responses \in Seq(1..connection)
    /\ partial \in BOOLEAN /\ torn \in BOOLEAN
    /\ pinned \in [Calls -> Nat] /\ written \in [Calls -> Nat]

\* connect has succeeded, with its capabilities sent.
Init ==
    /\ StreamInit
    /\ state = "connected"
    /\ told = "connected"
    /\ task = "select"
    /\ connection = 1
    /\ greeted = 1
    /\ chunks = 0
    /\ unread = <<>>
    /\ responses = <<>>
    /\ partial = FALSE
    /\ torn = FALSE
    /\ pinned = [c \in Calls |-> 0]
    /\ written = [c \in Calls |-> 0]

-----------------------------------------------------------------------------
\* The callers: a write with no reconnect before it is meant for this connection.

Pin(c) ==
    IF task \in {"dialing", "greeting"} \/ \E i \in 1..Len(queue) : Kind[queue[i]] = "reconnect"
    THEN 0 ELSE connection

CallIssues(c) ==
    /\ Issue(c)
    /\ UNCHANGED <<sessionVars, wireVars, chunks, inputVars>>

CallSends(c) ==
    /\ Send(c)
    /\ pinned' = [pinned EXCEPT ![c] = Pin(c)]
    /\ UNCHANGED <<sessionVars, wireVars, chunks, written>>

Attaches ==
    /\ Attach
    /\ UNCHANGED <<sessionVars, wireVars, chunks, inputVars>>

Emits ==
    /\ Emit
    /\ UNCHANGED <<sessionVars, wireVars, chunks, inputVars>>

-----------------------------------------------------------------------------
\* The read branch of the select.  A command that wins instead leaves unread,
\* responses and partial as they are.

Reading == task = "select" /\ state = "connected" /\ speaking = <<>>

\* mark_connection_lost, and the event.
Lose ==
    /\ state' = Apply(state, "ConnectionLost")
    /\ told' = "reconnecting"

\* flush_responses: a write of a part, of the rest ...
FlushSome ==
    /\ Reading
    /\ responses # <<>>
    /\ \/ ~partial /\ partial' = TRUE /\ UNCHANGED responses
       \/ partial' = FALSE /\ responses' = <<>>
    /\ UNCHANGED <<streamVars, sessionVars, unread, torn, chunks, inputVars>>

\* ... or an error or the operation timeout.
FlushFails ==
    /\ Reading
    /\ responses # <<>>
    /\ Lose
    /\ UNCHANGED <<streamVars, task, connection, greeted, wireVars, chunks, inputVars>>

\* Decoded bytes are there: publish them, and keep an incomplete character.
Deliver ==
    /\ Reading
    /\ responses = <<>> /\ unread # <<>>
    /\ unread' = <<>>
    /\ PublishFrom(Head(unread))
    /\ UNCHANGED <<registered, receiving, callVars, sessionVars, responses, partial, torn,
                   chunks, inputVars>>

\* The socket has bytes, with or without an option request to answer.
Receive ==
    /\ Reading
    /\ responses = <<>> /\ unread = <<>>
    /\ chunks < MaxTexts
    /\ chunks' = chunks + 1
    /\ unread' = <<connection>>
    /\ responses' \in {<<>>, <<connection>>}
    /\ UNCHANGED <<streamVars, sessionVars, partial, torn, inputVars>>

\* The end of the stream, an error, or a control frame that is too long.
ReceiveEnds ==
    /\ Reading
    /\ responses = <<>> /\ unread = <<>>
    /\ Lose
    /\ UNCHANGED <<streamVars, task, connection, greeted, wireVars, chunks, inputVars>>

-----------------------------------------------------------------------------
\* The command branch.

Serve(c) == task = "select" /\ Take(c)

\* Input and sizes while there is no connection, a reconnect while there is one.
SkipCommand(c) ==
    /\ Serve(c)
    /\ \/ Kind[c] \in {"write", "resize"} /\ state # "connected"
       \/ Kind[c] = "reconnect" /\ state = "connected"
    /\ UNCHANGED <<registered, receiving, outputVars, sessionVars, wireVars, chunks,
                   inputVars>>

\* connection.write, or the NAWS frame of connection.resize; a resize before
\* the server asked for NAWS writes nothing.
StartWrite(c) ==
    /\ Serve(c)
    /\ Kind[c] \in {"write", "resize"} /\ state = "connected"
    /\ \/ /\ task' = "writing"
          /\ torn' = (torn \/ partial)
          /\ written' = [written EXCEPT ![c] = connection]
       \/ Kind[c] = "resize" /\ UNCHANGED <<task, torn, written>>
    /\ UNCHANGED <<registered, receiving, outputVars, state, told, connection, greeted, unread,
                   responses, partial, chunks, pinned>>

WriteDone ==
    /\ task = "writing"
    /\ task' = "select"
    /\ UNCHANGED <<streamVars, state, told, connection, greeted, wireVars, chunks, inputVars>>

\* Fault: no timeout around the write.
WriteFailsNever == FALSE

\* An error, or operation_timeout.
WriteFails ==
    /\ task = "writing"
    /\ task' = "select"
    /\ Lose
    /\ UNCHANGED <<streamVars, connection, greeted, wireVars, chunks, inputVars>>

\* reconnect: one attempt to connect within connect_timeout.
StartReconnect(c) ==
    /\ Serve(c)
    /\ Kind[c] = "reconnect" /\ state # "connected"
    /\ task' = "dialing"
    /\ told' = "reconnecting"
    /\ state' = Apply(state, "BeginReconnect")
    /\ UNCHANGED <<registered, receiving, outputVars, connection, greeted, wireVars, chunks,
                   inputVars>>

DialFails ==
    /\ task = "dialing"
    /\ task' = "select"
    /\ told' = "failed"
    /\ state' = Apply(state, "Fail")
    /\ UNCHANGED <<streamVars, connection, greeted, wireVars, chunks, inputVars>>

\* Fault: the state of the old connection is kept.
DialSucceedsStale ==
    /\ task = "dialing"
    /\ task' = "greeting"
    /\ state' = Apply(Apply(state, "BeginAuthentication"), "AuthenticationSucceeded")
    /\ connection' = connection + 1
    /\ UNCHANGED <<streamVars, told, greeted, wireVars, chunks, inputVars>>

\* A new socket, decoder state and buffers; connected before the capabilities
\* have been sent.
DialSucceeds ==
    /\ task = "dialing"
    /\ task' = "greeting"
    /\ state' = Apply(Apply(state, "BeginAuthentication"), "AuthenticationSucceeded")
    /\ connection' = connection + 1
    /\ unread' = <<>> /\ responses' = <<>> /\ partial' = FALSE /\ torn' = FALSE
    /\ UNCHANGED <<streamVars, told, greeted, chunks, inputVars>>

\* mark_failed finds the state already connected, and the decoder is not finished.
GreetFails ==
    /\ task = "greeting"
    /\ task' = "select"
    /\ told' = "failed"
    /\ state' = IF state \in Busy THEN Apply(state, "Fail") ELSE state
    /\ UNCHANGED <<streamVars, connection, greeted, wireVars, chunks, inputVars>>

\* Fault: the decoder is not finished when the connection is replaced.
GreetUnfinished ==
    /\ task = "greeting"
    /\ task' = "greeted"
    /\ greeted' = connection
    /\ UNCHANGED <<streamVars, state, told, connection, wireVars, chunks, inputVars>>

\* The capabilities are sent: reconnect() is Ok, and output_decoder.finish().
Greet ==
    /\ task = "greeting"
    /\ task' = "greeted"
    /\ greeted' = connection
    /\ FinishOutput
    /\ UNCHANGED <<registered, receiving, callVars, state, told, connection, wireVars, chunks,
                   inputVars>>

ReconnectDone ==
    /\ task = "greeted" /\ speaking = <<>>
    /\ task' = "select"
    /\ told' = "connected"
    /\ UNCHANGED <<streamVars, state, connection, greeted, wireVars, chunks, inputVars>>

-----------------------------------------------------------------------------
\* The end of the session.

StartClose(c) ==
    /\ Serve(c)
    /\ Kind[c] = "close"
    /\ task' = "ending"
    /\ UNCHANGED <<registered, receiving, outputVars, state, told, connection, greeted,
                   wireVars, chunks, inputVars>>

EndOutput ==
    /\ task = "ending"
    /\ task' = "closing"
    /\ FinishOutput
    /\ UNCHANGED <<registered, receiving, callVars, state, told, connection, greeted, wireVars,
                   chunks, inputVars>>

\* connection.close() within operation_timeout, then the two last events.
Close ==
    /\ task = "closing" /\ speaking = <<>>
    /\ task' = "closed"
    /\ state' = Apply(Apply(state, "DisconnectRequested"), "Disconnected")
    /\ told' = "disconnected"
    /\ UNCHANGED <<streamVars, connection, greeted, wireVars, chunks, inputVars>>

Forget ==
    /\ task = "closed" /\ registered
    /\ Remove
    /\ UNCHANGED <<sessionVars, wireVars, chunks, inputVars>>

End ==
    /\ task = "closed" /\ ~registered
    /\ task' = "over"
    /\ Leave
    /\ UNCHANGED <<state, told, connection, greeted, wireVars, chunks, inputVars>>

-----------------------------------------------------------------------------
\* The session task without the help of the server: every write, dial and close
\* has a timeout, and what is ready is taken.
SessionStep ==
    \/ Emits \/ FlushFails \/ Deliver
    \/ \E c \in Calls :
          SkipCommand(c) \/ StartWrite(c) \/ StartReconnect(c) \/ StartClose(c)
    \/ WriteFails \/ DialFails \/ Greet \/ ReconnectDone
    \/ EndOutput \/ Close \/ Forget \/ End

Next ==
    \/ \E c \in Calls : CallIssues(c) \/ CallSends(c)
    \/ Attaches
    \/ SessionStep
    \/ FlushSome \/ Receive \/ ReceiveEnds
    \/ WriteDone \/ DialSucceeds \/ GreetFails

Spec == Init /\ [][Next]_vars

FairSpec == Spec /\ WF_vars(SessionStep)

-----------------------------------------------------------------------------
\* Properties.

\* Input is never written to a replacement connection unless the reconnect was
\* asked for before it was typed (the not-connected arm of Write).
InputStaysHome ==
    \A c \in Calls :
        Kind[c] = "write" /\ pinned[c] # 0 /\ written[c] # 0 => written[c] = pinned[c]

\* Responses and undelivered bytes belong to the current connection: a read that
\* lost the select to a command is resumed there or not at all.  The decoder holds no
\* character begun before the last connection that was established, its capabilities
\* sent; and when the renderer has been told Connected that is the current one, which
\* is up.  Between the two are only connections whose capabilities could not be sent:
\* the task goes on reading from such a one (FailedIsRetryable), and its bytes do
\* complete a character of the connection before.
NothingFromBefore ==
    /\ unread \o responses \in Seq({connection})
    /\ carry = 0 \/ carry \in greeted..connection
    /\ told = "connected" => greeted = connection
    /\ task = "select" /\ told = "connected" => state = "connected"

\* ADR 0015: a reconnect "reports either Connected or retryable Failed".
FailedIsRetryable ==
    task = "select" /\ told = "failed" => state = "failed"

\* A response whose write was cancelled reaches the server whole.
ResponsesWhole == ~torn

\* Every accepted command is served or, after a close, dropped; and close() ends the
\* session, whatever it is in the middle of.
CommandsServed ==
    \A c \in Calls :
        /\ at[c] = "queued" ~> at[c] \in {"taken", "dropped"}
        /\ Kind[c] = "close" /\ at[c] = "queued" ~> task = "over"
=============================================================================
