--------------------------- MODULE StreamTerminal ---------------------------
(***************************************************************************)
(* What TelnetManager and SerialManager have in common                     *)
(* (apps/desktop/src-tauri/src/telnet.rs and serial.rs): the registry, the *)
(* command channel of one terminal with its callers, and the way of its    *)
(* output to the renderer, which attaches at any time.                     *)
(*                                                                         *)
(* A text is one terminal output event.  texts counts the published texts, *)
(* which are numbered in this order.                                       *)
(***************************************************************************)
EXTENDS Naturals, Sequences

CONSTANTS
    Calls,     \* invocations of write, resize, reconnect and close
    Kind,      \* Kind[c]: which of them
    Capacity,  \* COMMAND_CAPACITY
    Retained,  \* PENDING_OUTPUT_CHUNKS
    MaxTexts   \* bound of the model: chunks the remote side sends

ASSUME StreamAssumption ==
    /\ Capacity \in Nat \ {0} /\ Retained \in Nat \ {0} /\ MaxTexts \in Nat
    /\ Kind \in [Calls -> {"write", "enter", "resize", "reconnect", "close"}]

VARIABLES
    registered,  \* the terminal is in the manager's sessions
    receiving,   \* the session task still holds the Receiver
    queue,       \* the commands in the channel
    at,          \* where each call, and then its command, is
    attached,
    pending,     \* pending_output
    speaking,    \* the text publish_output has yet to emit, in <<>> or <<n>>
    shown,       \* the texts the renderer has been sent
    texts,
    carry        \* connection that began the incomplete character in output_decoder; 0
                 \* for none

callVars == <<queue, at>>
publishVars == <<attached, pending, speaking, shown, texts>>
outputVars == <<publishVars, carry>>
streamVars == <<registered, receiving, callVars, outputVars>>

StreamTypeOK ==
    /\ registered \in BOOLEAN /\ receiving \in BOOLEAN /\ attached \in BOOLEAN
    /\ queue \in Seq(Calls)
    /\ at \in [Calls -> {"new", "sender", "queued", "taken", "dropped", "refused"}]
    /\ texts \in Nat
    /\ pending \in Seq(1..texts) /\ Len(pending) <= Retained
    /\ shown \in Seq(1..texts)
    /\ speaking = <<>> \/ speaking = <<texts>>
    /\ carry \in Nat

StreamInit ==
    /\ registered = TRUE
    /\ receiving = TRUE
    /\ queue = <<>>
    /\ at = [c \in Calls |-> "new"]
    /\ attached = FALSE
    /\ pending = <<>>
    /\ speaking = <<>>
    /\ shown = <<>>
    /\ texts = 0
    /\ carry = 0

-----------------------------------------------------------------------------
\* The callers.

Move(c, place) == at' = [at EXCEPT ![c] = place]

\* sender(): clone the Sender out of the registry.
Issue(c) ==
    /\ at[c] = "new"
    /\ Move(c, IF registered THEN "sender" ELSE "refused")
    /\ UNCHANGED <<registered, receiving, queue, outputVars>>

\* send().await: room in the channel, or no Receiver any more.
Send(c) ==
    /\ at[c] = "sender"
    /\ \/ ~receiving /\ Move(c, "refused") /\ UNCHANGED queue
       \/ receiving /\ Len(queue) < Capacity /\ Move(c, "queued")
          /\ queue' = Append(queue, c)
    /\ UNCHANGED <<registered, receiving, outputVars>>

\* commands.recv().
Take(c) ==
    /\ speaking = <<>>
    /\ queue # <<>> /\ c = Head(queue)
    /\ queue' = Tail(queue)
    /\ Move(c, "taken")

-----------------------------------------------------------------------------
\* Output.

\* Fault: attachment enables live output before the backlog is on its way.
AttachFirst ==
    /\ registered
    /\ attached' = TRUE
    /\ IF attached THEN shown' = shown \o pending /\ pending' = <<>>
                   ELSE UNCHANGED <<shown, pending>>
    /\ UNCHANGED <<registered, receiving, callVars, speaking, texts, carry>>

\* attach, under the sessions lock.
Attach ==
    /\ registered
    /\ shown' = shown \o pending
    /\ pending' = <<>>
    /\ attached' = TRUE
    /\ UNCHANGED <<registered, receiving, callVars, speaking, texts, carry>>

\* Fault: one text too many is kept.
PublishOneMore ==
    LET kept == Append(pending, texts + 1)
    IN  /\ texts' = texts + 1
        /\ IF attached
           THEN speaking' = <<texts + 1>> /\ UNCHANGED pending
           ELSE /\ pending' = IF Len(pending) > Retained THEN Tail(kept) ELSE kept
                /\ UNCHANGED speaking
        /\ UNCHANGED <<attached, shown>>

\* The lock of publish_output: emit the text next, or keep it for attach and
\* forget the oldest one beyond the limit.
Publish ==
    LET kept == Append(pending, texts + 1)
    IN  /\ texts' = texts + 1
        /\ IF attached
           THEN speaking' = <<texts + 1>> /\ UNCHANGED pending
           ELSE /\ pending' = IF Len(kept) > Retained THEN Tail(kept) ELSE kept
                /\ UNCHANGED speaking
        /\ UNCHANGED <<attached, shown>>

\* The rest of publish_output, without the lock.
Emit ==
    /\ speaking # <<>>
    /\ shown' = shown \o speaking
    /\ speaking' = <<>>
    /\ UNCHANGED <<registered, receiving, callVars, attached, pending, texts, carry>>

\* output_decoder.push with bytes of a connection, and the publication of what
\* is complete, if anything is; otherwise the character that was begun goes on.
PublishFrom(origin) ==
    \/ carry' \in {0, origin} /\ Publish
    \/ carry' = (IF carry = 0 THEN origin ELSE carry) /\ UNCHANGED publishVars

\* output_decoder.finish(), and the publication of what it held.
FinishOutput ==
    /\ carry' = 0
    /\ IF carry # 0 THEN Publish ELSE UNCHANGED publishVars

\* remove.
Remove ==
    /\ speaking = <<>>
    /\ registered' = FALSE
    /\ UNCHANGED <<receiving, callVars, outputVars>>

\* The session task ends, and drops its Receiver with what is still in it.
Leave ==
    /\ receiving' = FALSE
    /\ queue' = <<>>
    /\ at' = [c \in Calls |-> IF at[c] = "queued" THEN "dropped" ELSE at[c]]
    /\ UNCHANGED <<registered, outputVars>>

-----------------------------------------------------------------------------
\* Properties.

\* What the renderer has been sent, is being sent and can still be sent is an
\* unbroken run of texts that ends with the latest one: startup output is
\* replayed before live output, each text once, and only the oldest texts from
\* before the attachment are ever lost (attach, publish_output).
OutputUnbroken ==
    LET heard == shown \o speaking \o pending
    IN  /\ \A i \in 1..Len(heard) : heard[i] = texts - Len(heard) + i
        /\ texts > 0 => Len(heard) > 0
=============================================================================
