---------------------------- MODULE DesktopFrames ----------------------------
(***************************************************************************)
(* The one frame kept for the window (PendingFramebuffer) and the window's *)
(* RemoteFramebufferQueue: the reader of the helper replaces or clears the *)
(* frame and notifies, the window fetches the frame of a generation and    *)
(* paints it in an animation frame.  A frame is the number of the attempt  *)
(* it was made in.                                                         *)
(***************************************************************************)
EXTENDS Integers, Sequences

CONSTANT Reconnects  \* bound: losses of the session

ASSUME FramesAssumption == Reconnects \in Nat

None == -1         \* no generation
NoFrame == -1

VARIABLES
    state, losses,   \* latest state event of the helper, and the losses so far
    pending,         \* PendingFramebuffer
    unsaid,          \* state event taken, frame cleared, not delivered yet
    channel,         \* events on their way to the window
    window,          \* "opening" until start returns, "open", "over" (failed or disposed)
    told,            \* losses the window was told of
    generation, wanted, animation,  \* of the queue; wanted is `pending`
    fetch,           \* the one flush; fresh: no reset since it began
    canvas           \* the frame it shows

framesVars == <<state, losses, pending, unsaid, channel, window, told, generation, wanted,
                animation, fetch, canvas>>

Generations == 0..(3 * Reconnects + 3)
Frame == 0..Reconnects \cup {NoFrame}
Idle == [step |-> "idle", generation |-> None, fresh |-> FALSE, frame |-> NoFrame]

FramesTypeOK ==
    /\ state \in {"created", "starting", "ready", "active", "reconnecting", "final"}
    /\ losses \in 0..Reconnects /\ told \in 0..losses
    /\ pending \in [frame : Frame, generation : Generations, notified : BOOLEAN]
    /\ unsaid \in BOOLEAN
    /\ channel \in Seq([event : {"reconnecting", "final", "framebuffer"}, generation : Generations])
    /\ window \in {"opening", "open", "over"}
    /\ generation \in Generations \cup {None}
    /\ {wanted, animation} \subseteq BOOLEAN
    /\ fetch \in [step : {"idle", "asked", "answered"}, generation : Generations \cup {None},
                  fresh : BOOLEAN, frame : Frame]
    /\ canvas \in Frame

FramesInit ==
    /\ state = "created" /\ losses = 0 /\ told = 0
    /\ pending = [frame |-> NoFrame, generation |-> 0, notified |-> FALSE]
    /\ unsaid = FALSE
    /\ channel = <<>>
    /\ window = "opening"
    /\ generation = None /\ wanted = FALSE /\ animation = FALSE
    /\ fetch = Idle
    /\ canvas = NoFrame

nativeVars == <<state, losses, pending, unsaid, channel>>
queueVars == <<generation, wanted, animation, fetch>>
windowVars == <<window, told, canvas, queueVars>>

-----------------------------------------------------------------------------
\* The reader of the helper, in the order RemoteDesktop lets it read events.

\* Fault: the generation stays.
ClearedInPlace == [frame |-> NoFrame, generation |-> pending.generation, notified |-> FALSE]

\* PendingFramebuffer::clear.
Cleared == [frame |-> NoFrame, generation |-> pending.generation + 1, notified |-> FALSE]

StateEvents ==
    CASE state = "created" -> {"starting", "final"}
      [] state = "starting" -> {"ready", "final"}
      [] state = "ready" -> {"active", "final"}
      [] state = "active" -> {"final"} \cup IF losses < Reconnects THEN {"reconnecting"} ELSE {}
      [] state = "reconnecting" -> {"starting", "final"}
      [] state = "final" -> {}

\* A state other than Active clears the frame before it is delivered.
ReadsState ==
    /\ ~unsaid
    /\ state' \in StateEvents
    /\ losses' = IF state' = "reconnecting" THEN losses + 1 ELSE losses
    /\ IF state' = "active" THEN UNCHANGED pending ELSE pending' = Cleared
    /\ unsaid' = (state' \in {"reconnecting", "final"})
    /\ UNCHANGED <<channel, windowVars>>

DeliversState ==
    /\ unsaid
    /\ unsaid' = FALSE
    /\ channel' = Append(channel, [event |-> state, generation |-> 0])
    /\ UNCHANGED <<state, losses, pending, windowVars>>

\* PendingFramebuffer::replace, under its lock until the notice is sent.
ReadsFrame ==
    /\ state = "active"
    /\ pending' = [pending EXCEPT !.frame = losses, !.notified = TRUE]
    /\ channel' = IF pending.notified THEN channel
                  ELSE Append(channel, [event |-> "framebuffer", generation |-> pending.generation])
    /\ UNCHANGED <<state, losses, unsaid, windowVars>>

-----------------------------------------------------------------------------
\* The window.

\* refresh, once the queue has a generation.
Refreshes ==
    /\ wanted' = TRUE
    /\ animation' = (animation \/ fetch.step = "idle")

\* Fault: reset leaves the flush that is under way current.
ResetsLate ==
    /\ wanted' = FALSE /\ animation' = FALSE
    /\ UNCHANGED <<generation, fetch>>

\* reset.
Resets ==
    /\ generation' = None
    /\ wanted' = FALSE /\ animation' = FALSE
    /\ fetch' = [fetch EXCEPT !.fresh = FALSE]

Hears ==
    /\ channel # <<>>
    /\ channel' = Tail(channel)
    /\ LET e == Head(channel)
       IN \/ window = "over" /\ UNCHANGED windowVars
          \/ /\ window # "over" /\ e.event = "reconnecting"
             /\ Resets
             /\ told' = told + 1
             /\ canvas' = NoFrame
             /\ UNCHANGED window
          \/ /\ window # "over" /\ e.event = "final"
             /\ Resets
             /\ window' = "over"
             /\ UNCHANGED <<told, canvas>>
          \/ /\ window # "over" /\ e.event = "framebuffer"
             /\ Refreshes
             /\ generation' = e.generation
             /\ UNCHANGED <<window, told, canvas, fetch>>
    /\ UNCHANGED <<state, losses, pending, unsaid>>

\* Fault: notices that came before the session was known are forgotten.
OpensQuietly ==
    /\ window = "opening"
    /\ window' = "open"
    /\ UNCHANGED <<nativeVars, told, canvas, queueVars>>

\* start returns: only now is the session known.
Opens ==
    /\ window = "opening"
    /\ window' = "open"
    /\ IF generation = None THEN UNCHANGED <<wanted, animation>> ELSE Refreshes
    /\ UNCHANGED <<nativeVars, told, canvas, generation, fetch>>

\* flush, in an animation frame.
Flushes ==
    /\ animation
    /\ animation' = FALSE
    /\ wanted' = FALSE
    /\ fetch' = [step |-> IF window = "open" THEN "asked" ELSE "answered",
                 generation |-> generation, fresh |-> TRUE, frame |-> NoFrame]
    /\ UNCHANGED <<nativeVars, window, told, canvas, generation>>

\* take_framebuffer.
TakesFrame ==
    /\ fetch.step = "asked"
    /\ IF fetch.generation = pending.generation
       THEN /\ pending' = [pending EXCEPT !.frame = NoFrame, !.notified = FALSE]
            /\ fetch' = [fetch EXCEPT !.step = "answered", !.frame = pending.frame]
       ELSE /\ fetch' = [fetch EXCEPT !.step = "answered"]
            /\ UNCHANGED pending
    /\ UNCHANGED <<state, losses, unsaid, channel, window, told, canvas, generation, wanted,
                   animation>>

Current == window # "over" /\ fetch.fresh /\ fetch.generation = generation

Paints ==
    /\ fetch.step = "answered"
    /\ canvas' = IF Current /\ fetch.frame # NoFrame THEN fetch.frame ELSE canvas
    /\ fetch' = Idle
    /\ animation' = (wanted /\ generation # None)
    /\ UNCHANGED <<nativeVars, window, told, generation, wanted>>

\* The session is gone, or the answer is no frame.
FetchFails ==
    /\ fetch.step = "asked"
    /\ fetch' = Idle
    /\ IF Current THEN window' = "over" /\ generation' = None /\ wanted' = FALSE /\ animation' = FALSE
       ELSE animation' = (wanted /\ generation # None) /\ UNCHANGED <<window, generation, wanted>>
    /\ UNCHANGED <<nativeVars, told, canvas>>

Disposes ==
    /\ window # "over"
    /\ window' = "over"
    /\ Resets
    /\ UNCHANGED <<nativeVars, told, canvas>>

FramesNext ==
    \/ ReadsState \/ DeliversState \/ ReadsFrame
    \/ Hears \/ Opens \/ Flushes \/ TakesFrame \/ Paints \/ FetchFails \/ Disposes

\* Events arrive, calls return and the window animates; frames and failures need not come.
FramesProgress == DeliversState \/ Hears \/ Opens \/ Flushes \/ TakesFrame \/ Paints
FramesFairness == WF_framesVars(FramesProgress)

FramesSpec == FramesInit /\ [][FramesNext]_framesVars /\ FramesFairness

-----------------------------------------------------------------------------
\* After the window was told of a loss it never shows a frame from before it, whenever
\* the answer to its fetch arrives.
PaintsCurrent == canvas = NoFrame \/ canvas >= told

\* A frame that waits is fetched, replaced by the clearing of a loss, or the window is
\* over: no notice is lost to a fetch, a reset or a session not yet known.
FramesDelivered == pending.frame = NoFrame \/ window = "over"
FramesArrive == []<>FramesDelivered
=============================================================================
