-------------------------- MODULE MCSerialTerminal --------------------------
(* Small instances of SerialTerminal for TLC: which commands are sent. *)
EXTENDS SerialTerminal

CONSTANTS w, e, f, r, s, x

\* Input, two Enters that are framed as nothing, two reconnects and a close.
MCKind ==
    [c \in Calls |-> CASE c = w -> "write" [] c \in {e, f} -> "enter"
                       [] c \in {r, s} -> "reconnect" [] c = x -> "close"]
=============================================================================
