-------------------------- MODULE MCTelnetTerminal --------------------------
(* Small instances of TelnetTerminal for TLC: which commands are sent. *)
EXTENDS TelnetTerminal

CONSTANTS w, z, r, s, x

\* Input, a size, two reconnects and a close.
MCKind ==
    [c \in Calls |-> CASE c = w -> "write" [] c = z -> "resize"
                       [] c \in {r, s} -> "reconnect" [] c = x -> "close"]
=============================================================================
