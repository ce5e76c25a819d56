---------------------------- MODULE MCSshSession ----------------------------
(* Small instances of SshSession for TLC: which calls are made on the terminal. *)
EXTENDS SshSession, TLC

CONSTANTS w, t, f, r, q

\* A transfer, a local and a remote tunnel for two workers; or two remote forwards that
\* compete for the slot.
JobsKind == t :> "transfer" @@ f :> "forward" @@ r :> "remote" @@ q :> "remote"
JobsCast ==
    LET made == {c \in Calls : at[c] # "new"}
    IN  made \subseteq {t, f, r} \/ made \subseteq {r, q}

\* A write that can block the shell, with a local tunnel behind it.
ExitKind == w :> "write" @@ f :> "forward"

-----------------------------------------------------------------------------
\* The commands of a terminal that is closed, or of an application that quits, come to
\* an end.
SessionEnds == CloseCompletes /\ QuitCompletes
=============================================================================
