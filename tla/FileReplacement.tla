--------------------------- MODULE FileReplacement ---------------------------
(***************************************************************************)
(* What a transfer or a remote save promises about the file it is to       *)
(* replace.  A reader of the file finds what was there or the whole new    *)
(* content, never a part; the change happens at one instant; a report of   *)
(* completion is true; and a report of failure or cancellation means that  *)
(* the file was left alone.  A job may work on several files in turn.      *)
(*                                                                         *)
(* In doubt (a step failed after the replacement, or nobody knows whether  *)
(* a request was carried out) the report may be wrong, the file never in   *)
(* pieces.                                                                 *)
(***************************************************************************)

CONSTANTS Contents,   \* what can be in the file
          Absent,     \* there is no file
          New,        \* the content the job is to put there
          Foreign     \* what somebody else writes

VARIABLES file,       \* the content of the current file
          stage,      \* idle, trying, replaced, or the report
          mayReplace, \* the job may replace a file that is there
          doubt

replacementVars == <<file, stage, mayReplace, doubt>>

Reports == {"completed", "cancelled", "failed"}

ReplacementInit ==
    /\ file \in Contents
    /\ stage = "idle"
    /\ mayReplace \in BOOLEAN
    /\ doubt = FALSE

\* The job learns what it is to do.
Request ==
    /\ stage = "idle"
    /\ mayReplace' \in BOOLEAN
    /\ UNCHANGED <<file, stage, doubt>>

\* It turns to its first or to its next file.
Turn ==
    /\ stage \in {"idle", "replaced"}
    /\ stage' = "trying"
    /\ file' \in Contents
    /\ UNCHANGED <<mayReplace, doubt>>

Replace ==
    /\ stage = "trying"
    /\ mayReplace \/ file = Absent
    /\ file' = New
    /\ stage' = "replaced"
    /\ UNCHANGED <<mayReplace, doubt>>

\* Somebody else writes the file.
Interfere ==
    /\ file' = Foreign
    /\ UNCHANGED <<stage, mayReplace, doubt>>

Report ==
    /\ \/ stage \in {"idle", "replaced"} /\ stage' = "completed"
       \/ stage \in {"idle", "trying"} /\ stage' \in {"cancelled", "failed"}
    /\ UNCHANGED <<file, mayReplace, doubt>>

\* Several files: the job gives up between two of them.
StopBetween ==
    /\ stage = "replaced"
    /\ stage' = "idle"
    /\ UNCHANGED <<file, mayReplace, doubt>>

\* From here on the report proves nothing; the file is still one of the whole
\* contents, and does not vanish.
Doubt ==
    /\ stage \in {"trying", "replaced"} \cup Reports
    /\ doubt' = TRUE
    /\ file' \in Contents
    /\ file # Absent => file' # Absent
    /\ stage' \in {stage, "trying", "replaced"} \cup (IF stage \in Reports THEN {} ELSE {"failed"})
    /\ UNCHANGED mayReplace

ReplacementNext ==
    Request \/ Turn \/ Replace \/ Interfere \/ Report \/ StopBetween \/ Doubt

ReplacementSpec == ReplacementInit /\ [][ReplacementNext]_replacementVars
=============================================================================
