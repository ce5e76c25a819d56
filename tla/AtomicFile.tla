----------------------------- MODULE AtomicFile -----------------------------
(***************************************************************************)
(* How a store or the portable vault keeps a file: the new content is in   *)
(* memory first, goes to a temporary file next to the old one, and         *)
(* replaces it; when a step fails, memory goes back.  The process may end  *)
(* between any two steps, and then memory is gone.                         *)
(***************************************************************************)
EXTENDS Naturals, Sequences, SequencesExt, FiniteSets

CONSTANTS Ids, Versions   \* of the records of a store, or of the credentials of the vault

VARIABLES
    disk,      \* the file: [there, content]; there is "no", "yes" or "unreadable"
    temporary, \* "none", "partial" or "whole"
    step,      \* of the operation: "idle", "opening", "writing" or "replacing"
    memory,    \* what the process knows: a sequence of records
    previous,  \* what it goes back to
    answer     \* of the last operation: "none", "ok" or "error"

fileVars == <<disk, temporary, step, memory, previous, answer>>

\* Version 0 stands for a record that does not validate.
Records == [id : Ids, version : Versions]
Fresh(id, version) == [id |-> id, version |-> version]
Valid == Versions \ {0}
IdsOf(content) == {r.id : r \in ToSet(content)}

FileTypeOK ==
    /\ disk.there \in {"no", "yes", "unreadable"} /\ disk.content \in Seq(Records)
    /\ temporary \in {"none", "partial", "whole"}
    /\ step \in {"idle", "opening", "writing", "replacing"}
    /\ memory \in Seq(Records) /\ previous \in Seq(Records)
    /\ answer \in {"none", "ok", "error"}

\* The process starts on a file of another time, on none, or on one that it cannot read
\* (of another schema, no regular file, corrupt).
FileInit ==
    /\ disk \in {[there |-> "yes", content |-> c] :
                    c \in {<<>>} \cup {<<Fresh(i, 1)>> : i \in Ids}}
               \cup {[there |-> t, content |-> <<>>] : t \in {"no", "unreadable"}}
    /\ temporary = "none"
    /\ step = "idle"
    /\ memory = <<>> /\ previous = <<>>
    /\ answer = "none"

\* Replaced where it was, or added at the end.
Upsert(content, record) ==
    IF record.id \in IdsOf(content)
    THEN [i \in DOMAIN content |-> IF content[i].id = record.id THEN record ELSE content[i]]
    ELSE Append(content, record)

\* What stands at some of the places, in its order: the n-th of it is at the place with
\* n of them up to it.
Rank(places, place) == Cardinality({i \in places : i <= place})
Part(content, places) ==
    [n \in 1..Cardinality(places) |-> content[CHOOSE i \in places : Rank(places, i) = n]]

Without(content, id) == Part(content, {i \in DOMAIN content : content[i].id # id})

-----------------------------------------------------------------------------
\* persist, one step at a time.

\* An operation has changed memory and calls persist.
Persists(content) ==
    /\ step = "idle"
    /\ step' = "opening"
    /\ previous' = memory
    /\ memory' = content
    /\ answer' = "none"
    /\ UNCHANGED <<disk, temporary>>

\* An operation that changes nothing, or is refused.
Answers(how) ==
    /\ step = "idle"
    /\ answer' = how
    /\ UNCHANGED <<disk, temporary, step, memory, previous>>

\* Fault: a failed operation leaves its change in memory, ...
Kept == memory

\* ... which every operation takes back.
Undone == previous

Failed ==
    /\ step' = "idle"
    /\ temporary' = "none"
    /\ memory' = Undone
    /\ previous' = <<>>
    /\ answer' = "error"
    /\ UNCHANGED disk

OpensTemporary ==
    /\ step = "opening"
    /\ \/ /\ step' = "writing"
          /\ temporary' = "partial"
          /\ UNCHANGED <<disk, memory, previous, answer>>
       \/ Failed

WritesTemporary ==
    /\ step = "writing"
    /\ \/ /\ step' = "replacing"
          /\ temporary' = "whole"
          /\ UNCHANGED <<disk, memory, previous, answer>>
       \/ Failed

\* replace_file, or the rename of atomic_write_private.
ReplacesFile ==
    /\ step = "replacing"
    /\ \/ /\ disk' = [there |-> "yes", content |-> memory]
          /\ temporary' = "none"
          /\ step' = "idle"
          /\ previous' = <<>>
          /\ answer' = "ok"
          /\ UNCHANGED memory
       \/ Failed

FileSteps == OpensTemporary \/ WritesTemporary \/ ReplacesFile

\* The process is gone; a temporary file stays behind.
Forgets ==
    /\ step' = "idle"
    /\ memory' = <<>> /\ previous' = <<>>
    /\ answer' = "none"
    /\ UNCHANGED <<disk, temporary>>
=============================================================================
