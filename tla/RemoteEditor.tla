---------------------------- MODULE RemoteEditor ----------------------------
(***************************************************************************)
(* The remote text editor (save_text_document_with_encoding,               *)
(* save_text_document_as and read_editor_bytes in                          *)
(* crates/mobarust-ssh/src/lib.rs), used by several windows on one remote  *)
(* path.  A save writes a temporary file, compares the revision of the     *)
(* document again, moves the document to a backup name, the temporary file *)
(* to the path, and removes the backup.  A revision is a digest of the     *)
(* bytes, so the model lets contents stand for their revisions.            *)
(*                                                                         *)
(* One step is one request to the server.  It may be refused, or carried   *)
(* out with its answer lost.                                               *)
(***************************************************************************)

CONSTANTS
    Editors,   \* each is also the text its user wants to save
    Renaming   \* bound: those whose users also save under the name of the document

ASSUME EditorsAssumption == Editors \cap {"none", "original", "partial", "unopened"} = {}

VARIABLES
    path,        \* what is at the path: none, the original, or the text of an editor
    opened,      \* revision each editor has of its document, or unopened
    saveStep,    \* where each editor is
    save,        \* of the save that runs: its kind, whether it may overwrite, the content
                 \* it read first, and whether the path has changed since it compared
    temp, aside, \* its temporary file and its backup
    outcome,     \* what the last save told the user
    replacing    \* the server renames onto existing names

editorVars == <<path, opened, saveStep, save, temp, aside, outcome, replacing>>

Texts == {"none", "original"} \cup Editors
SaveSteps == {"idle", "read", "exists", "upload", "appeared", "mode", "recheck", "backup", "swap",
              "restore", "unbackup", "name", "discard"}
Saves == [as : BOOLEAN, overwrite : BOOLEAN, seen : Texts, overtaken : BOOLEAN]
NoSave == [as |-> FALSE, overwrite |-> FALSE, seen |-> "none", overtaken |-> FALSE]
Outcomes == {"none", "saved", "conflict", "exists", "failed", "uncertain"}

EditorTypeOK ==
    /\ path \in Texts \cup {"partial"}
    /\ opened \in [Editors -> Texts \cup {"unopened"}]
    /\ saveStep \in [Editors -> SaveSteps]
    /\ save \in [Editors -> Saves]
    /\ temp \in [Editors -> {"none", "partial", "text"}]
    /\ aside \in [Editors -> Texts]
    /\ outcome \in [Editors -> Outcomes]
    /\ replacing \in BOOLEAN

EditorInit ==
    /\ path \in {"none", "original"}
    /\ opened = [e \in Editors |-> "unopened"]
    /\ saveStep = [e \in Editors |-> "idle"]
    /\ save = [e \in Editors |-> NoSave]
    /\ temp = [e \in Editors |-> "none"]
    /\ aside = [e \in Editors |-> "none"]
    /\ outcome = [e \in Editors |-> "none"]
    /\ replacing \in BOOLEAN

-----------------------------------------------------------------------------
\* Shared pieces.

At(e, step) == saveStep[e] = step
GoesTo(e, step) == saveStep' = [saveStep EXCEPT ![e] = step]
Tells(e, result) == outcome' = [outcome EXCEPT ![e] = result]

\* The request is done; what it says of the save is in outcome.
Goes(e, step) == GoesTo(e, step) /\ UNCHANGED outcome
Discards(e, result) == GoesTo(e, "discard") /\ Tells(e, result)
Ends(e, result) == GoesTo(e, "idle") /\ Tells(e, result)

\* Forgets the save when it is over; every other save that has compared its
\* revisions is overtaken when the path changes.
Remembers(e, found, changes) ==
    save' = [f \in Editors |->
        IF f = e THEN IF saveStep'[e] = "idle" THEN NoSave ELSE [save[e] EXCEPT !.seen = found]
        ELSE [save[f] EXCEPT !.overtaken = @ \/ (changes /\ saveStep[f] \in {"backup", "swap"})]]

PathBecomes(e, text) == path' = text /\ Remembers(e, save[e].seen, TRUE)
SamePath(e) == UNCHANGED path /\ Remembers(e, save[e].seen, FALSE)
Saved(e) == opened' = [opened EXCEPT ![e] = IF outcome'[e] = "saved" THEN e ELSE @]
Files == UNCHANGED <<temp, aside>>

\* Bound: an editor whose save failed or left a file behind does not save again.
Fresh(e) ==
    /\ outcome[e] \in {"none", "saved", "conflict"}
    /\ temp[e] = "none" /\ aside[e] = "none"

Free(to) == to = "none" \/ replacing

-----------------------------------------------------------------------------
\* read_editor_bytes: only of a regular file, of at most MAX_REMOTE_EDITOR_BYTES.
ReadTextDocument(e) ==
    /\ At(e, "idle")
    /\ path # "none"
    /\ opened[e] # path
    /\ opened' = [opened EXCEPT ![e] = path]
    /\ Tells(e, "none")
    /\ UNCHANGED <<path, saveStep, save, temp, aside, replacing>>

\* A text that does not encode or is too large asks nothing of the server.
StartSave(e) ==
    /\ At(e, "idle") /\ Fresh(e)
    /\ opened[e] # "unopened"
    /\ GoesTo(e, "read") /\ Tells(e, "none")
    /\ save' = [save EXCEPT ![e] = [NoSave EXCEPT !.overwrite = TRUE]]
    /\ UNCHANGED <<path, opened, temp, aside, replacing>>

StartSaveAs(e) ==
    /\ e \in Renaming
    /\ At(e, "idle") /\ Fresh(e)
    /\ GoesTo(e, "exists") /\ Tells(e, "none")
    /\ \E overwrite \in BOOLEAN :
           save' = [save EXCEPT ![e] = [NoSave EXCEPT !.as = TRUE, !.overwrite = overwrite]]
    /\ UNCHANGED <<path, opened, temp, aside, replacing>>

\* An error, with a temporary file to be removed first or not.
Abandons(e, result) == IF temp[e] = "none" THEN Ends(e, result) ELSE Discards(e, result)

\* The first read.  A save goes on only with the revision that was opened; a save
\* under another name remembers what it found there.
ReadCurrent(e) ==
    /\ At(e, "read")
    /\ \/ /\ path # "none"
          /\ save[e].as \/ path = opened[e]
          /\ Goes(e, IF temp[e] = "none" THEN "upload" ELSE "mode")
          /\ Remembers(e, path, FALSE)
       \/ /\ ~save[e].as
          /\ path \notin {"none", opened[e]}
          /\ Ends(e, "conflict")
          /\ Remembers(e, "none", FALSE)
       \/ Abandons(e, "failed") /\ Remembers(e, "none", FALSE)
    /\ Files
    /\ UNCHANGED <<path, opened, replacing>>

\* try_exists, before the upload and again after it when there was nothing.
TargetExists(e) ==
    /\ At(e, "exists") \/ At(e, "appeared")
    /\ \/ path = "none" /\ Goes(e, IF At(e, "exists") THEN "upload" ELSE "name")
       \/ path # "none" /\ save[e].overwrite /\ Goes(e, "read")
       \/ path # "none" /\ ~save[e].overwrite /\ Abandons(e, "exists")
       \/ Abandons(e, "failed")
    /\ SamePath(e) /\ Files
    /\ UNCHANGED <<opened, replacing>>

\* The exclusive create may stay unanswered (the file is then nobody's), and the
\* copy may fail, which removes the file.
UploadEditorTemporary(e) ==
    /\ At(e, "upload")
    /\ \/ /\ temp' = [temp EXCEPT ![e] = "text"]
          /\ Goes(e, IF save[e].seen = "none" THEN "appeared" ELSE "mode")
       \/ Ends(e, "failed") /\ temp' \in {temp, [temp EXCEPT ![e] = "partial"]}
       \/ Discards(e, "failed") /\ temp' = [temp EXCEPT ![e] = "partial"]
    /\ SamePath(e)
    /\ UNCHANGED <<opened, aside, replacing>>

\* The mode of the document goes to the temporary file.
SetMode(e) ==
    /\ At(e, "mode")
    /\ Goes(e, "recheck") \/ Discards(e, "failed")
    /\ SamePath(e) /\ Files
    /\ UNCHANGED <<opened, replacing>>

\* Fault: the document is not read again before it is moved.
TrustFirstRead(e) ==
    /\ At(e, "recheck")
    /\ Goes(e, "backup")
    /\ SamePath(e) /\ Files
    /\ UNCHANGED <<opened, replacing>>

\* Rechecked immediately before the document is moved.
Recheck(e) ==
    /\ At(e, "recheck")
    /\ \/ path = save[e].seen /\ Goes(e, "backup")
       \/ path \notin {"none", save[e].seen} /\ Discards(e, "conflict")
       \/ Discards(e, "failed")
    /\ SamePath(e) /\ Files
    /\ UNCHANGED <<opened, replacing>>

MoveToBackupName(e) ==
    /\ At(e, "backup")
    /\ \/ /\ path # "none"
          /\ aside' = [aside EXCEPT ![e] = path]
          /\ Goes(e, "swap") \/ Discards(e, "failed")
          /\ PathBecomes(e, "none")
       \/ Discards(e, "failed") /\ UNCHANGED aside /\ SamePath(e)
    /\ UNCHANGED <<opened, temp, replacing>>

\* The temporary file gets the name; in a save over a document, a failure goes on
\* to put the backup back.
MoveIntoPlace(e) ==
    /\ At(e, "swap") \/ At(e, "name")
    /\ \/ /\ Free(path)
          /\ temp' = [temp EXCEPT ![e] = "none"]
          /\ \/ At(e, "swap") /\ Goes(e, "unbackup")
             \/ At(e, "name") /\ Ends(e, "saved")
             \/ IF At(e, "swap") THEN Goes(e, "restore") ELSE Discards(e, "failed")
          /\ PathBecomes(e, IF temp[e] = "text" THEN e ELSE temp[e])
       \/ /\ IF At(e, "swap") THEN Goes(e, "restore") ELSE Discards(e, "failed")
          /\ UNCHANGED temp
          /\ SamePath(e)
    /\ Saved(e)
    /\ UNCHANGED <<aside, replacing>>

\* A failure of the restoring rename leaves everything as it is.
RestoreDocument(e) ==
    /\ At(e, "restore")
    /\ \/ /\ Free(path)
          /\ aside' = [aside EXCEPT ![e] = "none"]
          /\ Discards(e, "failed") \/ Ends(e, "uncertain")
          /\ PathBecomes(e, aside[e])
       \/ Ends(e, "uncertain") /\ UNCHANGED aside /\ SamePath(e)
    /\ UNCHANGED <<opened, temp, replacing>>

\* saved_text_document: saved, with or without a word about the backup.
RemoveBackupName(e) ==
    /\ At(e, "unbackup")
    /\ aside' \in {aside, [aside EXCEPT ![e] = "none"]}
    /\ Ends(e, "saved")
    /\ Saved(e)
    /\ SamePath(e)
    /\ UNCHANGED <<temp, replacing>>

\* A cleanup that fails takes the place of the error.
DiscardTemporary(e) ==
    /\ At(e, "discard")
    /\ GoesTo(e, "idle")
    /\ \/ temp' = [temp EXCEPT ![e] = "none"] /\ UNCHANGED outcome
       \/ temp' \in {temp, [temp EXCEPT ![e] = "none"]} /\ Tells(e, "failed")
    /\ SamePath(e)
    /\ UNCHANGED <<opened, aside, replacing>>

-----------------------------------------------------------------------------
SaveTextDocument(e) ==
    \/ StartSave(e)
    \/ /\ ~save[e].as
       /\ \/ ReadCurrent(e) \/ UploadEditorTemporary(e) \/ SetMode(e) \/ Recheck(e)
          \/ MoveToBackupName(e) \/ MoveIntoPlace(e) \/ RestoreDocument(e)
          \/ RemoveBackupName(e) \/ DiscardTemporary(e)

SaveTextDocumentAs(e) ==
    \/ StartSaveAs(e)
    \/ /\ save[e].as
       /\ \/ TargetExists(e) \/ ReadCurrent(e) \/ UploadEditorTemporary(e) \/ SetMode(e)
          \/ Recheck(e) \/ MoveToBackupName(e) \/ MoveIntoPlace(e) \/ RestoreDocument(e)
          \/ RemoveBackupName(e) \/ DiscardTemporary(e)

EditorNext ==
    \E e \in Editors :
        \/ ReadTextDocument(e)
        \/ SaveTextDocument(e)
        \/ SaveTextDocumentAs(e)

EditorSpec == EditorInit /\ [][EditorNext]_editorVars

-----------------------------------------------------------------------------
\* A save that is about to replace the document has set aside the revision it was
\* asked to replace, unless the path changed in the window between the comparison
\* and the first rename: no other save is lost.
ReplacesWhatItSaw ==
    \A e \in Editors :
        /\ saveStep[e] \in {"swap", "unbackup"} /\ ~save[e].overtaken => aside[e] = save[e].seen
        /\ saveStep[e] \in {"backup", "swap", "unbackup"} /\ ~save[e].as => save[e].seen = opened[e]

\* A document that was there can be found: at its path, or under the backup name
\* of a save that is not over or went wrong.  Never is a part of a text at the path.
NeverVanishes ==
    /\ path # "partial"
    /\ path = "none" /\ (\E e \in Editors : opened[e] # "unopened")
           => \E e \in Editors : aside[e] # "none"

EditorsKeepTheDocument == ReplacesWhatItSaw /\ NeverVanishes
=============================================================================
