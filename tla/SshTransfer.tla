----------------------------- MODULE SshTransfer -----------------------------
(***************************************************************************)
(* One transfer job of an SSH session (run_transfer in                     *)
(* apps/desktop/src-tauri/src/ssh.rs, SftpConnection and the SCP channel   *)
(* in crates/mobarust-ssh): SFTP or SCP, download or upload, one file or a *)
(* directory tree.  The job writes a temporary file next to the            *)
(* destination and puts it in place at the end; the user may cancel, any   *)
(* request may fail, the answer to a request may be lost, and another      *)
(* client may write the destination at any time.                           *)
(*                                                                         *)
(* One step is one request or the code between two awaits.  A job on a     *)
(* tree works on one file after the other; the model keeps the current one.*)
(***************************************************************************)

Directions == {"download", "upload"}
Protocols == {"sftp", "scp"}
Contents == {"none", "old", "other", "new"}

VARIABLES
    request,       \* SshTransferRequest, and whether a rename of the server refuses
                   \* an existing name (SFTP version 3) or replaces it
    transferStep,  \* where the job is
    cancelled,     \* the cancel channel has been signalled
    told,          \* TransferLifecycle, as the renderer knows it
    problem,       \* the error run_transfer is going to report
    dest, part, backup,  \* the destination, the temporary file, the old content
    progress,      \* idle, trying or replaced: what has become of the current file
    unsure,        \* a request failed that may have been carried out, a cleanup failed, or
                   \* the backup was put back over a file that had come in between
    foreign,       \* the other client has written the current destination
    sink           \* a remote scp has been told of the file and may still create it

transferFiles == <<dest, part, backup, progress, foreign>>
transferVars == <<request, transferStep, cancelled, told, problem, dest, part, backup,
                  progress, unsure, foreign, sink>>

Requests == [direction : Directions, protocol : Protocols, recursive : BOOLEAN,
             overwrite : BOOLEAN, refuses : BOOLEAN]

\* start_transfer refuses a recursive SCP transfer.
Accepted == {r \in Requests : ~(r.protocol = "scp" /\ r.recursive)}

Steps == {"off", "slot", "walk", "pick", "inspect", "create", "copy", "sync", "appear",
          "commit", "place", "unlink", "promote", "rename", "verify", "backup", "swap",
          "restore", "unbackup", "discard", "close", "report", "over"}

TransferStates == {"queued", "preparing", "running", "paused", "cancelling", "cancelled",
                   "completed", "failed"}

TransferTypeOK ==
    /\ request \in Requests
    /\ transferStep \in Steps
    /\ cancelled \in BOOLEAN
    /\ told \in TransferStates
    /\ problem \in {"none", "cancelled", "failed"}
    /\ dest \in Contents \cup {"partial"}
    /\ part \in {"none", "partial", "new"}
    /\ backup \in Contents
    /\ progress \in {"idle", "trying", "replaced"}
    /\ unsure \in BOOLEAN
    /\ foreign \in BOOLEAN
    /\ sink \in BOOLEAN

TransferInit ==
    /\ request = [direction |-> "download", protocol |-> "sftp", recursive |-> FALSE,
                  overwrite |-> FALSE, refuses |-> TRUE]
    /\ transferStep = "off"
    /\ cancelled = FALSE
    /\ told = "queued"
    /\ problem = "none"
    /\ dest = "none" /\ part = "none" /\ backup = "none"
    /\ progress = "idle"
    /\ unsure = FALSE
    /\ foreign = FALSE
    /\ sink = FALSE

-----------------------------------------------------------------------------
\* Shared pieces.

Up == request.direction = "upload"
Sftp == request.protocol = "sftp"

\* The lifecycle, event by event; an event that does not apply changes nothing.
Lifecycle(state, event) ==
    CASE state = "queued" /\ event = "prepare" -> "preparing"
      [] state = "preparing" /\ event = "start" -> "running"
      [] state \in {"queued", "preparing", "running", "paused"} /\ event = "cancel" -> "cancelling"
      [] state = "cancelling" /\ event = "cancelled" -> "cancelled"
      [] state = "running" /\ event = "complete" -> "completed"
      [] state \in {"preparing", "running"} /\ event = "fail" -> "failed"
      [] OTHER -> state

From(step) == transferStep = step
Proceed(step) == transferStep' = step /\ UNCHANGED problem

\* ? leaves the function with an error, which waits for the cleanup on the way.
Fails(step, error) == transferStep' = step /\ problem' = error

\* What an action that changes no file, or only the temporary one, leaves alone.
OnlyMoves == UNCHANGED <<request, cancelled, told, dest, part, backup, progress, unsure, foreign, sink>>
OnlyPart == UNCHANGED <<request, cancelled, told, dest, backup, progress, foreign>>

\* Where the job goes when a file is in its place, and when it gives up.
FileDone == IF request.recursive THEN "pick" ELSE "report"
GivesUp == IF request.recursive /\ Up THEN "close" ELSE "report"

\* A request, a read or a local metadata call that changes no file.
Asks(step, next, onError) ==
    /\ From(step)
    /\ Proceed(next) \/ Fails(onError, "failed")
    /\ OnlyMoves

\* A request that changes the remote file system: done, refused, or done and
\* its answer lost (the connection broke, or FILE_OPERATION_TIMEOUT passed).
RemoteChange(effect, unchanged, possible, next, onError) ==
    \/ possible /\ effect /\ Proceed(next) /\ UNCHANGED unsure
    \/ unchanged /\ Fails(onError, "failed") /\ UNCHANGED unsure
    \/ possible /\ effect /\ Fails(onError, "failed") /\ unsure' = TRUE

-----------------------------------------------------------------------------
\* The manager: a job is started, waits for one of the slots, and is reported.

StartTransfer(r) ==
    /\ From("off")
    /\ r \in Accepted
    /\ request' = r
    /\ Proceed("slot")
    /\ UNCHANGED <<cancelled, told, dest, part, backup, progress, unsure, foreign, sink>>

\* The control is taken out of the map and signalled, once.
CancelTransfer ==
    /\ transferStep \notin {"off", "over"}
    /\ ~cancelled
    /\ cancelled' = TRUE
    /\ UNCHANGED <<request, transferStep, told, problem, unsure, sink>>
    /\ UNCHANGED transferFiles

\* Fault: a job that waits for its slot does not hear the cancel.
WaitDeafForSlot ==
    /\ From("slot")
    /\ told' = Lifecycle(Lifecycle("queued", "prepare"), "start")
    /\ Proceed(IF request.recursive THEN "walk" ELSE "inspect")
    /\ dest' \in IF request.recursive THEN {"none"} ELSE {"none", "old"}
    /\ progress' = IF request.recursive THEN "idle" ELSE "trying"
    /\ UNCHANGED <<request, cancelled, part, backup, unsure, foreign, sink>>

WaitForSlot ==
    /\ From("slot")
    /\ \/ /\ told' = Lifecycle(Lifecycle("queued", "prepare"), "start")
          /\ Proceed(IF request.recursive THEN "walk" ELSE "inspect")
          /\ dest' \in IF request.recursive THEN {"none"} ELSE {"none", "old"}
          /\ progress' = IF request.recursive THEN "idle" ELSE "trying"
       \/ /\ cancelled
          /\ told' = Lifecycle(Lifecycle("queued", "cancel"), "cancelled")
          /\ Fails("over", "cancelled")
          /\ UNCHANGED <<dest, progress>>
    /\ UNCHANGED <<request, cancelled, part, backup, unsure, foreign, sink>>

\* The last event, and finish_transfer.
ReportTransfer ==
    /\ From("report")
    /\ told' = CASE problem = "none" -> Lifecycle(told, "complete")
                 [] problem = "cancelled" -> Lifecycle(Lifecycle(told, "cancel"), "cancelled")
                 [] problem = "failed" -> Lifecycle(told, "fail")
    /\ Proceed("over")
    /\ UNCHANGED <<request, cancelled, unsure, sink>>
    /\ UNCHANGED transferFiles

RunTransfer == WaitForSlot \/ ReportTransfer

-----------------------------------------------------------------------------
\* Trees: list everything, make the directories, then one file after the other.

CollectRemoteFiles ==
    /\ ~Up
    /\ From("walk")
    /\ \/ Proceed("pick") \/ Fails("report", "failed")
       \/ cancelled /\ Fails("report", "cancelled")
    /\ OnlyMoves

CollectLocalFiles ==
    /\ Up
    /\ From("walk")
    /\ \/ Proceed("pick") \/ Fails("close", "failed")
       \/ cancelled /\ Fails("close", "cancelled")
    /\ OnlyMoves

\* The next file, whose destination is there or not; or no more files.
NextFile ==
    /\ From("pick")
    /\ \/ /\ cancelled
          /\ Fails(GivesUp, "cancelled")
          /\ progress' = "idle"
          /\ UNCHANGED <<dest, foreign>>
       \/ /\ ~cancelled
          /\ progress \in {"idle", "replaced"}
          /\ dest' \in {"none", "old"}
          /\ progress' = "trying"
          /\ foreign' = FALSE
          /\ Proceed("inspect")
       \/ /\ ~cancelled
          /\ Proceed(GivesUp)
          /\ UNCHANGED <<dest, progress, foreign>>
    /\ UNCHANGED <<request, cancelled, told, part, backup, unsure, sink>>

DownloadDirectory == CollectRemoteFiles \/ (~Up /\ NextFile)
UploadDirectory == CollectLocalFiles \/ (Up /\ NextFile)

-----------------------------------------------------------------------------
\* Pieces of one file, download.

\* No destination that is a directory, a link in a tree, or there without overwrite.
Inspect ==
    /\ From("inspect")
    /\ \/ (dest = "none" \/ request.overwrite) /\ Proceed("create")
       \/ Fails(GivesUp, "failed")
    /\ OnlyMoves

CreateLocalDownloadFile ==
    /\ ~Up
    /\ From("create")
    /\ \/ part' = "partial" /\ Proceed("copy")
       \/ UNCHANGED part /\ Fails("report", "failed")
    /\ UNCHANGED <<unsure, sink>>
    /\ OnlyPart

\* The last piece is followed by a check (SFTP), or by none (SCP).
Copied(next) ==
    \/ /\ Sftp => ~cancelled
       /\ part' = "new"
       /\ Proceed(next)
    \/ /\ \/ cancelled /\ Fails("discard", "cancelled")
          \/ Fails("discard", "failed")
       /\ UNCHANGED part

DownloadTo ==
    /\ ~Up /\ Sftp
    /\ From("copy")
    /\ Copied("sync")
    /\ UNCHANGED <<unsure, sink>>
    /\ OnlyPart

ScpDownload ==
    /\ ~Up /\ ~Sftp
    /\ From("copy")
    /\ Copied("sync")
    /\ UNCHANGED <<unsure, sink>>
    /\ OnlyPart

SyncLocalFile == ~Up /\ Asks("sync", "appear", "discard")

\* The destination may have appeared in the meantime.
DestinationExists ==
    /\ From("appear")
    /\ \/ /\ request.overwrite \/ dest = "none"
          /\ Proceed(IF Up THEN "promote" ELSE "commit")
       \/ ~request.overwrite /\ Fails("discard", "failed")
    /\ OnlyMoves

DownloadDestinationExists == ~Up /\ DestinationExists
UploadDestinationExists == Up /\ DestinationExists

CheckCommit ==
    /\ ~Up
    /\ From("commit")
    /\ \/ cancelled /\ Fails("discard", "cancelled")
       \/ ~cancelled /\ (dest = "none" \/ request.overwrite) /\ Proceed("place")
       \/ ~cancelled /\ Fails("discard", "failed")
    /\ OnlyMoves

\* Fault: the file is renamed whether or not the destination may be replaced.
RenameOverFile ==
    /\ From("place")
    /\ dest' = part
    /\ progress' = "replaced"
    /\ part' = "none"
    /\ Proceed(FileDone)
    /\ UNCHANGED <<request, cancelled, told, backup, unsure, foreign, sink>>

\* rename replaces what is there; hard_link refuses it and leaves both names.
PlaceLocalFile ==
    /\ From("place")
    /\ \/ /\ request.overwrite \/ dest = "none"
          /\ dest' = part
          /\ progress' = "replaced"
          /\ part' = IF request.overwrite THEN "none" ELSE part
          /\ Proceed(IF request.overwrite THEN FileDone ELSE "unlink")
       \/ /\ Fails("discard", "failed")
          /\ UNCHANGED <<dest, progress, part>>
    /\ UNCHANGED <<request, cancelled, told, backup, unsure, foreign, sink>>

UnlinkLocalPart ==
    /\ From("unlink")
    /\ \/ part' = "none" /\ Proceed(FileDone) /\ UNCHANGED unsure
       \/ UNCHANGED part /\ Fails("discard", "failed") /\ unsure' = TRUE
    /\ UNCHANGED sink
    /\ OnlyPart

CommitLocalFile == CheckCommit \/ PlaceLocalFile \/ UnlinkLocalPart

RemovePartialDownload ==
    /\ ~Up
    /\ From("discard")
    /\ \/ part' = "none" /\ Proceed("report") /\ UNCHANGED unsure
       \/ UNCHANGED part /\ Fails("report", "failed") /\ unsure' = TRUE
    /\ UNCHANGED sink
    /\ OnlyPart

-----------------------------------------------------------------------------
\* Pieces of one file, upload.

\* Only an acknowledged exclusive create makes the temporary file the job's own.
OpenUploadTemporary ==
    /\ Up
    /\ From("create")
    /\ \/ cancelled /\ Fails(GivesUp, "cancelled") /\ UNCHANGED <<part, unsure>>
       \/ /\ ~cancelled
          /\ RemoteChange(part' = "partial", UNCHANGED part, TRUE, "copy", GivesUp)
    /\ UNCHANGED sink
    /\ OnlyPart

UploadTemporaryFrom ==
    /\ Up /\ Sftp
    /\ From("copy")
    /\ Copied("appear")
    /\ UNCHANGED <<unsure, sink>>
    /\ OnlyPart

\* A remote scp that has been told of the file may open it when the job is gone.
ScpUpload ==
    /\ Up /\ ~Sftp
    /\ From("copy")
    /\ Copied("appear")
    /\ sink' \in IF part' = "new" THEN {FALSE} ELSE BOOLEAN
    /\ UNCHANGED unsure
    /\ OnlyPart

\* Not cancelled, and still allowed; the mode of the old file goes to the new one.
CheckPromotion ==
    /\ From("promote")
    /\ \/ cancelled /\ Fails("discard", "cancelled")
       \/ ~cancelled /\ (dest = "none" \/ request.overwrite) /\ Proceed("rename")
       \/ ~cancelled /\ Fails("discard", "failed")
    /\ OnlyMoves

\* The server renames onto a name that is free, or onto any name.
Renamable(to) == to = "none" \/ ~request.refuses

RenameToDestination ==
    /\ From("rename")
    /\ \/ /\ cancelled
          /\ Fails("discard", "cancelled")
          /\ UNCHANGED <<dest, part, progress, unsure>>
       \/ /\ ~cancelled
          /\ RemoteChange(dest' = part /\ part' = "none" /\ progress' = "replaced",
                          UNCHANGED <<dest, part, progress>>,
                          Renamable(dest),
                          FileDone, IF request.overwrite THEN "verify" ELSE "discard")
    /\ UNCHANGED <<request, cancelled, told, backup, foreign, sink>>

\* Was it refused because of the name?  If both files are there, step aside.
VerifyBoth ==
    /\ From("verify")
    /\ \/ part # "none" /\ dest # "none" /\ transferStep' = "backup"
       \/ transferStep' = "discard"
    /\ UNCHANGED problem
    /\ OnlyMoves

MoveToBackup ==
    /\ From("backup")
    /\ RemoteChange(backup' = dest /\ dest' = "none", UNCHANGED <<backup, dest>>,
                    dest # "none", "swap", "discard")
    /\ UNCHANGED <<request, cancelled, told, part, progress, foreign, sink>>

SwapIn ==
    /\ From("swap")
    /\ RemoteChange(dest' = part /\ part' = "none" /\ progress' = "replaced",
                    UNCHANGED <<dest, part, progress>>,
                    Renamable(dest), "unbackup", "restore")
    /\ UNCHANGED <<request, cancelled, told, backup, foreign, sink>>

\* A server that replaces names undoes the write of another client with the
\* backup.  RemoteUploadRestoreUncertain: nothing is cleaned up any more.
RestoreBackup ==
    /\ From("restore")
    /\ \/ /\ Renamable(dest)
          /\ dest' = backup /\ backup' = "none"
          /\ Proceed("discard") /\ unsure' = (unsure \/ dest # "none")
       \/ /\ Fails(GivesUp, "failed") /\ unsure' = TRUE
          /\ \/ UNCHANGED <<dest, backup>>
             \/ Renamable(dest) /\ dest' = backup /\ backup' = "none"
    /\ UNCHANGED <<request, cancelled, told, part, progress, foreign, sink>>

RemoveBackup ==
    /\ From("unbackup")
    /\ \/ backup' = "none" /\ transferStep' = FileDone /\ problem' = "none" /\ UNCHANGED unsure
       \/ /\ backup' \in {backup, "none"}
          /\ Fails("discard", "failed")
          /\ unsure' = TRUE
    /\ UNCHANGED <<request, cancelled, told, dest, part, progress, foreign, sink>>

PromoteUploadedFile ==
    \/ CheckPromotion
    \/ RenameToDestination
    \/ VerifyBoth
    \/ MoveToBackup
    \/ SwapIn
    \/ RestoreBackup
    \/ RemoveBackup

\* A file that is missing already counts as removed.
CleanupTemporaryFile ==
    /\ Up
    /\ From("discard")
    /\ \/ part' = "none" /\ Proceed(GivesUp) /\ UNCHANGED unsure
       \/ part' \in {part, "none"} /\ Fails(GivesUp, "failed") /\ unsure' = TRUE
    /\ UNCHANGED sink
    /\ OnlyPart

\* Only a tree is told of a session that does not close.
CloseAfterUpload ==
    /\ From("close")
    /\ \/ Proceed("report") /\ UNCHANGED unsure
       \/ problem = "none" /\ Fails("report", "failed")
          /\ unsure' = (unsure \/ progress = "replaced")
    /\ UNCHANGED <<request, cancelled, told, dest, part, backup, progress, foreign, sink>>

-----------------------------------------------------------------------------
\* The six ways of a file, each over its own pieces.

Single == ~request.recursive

RunScpDownload ==
    Single /\ ~Sftp /\ ~Up /\ (Inspect \/ SyncLocalFile \/ CommitLocalFile \/ CreateLocalDownloadFile
        \/ ScpDownload \/ DownloadDestinationExists \/ RemovePartialDownload)

RunDownload ==
    Single /\ Sftp /\ ~Up /\ (Inspect \/ SyncLocalFile \/ CommitLocalFile \/ CreateLocalDownloadFile
        \/ DownloadTo \/ DownloadDestinationExists \/ RemovePartialDownload)

DownloadFileAtomically ==
    ~Single /\ ~Up /\ (Inspect \/ SyncLocalFile \/ CommitLocalFile \/ CreateLocalDownloadFile
        \/ DownloadTo \/ DownloadDestinationExists \/ RemovePartialDownload)

RunScpUpload ==
    Single /\ ~Sftp /\ Up /\ (Inspect \/ OpenUploadTemporary \/ ScpUpload
        \/ UploadDestinationExists \/ PromoteUploadedFile \/ CleanupTemporaryFile)

RunUpload ==
    Sftp /\ Up /\ (CloseAfterUpload \/ (Single /\ (Inspect \/ OpenUploadTemporary
        \/ UploadTemporaryFrom \/ UploadDestinationExists \/ PromoteUploadedFile
        \/ CleanupTemporaryFile)))

UploadFileAtomically ==
    ~Single /\ Up /\ (Inspect \/ OpenUploadTemporary \/ UploadTemporaryFrom
        \/ UploadDestinationExists \/ PromoteUploadedFile \/ CleanupTemporaryFile)

-----------------------------------------------------------------------------
\* The rest of the world.

\* Another client writes the destination, once for each file.
OtherWrites ==
    /\ transferStep \notin {"off", "slot", "walk", "over"}
    /\ ~foreign
    /\ foreign' = TRUE
    /\ dest' = "other"
    /\ UNCHANGED <<request, transferStep, cancelled, told, problem, part, backup, progress,
                   unsure, sink>>

RemoteScpCreates ==
    /\ sink
    /\ part = "none"
    /\ sink' = FALSE
    /\ part' = "partial"
    /\ unsure' = TRUE
    /\ UNCHANGED <<request, transferStep, cancelled, told, problem, dest, backup, progress,
                   foreign>>

TransferWork ==
    \/ RunTransfer
    \/ DownloadDirectory
    \/ UploadDirectory
    \/ RunScpDownload
    \/ RunDownload
    \/ DownloadFileAtomically
    \/ RunScpUpload
    \/ RunUpload
    \/ UploadFileAtomically

TransferNext ==
    \/ \E r \in Requests : StartTransfer(r)
    \/ CancelTransfer
    \/ TransferWork
    \/ OtherWrites
    \/ RemoteScpCreates

\* The slot of a busy manager may never come free; everything else is timed or local.
TransferFairness ==
    WF_transferVars(TransferWork /\ (From("slot") => told' = "cancelled"))

TransferSpec == TransferInit /\ [][TransferNext]_transferVars /\ TransferFairness

-----------------------------------------------------------------------------
Ended == told \in {"completed", "cancelled", "failed"}

\* Whoever looks for the file during the swap finds it under its backup name.
Promise == INSTANCE FileReplacement WITH
    Absent <- "none", New <- "new", Foreign <- "other",
    file <- IF dest = "none" THEN backup ELSE dest,
    stage <- IF Ended THEN told ELSE progress,
    mayReplace <- request.overwrite \/ (Up /\ ~request.refuses),
    doubt <- unsure

\* Whatever fails, is cancelled or interferes: the destination is what was there
\* or the whole new file, it is replaced only when that was asked for, "completed"
\* is reported only of a replaced file and "cancelled" or "failed" only of an
\* untouched one, unless the job was left unsure.
KeepsReplacement == Promise!ReplacementSpec

\* A job that ends knowing what became of its requests leaves no temporary file
\* and no backup, on the disk or on the server, and has told its result.
LeavesNothing ==
    transferStep = "over" /\ ~unsure => part = "none" /\ backup = "none" /\ Ended

\* A cancelled job ends, wherever it is, also when it never gets a slot.
CancelEnds == cancelled ~> transferStep = "over"
=============================================================================
