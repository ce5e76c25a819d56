---------------------------- MODULE PortableVault ----------------------------
(***************************************************************************)
(* The portable vault (mobarust-vault), its state in the application and   *)
(* the lookup that falls back to the credential store of the platform      *)
(* (CredentialResolver, main.rs).  The file is sealed with a passphrase:   *)
(* under another one it does not open.  Version 0 is an empty or oversized *)
(* secret.                                                                 *)
(***************************************************************************)
EXTENDS AtomicFile

CONSTANTS
    Passphrases,
    MaxCredentials   \* PORTABLE_MAX_CREDENTIALS

VARIABLES
    seal,      \* the passphrase the file was sealed with, "none" without a file
    key,       \* the passphrase of the vault in memory, "none" while it is locked
    creating,  \* the vault that is being written is not unlocked yet
    platform   \* credentials in the store of the platform

vaultVars == <<fileVars, seal, key, creating, platform>>

VaultTypeOK ==
    /\ FileTypeOK
    /\ {seal, key} \subseteq Passphrases \cup {"none"}
    /\ creating \in BOOLEAN
    /\ platform \subseteq Ids

VaultInit ==
    /\ FileInit
    /\ seal \in IF disk.there = "no" THEN {"none"} ELSE Passphrases
    /\ key = "none"
    /\ creating = FALSE
    /\ platform \in SUBSET Ids

Unlocked == key # "none" /\ ~creating
Idle == step = "idle"

-----------------------------------------------------------------------------
\* Fault: only a vault that can be read counts as one.
CreatesOver == disk.there # "yes"

\* create: an existing file, whatever it is, is not overwritten.
MayCreate == disk.there = "no"

\* portable_vault_create; the state gets the new vault when it is on disk.
Creates(passphrase) ==
    /\ Idle
    /\ IF MayCreate
       THEN /\ Persists(<<>>)
            /\ creating' = TRUE
            /\ key' = passphrase
       ELSE Answers("error") /\ UNCHANGED <<creating, key>>
    /\ UNCHANGED <<seal, platform>>

\* portable_vault_unlock: a vault that is open stays when the file does not open.
Unlocks(passphrase) ==
    /\ Idle
    /\ IF disk.there = "yes" /\ passphrase = seal
       THEN /\ memory' = disk.content
            /\ key' = passphrase
            /\ answer' = "ok"
            /\ UNCHANGED <<disk, temporary, step, previous>>
       ELSE Answers("error") /\ UNCHANGED key
    /\ UNCHANGED <<seal, creating, platform>>

Locks ==
    /\ Idle
    /\ key' = "none"
    /\ memory' = <<>>
    /\ answer' = "ok"
    /\ UNCHANGED <<disk, temporary, step, previous, seal, creating, platform>>

\* put and delete of an unlocked vault; persist counts before it writes.
PutsCredential(record) ==
    /\ Idle
    /\ IF Unlocked /\ record.version \in Valid /\ Len(Upsert(memory, record)) <= MaxCredentials
       THEN Persists(Upsert(memory, record)) ELSE Answers("error")
    /\ UNCHANGED <<seal, key, creating, platform>>

DeletesCredential(id) ==
    /\ Idle
    /\ IF ~Unlocked THEN Answers("error")
       ELSE IF id \in IdsOf(memory) THEN Persists(Without(memory, id)) ELSE Answers("ok")
    /\ UNCHANGED <<seal, key, creating, platform>>

\* vault_put and vault_delete.
ChangesPlatform(id) ==
    /\ platform' \in {platform \cup {id}, platform \ {id}}
    /\ UNCHANGED <<fileVars, seal, key, creating>>

\* atomic_write_private; a vault that could not be written is dropped by create.
VaultWrites ==
    /\ FileSteps
    /\ seal' = IF disk' # disk \/ (step = "replacing" /\ answer' = "ok") THEN key ELSE seal
    /\ creating' = (creating /\ step' # "idle")
    /\ key' = IF creating /\ answer' = "error" THEN "none" ELSE key
    /\ UNCHANGED platform

VaultStops ==
    /\ Forgets
    /\ key' = "none"
    /\ creating' = FALSE
    /\ UNCHANGED <<seal, platform>>

VaultNext ==
    \/ \E p \in Passphrases : Creates(p) \/ Unlocks(p)
    \/ Locks
    \/ \E r \in Records : PutsCredential(r)
    \/ \E id \in Ids : DeletesCredential(id) \/ ChangesPlatform(id)
    \/ VaultWrites
    \/ VaultStops

-----------------------------------------------------------------------------
\* Where CredentialResolver::get finds a credential: a missing one, and only that, is
\* looked up in the platform's store.
FoundIn(id) ==
    IF Unlocked /\ id \in IdsOf(memory) THEN "portable"
    ELSE IF id \in platform THEN "platform" ELSE "nowhere"

\* An unlocked vault, when idle, is what its file holds and its passphrase is the one
\* that opens the file, within the limit that opening checks; a locked vault gives
\* nothing away.
VaultIsItsFile ==
    /\ Unlocked /\ Idle =>
          /\ disk.there = "yes" /\ memory = disk.content /\ key = seal
          /\ \A id \in Ids : FoundIn(id) = "portable" <=> id \in IdsOf(disk.content)
    /\ ~Unlocked => \A id \in Ids : FoundIn(id) # "portable"
    /\ disk.there = "yes" => Len(disk.content) <= MaxCredentials
    /\ \A r \in ToSet(disk.content) : r.version \in Valid

\* No file is lost: what there is stays, under the passphrase it was created with.
FileIsKept == disk.there # "no" => disk'.there = disk.there /\ seal' = seal
VaultKeepsFile == [][FileIsKept]_vaultVars
=============================================================================
