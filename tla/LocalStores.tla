----------------------------- MODULE LocalStores -----------------------------
(***************************************************************************)
(* The JSON stores (mobarust-store) and the commands that use them         *)
(* (main.rs): sessions, settings, snippets, macros and the audit log, each *)
(* a file of its own behind a mutex; a behaviour follows one of them.      *)
(***************************************************************************)
EXTENDS AtomicFile

CONSTANTS
    MaxEvents,  \* MAX_AUDIT_EVENTS
    MaxRecords, \* the records that fit in MAX_LOCAL_STORE_FILE_BYTES
    Local,      \* the id of the session made at the first start
    Settings    \* the id under which the settings are the one record

VARIABLES
    store,      \* which store it is
    running     \* the process: "off", "starting" while setup saves a session, or "on"

storeVars == <<fileVars, store, running>>

Stores == {"sessions", "settings", "snippets", "macros", "audit"}

StoreTypeOK ==
    /\ FileTypeOK
    /\ store \in Stores
    /\ running \in {"off", "starting", "on"}

StoreInit ==
    /\ FileInit
    /\ store \in Stores
    /\ running = "off"
    /\ store = "settings" => IdsOf(disk.content) \subseteq {Settings}
    /\ disk.there = "yes" /\ store = "settings" => disk.content # <<>>

-----------------------------------------------------------------------------
\* Opening, when there is a file.

\* read_local_store_file.
Reads == disk.there # "unreadable" /\ Len(disk.content) <= MaxRecords

AllValid == \A r \in ToSet(disk.content) : r.version \in Valid

\* One for each store.
OpensSessions == Reads /\ AllValid
OpensSettings == Reads /\ AllValid
OpensSnippets == Reads /\ AllValid
OpensMacros == Reads /\ AllValid
OpensAudit == Reads /\ Len(disk.content) <= MaxEvents

Opens ==
    CASE store = "sessions" -> OpensSessions
      [] store = "settings" -> OpensSettings
      [] store = "snippets" -> OpensSnippets
      [] store = "macros" -> OpensMacros
      [] store = "audit" -> OpensAudit

Defaults == IF store = "settings" THEN <<Fresh(Settings, 1)>> ELSE <<>>

\* The setup of main: a store that does not open stops the application.  Without any
\* session one for a local terminal is saved.
Starts ==
    /\ running = "off"
    /\ Opens
    /\ LET found == IF disk.there = "no" THEN Defaults ELSE disk.content
       IN IF store = "sessions" /\ found = <<>>
          THEN /\ running' = "starting"
               /\ step' = "opening"
               /\ previous' = found
               /\ memory' = <<Fresh(Local, 1)>>
          ELSE /\ running' = "on"
               /\ memory' = found
               /\ UNCHANGED <<step, previous>>
    /\ UNCHANGED <<disk, temporary, answer, store>>

\* ... and so does a first session that cannot be saved.
Stops ==
    /\ running # "off"
    /\ running' = "off"
    /\ Forgets
    /\ UNCHANGED store

StoreWrites ==
    /\ running # "off" /\ FileSteps
    /\ running' = IF step' # "idle" THEN running
                  ELSE IF answer' = "ok" THEN "on"
                  ELSE IF running = "starting" THEN "off" ELSE running
    /\ UNCHANGED store

-----------------------------------------------------------------------------
\* The operations; each runs under the mutex of its store.

SavesRecord(record) ==
    IF record.version \in Valid THEN Persists(Upsert(memory, record)) ELSE Answers("error")

\* A record that is not there is no error, and nothing is written.
DeletesRecord(id) == IF id \in IdsOf(memory) THEN Persists(Without(memory, id)) ELSE Answers("ok")

\* set_favorite and touch: of a session that is there.
TouchesSession(record) ==
    IF record.id \in IdsOf(memory) THEN Persists(Upsert(memory, record)) ELSE Answers("ok")

\* session_save_ssh, _serial, _telnet and _remote_desktop: a form becomes a new session.
SavesForm(record) == record.id \notin IdsOf(memory) /\ SavesRecord(record)

\* Places of records that validate and are not known.
Acceptable(known, records) ==
    {i \in DOMAIN records : records[i].version \in Valid /\ records[i].id \notin IdsOf(known)}

\* Fault: the ids of the records that are imported are not looked at.
ImportedTwice(known, records) == Part(records, Acceptable(known, records))

\* import_json of sessions: invalid ones and known ids are skipped, and so is the second
\* of two with one id.
Imported(known, records) ==
    Part(records, {i \in Acceptable(known, records) :
                      \A j \in Acceptable(known, records) :
                          j < i => records[j].id # records[i].id})

ImportsSessions(records) ==
    LET new == Imported(memory, records)
    IN IF new = <<>> THEN Answers("ok") ELSE Persists(memory \o new)

SessionOperations ==
    \/ \E r \in Records : SavesRecord(r) \/ SavesForm(r)
    \/ \E id \in Ids : DeletesRecord(id)
    \/ \E r \in Records : r.version \in Valid /\ TouchesSession(r)
    \/ \E p, q \in Records : ImportsSessions(<<p, q>>)

SnippetOperations ==
    \/ \E r \in Records : SavesRecord(r)
    \/ \E id \in Ids : DeletesRecord(id)

MacroOperations ==
    \/ \E r \in Records : SavesRecord(r)
    \/ \E id \in Ids : DeletesRecord(id)

\* save, reset and import_json of the settings.
SettingsOperations ==
    \E v \in Versions :
        IF v \in Valid THEN Persists(<<Fresh(Settings, v)>>) ELSE Answers("error")

\* Fault: room is made for the event that was there before.
BoundedLate(events) ==
    IF Len(events) > MaxEvents + 1
    THEN SubSeq(events, Len(events) - MaxEvents + 1, Len(events))
    ELSE events

\* append_at: the oldest events give way.
Bounded(events) ==
    IF Len(events) > MaxEvents THEN SubSeq(events, Len(events) - MaxEvents + 1, Len(events))
    ELSE events

AuditOperations ==
    \/ \E id \in Ids : Persists(Bounded(Append(memory, Fresh(id, 1))))
    \/ Persists(<<>>)

Operates ==
    /\ running = "on"
    /\ \/ store = "sessions" /\ SessionOperations
       \/ store = "snippets" /\ SnippetOperations
       \/ store = "macros" /\ MacroOperations
       \/ store = "settings" /\ SettingsOperations
       \/ store = "audit" /\ AuditOperations
    /\ UNCHANGED <<store, running>>

StoreNext ==
    \/ Starts
    \/ Operates
    \/ StoreWrites
    \/ Stops

-----------------------------------------------------------------------------
\* Once a store is open, and idle, what it lists is what the next start will find, even
\* after a failed write, and the next start will accept it unless it has grown past what
\* a start reads (nothing that writes a store looks at its size): every record validates,
\* the audit log is within its limit, and no two sessions have one id.  A file that was
\* never written holds nothing; settings then have their defaults.
StoresAreSafe ==
    /\ running = "on" /\ step = "idle" =>
          memory = IF disk.there = "yes" THEN disk.content ELSE Defaults
    /\ running # "off" => Opens \/ Len(disk.content) > MaxRecords
    /\ store # "audit" => Len(disk.content) = Cardinality(IdsOf(disk.content))
=============================================================================
