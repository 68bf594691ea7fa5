-------------------------- MODULE ActivityDatabase --------------------------
(***************************************************************************)
(* ActivityDatabase, the migration that moves a log from localStorage into *)
(* it, and the asynchronous methods of ActivityLog that work on it.        *)
(*                                                                         *)
(* Each tab has an ActivityLog in IndexedDB mode; beside them runs one     *)
(* that is still in localStorage mode.  They share the database and        *)
(* localStorage and nothing keeps them apart: between two awaits of one    *)
(* anything can be done by the others, and a tab can be closed.            *)
(* The data and the version of an entry, the order of results and their    *)
(* pages are left out.                                                     *)
(***************************************************************************)
EXTENDS Naturals, FiniteSets

CONSTANTS
  Activities,       \* what is logged; each happens once
  Agent, At, Kind,  \* agentId, timestamp and actionType of an activity
  AppStatuses,      \* what the application itself sets a status to
  Tabs,
  MaxKey,           \* bound on primary keys
  MaxRepeats        \* bound on what may repeat a migration

ASSUME DatabaseAssumption ==
  /\ IsFiniteSet(Activities) /\ IsFiniteSet(Tabs)
  /\ At \in [Activities -> Nat]
  /\ AppStatuses \subseteq {"pending", "conflict"}
  /\ MaxKey \in Nat /\ MaxRepeats \in Nat

Statuses == {"pending", "synced", "conflict"}
Entry == [what: Activities, status: Statuses]
Record == [id: 1 .. MaxKey, what: Activities, status: Statuses, synced: 0 .. 1]

VARIABLES
  db,          \* the records of the table activities
  lastKey,     \* the last primary key handed out
  saved,       \* entries under STORAGE_KEY; {}: no such item, or no entries
  backup,      \* entries under BACKUP_KEY; {}: no such item
  migrated,    \* the item under MIGRATION_FLAG_KEY
  mem,         \* entries in memory of the log in localStorage mode
  tab,         \* tab -> where it is
  \* History, read by no action:
  sent,        \* activities the service has been given
  entrusted,   \* activities some migration has found in localStorage
  deleted,     \* activities the application has deleted
  repeats,     \* events after which an entry can be inserted once more
  overlapped   \* two migrations have run at a time

dbVars == <<db, lastKey, saved, backup, migrated, mem, tab, sent, entrusted, deleted, repeats, overlapped>>
history == <<sent, entrusted, deleted, repeats, overlapped>>

Closed == [stage |-> "closed"]
Ready == [stage |-> "ready"]
Migrating == [stage: {"inserting", "inserted"}, entries: SUBSET Entry]
Working == [stage: {"marking", "pruning"}, ids: SUBSET (1 .. MaxKey)]

DbTypeOK ==
  /\ db \in SUBSET Record
  /\ lastKey \in 0 .. MaxKey
  /\ saved \in SUBSET Entry /\ backup \in SUBSET Entry /\ mem \in SUBSET Entry
  /\ migrated \in BOOLEAN
  /\ tab \in [Tabs -> {Closed, Ready} \cup Migrating \cup Working]
  /\ sent \in SUBSET Activities /\ entrusted \in SUBSET Activities /\ deleted \in SUBSET Activities
  /\ repeats \in 0 .. MaxRepeats /\ overlapped \in BOOLEAN

What(entries) == {e.what : e \in entries}
Known == What(db) \cup What(saved) \cup What(backup) \cup What(mem) \cup sent \cup entrusted \cup deleted

\* Some of the activities are in localStorage, synced or not.
DbInit ==
  /\ db = {} /\ lastKey = 0
  /\ \E old \in SUBSET Activities : \E done \in {{}, old} :
       /\ saved = {[what |-> a, status |-> IF a \in done THEN "synced" ELSE "pending"] : a \in old}
       /\ sent = done
  /\ backup = {} /\ migrated = FALSE
  /\ mem = saved
  /\ tab = [t \in Tabs |-> Closed]
  /\ entrusted = {} /\ deleted = {} /\ repeats = 0 /\ overlapped = FALSE

-----------------------------------------------------------------------------
(* The table *)

\* entryToRecord.
ToRecord(e, id) ==
  [id |-> id, what |-> e.what, status |-> e.status, synced |-> IF e.status = "synced" THEN 1 ELSE 0]

\* add and bulkAdd: all of them or none, under new keys.
Adds(entries) ==
  LET n == Cardinality(entries) IN
  /\ lastKey + n <= MaxKey
  /\ lastKey' = lastKey + n
  /\ \E key \in [entries -> lastKey + 1 .. lastKey + n] :
       /\ \A e, f \in entries : e # f => key[e] # key[f]
       /\ db' = db \cup {ToRecord(e, key[e]) : e \in entries}

\* update, markSynced: the flag that is indexed goes with the status.
WithDbStatus(ids, status) ==
  {IF r.id \in ids THEN ToRecord([r EXCEPT !.status = status], r.id) ELSE r : r \in db}

Removes(gone) ==
  /\ db' = db \ gone
  /\ deleted' = deleted \cup What(gone)
  /\ UNCHANGED <<lastKey, saved, backup, migrated, mem, sent, entrusted, repeats, overlapped>>

\* What the indexes on synced, agentId and timestamp give.
GetPendingSync == {r \in db : r.synced = 0}
GetByAgent(agent) == {r \in db : Agent[r.what] = agent}
GetByTimeRange(from, to) == {r \in db : At[r.what] \in from .. to}

Repeated(n) == repeats + n <= MaxRepeats /\ repeats' = repeats + n

-----------------------------------------------------------------------------
(* The log in localStorage mode *)

\* All entries are saved each time.  ActivityLog has its other methods.
SavesLegacy(entries) == mem' = entries /\ saved' = entries

LegacyLog(a) ==
  /\ a \notin Known
  /\ SavesLegacy(mem \cup {[what |-> a, status |-> "pending"]})
  /\ UNCHANGED <<db, lastKey, backup, migrated, tab, history>>

LegacyDelete(gone) ==
  /\ gone # {}
  /\ SavesLegacy(mem \ gone)
  /\ deleted' = deleted \cup What(gone)
  /\ UNCHANGED <<db, lastKey, backup, migrated, tab, sent, entrusted, repeats, overlapped>>

\* Its page is loaded again.
LegacyLoad ==
  /\ mem' = saved
  /\ UNCHANGED <<db, lastKey, saved, backup, migrated, tab, history>>

-----------------------------------------------------------------------------
(* The migration *)

Running == {t \in Tabs : tab[t] \in Migrating}

\* Mutant: a migration that has been made is made again.
AnyTime(force) == TRUE

MayMigrate(force) == force \/ ~migrated

\* migrateToIndexedDB up to its await.
Begin(t, force) ==
  /\ MayMigrate(force)
  /\ IF saved = {}
     THEN /\ migrated' = TRUE
          /\ tab' = [tab EXCEPT ![t] = Ready]
          /\ UNCHANGED <<backup, entrusted, repeats, overlapped>>
     ELSE /\ backup' = saved
          /\ tab' = [tab EXCEPT ![t] = [stage |-> "inserting", entries |-> saved]]
          /\ entrusted' = entrusted \cup What(saved)
          /\ overlapped' = (overlapped \/ Running # {})
          /\ IF Running # {} \/ (force /\ migrated) THEN Repeated(1) ELSE UNCHANGED repeats
          /\ UNCHANGED migrated
  /\ UNCHANGED <<db, lastKey, saved, mem, sent, deleted>>

\* The constructor in IndexedDB mode: autoMigrate, unless that is turned off.
Open(t) ==
  /\ tab[t] = Closed
  /\ Begin(t, FALSE)

OpenMigrated(t, autoMigrate) ==
  /\ tab[t] = Closed
  /\ autoMigrate => ~MayMigrate(FALSE)
  /\ tab' = [tab EXCEPT ![t] = Ready]
  /\ UNCHANGED <<db, lastKey, saved, backup, migrated, mem, history>>

\* localStorage has no room for the backup.
BackupRefused(t) ==
  /\ tab[t] = Closed /\ MayMigrate(FALSE) /\ saved # {}
  /\ tab' = [tab EXCEPT ![t] = Ready]
  /\ UNCHANGED <<db, lastKey, saved, backup, migrated, mem, history>>

\* The application migrates once more; other work is then done in other tabs.
ForceMigration(t) ==
  /\ tab[t] = Ready
  /\ Begin(t, TRUE)

\* bulkLog is committed; the tab does not know it yet.
Inserted(t) ==
  /\ tab[t] \in Migrating /\ tab[t].stage = "inserting"
  /\ Adds(tab[t].entries)
  /\ tab' = [tab EXCEPT ![t].stage = "inserted"]
  /\ UNCHANGED <<saved, backup, migrated, mem, history>>

\* Mutant: an error of the insertion is swallowed.
AsIfInserted(t) == [tab[t] EXCEPT !.stage = "inserted"]

AfterFailure(t) == Ready

InsertFails(t) ==
  /\ tab[t] \in Migrating /\ tab[t].stage = "inserting"
  /\ tab' = [tab EXCEPT ![t] = AfterFailure(t)]
  /\ UNCHANGED <<db, lastKey, saved, backup, migrated, mem, history>>

\* After the await; localStorage may refuse the flag, and nothing is removed.
FinishMigration(t) ==
  /\ tab[t] \in Migrating /\ tab[t].stage = "inserted"
  /\ tab' = [tab EXCEPT ![t] = Ready]
  /\ \/ migrated' = TRUE /\ saved' = {} /\ UNCHANGED repeats
     \/ ~migrated /\ UNCHANGED <<migrated, saved>> /\ Repeated(1)
  /\ UNCHANGED <<db, lastKey, backup, mem, sent, entrusted, deleted, overlapped>>

\* A tab is closed or loaded again, whatever it is doing.
CloseTab(t) ==
  /\ tab[t] # Closed
  /\ tab' = [tab EXCEPT ![t] = Closed]
  /\ IF tab[t].stage = "inserted" THEN Repeated(1) ELSE UNCHANGED repeats
  /\ UNCHANGED <<db, lastKey, saved, backup, migrated, mem, sent, entrusted, deleted, overlapped>>

RollbackMigration ==
  /\ backup # {}
  /\ saved' = backup
  /\ migrated' = FALSE
  /\ Repeated(1)
  /\ UNCHANGED <<db, lastKey, backup, mem, tab, sent, entrusted, deleted, overlapped>>

ClearMigrationStatus ==
  /\ migrated /\ migrated' = FALSE
  /\ Repeated(1)
  /\ UNCHANGED <<db, lastKey, saved, backup, mem, tab, sent, entrusted, deleted, overlapped>>

\* deleteBackup, or autoMigrate called after 30 days: cleanupOldBackups.
DeleteBackup ==
  /\ backup' = {}
  /\ UNCHANGED <<db, lastKey, saved, migrated, mem, tab, history>>

-----------------------------------------------------------------------------
(* ActivityLog in IndexedDB mode; waitForReady is tab[t] = Ready *)

LogAsync(t, a) ==
  /\ tab[t] = Ready
  /\ a \notin Known
  /\ Adds({[what |-> a, status |-> "pending"]})
  /\ UNCHANGED <<saved, backup, migrated, mem, tab, history>>

\* The record is looked up and then changed; gone in between, nothing changes.
UpdateSyncStatusAsync(t, r, status) ==
  /\ tab[t] = Ready
  /\ db' = WithDbStatus({r.id}, status)
  /\ UNCHANGED <<lastKey, saved, backup, migrated, mem, tab, history>>

\* The application reads what is pending and gives it to the service ...
GetPendingSyncAsync(t) ==
  /\ tab[t] = Ready /\ GetPendingSync # {}
  /\ tab' = [tab EXCEPT ![t] = [stage |-> "marking", ids |-> {r.id : r \in GetPendingSync}]]
  /\ sent' = sent \cup What(GetPendingSync)
  /\ UNCHANGED <<db, lastKey, saved, backup, migrated, mem, entrusted, deleted, repeats, overlapped>>

\* ... and marks it when that has answered.
MarkSyncedAsync(t) ==
  /\ tab[t] \in Working /\ tab[t].stage = "marking"
  /\ db' = WithDbStatus(tab[t].ids, "synced")
  /\ tab' = [tab EXCEPT ![t] = Ready]
  /\ UNCHANGED <<lastKey, saved, backup, migrated, mem, history>>

DeleteAsync(t, r) == tab[t] = Ready /\ Removes({r}) /\ UNCHANGED tab

ClearAgentAsync(t, agent) == tab[t] = Ready /\ Removes(GetByAgent(agent)) /\ UNCHANGED tab

\* Mutant: the keys start again.
KeysRestart == 0

KeyAfterClear == lastKey

ClearAsync(t) ==
  /\ tab[t] = Ready
  /\ db' = {} /\ lastKey' = KeyAfterClear
  /\ deleted' = deleted \cup What(db)
  /\ UNCHANGED <<saved, backup, migrated, mem, tab, sent, entrusted, repeats, overlapped>>

\* deleteOlderThan: at once, or, of synced entries only, by the keys it has read.
DeleteOlderThanAsync(t, cutoff) ==
  /\ tab[t] = Ready /\ cutoff > 0
  /\ Removes(GetByTimeRange(0, cutoff - 1))
  /\ UNCHANGED tab

ReadSyncedOlderThan(t, cutoff) ==
  LET old == {r \in GetByTimeRange(0, cutoff - 1) : r.status = "synced"} IN
  /\ tab[t] = Ready /\ cutoff > 0 /\ old # {}
  /\ tab' = [tab EXCEPT ![t] = [stage |-> "pruning", ids |-> {r.id : r \in old}]]
  /\ UNCHANGED <<db, lastKey, saved, backup, migrated, mem, history>>

DeleteSyncedOlderThan(t) ==
  /\ tab[t] \in Working /\ tab[t].stage = "pruning"
  /\ Removes({r \in db : r.id \in tab[t].ids})
  /\ tab' = [tab EXCEPT ![t] = Ready]

\* importJSON compares an entry with the first record of its agent and time only,
\* and that may be one it has just added.
FirstLike(e) ==
  LET Like(set) == {r \in set : Agent[r.what] = Agent[e.what] /\ At[r.what] = At[e.what]}
  IN IF Like(db) # {} THEN CHOOSE r \in Like(db) : \A s \in Like(db) : r.id <= s.id
     ELSE CHOOSE f \in Like(mem) : TRUE

Imported == {e \in mem : FirstLike(e) = e \/ Kind[FirstLike(e).what] # Kind[e.what]}

\* What the log in localStorage mode exports is imported.
ImportAsync(t) ==
  /\ tab[t] = Ready /\ Imported # {}
  /\ Adds(Imported)
  /\ Repeated(Cardinality(Imported))
  /\ UNCHANGED <<saved, backup, migrated, mem, tab, sent, entrusted, deleted, overlapped>>

-----------------------------------------------------------------------------
LegacyStep ==
  \/ \E a \in Activities : LegacyLog(a)
  \/ \E gone \in SUBSET mem : LegacyDelete(gone)
  \/ LegacyLoad
  \/ RollbackMigration \/ ClearMigrationStatus \/ DeleteBackup

MigrationStep(t) ==
  \/ Open(t) \/ BackupRefused(t) \/ ForceMigration(t)
  \/ \E autoMigrate \in BOOLEAN : OpenMigrated(t, autoMigrate)
  \/ Inserted(t) \/ InsertFails(t) \/ FinishMigration(t) \/ CloseTab(t)

AsyncStep(t) ==
  \/ \E a \in Activities : LogAsync(t, a)
  \/ \E r \in db : DeleteAsync(t, r) \/ \E s \in AppStatuses : UpdateSyncStatusAsync(t, r, s)
  \/ GetPendingSyncAsync(t) \/ MarkSyncedAsync(t)
  \/ \E a \in Activities : ClearAgentAsync(t, Agent[a])
  \/ \E a \in Activities : DeleteOlderThanAsync(t, At[a] + 1) \/ ReadSyncedOlderThan(t, At[a] + 1)
  \/ DeleteSyncedOlderThan(t)
  \/ ClearAsync(t) \/ ImportAsync(t)

DatabaseStep == LegacyStep \/ \E t \in Tabs : MigrationStep(t) \/ AsyncStep(t)

DatabaseSpec == DbInit /\ [][DatabaseStep]_dbVars

-----------------------------------------------------------------------------
(* Properties *)

\* What a migration has found in localStorage stays in the database or among the
\* entries in localStorage until the application deletes it: through insertions
\* that fail, tabs closed between two steps, repetitions and rollbacks to an older
\* backup.  Asserted while no two tabs have migrated at a time.
MigratedIsKept ==
  ~overlapped => entrusted \ deleted \subseteq What(db) \cup What(saved)

\* An activity is in the database once, and once more for each event that lets
\* a migration find it again: two tabs at a time, a tab closed between the
\* insertion and the flag, a refused flag, a rollback, a reset, a forced
\* migration, an import.
CopiesBounded ==
  \A a \in Activities : Cardinality({r \in db : r.what = a}) <= 1 + repeats

\* What is marked as synced was given to the service, whatever was deleted,
\* cleared, imported or migrated between reading the keys and marking by them.
MarkedWasSent ==
  \A r \in db : r.status = "synced" => r.what \in sent
=============================================================================
