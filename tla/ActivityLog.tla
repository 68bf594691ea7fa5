---------------------------- MODULE ActivityLog ----------------------------
(***************************************************************************)
(* ActivityLog in localStorage mode: the entries in memory, the copy of    *)
(* them in localStorage, and an export that may be imported again.         *)
(*                                                                         *)
(* Every method is synchronous and so a step.  A save that localStorage    *)
(* refuses (its quota) is reported to nobody.  The data and the version of *)
(* an entry are left out: nothing reads them.  MemoryClient has the client *)
(* that sends the entries away.                                            *)
(***************************************************************************)
EXTENDS Naturals, FiniteSets

CONSTANTS
  Activities,       \* what is logged; each happens once
  Agent, At, Kind,  \* agentId, timestamp and actionType of an activity
  AutoSave,
  AppStatuses,      \* what the application itself sets a status to
  MaxId,            \* bound on ids
  MaxFailures       \* bound on refused saves

Agents == {Agent[a] : a \in Activities}
Times == {At[a] : a \in Activities}

ASSUME LogAssumption ==
  /\ AutoSave \in BOOLEAN
  /\ AppStatuses \subseteq {"pending", "conflict"}
  /\ At \in [Activities -> Nat]
  /\ MaxId \in Nat /\ MaxFailures \in Nat

Ids == 1 .. MaxId
Entry == [id: Ids, what: Activities, status: {"pending", "synced", "conflict"}]
Snapshot == [entries: SUBSET Entry, nextId: 1 .. MaxId + 1]

VARIABLES
  log,        \* entries and nextId
  stored,     \* the same in localStorage
  exported,   \* the entries last exported, as a copy that an application keeps
  failures,   \* saves refused so far
  \* History, read by no action:
  issued,     \* pairs of an id and an activity it has stood for
  revived     \* entries may have come back from an older copy of the log

logVars == <<log, stored, exported, failures, issued, revived>>

Empty == [entries |-> {}, nextId |-> 1]

LogTypeOK ==
  /\ log \in Snapshot /\ stored \in Snapshot
  /\ exported \in SUBSET Entry
  /\ failures \in 0 .. MaxFailures
  /\ issued \in SUBSET (Ids \X Activities)
  /\ revived \in BOOLEAN

LogInit ==
  /\ log = Empty /\ stored = Empty
  /\ exported = {}
  /\ failures = 0
  /\ issued = {}
  /\ revived = FALSE

Logged == {p[2] : p \in issued}
Pending == {e \in log.entries : e.status = "pending"}

-----------------------------------------------------------------------------
\* save(): localStorage takes the log as it is from now on, or refuses.
Save ==
  \/ stored' = log' /\ UNCHANGED failures
  \/ failures < MaxFailures /\ failures' = failures + 1 /\ UNCHANGED stored

SaveIfAuto == IF AutoSave THEN Save ELSE UNCHANGED <<stored, failures>>

Log(a) ==
  /\ a \notin Logged
  /\ log.nextId <= MaxId
  /\ log' = [entries |-> log.entries \cup {[id |-> log.nextId, what |-> a, status |-> "pending"]},
             nextId |-> log.nextId + 1]
  /\ issued' = issued \cup {<<log.nextId, a>>}
  /\ SaveIfAuto
  /\ UNCHANGED <<exported, revived>>

WithStatus(ids, status) ==
  {IF e.id \in ids THEN [e EXCEPT !.status = status] ELSE e : e \in log.entries}

\* The first saves were taken and the others refused.
SavedInPart(ids, status) ==
  /\ AutoSave /\ failures < MaxFailures
  /\ \E saved \in (SUBSET ids) \ {{}, ids} : stored' = [log EXCEPT !.entries = WithStatus(saved, status)]
  /\ failures' = failures + 1

\* updateSyncStatus for each of some ids, with a save for each; the ones that
\* are gone are passed over.  Bound: the saves refused at the end count as one.
SetStatus(ids, status) ==
  LET present == {e.id : e \in log.entries} \cap ids
  IN /\ log' = [log EXCEPT !.entries = WithStatus(present, status)]
     /\ IF present = {}
          THEN UNCHANGED <<stored, failures>>
          ELSE SaveIfAuto \/ SavedInPart(present, status)
     /\ UNCHANGED <<exported, issued>>

\* The application settles an entry, after a conflict for instance.
UpdateSyncStatus(e, status) ==
  /\ e \in log.entries
  /\ SetStatus({e.id}, status)
  /\ revived' = (revived \/ status = "pending")

-----------------------------------------------------------------------------
(* Deletions *)

Remove(gone, next) ==
  /\ log' = [entries |-> log.entries \ gone, nextId |-> next]
  /\ SaveIfAuto
  /\ UNCHANGED <<exported, issued, revived>>

\* clear() starts the ids again.
FirstId == 1

Clear == Remove(log.entries, FirstId)

ClearAgent(agent) == Remove({e \in log.entries : Agent[e.what] = agent}, log.nextId)

Delete(e) == e \in log.entries /\ Remove({e}, log.nextId)

\* deleteOlderThan, for one agent or all.
DeleteOlderThan(cutoff, agents, onlySynced) ==
  LET gone == {e \in log.entries :
                 /\ At[e.what] < cutoff
                 /\ Agent[e.what] \in agents
                 /\ onlySynced => e.status = "synced"}
  IN gone # {} /\ Remove(gone, log.nextId)

-----------------------------------------------------------------------------
(* Copies of the log *)

\* Bound: one export of a log with entries.
Export ==
  /\ exported = {}
  /\ exported' = log.entries
  /\ UNCHANGED <<log, stored, failures, issued, revived>>

\* What import takes for the same activity.
Same(a, b) == Agent[a] = Agent[b] /\ At[a] = At[b] /\ Kind[a] = Kind[b]

\* The exported entries that are new to the log; the array is in the order of ids.
NewEntries ==
  {e \in exported :
    /\ \A f \in log.entries : ~Same(f.what, e.what)
    /\ \A f \in exported : f.id < e.id => ~Same(f.what, e.what)}

\* Mutant: imported entries keep the ids they had.
OldId(e) == e.id

NewId(e) == log.nextId + Cardinality({f \in NewEntries : f.id < e.id})

Import ==
  /\ NewEntries # {}
  /\ log.nextId + Cardinality(NewEntries) <= MaxId + 1
  /\ log' = [entries |-> log.entries \cup {[e EXCEPT !.id = NewId(e)] : e \in NewEntries},
             nextId |-> log.nextId + Cardinality(NewEntries)]
  /\ issued' = issued \cup {<<NewId(e), e.what>> : e \in NewEntries}
  /\ SaveIfAuto
  /\ revived' = TRUE
  /\ UNCHANGED exported

\* forceSave().
ForceSave == log' = log /\ Save /\ UNCHANGED <<exported, issued, revived>>

\* reload(), and the load of a new instance.
Reload ==
  /\ log' = stored
  /\ revived' = (revived \/ stored # log)
  /\ UNCHANGED <<stored, exported, failures, issued>>

ApplicationUsesLog ==
  \/ \E a \in Activities : Log(a)
  \/ \E e \in log.entries : Delete(e) \/ \E status \in AppStatuses : UpdateSyncStatus(e, status)
  \/ Clear
  \/ \E agent \in Agents : ClearAgent(agent)
  \/ \E cutoff \in {t + 1 : t \in Times}, agents \in {{g} : g \in Agents} \cup {Agents}, onlySynced \in BOOLEAN :
       DeleteOlderThan(cutoff, agents, onlySynced)
  \/ Export
  \/ Import
  \/ ForceSave
  \/ Reload

-----------------------------------------------------------------------------
(* Properties *)

\* An id stands for one entry and is not handed out again while that entry is
\* there: after clearing, importing what was exported before, deleting, and
\* loading an older copy.  updateSyncStatus, get and delete rely on it.
IdsUnique ==
  /\ \A e, f \in log.entries : e.id = f.id => e = f
  /\ \A e \in log.entries : e.id < log.nextId
=============================================================================
