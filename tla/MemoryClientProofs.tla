------------------------- MODULE MemoryClientProofs -------------------------
(***************************************************************************)
(* What the memory client marks was sent, and what it knows to be at the   *)
(* service is not sent again, and an id stands for one entry: for any      *)
(* activities, ids, overlapping syncs and refused saves, with and without  *)
(* automatic saving.                                                       *)
(***************************************************************************)
EXTENDS MemoryClient, FiniteSetTheorems, TLAPS

IsEntry(e) == e = [id |-> e.id, what |-> e.what, status |-> e.status]
IsSnapshot(s) == s = [entries |-> s.entries, nextId |-> s.nextId]

\* Mixed, of any issued pairs.
MixedIn(I) == {p[2] : p \in {q \in I : \E r \in I : r[1] = q[1] /\ r[2] # q[2]}}

\* The entries S of a copy of the log are pairs among those issued, I, and
\* synced only if confirmed, in C, or mixed.
Sound(S, I, C) ==
  \A e \in S :
    /\ IsEntry(e)
    /\ <<e.id, e.what>> \in I
    /\ e.status = "synced" => e.what \in C \cup MixedIn(I)

\* All copies are sound, since each may become the log again, and a sync waits
\* only for entries that were issued.
IInv ==
  /\ IsSnapshot(log) /\ IsSnapshot(stored)
  /\ Sound(log.entries, issued, confirmed)
  /\ Sound(stored.entries, issued, confirmed)
  /\ Sound(exported, issued, confirmed)
  /\ call = [c \in Calls |-> call[c]]
  /\ \A c \in Calls : \A e \in call[c] : <<e.id, e.what>> \in issued

\* Soundness outlives what is issued and confirmed.
LEMMA SoundGrows ==
  ASSUME NEW S, NEW I, NEW J, NEW C, NEW D, Sound(S, I, C), I \subseteq J, C \subseteq D
  PROVE  Sound(S, J, D)
<1>1. MixedIn(I) \subseteq MixedIn(J)
  BY DEF MixedIn
<1>2. QED BY <1>1 DEF Sound

\* A save leaves in storage what was there or what the log is.
LEMMA SaveKeeps ==
  ASSUME NEW J, NEW D, SaveIfAuto, IsSnapshot(stored), IsSnapshot(log'),
         Sound(stored.entries, J, D), Sound(log'.entries, J, D)
  PROVE  IsSnapshot(stored') /\ Sound(stored'.entries, J, D)
<1>1. stored' = stored \/ stored' = log'
  BY DEF SaveIfAuto, Save
<1>2. QED BY <1>1

\* An entry with another status: it may be synced if its id stands for something
\* confirmed.
LEMMA StatusKeeps ==
  ASSUME NEW I, NEW C, NEW e, IsEntry(e), <<e.id, e.what>> \in I, NEW status,
         status = "synced" => \E a \in C : <<e.id, a>> \in I
  PROVE  Sound({[e EXCEPT !.status = status]}, I, C)
<1> DEFINE f == [e EXCEPT !.status = status]
<1>1. f = [id |-> e.id, what |-> e.what, status |-> status]
  BY DEF IsEntry
<1>2. IsEntry(f) /\ f.id = e.id /\ f.what = e.what /\ f.status = status
  BY <1>1 DEF IsEntry
<1>3. ASSUME status = "synced" PROVE e.what \in C \cup MixedIn(I)
  <2>1. PICK a \in C : <<e.id, a>> \in I
    BY <1>3
  <2>2. CASE a = e.what
    BY <2>2
  <2>3. CASE a # e.what
    <3>1. <<e.id, e.what>> \in {q \in I : \E r \in I : r[1] = q[1] /\ r[2] # q[2]}
      BY <2>1, <2>3
    <3>2. QED BY <3>1 DEF MixedIn
  <2>4. QED BY <2>2, <2>3
<1>4. QED BY <1>2, <1>3 DEF Sound

\* A copy of the log that is sound.
Whole(s, I, C) == IsSnapshot(s) /\ Sound(s.entries, I, C)

\* Setting the status of entries keeps the log and what is stored sound.
LEMMA SetStatusKeeps ==
  ASSUME NEW C, Whole(log, issued, C), Whole(stored, issued, C),
         NEW ids, NEW status, SetStatus(ids, status),
         status = "synced" => \A i \in ids : \E a \in C : <<i, a>> \in issued
  PROVE  Whole(log', issued', C) /\ Whole(stored', issued', C)
<1> DEFINE present == {e.id : e \in log.entries} \cap ids
<1>1. ASSUME NEW J \in SUBSET present
      PROVE  Whole([log EXCEPT !.entries = WithStatus(J, status)], issued, C)
  <2>1. Sound(WithStatus(J, status), issued, C)
    <3>1. ASSUME NEW f \in WithStatus(J, status)
          PROVE  Sound({f}, issued, C)
      <4>1. PICK e \in log.entries : f = IF e.id \in J THEN [e EXCEPT !.status = status] ELSE e
        BY Zenon DEF WithStatus
      <4>2. IsEntry(e) /\ <<e.id, e.what>> \in issued
        BY DEF Whole, Sound
      <4>3. CASE e.id \in J
        <5>1. f = [e EXCEPT !.status = status]
          BY <4>1, <4>3, Zenon
        <5>2. status = "synced" => \E a \in C : <<e.id, a>> \in issued
          BY <4>3
        <5>3. QED BY <4>2, <5>1, <5>2, StatusKeeps
      <4>4. CASE e.id \notin J
        <5>1. f = e
          BY <4>1, <4>4, Zenon
        <5>2. QED BY <5>1 DEF Whole, Sound
      <4>5. QED BY <4>3, <4>4
    <3>2. QED BY <3>1 DEF Sound
  <2>2. IsSnapshot([log EXCEPT !.entries = WithStatus(J, status)])
    BY DEF Whole, IsSnapshot
  <2>3. [log EXCEPT !.entries = WithStatus(J, status)].entries = WithStatus(J, status)
    BY DEF Whole, IsSnapshot
  <2>4. QED BY <2>1, <2>2, <2>3 DEF Whole
<1>2. issued' = issued /\ log' = [log EXCEPT !.entries = WithStatus(present, status)]
  BY DEF SetStatus
<1>3. Whole(log', issued, C)
  BY <1>1, <1>2
<1>4. \/ stored' = stored
      \/ stored' = log'
      \/ \E saved \in SUBSET present : stored' = [log EXCEPT !.entries = WithStatus(saved, status)]
  BY DEF SetStatus, SaveIfAuto, Save, SavedInPart
<1>5. QED BY <1>1, <1>2, <1>3, <1>4

\* A deletion keeps them sound.
LEMMA RemoveKeeps ==
  ASSUME Whole(log, issued, confirmed), Whole(stored, issued, confirmed), NEW gone, NEW next, Remove(gone, next)
  PROVE  Whole(log', issued, confirmed) /\ Whole(stored', issued, confirmed)
<1>1. Whole(log', issued, confirmed)
  BY DEF Remove, Whole, IsSnapshot, Sound
<1>2. QED BY <1>1, SaveKeeps DEF Remove, Whole

LEMMA InitSound == Init => IInv
BY DEF Init, LogInit, IInv, Empty, IsSnapshot, Sound

\* What the application does with the log.
LEMMA ApplicationKeeps ==
  ASSUME IInv, ApplicationUsesLog, UNCHANGED clientVars
  PROVE  IInv'
<1> USE DEF clientVars
<1>0. Whole(log, issued, confirmed) /\ Whole(stored, issued, confirmed)
  BY DEF IInv, Whole
<1>1. ASSUME Whole(log', issued', confirmed), Whole(stored', issued', confirmed),
             Sound(exported', issued', confirmed), issued \subseteq issued'
      PROVE  IInv'
  BY <1>1 DEF IInv, Whole
<1>2. ASSUME NEW a \in Activities, Log(a) PROVE IInv'
  <2> DEFINE new == [id |-> log.nextId, what |-> a, status |-> "pending"]
  <2>1. issued \subseteq issued' /\ exported' = exported /\ <<log.nextId, a>> \in issued'
    BY <1>2 DEF Log
  <2>2. /\ Sound(log.entries, issued', confirmed)
        /\ Sound(stored.entries, issued', confirmed)
        /\ Sound(exported', issued', confirmed)
    BY <2>1, SoundGrows DEF IInv
  <2>3. Sound({new}, issued', confirmed)
    BY <2>1 DEF Sound, IsEntry
  <2>4. log' = [entries |-> log.entries \cup {new}, nextId |-> log.nextId + 1]
    BY <1>2 DEF Log
  <2>5. Whole(log', issued', confirmed)
    BY <2>2, <2>3, <2>4 DEF Sound, Whole, IsSnapshot
  <2>6. Whole(stored', issued', confirmed)
    BY <1>0, <1>2, <2>2, <2>5, SaveKeeps DEF Log, Whole
  <2>7. QED BY <1>1, <2>1, <2>2, <2>5, <2>6
<1>3. ASSUME NEW e \in log.entries, NEW status \in AppStatuses, UpdateSyncStatus(e, status) PROVE IInv'
  <2>1. status # "synced"
    BY LogAssumption
  <2>2. Whole(log', issued', confirmed) /\ Whole(stored', issued', confirmed)
    BY <1>0, <1>3, <2>1, SetStatusKeeps DEF UpdateSyncStatus
  <2>3. exported' = exported /\ issued' = issued
    BY <1>3 DEF UpdateSyncStatus, SetStatus
  <2>4. QED BY <1>1, <2>2, <2>3 DEF IInv
<1>4. ASSUME NEW gone, NEW next, Remove(gone, next) PROVE IInv'
  <2>1. exported' = exported /\ issued' = issued
    BY <1>4 DEF Remove
  <2>2. QED BY <1>0, <1>1, <1>4, <2>1, RemoveKeeps DEF IInv
<1>5. CASE Export
  BY <1>0, <1>1, <1>5 DEF Export, Whole
<1>6. CASE Import
  <2> DEFINE new == {[e EXCEPT !.id = NewId(e)] : e \in NewEntries}
  <2>1. issued \subseteq issued' /\ exported' = exported
    BY <1>6 DEF Import
  <2>2. /\ Sound(log.entries, issued', confirmed)
        /\ Sound(stored.entries, issued', confirmed)
        /\ Sound(exported, issued', confirmed)
    BY <2>1, SoundGrows DEF IInv
  <2>3. Sound(new, issued', confirmed)
    <3>1. ASSUME NEW e \in NewEntries
          PROVE  LET f == [e EXCEPT !.id = NewId(e)]
                 IN IsEntry(f) /\ <<f.id, f.what>> \in issued'
                    /\ (f.status = "synced" => f.what \in confirmed \cup MixedIn(issued'))
      <4> DEFINE f == [e EXCEPT !.id = NewId(e)]
      <4>1. e \in exported
        BY DEF NewEntries
      <4>2. IsEntry(e) /\ (e.status = "synced" => e.what \in confirmed \cup MixedIn(issued'))
        BY <2>2, <4>1 DEF Sound
      <4>3. f = [id |-> NewId(e), what |-> e.what, status |-> e.status]
        BY <4>2 DEF IsEntry
      <4>4. <<NewId(e), e.what>> \in issued'
        BY <1>6 DEF Import
      <4>5. f.id = NewId(e) /\ f.what = e.what /\ f.status = e.status
        BY <4>3
      <4>6. IsEntry(f)
        BY <4>3, <4>5 DEF IsEntry
      <4>7. QED BY <4>2, <4>4, <4>5, <4>6
    <3>2. QED BY <3>1 DEF Sound
  <2>4. log' = [entries |-> log.entries \cup new, nextId |-> log.nextId + Cardinality(NewEntries)]
    BY <1>6 DEF Import
  <2>5. Whole(log', issued', confirmed)
    BY <2>2, <2>3, <2>4 DEF Sound, Whole, IsSnapshot
  <2>6. Whole(stored', issued', confirmed)
    BY <1>0, <1>6, <2>2, <2>5, SaveKeeps DEF Import, Whole
  <2>7. QED BY <1>1, <2>1, <2>2, <2>5, <2>6
<1>7. CASE ForceSave
  BY <1>0, <1>1, <1>7 DEF ForceSave, Save, IInv
<1>8. CASE Reload
  BY <1>0, <1>1, <1>8 DEF Reload, IInv
<1>9. QED
  BY <1>2, <1>3, <1>4, <1>5, <1>6, <1>7, <1>8
     DEF ApplicationUsesLog, Delete, Clear, ClearAgent, DeleteOlderThan

\* Every step keeps it.
LEMMA StepSound == IInv /\ [Next]_vars => IInv'
<1> SUFFICES ASSUME IInv, [Next]_vars PROVE IInv'
  OBVIOUS
<1>1. CASE ApplicationUsesLog /\ UNCHANGED clientVars
  BY <1>1, ApplicationKeeps
<1>2. CASE StartSync \/ StopSync
  BY <1>2 DEF StartSync, StopSync, IInv, logVars
<1>3. ASSUME NEW c \in Calls, Sync(c) PROVE IInv'
  <2>1. UNCHANGED logVars /\ confirmed' = confirmed
    BY <1>3 DEF Sync
  <2>2. call' = [call EXCEPT ![c] = Unsent]
    BY <1>3 DEF Sync
  <2>3. \A e \in Unsent : <<e.id, e.what>> \in issued
    BY DEF Unsent, Pending, IInv, Sound
  <2>4. QED BY <2>1, <2>2, <2>3 DEF IInv, logVars
<1>4. ASSUME NEW c \in Calls, SyncFails(c) PROVE IInv'
  BY <1>4 DEF SyncFails, IInv, logVars
<1>5. ASSUME NEW c \in Calls, NEW disputes \in SUBSET call[c], Answered(c, disputes) PROVE IInv'
  <2>1. confirmed' = confirmed \cup {e.what : e \in call[c] \ disputes}
    BY <1>5 DEF Answered
  <2>2. Whole(log, issued, confirmed') /\ Whole(stored, issued, confirmed') /\ Sound(exported, issued, confirmed')
    BY <2>1, SoundGrows DEF IInv, Whole
  <2>3. \A i \in {e.id : e \in Taken(c, disputes)} : \E a \in confirmed' : <<i, a>> \in issued
    BY <2>1 DEF Taken, IInv
  <2>4. SetStatus({e.id : e \in Taken(c, disputes)}, "synced")
    BY <1>5 DEF Answered
  <2>5. Whole(log', issued', confirmed') /\ Whole(stored', issued', confirmed')
    BY <2>2, <2>3, <2>4, SetStatusKeeps
  <2>6. exported' = exported /\ issued' = issued /\ call' = [call EXCEPT ![c] = {}]
    BY <1>5 DEF Answered, SetStatus
  <2>7. QED BY <2>2, <2>5, <2>6 DEF IInv, Whole
<1>6. CASE PageReload
  BY <1>6 DEF PageReload, Reload, IInv
<1>7. CASE UNCHANGED vars
  BY <1>7 DEF vars, logVars, clientVars, IInv
<1>8. QED
  BY <1>1, <1>2, <1>3, <1>4, <1>5, <1>6, <1>7 DEF Next, TimerFires, ForceSync

\* An entry is marked as synced only if the service has its activity, or its id
\* has stood for two: sync() marks by the ids it read before it waited.
THEOREM MarkedWasSent == Spec => []SyncedWasSent
<1>1. IInv => SyncedWasSent
  BY DEF IInv, Sound, SyncedWasSent, Mixed, MixedIn
<1>2. QED BY <1>1, InitSound, StepSound, PTL DEF Spec
-----------------------------------------------------------------------------
(* Nothing is sent again *)

\* Until something comes back, an activity has one id and what is pending has
\* not been confirmed.
FreshInv ==
  /\ confirmed \subseteq Logged
  /\ ~revived => /\ \A p, q \in issued : p[2] = q[2] => p[1] = q[1]
                 /\ \A e \in Pending : e.what \notin confirmed

LEMMA InitFresh == Init => FreshInv
BY DEF Init, LogInit, FreshInv, Pending, Empty

\* Steps that log nothing and confirm nothing, and leave no entry pending that
\* was not.
LEMMA QuietKeeps ==
  ASSUME FreshInv, issued' = issued, confirmed' = confirmed,
         ~revived' => ~revived, ~revived' => Pending' \subseteq Pending
  PROVE  FreshInv'
BY DEF FreshInv, Logged

\* Setting another status than pending, and deleting, leave no new entry pending.
LEMMA StatusIsQuiet ==
  ASSUME IInv, NEW ids, NEW status, SetStatus(ids, status), status # "pending"
  PROVE  Pending' \subseteq {e \in Pending : e.id \notin ids}
<1> DEFINE present == {e.id : e \in log.entries} \cap ids
<1>1. log'.entries = WithStatus(present, status)
  BY DEF SetStatus, IInv, IsSnapshot
<1>2. SUFFICES ASSUME NEW f \in log'.entries, f.status = "pending"
               PROVE  f \in log.entries /\ f.id \notin ids
  BY DEF Pending
<1>3. PICK e \in log.entries : f = IF e.id \in present THEN [e EXCEPT !.status = status] ELSE e
  BY <1>1, Zenon DEF WithStatus
<1>4. CASE e.id \in present
  <2>1. f = [e EXCEPT !.status = status]
    BY <1>3, <1>4, Zenon
  <2>2. e = [id |-> e.id, what |-> e.what, status |-> e.status]
    BY DEF IInv, Sound, IsEntry
  <2>3. f.status = status
    BY <2>1, <2>2
  <2>4. QED BY <1>2, <2>3
<1>5. CASE e.id \notin present
  <2>1. f = e
    BY <1>3, <1>5, Zenon
  <2>2. QED BY <1>5, <2>1
<1>6. QED BY <1>4, <1>5

LEMMA ApplicationFresh ==
  ASSUME IInv, FreshInv, ApplicationUsesLog, UNCHANGED clientVars
  PROVE  FreshInv'
<1> USE DEF clientVars
<1>1. ASSUME NEW a \in Activities, Log(a) PROVE FreshInv'
  <2> DEFINE new == [id |-> log.nextId, what |-> a, status |-> "pending"]
  <2>1. a \notin Logged /\ issued' = issued \cup {<<log.nextId, a>>} /\ revived' = revived
    BY <1>1 DEF Log
  <2>2. log'.entries = log.entries \cup {new}
    BY <1>1 DEF Log
  <2>3. \A p \in issued : p[2] # a
    BY <2>1 DEF Logged
  <2>4. confirmed' \subseteq Logged'
    BY <2>1 DEF FreshInv, Logged
  <2>5. Pending' \subseteq Pending \cup {new}
    BY <2>2 DEF Pending
  <2>6. ~revived => a \notin confirmed
    BY <2>1 DEF FreshInv
  <2>7. QED BY <2>1, <2>3, <2>4, <2>5, <2>6 DEF FreshInv
<1>2. ASSUME NEW e \in log.entries, NEW status \in AppStatuses, UpdateSyncStatus(e, status) PROVE FreshInv'
  <2>1. issued' = issued /\ revived' = (revived \/ status = "pending")
    BY <1>2 DEF UpdateSyncStatus, SetStatus
  <2>2. CASE status = "pending"
    BY <2>1, <2>2 DEF FreshInv, Logged
  <2>3. CASE status # "pending"
    <3>1. Pending' \subseteq Pending
      BY <1>2, <2>3, StatusIsQuiet DEF UpdateSyncStatus
    <3>2. QED BY <2>1, <3>1, QuietKeeps
  <2>4. QED BY <2>2, <2>3
<1>3. ASSUME NEW gone, NEW next, Remove(gone, next) PROVE FreshInv'
  <2>1. Pending' \subseteq Pending /\ issued' = issued /\ revived' = revived
    BY <1>3 DEF Remove, Pending
  <2>2. QED BY <2>1, QuietKeeps
<1>4. CASE Export \/ ForceSave
  BY <1>4 DEF Export, ForceSave, FreshInv, Logged, Pending
<1>5. CASE Import
  BY <1>5 DEF Import, FreshInv, Logged
<1>6. CASE Reload
  BY <1>6 DEF Reload, FreshInv, Logged, Pending
<1>7. QED
  BY <1>1, <1>2, <1>3, <1>4, <1>5, <1>6
     DEF ApplicationUsesLog, Delete, Clear, ClearAgent, DeleteOlderThan

LEMMA StepFresh == IInv /\ FreshInv /\ [Next]_vars => FreshInv'
<1> SUFFICES ASSUME IInv, FreshInv, [Next]_vars PROVE FreshInv'
  OBVIOUS
<1>1. CASE ApplicationUsesLog /\ UNCHANGED clientVars
  BY <1>1, ApplicationFresh
<1>2. CASE UNCHANGED <<logVars, confirmed>>
  BY <1>2 DEF logVars, FreshInv, Logged, Pending
<1>3. ASSUME NEW c \in Calls, NEW disputes \in SUBSET call[c], Answered(c, disputes) PROVE FreshInv'
  <2> DEFINE ids == {e.id : e \in Taken(c, disputes)}
  <2>1. /\ confirmed' = confirmed \cup {e.what : e \in call[c] \ disputes}
        /\ issued' = issued /\ revived' = revived
    BY <1>3 DEF Answered, SetStatus
  <2>2. Pending' \subseteq {e \in Pending : e.id \notin ids}
    BY <1>3, StatusIsQuiet DEF Answered
  <2>3. \A e \in call[c] : <<e.id, e.what>> \in issued
    BY DEF IInv
  <2>4. confirmed' \subseteq Logged'
    <3>1. Logged' = Logged /\ confirmed \subseteq Logged
      BY <2>1 DEF FreshInv, Logged
    <3>2. ASSUME NEW e \in call[c] PROVE e.what \in Logged
      <4>1. <<e.id, e.what>>[2] = e.what
        OBVIOUS
      <4>2. QED BY <2>3, <4>1, Zenon DEF Logged
    <3>3. QED BY <2>1, <3>1, <3>2
  <2>5. ASSUME ~revived, NEW e \in Pending', e.what \in confirmed' PROVE FALSE
    <3>1. e \in Pending /\ e.id \notin ids /\ e.what \notin confirmed
      BY <2>2, <2>5 DEF FreshInv
    <3>2. PICK x \in call[c] \ disputes : x.what = e.what
      BY <2>1, <2>5, <3>1
    <3>3. <<e.id, e.what>> \in issued
      BY <3>1 DEF IInv, Sound, Pending
    <3>4. x.id = e.id
      BY <2>3, <2>5, <3>2, <3>3 DEF FreshInv
    <3>5. QED BY <3>1, <3>2, <3>4 DEF Taken
  <2>6. QED BY <2>1, <2>4, <2>5 DEF FreshInv
<1>4. CASE PageReload
  BY <1>4 DEF PageReload, Reload, FreshInv, Logged, Pending
<1>5. QED
  BY <1>1, <1>2, <1>3, <1>4
     DEF Next, TimerFires, ForceSync, Sync, SyncFails, StartSync, StopSync, vars, clientVars

\* What the client knows to be at the service is not sent again, by any of the
\* syncs that overlap, unless the log has gone back to an older copy.
THEOREM NotResent == Spec => ConfirmedNotResent
<1>1. ASSUME IInv, FreshInv, [Next]_vars
      PROVE  [\A c \in Calls :
                call[c] = {} /\ ~revived => \A e \in call'[c] : e.what \notin confirmed]_vars
  <2> SUFFICES ASSUME NEW c \in Calls, call[c] = {}, ~revived, NEW e \in call'[c],
                      call' # call
               PROVE  e.what \notin confirmed
    OBVIOUS
  <2>1. \/ \E d \in Calls : Sync(d)
        \/ \E d \in Calls : call' = [call EXCEPT ![d] = {}]
        \/ call' = [d \in Calls |-> {}]
    BY <1>1 DEF Next, TimerFires, ForceSync, SyncFails, Answered, StartSync, StopSync,
                PageReload, vars, clientVars
  <2>2. call' # [d \in Calls |-> {}]
    OBVIOUS
  <2>3. ASSUME NEW d \in Calls, call' = [call EXCEPT ![d] = {}] PROVE FALSE
    BY <1>1, <2>3 DEF IInv
  <2>4. ASSUME NEW d \in Calls, Sync(d) PROVE e \in Pending
    BY <1>1, <2>4 DEF IInv, Sync, Unsent
  <2>5. QED BY <1>1, <2>1, <2>2, <2>3, <2>4 DEF FreshInv
<1>2. QED
  BY <1>1, InitSound, StepSound, InitFresh, StepFresh, PTL DEF Spec, ConfirmedNotResent
-----------------------------------------------------------------------------
(* Ids *)

\* Entries with ids of their own below n.
Distinct(S, n) ==
  /\ n \in Nat
  /\ \A e \in S : IsEntry(e) /\ e.id \in Nat /\ e.id < n
  /\ \A e, f \in S : e.id = f.id => e = f

\* A log whose next id is free.
Numbered(s) == IsSnapshot(s) /\ Distinct(s.entries, s.nextId)

\* The log, and the copies it may be loaded or imported from.
IdsInv ==
  /\ Numbered(log) /\ Numbered(stored)
  /\ \E n \in Nat : Distinct(exported, n)

\* Lemma: entries with ids of their own below a bound are finitely many.
LEMMA DistinctFinite ==
  ASSUME NEW S, NEW n, Distinct(S, n)
  PROVE  IsFiniteSet(S)
<1> DEFINE f == [e \in S |-> e.id]
<1>1. f \in [S -> 0 .. n]
  BY DEF Distinct
<1>2. f \in Injection(S, 0 .. n)
  BY <1>1 DEF Distinct, Injection, IsInjective
<1>3. IsFiniteSet(0 .. n)
  BY FS_Interval DEF Distinct
<1> QED BY <1>2, <1>3, FS_Injection

\* Lemma: some of a log's entries are as distinct as all.
LEMMA DistinctParts ==
  ASSUME NEW S, NEW n, Distinct(S, n), NEW T \in SUBSET S
  PROVE  Distinct(T, n)
BY DEF Distinct

\* Lemma: entries get other statuses.
LEMMA StatusNumbered ==
  ASSUME Numbered(log), NEW J, NEW status
  PROVE  Numbered([log EXCEPT !.entries = WithStatus(J, status)])
<1> DEFINE new == [log EXCEPT !.entries = WithStatus(J, status)]
<1>1. new = [entries |-> WithStatus(J, status), nextId |-> log.nextId]
  BY DEF Numbered, IsSnapshot
<1>2. ASSUME NEW g \in WithStatus(J, status)
      PROVE  IsEntry(g) /\ \E e \in log.entries : g.id = e.id /\ g = IF e.id \in J THEN [e EXCEPT !.status = status] ELSE e
  <2>1. PICK e \in log.entries : g = IF e.id \in J THEN [e EXCEPT !.status = status] ELSE e
    BY Zenon DEF WithStatus
  <2>2. e = [id |-> e.id, what |-> e.what, status |-> e.status]
    BY DEF Numbered, Distinct, IsEntry
  <2>3. [e EXCEPT !.status = status] = [id |-> e.id, what |-> e.what, status |-> status]
    BY <2>2
  <2>4. IsEntry(g) /\ g.id = e.id
    BY <2>1, <2>2, <2>3 DEF IsEntry
  <2> QED BY <2>1, <2>4
<1>3. Distinct(WithStatus(J, status), log.nextId)
  BY <1>2 DEF Numbered, Distinct
<1> QED BY <1>1, <1>3 DEF Numbered, IsSnapshot

\* Lemma: a save leaves in storage what was there or what the log is.
LEMMA SaveNumbered ==
  ASSUME SaveIfAuto, Numbered(stored), Numbered(log')
  PROVE  Numbered(stored')
BY DEF SaveIfAuto, Save

\* Lemma: updateSyncStatus keeps the ids.
LEMMA SetStatusNumbered ==
  ASSUME IdsInv, NEW ids, NEW status, SetStatus(ids, status)
  PROVE  IdsInv'
<1> DEFINE present == {e.id : e \in log.entries} \cap ids
<1>1. log' = [log EXCEPT !.entries = WithStatus(present, status)] /\ exported' = exported
  BY DEF SetStatus
<1>2. \A J : Numbered([log EXCEPT !.entries = WithStatus(J, status)])
  BY StatusNumbered DEF IdsInv
<1>3. Numbered(log')
  BY <1>1, <1>2
<1>4. \/ stored' = stored
      \/ stored' = log'
      \/ \E saved \in SUBSET present : stored' = [log EXCEPT !.entries = WithStatus(saved, status)]
  BY DEF SetStatus, SaveIfAuto, Save, SavedInPart
<1>5. Numbered(stored')
  BY <1>2, <1>3, <1>4 DEF IdsInv
<1> QED BY <1>1, <1>3, <1>5 DEF IdsInv

\* Lemma: imported entries are numbered one after the other.
LEMMA ImportNumbers ==
  ASSUME IdsInv
  PROVE  /\ IsFiniteSet(NewEntries) /\ Cardinality(NewEntries) \in Nat
         /\ \A e \in NewEntries :
              /\ IsEntry(e)
              /\ NewId(e) \in Nat /\ log.nextId <= NewId(e) /\ NewId(e) < log.nextId + Cardinality(NewEntries)
         /\ \A e, f \in NewEntries : NewId(e) = NewId(f) => e = f
<1>1. PICK n \in Nat : Distinct(exported, n)
  BY DEF IdsInv
<1>2. Distinct(NewEntries, n)
  BY <1>1, DistinctParts DEF NewEntries
<1>3. IsFiniteSet(NewEntries) /\ Cardinality(NewEntries) \in Nat /\ log.nextId \in Nat
  BY <1>2, DistinctFinite, FS_CardinalityType DEF IdsInv, Numbered, Distinct
<1> DEFINE Before(e) == {f \in NewEntries : f.id < e.id}
<1>4. ASSUME NEW e \in NewEntries
      PROVE  /\ IsFiniteSet(Before(e)) /\ Cardinality(Before(e)) \in Nat
             /\ Cardinality(Before(e)) < Cardinality(NewEntries) /\ NewId(e) = log.nextId + Cardinality(Before(e))
  <2>1. Before(e) \in SUBSET NewEntries /\ e \notin Before(e)
    BY <1>2 DEF Distinct
  <2>2. NewId(e) = log.nextId + Cardinality(Before(e))
    BY DEF NewId
  <2> HIDE DEF Before
  <2>3. IsFiniteSet(Before(e)) /\ Cardinality(Before(e)) <= Cardinality(NewEntries) /\ Cardinality(Before(e)) # Cardinality(NewEntries)
    BY <1>3, <2>1, FS_Subset
  <2>4. Cardinality(Before(e)) \in Nat
    BY <2>3, FS_CardinalityType
  <2> QED BY <1>3, <2>2, <2>3, <2>4
<1>5. ASSUME NEW e \in NewEntries, NEW f \in NewEntries, e.id < f.id PROVE NewId(e) < NewId(f)
  <2>1. Before(e) \in SUBSET Before(f) /\ e \in Before(f) /\ e \notin Before(e)
    BY <1>2, <1>5 DEF Distinct
  <2> HIDE DEF Before
  <2>2. Cardinality(Before(e)) <= Cardinality(Before(f)) /\ Cardinality(Before(e)) # Cardinality(Before(f))
    BY <1>4, <2>1, FS_Subset
  <2> QED BY <1>3, <1>4, <2>2
<1> HIDE DEF Before
<1>6. ASSUME NEW e \in NewEntries, NEW f \in NewEntries, NewId(e) = NewId(f) PROVE e = f
  <2>1. e.id \in Nat /\ f.id \in Nat /\ NewId(e) \in Nat /\ NewId(f) \in Nat
    BY <1>2, <1>3, <1>4 DEF Distinct
  <2>2. e.id = f.id
    BY <1>5, <1>6, <2>1
  <2> QED BY <1>2, <2>2 DEF Distinct
<1>7. \A e \in NewEntries : IsEntry(e)
  BY <1>2 DEF Distinct
<1> QED BY <1>3, <1>4, <1>6, <1>7

\* Lemma: what the application does with the log keeps the ids.
LEMMA ApplicationNumbered ==
  ASSUME IdsInv, ApplicationUsesLog
  PROVE  IdsInv'
<1>1. ASSUME NEW a \in Activities, Log(a) PROVE IdsInv'
  <2> DEFINE new == [id |-> log.nextId, what |-> a, status |-> "pending"]
  <2>1. log' = [entries |-> log.entries \cup {new}, nextId |-> log.nextId + 1] /\ exported' = exported /\ SaveIfAuto
    BY <1>1 DEF Log
  <2>2. IsEntry(new) /\ new.id = log.nextId
    BY DEF IsEntry
  <2> HIDE DEF new
  <2>3. Distinct(log.entries \cup {new}, log.nextId + 1)
    BY <2>2 DEF IdsInv, Numbered, Distinct
  <2>4. Numbered(log')
    BY <2>1, <2>3 DEF Numbered, IsSnapshot
  <2> QED BY <2>1, <2>4, SaveNumbered DEF IdsInv
<1>2. ASSUME NEW e \in log.entries, NEW status \in AppStatuses, UpdateSyncStatus(e, status) PROVE IdsInv'
  BY <1>2, SetStatusNumbered DEF UpdateSyncStatus
<1>3. ASSUME NEW gone, NEW next, Remove(gone, next), next = log.nextId \/ (next = 1 /\ gone = log.entries) PROVE IdsInv'
  <2>1. log' = [entries |-> log.entries \ gone, nextId |-> next] /\ exported' = exported /\ SaveIfAuto
    BY <1>3 DEF Remove
  <2>2. Distinct(log.entries \ gone, next)
    BY <1>3 DEF IdsInv, Numbered, Distinct
  <2>3. Numbered(log')
    BY <2>1, <2>2 DEF Numbered, IsSnapshot
  <2> QED BY <2>1, <2>3, SaveNumbered DEF IdsInv
<1>4. CASE Export
  BY <1>4 DEF Export, IdsInv, Numbered, Distinct
<1>5. CASE Import
  <2> DEFINE new == {[e EXCEPT !.id = NewId(e)] : e \in NewEntries}
             next == log.nextId + Cardinality(NewEntries)
  <2>1. log' = [entries |-> log.entries \cup new, nextId |-> next] /\ exported' = exported /\ SaveIfAuto
    BY <1>5 DEF Import
  <2>2. ASSUME NEW g \in new
        PROVE  IsEntry(g) /\ \E e \in NewEntries : g.id = NewId(e) /\ g = [id |-> NewId(e), what |-> e.what, status |-> e.status]
    <3>1. PICK e \in NewEntries : g = [e EXCEPT !.id = NewId(e)]
      OBVIOUS
    <3>2. g = [id |-> NewId(e), what |-> e.what, status |-> e.status]
      BY <3>1, ImportNumbers DEF IsEntry
    <3> QED BY <3>2 DEF IsEntry
  <2>3. /\ Cardinality(NewEntries) \in Nat /\ log.nextId \in Nat /\ next \in Nat
        /\ \A g \in log.entries : IsEntry(g) /\ g.id \in Nat /\ g.id < log.nextId
        /\ \A g, h \in log.entries : g.id = h.id => g = h
    BY ImportNumbers DEF IdsInv, Numbered, Distinct
  <2>4. /\ \A g \in new : IsEntry(g) /\ g.id \in Nat /\ log.nextId <= g.id /\ g.id < next
        /\ \A g, h \in new : g.id = h.id => g = h
    BY <2>2, ImportNumbers
  <2> HIDE DEF new, next
  <2>5. Distinct(log.entries \cup new, next)
    <3>1. \A g \in log.entries \cup new : IsEntry(g) /\ g.id \in Nat /\ g.id < next
      <4>1. log.nextId <= next
        BY <2>3 DEF next
      <4> QED BY <2>3, <2>4, <4>1
    <3>2. \A g \in log.entries, h \in new : g.id # h.id
      BY <2>3, <2>4
    <3> QED BY <2>3, <2>4, <3>1, <3>2 DEF Distinct
  <2>6. Numbered(log')
    BY <2>1, <2>5 DEF Numbered, IsSnapshot
  <2> QED BY <2>1, <2>6, SaveNumbered DEF IdsInv
<1>6. CASE ForceSave \/ Reload
  BY <1>6 DEF ForceSave, Save, Reload, IdsInv
<1> QED
  BY <1>1, <1>2, <1>3, <1>4, <1>5, <1>6
     DEF ApplicationUsesLog, Delete, Clear, FirstId, ClearAgent, DeleteOlderThan

\* Lemma: so does every step.
LEMMA StepNumbered == IdsInv /\ [Next]_vars => IdsInv'
<1> SUFFICES ASSUME IdsInv, [Next]_vars PROVE IdsInv'
  OBVIOUS
<1>1. CASE ApplicationUsesLog
  BY <1>1, ApplicationNumbered
<1>2. CASE UNCHANGED logVars
  BY <1>2 DEF logVars, IdsInv
<1>3. ASSUME NEW c \in Calls, NEW disputes \in SUBSET call[c], Answered(c, disputes) PROVE IdsInv'
  BY <1>3, SetStatusNumbered DEF Answered
<1>4. CASE PageReload
  BY <1>4 DEF PageReload, Reload, IdsInv
<1> QED
  BY <1>1, <1>2, <1>3, <1>4
     DEF Next, StartSync, StopSync, TimerFires, ForceSync, Sync, SyncFails, vars

\* Theorem: an id stands for one entry and is not handed out again while that entry is
\* there (IdsUnique): after clearing, importing what was exported before, deleting and
\* loading an older copy, for any activities, bounds and refused saves.
THEOREM IdsStayUnique == Spec => []IdsUnique
<1>1. Init => IdsInv
  BY DEF Init, LogInit, IdsInv, Numbered, IsSnapshot, Distinct, Empty
<1>2. IdsInv => IdsUnique
  BY DEF IdsInv, Numbered, Distinct, IdsUnique
<1> QED BY <1>1, <1>2, StepNumbered, PTL DEF Spec
=============================================================================
