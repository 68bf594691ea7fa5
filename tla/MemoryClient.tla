---------------------------- MODULE MemoryClient ----------------------------
(***************************************************************************)
(* MemoryClient: sends the pending entries of an ActivityLog to the memory *)
(* service and marks them when it is answered.                             *)
(*                                                                         *)
(* sync() reads what is pending, awaits the service and then works on the  *)
(* log as it is by that time, through the ids it read before.  The timer,  *)
(* forceSync and the listener for "online" start one each, whether or not  *)
(* others are running.                                                     *)
(***************************************************************************)
EXTENDS ActivityLog

CONSTANTS
  Calls,      \* bound on syncs that overlap
  AutoSync

ASSUME ClientAssumption == AutoSync \in BOOLEAN

VARIABLES
  timer,      \* syncTimer is set
  call,       \* Calls -> the entries a sync waits for an answer to; {}: it does not run
  \* History, read by no action:
  confirmed   \* activities the client knows the service has

clientVars == <<timer, call, confirmed>>
vars == <<logVars, clientVars>>

TypeOK ==
  /\ LogTypeOK
  /\ timer \in BOOLEAN
  /\ call \in [Calls -> SUBSET Entry]
  /\ confirmed \in SUBSET Activities

Init ==
  /\ LogInit
  /\ timer = AutoSync
  /\ call = [c \in Calls |-> {}]
  /\ confirmed = {}

-----------------------------------------------------------------------------
StartSync ==
  /\ timer' = TRUE
  /\ UNCHANGED <<logVars, call, confirmed>>

\* stopSync, disconnect and destroy: a sync that runs goes on.
StopSync ==
  /\ timer' = FALSE
  /\ UNCHANGED <<logVars, call, confirmed>>

\* Mutant: everything is sent.
AnyEntry == log.entries

Unsent == Pending

\* sync() up to its await; with nothing to send it returns.
Sync(c) ==
  /\ call[c] = {}
  /\ call' = [call EXCEPT ![c] = Unsent]
  /\ UNCHANGED <<logVars, timer, confirmed>>

TimerFires(c) == timer /\ Sync(c)

\* forceSync, and the browser coming online.
ForceSync(c) == Sync(c)

\* Mutant: the filter is the wrong way round.
TakenDisputed(c, disputes) == disputes

Taken(c, disputes) == call[c] \ disputes

\* The answer, with conflicts for some of the entries, whose status stays.
Answered(c, disputes) ==
  /\ call[c] # {} /\ disputes \subseteq call[c]
  /\ SetStatus({e.id : e \in Taken(c, disputes)}, "synced")
  /\ call' = [call EXCEPT ![c] = {}]
  /\ confirmed' = confirmed \cup {e.what : e \in call[c] \ disputes}
  /\ UNCHANGED <<revived, timer>>

\* No answer, an error or a timeout, whatever the service has done.
SyncFails(c) ==
  /\ call[c] # {}
  /\ call' = [call EXCEPT ![c] = {}]
  /\ UNCHANGED <<logVars, timer, confirmed>>

\* The page is loaded again: syncs that run are gone, the log is loaded.
PageReload ==
  /\ Reload
  /\ call' = [c \in Calls |-> {}]
  /\ timer' = AutoSync
  /\ UNCHANGED confirmed

Next ==
  \/ ApplicationUsesLog /\ UNCHANGED clientVars
  \/ StartSync \/ StopSync
  \/ \E c \in Calls : TimerFires(c) \/ ForceSync(c) \/ SyncFails(c)
  \/ \E c \in Calls : \E disputes \in SUBSET call[c] : Answered(c, disputes)
  \/ PageReload

Spec == Init /\ [][Next]_vars

\* The interval goes on while it is set, and a service that is asked again and
\* again answers in the end, without a conflict.
FairSpec ==
  /\ Spec
  /\ WF_vars(\E c \in Calls : TimerFires(c))
  /\ SF_vars(\E c \in Calls : Answered(c, {}))

-----------------------------------------------------------------------------
(* Properties *)

\* Activities one of whose ids has stood for another activity too.
Mixed == {p[2] : p \in {q \in issued : \E r \in issued : r[1] = q[1] /\ r[2] # q[2]}}

\* An entry is marked as synced only if the service has that activity, whatever
\* was deleted, imported or reloaded while a sync was waiting, unless an id was
\* given to two activities.
SyncedWasSent ==
  \A e \in log.entries : e.status = "synced" => e.what \in confirmed \cup Mixed

\* What the client knows to be there is not sent again, unless the log has gone
\* back to an older copy.
ConfirmedNotResent ==
  [][\A c \in Calls :
       call[c] = {} /\ ~revived => \A e \in call'[c] : e.what \notin confirmed]_vars

\* No activity stays pending for good while the timer is set, though syncs fail,
\* overlap and are cut off by reloads, and saves are refused.
EveryActivitySynced ==
  \A a \in Activities :
    a \in Logged ~> ~timer \/ \A e \in Pending : e.what # a

\* docs/STATE_MACHINES.md:174 says of synced: "Successfully synced with ExEx".
SyncedIsSynced == \A e \in log.entries : e.status = "synced" => e.what \in confirmed

\* docs/STATE_MACHINES.md:175 says of conflict: "Local and remote versions differ".
ConflictsAreMarked ==
  [][\A c \in Calls : \A disputes \in SUBSET call[c] :
       disputes # call[c] /\ Answered(c, disputes) =>
         \A e \in disputes : [e EXCEPT !.status = "pending"] \notin log'.entries]_vars
=============================================================================
