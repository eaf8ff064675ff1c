-------------------------- MODULE StatusPersistence --------------------------
(***************************************************************************)
(* createStatusPersistence (minecraft/statusPersistence.ts) as register    *)
(* of ClientManager uses it: the status column of one account follows the  *)
(* supervisor's status through a chain of writes that skips repetitions.   *)
(* The process may crash between any two steps; loadAll then writes every  *)
(* column OFFLINE before it registers the supervisors.                     *)
(*                                                                         *)
(* The database is external: a write ends in success, in a failure that    *)
(* left the row alone, or in a failure reported although the row changed.  *)
(***************************************************************************)
EXTENDS Naturals, Sequences

CONSTANTS
  Statuses,   \* ClientStatus
  Offline,    \* the status of a supervisor newly registered
  Attempting, \* the statuses of an attempt, in which the sign-in is reported
  Undefined,  \* JavaScript's undefined
  MaxChanges, \* bound: changes of the supervisor's status
  MaxFaults   \* bound: failed writes and crashes

ASSUME StatusPersistenceAssumption ==
  /\ Offline \in Statuses
  /\ Attempting \subseteq Statuses
  /\ Undefined \notin Statuses
  /\ MaxChanges \in Nat
  /\ MaxFaults \in Nat

VARIABLES
  up,             \* the process runs and has registered the supervisor
  status,         \* the supervisor's status
  column,         \* the account's status in the database
  lastRequested,  \* the status last handed to the chain, or Undefined
  queue,          \* writes of the chain that have not ended, oldest first
  changes,        \* changes of the status so far
  faults          \* faults so far

vars == <<up, status, column, lastRequested, queue, changes, faults>>

TypeOK ==
  /\ up \in BOOLEAN
  /\ status \in Statuses
  /\ column \in Statuses
  /\ lastRequested \in Statuses \union {Undefined}
  /\ queue \in Seq(Statuses)
  /\ changes \in 0..MaxChanges
  /\ faults \in 0..MaxFaults

Init ==
  /\ up = FALSE
  /\ status = Offline
  /\ column \in Statuses
  /\ lastRequested = Undefined
  /\ queue = <<>>
  /\ changes = 0
  /\ faults = 0

-----------------------------------------------------------------------------
\* Faulty: what is chained is a write of the status requested before.
PersistUndefined(s) ==
  IF s = lastRequested
  THEN UNCHANGED <<lastRequested, queue>>
  ELSE /\ lastRequested' = s
       /\ queue' = Append(queue, lastRequested)

\* The function createStatusPersistence returns.
Persist(s) ==
  IF s = lastRequested
  THEN UNCHANGED <<lastRequested, queue>>
  ELSE /\ lastRequested' = s
       /\ queue' = Append(queue, s)

\* setStatus of the supervisor emits a snapshot if the status changes.
StatusChanges ==
  /\ up
  /\ changes < MaxChanges
  /\ changes' = changes + 1
  /\ status' \in Statuses \ {status}
  /\ Persist(status')
  /\ UNCHANGED <<up, column, faults>>

\* A device code or a sign-in is reported in a snapshot with the same status.
SnapshotRepeats ==
  /\ up
  /\ status \in Attempting
  /\ Persist(status)
  /\ UNCHANGED <<up, status, column, changes, faults>>

\* The oldest write succeeds and lets the next one begin.
WriteSucceeds ==
  /\ queue # <<>>
  /\ column' = Head(queue)
  /\ queue' = Tail(queue)
  /\ UNCHANGED <<up, status, lastRequested, changes, faults>>

\* Faulty: a failure is not caught, so that the writes behind it are skipped.
WriteFailsBreakingChain ==
  /\ queue # <<>>
  /\ faults < MaxFaults
  /\ faults' = faults + 1
  /\ column' \in {column, Head(queue)}
  /\ queue' = <<>>
  /\ lastRequested' = IF lastRequested = Head(queue) THEN Undefined ELSE lastRequested
  /\ UNCHANGED <<up, status, changes>>

\* The oldest write is reported as failed.
WriteFails ==
  /\ queue # <<>>
  /\ faults < MaxFaults
  /\ faults' = faults + 1
  /\ column' \in {column, Head(queue)}
  /\ queue' = Tail(queue)
  /\ lastRequested' = IF lastRequested = Head(queue) THEN Undefined ELSE lastRequested
  /\ UNCHANGED <<up, status, changes>>

-----------------------------------------------------------------------------
\* The write under way when the process dies may have been done or not.
Crash ==
  /\ up
  /\ faults < MaxFaults
  /\ faults' = faults + 1
  /\ up' = FALSE
  /\ status' = Offline
  /\ column' \in {column} \union {queue[i] : i \in DOMAIN queue \intersect {1}}
  /\ queue' = <<>>
  /\ lastRequested' = Undefined
  /\ UNCHANGED changes

\* loadAll and register: the column and the chain both begin with OFFLINE.
LoadAll ==
  /\ ~up
  /\ up' = TRUE
  /\ column' = Offline
  /\ lastRequested' = Offline
  /\ UNCHANGED <<status, queue, changes, faults>>

Next ==
  \/ StatusChanges
  \/ SnapshotRepeats
  \/ WriteSucceeds \/ WriteFails
  \/ Crash \/ LoadAll

Spec == Init /\ [][Next]_vars

\* The database answers and the backend is started again. Nothing makes the
\* status change or be repeated.
FairSpec ==
  /\ Spec
  /\ WF_vars(WriteSucceeds \/ WriteFails)
  /\ WF_vars(LoadAll)

-----------------------------------------------------------------------------
(***************************************************************************)
(* What must hold.                                                         *)
(***************************************************************************)

\* Between writes the column is the supervisor's status, unless the last write
\* failed and the chain knows of it; while there are writes left, the last of
\* them is for that status. Repetitions skipped, slow writes, failures of older
\* writes of the same status and restarts do not change that.
ChainEndsInStatus ==
  lastRequested # Undefined =>
    /\ lastRequested = status
    /\ IF queue = <<>> THEN column = status ELSE queue[Len(queue)] = status

\* The chain of a process that runs always ends in the status. And whenever the status rests, the
\* column comes to rest at it, or the chain is left knowing that it did not and
\* writes again at the next snapshot: a write that fails does not hold up those
\* behind it.
ColumnFollowsStatus ==
  /\ [](up => ChainEndsInStatus)
  /\ <>[]up => <>[](lastRequested = Undefined \/ column = status)
=============================================================================
