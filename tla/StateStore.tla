---------------------------- MODULE StateStore ----------------------------
(***************************************************************************)
(* The coordination rows of the SQLite state store                         *)
(* (internal/state/store.go): leases, worker tasks and worker results, and *)
(* what the store methods test and write in one row.  A method that is one *)
(* SQL statement or one transaction over the single connection is one      *)
(* atomic step of the modules that EXTEND this one; a method that is more  *)
(* (marking stale claims) is several steps there.                          *)
(*                                                                         *)
(* The code stores instants and compares them with the present one.  Rows  *)
(* here hold the distance to the present instead (time left on a lease,    *)
(* time until a task is available, age of a claim), because nothing else   *)
(* of an instant is ever tested.  The unit is one minute, the interval at  *)
(* which a running worker renews; ages stop at StaleAfter, beyond which    *)
(* every test gives the same answer.                                       *)
(***************************************************************************)
EXTENDS Naturals

CONSTANTS
  Procs,        \* process identities (host:pid, continuous.go daemonProcessID)
  NoProc,       \* the owner of a lease nobody holds
  StaleAfter    \* staleWorkerTaskAfter: age at which a claim counts as stale

ASSUME StateStoreAssumption ==
  /\ NoProc \notin Procs
  /\ StaleAfter \in Nat \ {0}

Min2(a, b) == IF a <= b THEN a ELSE b

----------------------------------------------------------------------------
(* Leases.  A missing row and a released row answer every method alike, so *)
(* both are NoLease.                                                       *)

LeaseRow == [owner : Procs \cup {NoProc}, left : Nat]

NoLease == [owner |-> NoProc, left |-> 0]

\* Faulty: off by one, free from the last minute on.
LeaseHeldTooShort(lease) == lease.owner # NoProc /\ lease.left > 1

\* Not released and expires_at after now: AcquireLease returns false on it.
LeaseHeld(lease) == lease.owner # NoProc /\ lease.left > 0

\* What AcquireLease writes when it inserts or takes over a row.
AcquiredLease(p, ttl) == [owner |-> p, left |-> ttl]

\* RenewLease needs an unreleased row, whoever owns it and however old it is.
LeaseRenewable(lease) == lease.owner # NoProc

RenewedLease(lease, ttl) == [lease EXCEPT !.left = ttl]

LeaseAfterTick(lease) == [lease EXCEPT !.left = IF @ > 0 THEN @ - 1 ELSE 0]

----------------------------------------------------------------------------
(* Worker tasks.                                                           *)

TaskStatus ==
  {"absent", "queued", "claimed", "completed", "failed", "reconciliation_needed"}

\* wait: time until available_at.  age: time since updated_at, kept only for
\* a claimed row, the one status whose age is ever tested.
TaskRow == [status : TaskStatus, wait : Nat, age : 0..StaleAfter]

NoTask == [status |-> "absent", wait |-> 0, age |-> 0]

\* UpsertWorkerTask with status queued: it replaces whatever row is there.
QueuedTask(wait) == [status |-> "queued", wait |-> wait, age |-> 0]

TaskClaimable(task) == task.status = "queued" /\ task.wait = 0

\* Every update of a row also sets updated_at.
WithStatus(task, status) == [task EXCEPT !.status = status, !.age = 0]

ClaimedTask(task) == WithStatus(task, "claimed")

\* CompleteWorkerTask and TouchClaimedWorkerTask test the status alone.
TaskClaimed(task) == task.status = "claimed"

CompletedTask(task, status) == WithStatus(task, status)

TouchedTask(task) == WithStatus(task, task.status)

\* The row MarkStaleClaimedWorkerTasksReconciliationNeeded selects.
StaleClaim(task) == task.status = "claimed" /\ task.age >= StaleAfter

\* Faulty: a missing lease is no evidence.
LeaseRecoverable(lease, ownerIsFresh) ==
  lease.owner # NoProc /\ ~LeaseHeld(lease) /\ ~ownerIsFresh

\* claimedWorkerTaskIsRecoverable, of the lease the row names: missing or
\* released, or expired while its owner's last heartbeat is stale too.
ClaimRecoverable(lease, ownerIsFresh) ==
  \/ lease.owner = NoProc
  \/ ~LeaseHeld(lease) /\ ~ownerIsFresh

ReconciliationNeededTask(task) == WithStatus(task, "reconciliation_needed")

TaskRepairable(task) == task.status = "reconciliation_needed"

RepairedTask == QueuedTask(0)

TaskAfterTick(task) ==
  [task EXCEPT !.wait = IF @ > 0 THEN @ - 1 ELSE 0,
               !.age = IF task.status = "claimed" THEN Min2(@ + 1, StaleAfter) ELSE 0]

\* Faulty: active tasks only.
BlocksWhileActive(status) == status \in {"queued", "claimed"}

\* workertask.BlocksDispatch: statuses an issue task is not enqueued over.
BlocksDispatch(status) == status \in {"queued", "claimed", "reconciliation_needed"}

----------------------------------------------------------------------------
(* Worker results: the latest outcome of a task key.                       *)

ResultStatus == {"none", "completed", "failed", "reconciliation_needed"}

\* cool: how much of the role's retry backoff is left since finished_at.
ResultRow == [status : ResultStatus, cool : Nat]

NoResult == [status |-> "none", cool |-> 0]

Result(status, backoff) ==
  [status |-> status, cool |-> IF status = "failed" THEN backoff ELSE 0]

ResultAfterTick(result) == [result EXCEPT !.cool = IF @ > 0 THEN @ - 1 ELSE 0]

\* workertask.AvailableAtAfterLatestFailure, as a wait from now.
WaitAfterLatestFailure(result) ==
  IF result.status = "failed" THEN result.cool ELSE 0
============================================================================
