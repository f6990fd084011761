-------------------------- MODULE StateStoreProofs --------------------------
(* What the statements of the state store make of a row: the lemmas that    *)
(* the proofs about LaneWorker and IssueWorker share.                       *)
EXTENDS StateStore, TLAPS

\* The rows the store methods write are well typed and say what they should.
LEMMA TaskRows ==
  ASSUME NEW task \in TaskRow, NEW status \in TaskStatus, NEW wait \in Nat
  PROVE  /\ NoTask \in TaskRow
         /\ QueuedTask(wait) \in TaskRow /\ QueuedTask(wait).status = "queued"
         /\ QueuedTask(wait).wait = wait /\ QueuedTask(wait).age = 0
         /\ ClaimedTask(task) \in TaskRow /\ ClaimedTask(task).status = "claimed"
         /\ ClaimedTask(task).wait = task.wait /\ ClaimedTask(task).age = 0
         /\ CompletedTask(task, status) \in TaskRow
         /\ CompletedTask(task, status).status = status
         /\ CompletedTask(task, status).wait = task.wait
         /\ CompletedTask(task, status).age = 0
         /\ TouchedTask(task) \in TaskRow /\ TouchedTask(task).status = task.status
         /\ TouchedTask(task).wait = task.wait /\ TouchedTask(task).age = 0
         /\ ReconciliationNeededTask(task) \in TaskRow
         /\ ReconciliationNeededTask(task).status = "reconciliation_needed"
         /\ ReconciliationNeededTask(task).wait = task.wait
         /\ ReconciliationNeededTask(task).age = 0
<1>1. NoTask \in TaskRow /\ QueuedTask(wait) \in TaskRow
      /\ QueuedTask(wait).status = "queued"
      /\ QueuedTask(wait).wait = wait /\ QueuedTask(wait).age = 0
  BY StateStoreAssumption DEF NoTask, QueuedTask, TaskRow, TaskStatus
<1>2. ASSUME NEW next \in TaskStatus
      PROVE  /\ WithStatus(task, next) \in TaskRow /\ WithStatus(task, next).status = next
             /\ WithStatus(task, next).wait = task.wait /\ WithStatus(task, next).age = 0
  <2>1. 0 \in 0..StaleAfter
    BY StateStoreAssumption
  <2>2. ASSUME NEW age \in 0..StaleAfter, NEW row, row = [task EXCEPT !.status = next, !.age = age]
        PROVE  row \in TaskRow /\ row.status = next /\ row.wait = task.wait /\ row.age = age
    BY <2>2 DEF TaskRow
  <2> QED
    BY <2>1, <2>2 DEF WithStatus
<1>3. {"claimed", "reconciliation_needed", task.status} \subseteq TaskStatus
  BY DEF TaskRow, TaskStatus
<1> QED
  BY <1>1, <1>2, <1>3
  DEF ClaimedTask, CompletedTask, TouchedTask, ReconciliationNeededTask

\* A minute changes no status and only shortens waits; it ages a claim.
LEMMA TaskTick ==
  ASSUME NEW task \in TaskRow
  PROVE  /\ TaskAfterTick(task) \in TaskRow
         /\ TaskAfterTick(task).status = task.status
         /\ TaskAfterTick(task).wait = IF task.wait > 0 THEN task.wait - 1 ELSE 0
         /\ task.status # "claimed" => TaskAfterTick(task).age = 0
<1> DEFINE wait == IF task.wait > 0 THEN task.wait - 1 ELSE 0
           age == IF task.status = "claimed" THEN Min2(task.age + 1, StaleAfter) ELSE 0
<1>1. task.status \in TaskStatus /\ task.wait \in Nat /\ task.age \in 0..StaleAfter
  BY DEF TaskRow
<1>2. wait \in Nat /\ age \in 0..StaleAfter
  BY <1>1, StateStoreAssumption DEF Min2
<1>3. TaskAfterTick(task) = [task EXCEPT !.wait = wait, !.age = age]
  BY DEF TaskAfterTick
<1> HIDE DEF wait, age
<1>4. /\ TaskAfterTick(task) \in TaskRow
      /\ TaskAfterTick(task).status = task.status
      /\ TaskAfterTick(task).wait = wait
      /\ TaskAfterTick(task).age = age
  BY <1>1, <1>2, <1>3 DEF TaskRow
<1> QED
  BY <1>4 DEF wait, age

\* Leases: acquiring and renewing give the whole time to live.
LEMMA LeaseRows ==
  ASSUME NEW row \in LeaseRow, NEW p \in Procs, NEW ttl \in Nat
  PROVE  /\ NoLease \in LeaseRow
         /\ AcquiredLease(p, ttl) \in LeaseRow
         /\ AcquiredLease(p, ttl).owner = p /\ AcquiredLease(p, ttl).left = ttl
         /\ RenewedLease(row, ttl) \in LeaseRow
         /\ RenewedLease(row, ttl).owner = row.owner
         /\ RenewedLease(row, ttl).left = ttl
         /\ LeaseAfterTick(row) \in LeaseRow
         /\ LeaseAfterTick(row).owner = row.owner
         /\ LeaseAfterTick(row).left = IF row.left > 0 THEN row.left - 1 ELSE 0
BY StateStoreAssumption
DEF NoLease, AcquiredLease, RenewedLease, LeaseAfterTick, LeaseRow

\* Results of any status and age are well typed.
LEMMA ResultRows ==
  ASSUME NEW row \in ResultRow, NEW status \in ResultStatus, NEW backoff \in Nat
  PROVE  /\ NoResult \in ResultRow
         /\ Result(status, backoff) \in ResultRow
         /\ ResultAfterTick(row) \in ResultRow
         /\ WaitAfterLatestFailure(row) \in Nat
BY DEF NoResult, Result, ResultAfterTick, WaitAfterLatestFailure, ResultRow, ResultStatus
=============================================================================
