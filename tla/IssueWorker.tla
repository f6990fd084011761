---------------------------- MODULE IssueWorker ----------------------------
(***************************************************************************)
(* Dispatch of issues (implementation_worker_process.go, run_one.go): the  *)
(* scheduler lane queues a row implementation:<issue>:1 for a runnable     *)
(* issue; implementers (the implementation lane, or an `am worker          *)
(* implementation`, which queues rows itself when it finds none) claim     *)
(* such rows one by one, take each issue's run lock, run the batch in      *)
(* parallel and complete the rows.                                         *)
(*                                                                         *)
(* A row names a lease nobody takes, and nothing touches a claimed row, so *)
(* to stale recovery a claim is abandoned as soon as it is old.  Rows of   *)
(* the implementers' own cycles (continuous:implementation,                *)
(* process:implementation) have the same role as the issue rows, and are   *)
(* claimed like them when queued.                                          *)
(*                                                                         *)
(* Around a body stands the cycle of LaneWorker, of which this module      *)
(* keeps what LaneContract says: one body of a lane at a time.  The run    *)
(* lock is taken and given back in one step, as LockContract has it and    *)
(* RunLock's operations implement it.  A minute passes only while workers  *)
(* are idle or run attempts.                                               *)
(***************************************************************************)
EXTENDS StateStore, FiniteSets

CONSTANTS
  Issues,
  Schedulers,      \* scheduler lanes
  Implementers,    \* implementation lanes and `am worker implementation`
  SelfScheduling,  \* the implementers that queue a row when they find none
  ProcOf,          \* the process each of them belongs to
  LaneOf,          \* the lane each of them is a body of
  NoPick,          \* the choice of a worker that has none
  Capacity,        \* how many claims a batch of each implementer may have
  Backoff,         \* RetryBackoff(implementation)
  MaxCrashes       \* bound on crashes

Workers == Schedulers \cup Implementers

ASSUME IssueWorkerAssumption ==
  /\ Schedulers \cap Implementers = {}
  /\ SelfScheduling \subseteq Implementers
  /\ ProcOf \in [Workers -> Procs]
  /\ NoPick \notin Issues \cup Implementers
  /\ Issues \cap Implementers = {}
  /\ Capacity \in [Implementers -> Nat \ {0}]
  /\ Backoff \in Nat
  /\ MaxCrashes \in Nat

VARIABLES
  tasks,     \* worker_tasks row of each issue
  results,   \* worker_results row of each issue
  own,       \* implementers whose own cycle's row is queued
  lock,      \* who holds each issue's run lock, NoPick if nobody
  found,     \* stale claims that some cycle's recovery has yet to mark
  dead,      \* processes that were killed
  pc,        \* where each worker is
  pick,      \* the row it schedules, prepares or completes
  avail,     \* the wait it will queue the row with
  att,       \* each implementer's attempts
  bad,       \* its attempts that ended with an error
  crashes    \* crashes so far

vars == <<tasks, results, own, lock, found, dead, pc, pick, avail, att, bad, crashes>>

Steps == {"idle", "own", "next", "select", "read", "backoff", "upsert", "take",
          "prepare", "lock", "fail", "skip", "failed", "skipped", "skip_failed",
          "release", "exec"}

\* An attempt is held (claimed, its run lock taken, and run once the batch is),
\* and then winds down: unlock, complete the row, report.
AttemptSteps == {"none", "held", "unlock", "complete", "report"}

TypeOK ==
  /\ tasks \in [Issues -> TaskRow]
  /\ results \in [Issues -> ResultRow]
  /\ own \in SUBSET Implementers
  /\ lock \in [Issues -> Implementers \cup {NoPick}]
  /\ found \in SUBSET Issues
  /\ dead \in SUBSET Procs
  /\ pc \in [Workers -> Steps]
  /\ pick \in [Workers -> Issues \cup Implementers \cup {NoPick}]
  /\ avail \in [Workers -> Nat]
  /\ att \in [Implementers -> [Issues -> AttemptSteps]]
  /\ bad \in [Implementers -> SUBSET Issues]
  /\ crashes \in 0..MaxCrashes

Init ==
  /\ tasks = [i \in Issues |-> NoTask]
  /\ results = [i \in Issues |-> NoResult]
  /\ own = {}
  /\ lock = [i \in Issues |-> NoPick]
  /\ found = {}
  /\ dead = {}
  /\ pc = [w \in Workers |-> "idle"]
  /\ pick = [w \in Workers |-> NoPick]
  /\ avail = [w \in Workers |-> 0]
  /\ att = [w \in Implementers |-> [i \in Issues |-> "none"]]
  /\ bad = [w \in Implementers |-> {}]
  /\ crashes = 0

----------------------------------------------------------------------------
(* Helpers.                                                                *)

Live(w) == ProcOf[w] \notin dead

Goto(w, step) == pc' = [pc EXCEPT ![w] = step]

Choose(w, row) == pick' = [pick EXCEPT ![w] = row]

Move(w, i, step) == att' = [att EXCEPT ![w][i] = step]

SetTask(i, row) == tasks' = [tasks EXCEPT ![i] = row]

Batch(w) == {i \in Issues : att[w][i] # "none"}

\* Faulty: one body of a lane in each process.
LaneIsFreeHere(w) ==
  \A v \in Workers \ {w} : LaneOf[v] = LaneOf[w] /\ ProcOf[v] = ProcOf[w] => pc[v] = "idle"

\* No other live worker is in a body of the same lane (LaneContract).
LaneIsFree(w) ==
  \A v \in Workers \ {w} : LaneOf[v] = LaneOf[w] /\ Live(v) => pc[v] = "idle"

\* No live worker is between two store calls, no recovery between its two.
Settled ==
  /\ found = {}
  /\ \A w \in Workers : Live(w) => pc[w] \in {"idle", "exec"}
  /\ \A w \in Implementers, i \in Issues : Live(w) => att[w][i] \in {"none", "held"}

\* The batch is what it has by now.
EndOfBatch(w) == Goto(w, "exec")

\* The loop goes on until the batch, of which the attempt at hand becomes a
\* part, has reached the capacity.
AfterClaim(w) ==
  /\ Goto(w, IF Cardinality(Batch(w)) + 1 < Capacity[w] THEN "next" ELSE "exec")
  /\ Choose(w, NoPick)

----------------------------------------------------------------------------
(* scheduleNextImplementationWorkerTask, by a scheduler lane, or by an     *)
(* implementer that found nothing queued.                                  *)

\* Candidate selection: the issue may be any whose row does not block it and
\* whose run lease is not active; what Linear and the code host say is open.
Runnable(i) == ~BlocksDispatch(tasks[i].status) /\ lock[i] = NoPick

MayPick(w) ==
  \/ pc[w] = "select"
  \/ w \in Schedulers /\ pc[w] = "idle" /\ LaneIsFree(w)

NothingScheduled(w) ==
  IF w \in Schedulers THEN Goto(w, "idle") ELSE EndOfBatch(w)

Select(w, i) ==
  /\ MayPick(w)
  /\ Runnable(i)
  /\ Choose(w, i)
  /\ Goto(w, "read")
  /\ UNCHANGED <<tasks, results, own, lock, found, dead, avail, att, bad, crashes>>

SelectNone(w) ==
  /\ pc[w] = "select"
  /\ NothingScheduled(w)
  /\ UNCHANGED <<tasks, results, own, lock, found, dead, pick, avail, att, bad, crashes>>

\* enqueueImplementationWorkerTask looks at the row again.
ReadRow(w) ==
  /\ pc[w] = "read"
  /\ IF BlocksDispatch(tasks[pick[w]].status)
       THEN NothingScheduled(w) /\ Choose(w, NoPick)
       ELSE Goto(w, "backoff") /\ UNCHANGED pick
  /\ UNCHANGED <<tasks, results, own, lock, found, dead, avail, att, bad, crashes>>

ReadBackoff(w) ==
  /\ pc[w] = "backoff"
  /\ avail' = [avail EXCEPT ![w] = WaitAfterLatestFailure(results[pick[w]])]
  /\ Goto(w, "upsert")
  /\ UNCHANGED <<tasks, results, own, lock, found, dead, pick, att, bad, crashes>>

\* It queues the row whatever has become of it since.
Upsert(w) ==
  /\ pc[w] = "upsert"
  /\ SetTask(pick[w], QueuedTask(avail[w]))
  /\ avail' = [avail EXCEPT ![w] = 0]
  /\ IF w \in Schedulers THEN Goto(w, "idle") /\ Choose(w, NoPick)
                         ELSE Goto(w, "take") /\ UNCHANGED pick
  /\ UNCHANGED <<results, own, lock, found, dead, att, bad, crashes>>

\* An implementer claims what it scheduled, unless it is cooling down or gone.
Take(w) ==
  LET i == pick[w]
  IN /\ pc[w] = "take"
     /\ IF TaskClaimable(tasks[i])
          THEN SetTask(i, ClaimedTask(tasks[i])) /\ Goto(w, "prepare") /\ UNCHANGED pick
          ELSE EndOfBatch(w) /\ Choose(w, NoPick) /\ UNCHANGED tasks
     /\ UNCHANGED <<results, own, lock, found, dead, avail, att, bad, crashes>>

----------------------------------------------------------------------------
(* The implementer's own cycle, and its loop over claims                   *)
(* (runClaimedAttemptBatchWithClaimerContext).                             *)

\* The cycle queues its row, unless somebody has claimed it.
Open(w) ==
  /\ pc[w] = "idle" /\ LaneIsFree(w)
  /\ \A v \in Implementers : pick[v] # w
  /\ own' = own \cup {w}
  /\ Goto(w, "own")
  /\ UNCHANGED <<tasks, results, lock, found, dead, pick, avail, att, bad, crashes>>

\* The body begins if the row is still queued; a row that is cooling down is
\* left as it is.
ClaimOwn(w) ==
  /\ pc[w] = "own"
  /\ \/ w \in own /\ own' = own \ {w} /\ Goto(w, "next")
     \/ Goto(w, "idle") /\ UNCHANGED own
  /\ UNCHANGED <<tasks, results, lock, found, dead, pick, avail, att, bad, crashes>>

ClaimNext(w, i) ==
  /\ pc[w] = "next"
  /\ TaskClaimable(tasks[i])
  /\ SetTask(i, ClaimedTask(tasks[i]))
  /\ Choose(w, i)
  /\ Goto(w, "prepare")
  /\ UNCHANGED <<results, own, lock, found, dead, avail, att, bad, crashes>>

\* ClaimNextWorkerTask asks for the role only: another implementer's own row
\* will do.  It has no issue, so its claim fails.
ClaimOwnRowOf(w, v) ==
  /\ pc[w] = "next"
  /\ v \in own
  /\ own' = own \ {v}
  /\ Choose(w, v)
  /\ Goto(w, "fail")
  /\ UNCHANGED <<tasks, results, lock, found, dead, avail, att, bad, crashes>>

ClaimNothing(w) ==
  /\ pc[w] = "next"
  /\ \A i \in Issues : ~TaskClaimable(tasks[i])
  /\ IF w \in SelfScheduling THEN Goto(w, "select") ELSE EndOfBatch(w)
  /\ UNCHANGED <<tasks, results, own, lock, found, dead, pick, avail, att, bad, crashes>>

----------------------------------------------------------------------------
(* prepareClaimedImplementationWorkerTask.                                 *)

\* It goes on, or finds the issue not runnable, or a lookup or preflight fails.
Prepare(w) ==
  /\ pc[w] = "prepare"
  /\ \/ lock[pick[w]] = NoPick /\ Goto(w, "lock")
     \/ Goto(w, "skip")
     \/ Goto(w, "fail")
  /\ UNCHANGED <<tasks, results, own, lock, found, dead, pick, avail, att, bad, crashes>>

\* Faulty: goes on whether or not the run lock was acquired.
LockOrNot(w) ==
  LET i == pick[w]
  IN /\ pc[w] = "lock"
     /\ lock' = [lock EXCEPT ![i] = w]
     /\ Move(w, i, "held")
     /\ AfterClaim(w)
     /\ UNCHANGED <<tasks, results, own, found, dead, avail, bad, crashes>>

\* acquireRunLockWithStateContext, or run_lock_unavailable.
AcquireLock(w) ==
  LET i == pick[w]
  IN /\ pc[w] = "lock"
     /\ IF lock[i] = NoPick \/ ~Live(lock[i])
          THEN lock' = [lock EXCEPT ![i] = w] /\ Move(w, i, "held") /\ AfterClaim(w)
          ELSE Goto(w, "fail") /\ UNCHANGED <<lock, att, pick>>
     /\ UNCHANGED <<tasks, results, own, found, dead, avail, bad, crashes>>

\* completeClaimedImplementationWorkerTask of a claim that comes to nothing:
\* CompleteWorkerTask, which fails if the row is not claimed any more.
Complete(w) ==
  LET i == pick[w]
      status == IF pc[w] = "fail" THEN "failed" ELSE "completed"
      claimed == i \in Implementers \/ TaskClaimed(tasks[i])
  IN /\ pc[w] \in {"fail", "skip"}
     /\ IF i \in Issues /\ claimed THEN SetTask(i, CompletedTask(tasks[i], status))
                                   ELSE UNCHANGED tasks
     /\ Goto(w, CASE pc[w] = "fail"            -> "failed"
                  [] pc[w] = "skip" /\ claimed -> "skipped"
                  [] OTHER                     -> "skip_failed")
     /\ UNCHANGED <<results, own, lock, found, dead, pick, avail, att, bad, crashes>>

\* UpsertWorkerResult.  An error ends the batch with nothing run; a claim that
\* was merely not runnable ends the loop.
Report(w) ==
  LET i == pick[w]
      status == IF pc[w] = "failed" THEN "failed" ELSE "completed"
  IN /\ pc[w] \in {"failed", "skipped", "skip_failed"}
     /\ results' = IF i \in Issues THEN [results EXCEPT ![i] = Result(status, Backoff)]
                                   ELSE results
     /\ IF pc[w] = "skipped" THEN EndOfBatch(w) ELSE Goto(w, "release")
     /\ Choose(w, NoPick)
     /\ UNCHANGED <<tasks, own, lock, found, dead, avail, att, bad, crashes>>

\* Faulty: the claims of a batch that failed keep their run locks.
DropClaim(w, i) ==
  /\ pc[w] = "release"
  /\ att[w][i] = "held"
  /\ Move(w, i, "none")
  /\ UNCHANGED <<tasks, results, own, lock, found, dead, pc, pick, avail, bad, crashes>>

\* releaseClaims gives back the run locks; the claimed rows stay claimed.
ReleaseClaim(w, i) ==
  /\ pc[w] = "release"
  /\ att[w][i] = "held"
  /\ lock' = [lock EXCEPT ![i] = NoPick]
  /\ Move(w, i, "none")
  /\ UNCHANGED <<tasks, results, own, found, dead, pc, pick, avail, bad, crashes>>

----------------------------------------------------------------------------
(* executeClaimedRunAttempt, for every claim of the batch at once.  Its    *)
(* deferred calls release the run lock first and complete the row then.    *)

AttemptEnds(w, i, fails) ==
  /\ pc[w] = "exec" /\ att[w][i] = "held"
  /\ Move(w, i, "unlock")
  /\ bad' = IF fails THEN [bad EXCEPT ![w] = @ \cup {i}] ELSE bad
  /\ UNCHANGED <<tasks, results, own, lock, found, dead, pc, pick, avail, crashes>>

Unlock(w, i) ==
  /\ att[w][i] = "unlock"
  /\ lock' = [lock EXCEPT ![i] = NoPick]
  /\ Move(w, i, "complete")
  /\ UNCHANGED <<tasks, results, own, found, dead, pc, pick, avail, bad, crashes>>

\* Faulty: the run's outcome instead of the row's status.
AttemptOutcome(w, i) == IF i \in bad[w] THEN "failed" ELSE "handed_off"

AttemptStatus(w, i) == IF i \in bad[w] THEN "failed" ELSE "completed"

CompleteAttempt(w, i) ==
  /\ att[w][i] = "complete"
  /\ IF TaskClaimed(tasks[i])
       THEN SetTask(i, CompletedTask(tasks[i], AttemptStatus(w, i)))
       ELSE UNCHANGED tasks
  /\ Move(w, i, "report")
  /\ UNCHANGED <<results, own, lock, found, dead, pc, pick, avail, bad, crashes>>

ReportAttempt(w, i) ==
  /\ att[w][i] = "report"
  /\ results' = [results EXCEPT ![i] = Result(AttemptStatus(w, i), Backoff)]
  /\ Move(w, i, "none")
  /\ bad' = [bad EXCEPT ![w] = @ \ {i}]
  /\ UNCHANGED <<tasks, own, lock, found, dead, pc, pick, avail, crashes>>

\* Every attempt has ended, or every claim was released: the body returns.
EndBatch(w) ==
  /\ pc[w] \in {"exec", "release"}
  /\ Batch(w) = {}
  /\ Goto(w, "idle")
  /\ UNCHANGED <<tasks, results, own, lock, found, dead, pick, avail, att, bad, crashes>>

----------------------------------------------------------------------------
(* Stale recovery, by any cycle of any live process: the lease the row     *)
(* names is missing, so the age of the claim decides.                      *)

FindStale(i) ==
  /\ dead # Procs
  /\ StaleClaim(tasks[i]) /\ ClaimRecoverable(NoLease, FALSE)
  /\ i \notin found
  /\ found' = found \cup {i}
  /\ UNCHANGED <<tasks, results, own, lock, dead, pc, pick, avail, att, bad, crashes>>

\* Faulty: the claim has failed.
FailStale(i) ==
  /\ i \in found
  /\ found' = found \ {i}
  /\ IF TaskClaimed(tasks[i]) THEN SetTask(i, CompletedTask(tasks[i], "failed"))
                              ELSE UNCHANGED tasks
  /\ UNCHANGED <<results, own, lock, dead, pc, pick, avail, att, bad, crashes>>

\* One transaction, which tests that the row is still claimed.
MarkStale(i) ==
  /\ i \in found
  /\ found' = found \ {i}
  /\ IF TaskClaimed(tasks[i])
       THEN /\ SetTask(i, ReconciliationNeededTask(tasks[i]))
            /\ results' = [results EXCEPT ![i] = Result("reconciliation_needed", Backoff)]
       ELSE UNCHANGED <<tasks, results>>
  /\ UNCHANGED <<own, lock, dead, pc, pick, avail, att, bad, crashes>>

----------------------------------------------------------------------------
(* The operator, crashes and time.                                         *)

Repair(i) ==
  /\ Settled
  /\ TaskRepairable(tasks[i])
  /\ SetTask(i, RepairedTask)
  /\ UNCHANGED <<results, own, lock, found, dead, pc, pick, avail, att, bad, crashes>>

Crash(p) ==
  /\ p \notin dead
  /\ crashes < MaxCrashes
  /\ crashes' = crashes + 1
  /\ dead' = dead \cup {p}
  /\ pc' = [w \in Workers |-> IF ProcOf[w] = p THEN "idle" ELSE pc[w]]
  /\ pick' = [w \in Workers |-> IF ProcOf[w] = p THEN NoPick ELSE pick[w]]
  /\ avail' = [w \in Workers |-> IF ProcOf[w] = p THEN 0 ELSE avail[w]]
  /\ att' = [w \in Implementers |->
               IF ProcOf[w] = p THEN [i \in Issues |-> "none"] ELSE att[w]]
  /\ bad' = [w \in Implementers |-> IF ProcOf[w] = p THEN {} ELSE bad[w]]
  /\ UNCHANGED <<tasks, results, own, lock, found>>

\* The run lease of a killed process runs out.
LeaseExpires(i) ==
  /\ lock[i] # NoPick /\ ~Live(lock[i])
  /\ lock' = [lock EXCEPT ![i] = NoPick]
  /\ UNCHANGED <<tasks, results, own, found, dead, pc, pick, avail, att, bad, crashes>>

Minute ==
  /\ Settled
  /\ tasks' = [i \in Issues |-> TaskAfterTick(tasks[i])]
  /\ results' = [i \in Issues |-> ResultAfterTick(results[i])]
  /\ UNCHANGED <<own, lock, found, dead, pc, pick, avail, att, bad, crashes>>

----------------------------------------------------------------------------
Schedule(w) ==
  \/ \E i \in Issues : Select(w, i)
  \/ SelectNone(w) \/ ReadRow(w) \/ ReadBackoff(w) \/ Upsert(w)

Claims(w) ==
  \/ ClaimOwn(w) \/ ClaimNothing(w) \/ Take(w)
  \/ \E i \in Issues : ClaimNext(w, i)
  \/ \E v \in Implementers : ClaimOwnRowOf(w, v)
  \/ Prepare(w) \/ AcquireLock(w) \/ Complete(w) \/ Report(w)
  \/ \E i \in Issues : ReleaseClaim(w, i)

Attempts(w) ==
  \/ \E i \in Issues, fails \in BOOLEAN : AttemptEnds(w, i, fails)
  \/ \E i \in Issues : Unlock(w, i) \/ CompleteAttempt(w, i) \/ ReportAttempt(w, i)
  \/ EndBatch(w)

Begin(w) == Live(w) /\ Open(w)
Plan(w) == Live(w) /\ Schedule(w)
Work(w) == Live(w) /\ (Claims(w) \/ Attempts(w))
Recover == \E i \in Issues : FindStale(i) \/ MarkStale(i)

Next ==
  \/ \E w \in Workers : Plan(w)
  \/ \E w \in Implementers : Begin(w) \/ Work(w)
  \/ Recover
  \/ \E i \in Issues : Repair(i) \/ LeaseExpires(i)
  \/ \E p \in Procs : Crash(p)
  \/ Minute

Spec == Init /\ [][Next]_vars

(* Goroutines get to run and attempts end (their commands have timeouts),  *)
(* every recovery marks what it finds, and time goes on: workers rest      *)
(* between cycles, so moments without a store call under way recur.        *)

MidCycle(w) == pc[w] # "idle" /\ Plan(w)

Fairness ==
  /\ \A w \in Workers : WF_vars(MidCycle(w))
  /\ \A w \in Implementers : WF_vars(Work(w))
  /\ \A i \in Issues : WF_vars(FindStale(i)) /\ WF_vars(MarkStale(i))
  /\ SF_vars(Minute) /\ []<>Settled

FairSpec == Spec /\ Fairness

----------------------------------------------------------------------------
(* Properties.                                                             *)

\* The worker that prepares, holds or runs an issue's claim.
Attends(w, i) ==
  \/ pick[w] = i /\ pc[w] \in {"prepare", "lock", "fail", "skip"}
  \/ att[w][i] \in {"held", "unlock", "complete"}

\* Two attempts never work on one issue, whatever became of its row: each
\* holds the issue's run lock from its preparation until it has stopped, also
\* when the row was repaired, queued over or claimed again meanwhile.
OneAttemptPerIssue ==
  \A w \in Implementers, i \in Issues :
    att[w][i] \in {"held", "unlock"} => lock[i] = w

\* The run lock of an issue as LockContract has it: those at work under it,
\* and the process of the one it is recorded for.  All processes share a host.
RunLockOf(i) == INSTANCE LockContract WITH
  Workers <- Implementers,
  holders <- {w \in Implementers : att[w][i] \in {"held", "unlock"}},
  record <- IF lock[i] = NoPick THEN NoProc ELSE ProcOf[lock[i]],
  HostOf <- [p \in Procs |-> "here"]

\* The batches use every issue's run lock as a lock that keeps LockContract,
\* which RunLock's operations implement: each takes it free or from a dead
\* process, and gives it back itself, also when another claim's error ends
\* the batch.
UsesRunLocks ==
  /\ \A i \in Issues : RunLockOf(i)!Init
  /\ [][\A i \in Issues : [RunLockOf(i)!Next]_(RunLockOf(i)!vars)]_vars

\* While an attempt is under way, the issue's row keeps the scheduler from
\* dispatching the issue again (claimed rows block, BlocksDispatch), even if
\* recovery has marked the claim and an operator has requeued it.
RunningBlocks ==
  \A w \in Implementers, i \in Issues :
    att[w][i] = "held" => BlocksDispatch(tasks[i].status)

\* No two workers handle claims of one issue at a time.  The row alone does not
\* ensure it: a marked claim can be repaired and claimed again under a live
\* attempt, were it not for the lane that admits one batch at a time.
OneClaimant ==
  \A v, w \in Implementers, i \in Issues : Attends(v, i) /\ Attends(w, i) => v = w

\* A row that needs reconciliation is changed by the operator's repair only:
\* no enqueue that was decided earlier overwrites it, no late completion of
\* the attempt it was taken from replaces it.
BlockedUntilRepair ==
  [][\A i \in Issues :
       tasks[i].status = "reconciliation_needed" /\ tasks'[i] # tasks[i] => Repair(i)]_vars

\* Recovery tells long attempts from abandoned claims: it marks no claim that a
\* live worker attends to.
LiveAttemptsAreNotMarked ==
  [][\A i \in Issues :
       tasks[i].status = "claimed" /\ tasks'[i].status = "reconciliation_needed"
         => \A w \in Implementers : ~Attends(w, i)]_vars

\* A claimed row keeps everybody from dispatching its issue again: it is
\* completed or marked, but no dispatcher that looked at it earlier requeues it.
ClaimsAreNotRequeued ==
  [][\A i \in Issues : tasks[i].status = "claimed" => tasks'[i].status # "queued"]_vars

\* A claim nobody attends to, of a killed process or of a batch that gave up
\* after another claim's error, does not stay claimed: recovery surfaces it.
AbandonedClaimSurfaces ==
  \A i \in Issues :
    (TaskClaimed(tasks[i]) /\ \A w \in Implementers : ~Attends(w, i))
      ~> ~TaskClaimed(tasks[i])
============================================================================
