---------------------------- MODULE LaneWorker ----------------------------
(***************************************************************************)
(* runContinuousWorkerTask (continuous.go) under the lanes of one or more  *)
(* daemons, or of `am worker` processes, that share one SQLite store.      *)
(*                                                                         *)
(* A worker is a lane of a process.  Its cycle recovers stale claims,      *)
(* queues and claims the lane's task row, takes the lane's lease, runs the *)
(* lane's body under a supervision goroutine that renews lease, claim and  *)
(* heartbeat once a minute, completes the row, reports the result and      *)
(* releases the lease.  Each store call is one step, so the calls of       *)
(* different processes interleave between any two of them.                 *)
(*                                                                         *)
(* Time: store calls take no time, so a minute passes only while workers   *)
(* sit idle or run a body, and not before every running worker that is     *)
(* awake has renewed.  A process may sleep (host suspended) with bodies    *)
(* running only if MaySuspend.                                             *)
(***************************************************************************)
EXTENDS StateStore, FiniteSets

CONSTANTS
  Lanes,        \* lanes; each has one task row and one lease of its own
  LeaseTTL,     \* workerTaskLeaseTTL, in renew intervals
  Backoff,      \* workertask.RetryBackoff of the lanes
  MaxDaemons,   \* how many processes are up at the same time
  MaxCrashes,   \* bound on crashes
  MaySuspend,   \* whether a process may be suspended while bodies run
  RepairAnytime \* whether a repair may fall between two store calls of a cycle

ASSUME LaneWorkerAssumption ==
  /\ LeaseTTL \in Nat /\ LeaseTTL > 1
  /\ Backoff \in Nat
  /\ MaxDaemons \in Nat
  /\ MaxCrashes \in Nat
  /\ MaySuspend \in BOOLEAN
  /\ RepairAnytime \in BOOLEAN

VARIABLES
  tasks,     \* worker_tasks row of each lane
  leases,    \* leases row of each lane
  results,   \* worker_results row of each lane
  beat,      \* age of the latest daemon_heartbeats row of each process
  proc,      \* "off", "up", or "draining": a lane returned an error
  asleep,    \* processes whose host is suspended
  pc,        \* where each worker is in its cycle
  found,     \* the stale claims its cycle has yet to mark
  avail,     \* the wait its cycle will enqueue the row with
  fin,       \* the status its cycle ends with
  due,       \* running, and has not renewed since the last minute began
  crashes    \* crashes so far

store == <<tasks, leases, results>>
local == <<pc, found, avail, fin, due>>
world == <<proc, asleep, crashes>>
vars == <<store, beat, world, local>>

Workers == Procs \X Lanes

Steps == {"idle", "mark", "marked", "read", "backoff", "enqueue", "claim",
          "acquire", "refused", "refused_report",
          "run", "touch", "cancelling", "finish", "report", "release"}

\* Steps at which a worker waits for something other than the store.
Waiting == {"idle", "run", "cancelling"}

\* Steps at which the lane's body runs.
Running == {"run", "touch", "cancelling"}

\* Steps at which a worker runs or winds down under the lease it took.
Holding == Running \cup {"finish", "report", "release"}

TypeOK ==
  /\ tasks \in [Lanes -> TaskRow]
  /\ leases \in [Lanes -> LeaseRow]
  /\ results \in [Lanes -> ResultRow]
  /\ beat \in [Procs -> 0..StaleAfter]
  /\ proc \in [Procs -> {"off", "up", "draining"}]
  /\ asleep \in SUBSET Procs
  /\ pc \in [Workers -> Steps]
  /\ found \in [Workers -> SUBSET Lanes]
  /\ avail \in [Workers -> Nat]
  /\ fin \in [Workers -> {"completed", "failed"}]
  /\ due \in [Workers -> BOOLEAN]
  /\ crashes \in 0..MaxCrashes

Init ==
  /\ tasks = [l \in Lanes |-> NoTask]
  /\ leases = [l \in Lanes |-> NoLease]
  /\ results = [l \in Lanes |-> NoResult]
  /\ beat = [p \in Procs |-> StaleAfter]
  /\ proc = [p \in Procs |-> "off"]
  /\ asleep = {}
  /\ pc = [w \in Workers |-> "idle"]
  /\ found = [w \in Workers |-> {}]
  /\ avail = [w \in Workers |-> 0]
  /\ fin = [w \in Workers |-> "completed"]
  /\ due = [w \in Workers |-> FALSE]
  /\ crashes = 0

----------------------------------------------------------------------------
(* Helpers.                                                                *)

\* The worker's process executes: it is not suspended, and past Start.
Awake(w) == w[1] \notin asleep /\ proc[w[1]] # "off"

Goto(w, step) == pc' = [pc EXCEPT ![w] = step]

Beat(p) == beat' = [beat EXCEPT ![p] = 0]

\* Faulty: any heartbeat of the owner counts, however old.
OwnerEverBeat(lease) == lease.owner \in Procs

OwnerIsFresh(lease) == lease.owner \in Procs /\ beat[lease.owner] < StaleAfter

\* Faulty: takes claims of any age.
RecoverablesOfAnyAge ==
  {l \in Lanes : TaskClaimed(tasks[l]) /\ ClaimRecoverable(leases[l], OwnerIsFresh(leases[l]))}

\* The claims recoverStaleWorkerTasks finds; it looks at every task, not only
\* at the lane whose cycle runs it.
Recoverables ==
  {l \in Lanes : StaleClaim(tasks[l]) /\ ClaimRecoverable(leases[l], OwnerIsFresh(leases[l]))}

\* runContinuousWorkerTask returns: its lane goes idle with a heartbeat, and an
\* error makes the scheduler start no further cycle in this process.
Return(w, failed) ==
  /\ Goto(w, "idle")
  /\ Beat(w[1])
  /\ proc' = IF failed THEN [proc EXCEPT ![w[1]] = "draining"] ELSE proc
  /\ UNCHANGED <<asleep, crashes>>

\* No awake worker is between two store calls, behind on its renewal, or still
\* in a body whose context was cancelled.
Settled ==
  \A w \in Workers :
    /\ pc[w] \in Waiting
    /\ w[1] \notin asleep => pc[w] # "cancelling" /\ ~due[w]

----------------------------------------------------------------------------
(* One cycle of a lane, up to its claim.                                   *)

\* The reads of MarkStaleClaimedWorkerTasksReconciliationNeeded.
BeginCycle(w) ==
  /\ pc[w] = "idle" /\ proc[w[1]] = "up"
  /\ found' = [found EXCEPT ![w] = Recoverables]
  /\ Goto(w, IF Recoverables = {} THEN "read" ELSE "mark")
  /\ UNCHANGED <<store, beat, world, avail, fin, due>>

\* Its transaction for one of the rows, which tests nothing but the status.
MarkStale(w, l) ==
  /\ pc[w] \in {"mark", "marked"}
  /\ l \in found[w]
  /\ found' = [found EXCEPT ![w] = @ \ {l}]
  /\ IF TaskClaimed(tasks[l])
       THEN /\ tasks' = [tasks EXCEPT ![l] = ReconciliationNeededTask(tasks[l])]
            /\ results' = [results EXCEPT ![l] = Result("reconciliation_needed", Backoff)]
            /\ Goto(w, "marked")
       ELSE UNCHANGED <<tasks, results, pc>>
  /\ UNCHANGED <<leases, beat, world, avail, fin, due>>

\* A cycle that recovered anything returns at once.
AfterMarking(w) ==
  /\ found[w] = {}
  /\ \/ pc[w] = "mark" /\ Goto(w, "read") /\ UNCHANGED <<beat, world>>
     \/ pc[w] = "marked" /\ Return(w, FALSE)
  /\ UNCHANGED <<store, found, avail, fin, due>>

\* Faulty: enqueues over a row that waits for an operator.
LeaveClaimedAlone(status) == status = "claimed"

\* A row somebody claimed, or that waits for an operator, is left alone.
LeaveAlone(status) == status \in {"claimed", "reconciliation_needed"}

ReadTask(w) ==
  LET status == tasks[w[2]].status
  IN /\ pc[w] = "read"
     /\ IF LeaveAlone(status) THEN Return(w, FALSE)
                              ELSE /\ Goto(w, IF status = "absent" THEN "enqueue" ELSE "backoff")
                                   /\ UNCHANGED <<beat, world>>
     /\ avail' = [avail EXCEPT ![w] = 0]
     /\ UNCHANGED <<store, found, fin, due>>

\* Faulty: counts the backoff from now, not from the failure.
ReadBackoffFromNow(w) ==
  /\ pc[w] = "backoff"
  /\ avail' = [avail EXCEPT ![w] = IF results[w[2]].status = "failed" THEN Backoff ELSE 0]
  /\ Goto(w, "enqueue")
  /\ UNCHANGED <<store, beat, world, found, fin, due>>

ReadBackoff(w) ==
  /\ pc[w] = "backoff"
  /\ avail' = [avail EXCEPT ![w] = WaitAfterLatestFailure(results[w[2]])]
  /\ Goto(w, "enqueue")
  /\ UNCHANGED <<store, beat, world, found, fin, due>>

\* UpsertWorkerTask overwrites the row whatever its status has become since
\* ReadTask.
Enqueue(w) ==
  /\ pc[w] = "enqueue"
  /\ tasks' = [tasks EXCEPT ![w[2]] = QueuedTask(avail[w])]
  /\ Goto(w, "claim")
  /\ UNCHANGED <<leases, results, beat, world, found, avail, fin, due>>

Claim(w) ==
  LET l == w[2]
  IN /\ pc[w] = "claim"
     /\ IF TaskClaimable(tasks[l])
          THEN /\ tasks' = [tasks EXCEPT ![l] = ClaimedTask(tasks[l])]
               /\ Goto(w, "acquire")
               /\ UNCHANGED <<beat, world>>
          ELSE Return(w, FALSE) /\ UNCHANGED tasks
     /\ avail' = [avail EXCEPT ![w] = 0]
     /\ UNCHANGED <<leases, results, found, fin, due>>

----------------------------------------------------------------------------
(* The claimed task.                                                       *)

\* Faulty: takes the lease whoever holds it (UpsertLease for AcquireLease).
AcquireByUpsert(w) ==
  /\ pc[w] = "acquire"
  /\ leases' = [leases EXCEPT ![w[2]] = AcquiredLease(w[1], LeaseTTL)]
  /\ Goto(w, "run")
  /\ Beat(w[1])
  /\ UNCHANGED <<tasks, results, world, found, avail, fin, due>>

Acquire(w) ==
  LET l == w[2]
  IN /\ pc[w] = "acquire"
     /\ ~LeaseHeld(leases[l])
     /\ leases' = [leases EXCEPT ![l] = AcquiredLease(w[1], LeaseTTL)]
     /\ Goto(w, "run")
     /\ Beat(w[1])
     /\ UNCHANGED <<tasks, results, world, found, avail, fin, due>>

\* lease_unavailable: the claim is completed as failed, without the lease.
AcquireRefused(w) ==
  /\ pc[w] = "acquire"
  /\ LeaseHeld(leases[w[2]])
  /\ Goto(w, "refused")
  /\ fin' = [fin EXCEPT ![w] = "failed"]
  /\ UNCHANGED <<store, beat, world, found, avail, due>>

\* renewWorkerTaskSupervision, once a minute: RenewLease, and then
\* TouchClaimedWorkerTask and a heartbeat.  An error of either call ends the
\* supervision goroutine and cancels the body's context.
Renew(w) ==
  LET l == w[2]
  IN /\ pc[w] = "run" /\ due[w]
     /\ due' = [due EXCEPT ![w] = FALSE]
     /\ IF LeaseRenewable(leases[l])
          THEN /\ leases' = [leases EXCEPT ![l] = RenewedLease(leases[l], LeaseTTL)]
               /\ Goto(w, "touch")
          ELSE Goto(w, "cancelling") /\ UNCHANGED leases
     /\ UNCHANGED <<tasks, results, beat, world, found, avail, fin>>

Touch(w) ==
  LET l == w[2]
  IN /\ pc[w] = "touch"
     /\ IF TaskClaimed(tasks[l])
          THEN /\ tasks' = [tasks EXCEPT ![l] = TouchedTask(tasks[l])]
               /\ Goto(w, "run")
               /\ Beat(w[1])
          ELSE Goto(w, "cancelling") /\ UNCHANGED <<tasks, beat>>
     /\ UNCHANGED <<leases, results, world, found, avail, fin, due>>

\* The body returns on its own, or because its context was cancelled; then the
\* cycle ends as failed whatever the body returned.  Stop waits for a renewal
\* under way, so the body does not return at "touch".
BodyReturns(w, outcome) ==
  /\ pc[w] \in {"run", "cancelling"}
  /\ pc[w] = "cancelling" => outcome = "failed"
  /\ Goto(w, "finish")
  /\ fin' = [fin EXCEPT ![w] = outcome]
  /\ due' = [due EXCEPT ![w] = FALSE]
  /\ Beat(w[1])
  /\ UNCHANGED <<store, world, found, avail>>

\* CompleteWorkerTask completes the claim on the row, whoever made it; if
\* there is none, the cycle fails with worker_completion_error.
Complete(w) ==
  LET l == w[2]
      claimed == TaskClaimed(tasks[l])
  IN /\ pc[w] \in {"finish", "refused"}
     /\ tasks' = IF claimed
                   THEN [tasks EXCEPT ![l] = CompletedTask(tasks[l], fin[w])] ELSE tasks
     /\ fin' = IF claimed THEN fin ELSE [fin EXCEPT ![w] = "failed"]
     /\ Goto(w, IF pc[w] = "finish" THEN "report" ELSE "refused_report")
     /\ UNCHANGED <<leases, results, beat, world, found, avail, due>>

\* Faulty: reports the status the row has by now.
ReportRowStatus(w) ==
  /\ pc[w] \in {"report", "refused_report"}
  /\ results' = [results EXCEPT ![w[2]] = Result(tasks[w[2]].status, Backoff)]
  /\ IF pc[w] = "report" THEN Goto(w, "release") /\ UNCHANGED <<beat, world>>
                         ELSE Return(w, TRUE)
  /\ fin' = IF pc[w] = "report" THEN fin ELSE [fin EXCEPT ![w] = "completed"]
  /\ UNCHANGED <<tasks, leases, found, avail, due>>

\* UpsertWorkerResult, whether or not CompleteWorkerTask succeeded.
Report(w) ==
  /\ pc[w] \in {"report", "refused_report"}
  /\ results' = [results EXCEPT ![w[2]] = Result(fin[w], Backoff)]
  /\ IF pc[w] = "report" THEN Goto(w, "release") /\ UNCHANGED <<beat, world>>
                         ELSE Return(w, TRUE)
  /\ fin' = IF pc[w] = "report" THEN fin ELSE [fin EXCEPT ![w] = "completed"]
  /\ UNCHANGED <<tasks, leases, found, avail, due>>

\* The deferred ReleaseLease: by name, whoever owns the lease by now.
Release(w) ==
  /\ pc[w] = "release"
  /\ leases' = [leases EXCEPT ![w[2]] = NoLease]
  /\ Return(w, fin[w] = "failed")
  /\ fin' = [fin EXCEPT ![w] = "completed"]
  /\ UNCHANGED <<tasks, results, found, avail, due>>

----------------------------------------------------------------------------
(* Processes, the operator and time.                                       *)

\* A new process: no row names its identity.
Start(p) ==
  /\ proc[p] = "off"
  /\ Cardinality({q \in Procs : proc[q] # "off"}) < MaxDaemons
  /\ beat[p] = StaleAfter
  /\ \A l \in Lanes : leases[l].owner # p
  /\ proc' = [proc EXCEPT ![p] = "up"]
  /\ UNCHANGED <<store, beat, asleep, crashes, local>>

\* continuousScheduler.run returns the error once every lane's cycle ended.
Exit(p) ==
  /\ proc[p] = "draining" /\ p \notin asleep
  /\ \A l \in Lanes : pc[<<p, l>>] = "idle"
  /\ proc' = [proc EXCEPT ![p] = "off"]
  /\ UNCHANGED <<store, beat, asleep, crashes, local>>

\* Killed (the program handles no signal): rows stay as they are.
Crash(p) ==
  /\ proc[p] # "off"
  /\ crashes < MaxCrashes
  /\ crashes' = crashes + 1
  /\ proc' = [proc EXCEPT ![p] = "off"]
  /\ asleep' = asleep \ {p}
  /\ pc' = [w \in Workers |-> IF w[1] = p THEN "idle" ELSE pc[w]]
  /\ found' = [w \in Workers |-> IF w[1] = p THEN {} ELSE found[w]]
  /\ avail' = [w \in Workers |-> IF w[1] = p THEN 0 ELSE avail[w]]
  /\ fin' = [w \in Workers |-> IF w[1] = p THEN "completed" ELSE fin[w]]
  /\ due' = [w \in Workers |-> IF w[1] = p THEN FALSE ELSE due[w]]
  /\ UNCHANGED <<store, beat>>

Suspend(p) ==
  /\ MaySuspend
  /\ proc[p] # "off" /\ p \notin asleep
  /\ \A l \in Lanes : pc[<<p, l>>] \in Waiting
  /\ asleep' = asleep \cup {p}
  /\ UNCHANGED <<store, beat, proc, crashes, local>>

Resume(p) ==
  /\ p \in asleep
  /\ asleep' = asleep \ {p}
  /\ UNCHANGED <<store, beat, proc, crashes, local>>

\* RequeueReconciliationNeededWorkerTask, by an operator.
Repair(l) ==
  /\ RepairAnytime \/ Settled
  /\ TaskRepairable(tasks[l])
  /\ tasks' = [tasks EXCEPT ![l] = RepairedTask]
  /\ UNCHANGED <<leases, results, beat, world, local>>

Minute ==
  /\ Settled
  /\ tasks' = [l \in Lanes |-> TaskAfterTick(tasks[l])]
  /\ leases' = [l \in Lanes |-> LeaseAfterTick(leases[l])]
  /\ results' = [l \in Lanes |-> ResultAfterTick(results[l])]
  /\ beat' = [p \in Procs |-> Min2(beat[p] + 1, StaleAfter)]
  /\ due' = [w \in Workers |-> pc[w] = "run"]
  /\ UNCHANGED <<world, pc, found, avail, fin>>

----------------------------------------------------------------------------
CycleStep(w) ==
  \/ \E l \in Lanes : MarkStale(w, l)
  \/ AfterMarking(w) \/ ReadTask(w) \/ ReadBackoff(w) \/ Enqueue(w) \/ Claim(w)
  \/ Acquire(w) \/ AcquireRefused(w)
  \/ Renew(w) \/ Touch(w)
  \/ Complete(w) \/ Report(w) \/ Release(w)

Begin(w) == Awake(w) /\ BeginCycle(w)
Continue(w) == Awake(w) /\ CycleStep(w)
Body(w) == Awake(w) /\ \E outcome \in {"completed", "failed"} : BodyReturns(w, outcome)

Next ==
  \/ \E w \in Workers : Begin(w) \/ Continue(w) \/ Body(w)
  \/ \E p \in Procs : Start(p) \/ Exit(p) \/ Crash(p) \/ Suspend(p) \/ Resume(p)
  \/ \E l \in Lanes : Repair(l)
  \/ Minute

Spec == Init /\ [][Next]_vars

(***************************************************************************)
(* Fairness.  Goroutines of a live process are scheduled (weak fairness of *)
(* each worker's steps); a body ends because its commands have timeouts;   *)
(* time goes on, because lanes rest an idle delay between cycles and so    *)
(* are all at rest or running bodies again and again; a daemon that is     *)
(* down is started again by whoever runs it, and a host that is suspended  *)
(* wakes and in the end stays awake.  Nothing makes the operator repair, a *)
(* process crash, or a renewal come early.                                 *)
(***************************************************************************)
Fairness ==
  /\ \A w \in Workers :
       WF_vars(Begin(w)) /\ WF_vars(Continue(w)) /\ SF_vars(Body(w))
  /\ \A p \in Procs : WF_vars(Start(p)) /\ WF_vars(Exit(p))
  /\ <>[](asleep = {})
  /\ []<>Settled
  /\ SF_vars(Minute)

FairSpec == Spec /\ Fairness

----------------------------------------------------------------------------
(* Properties.                                                             *)

\* A worker that runs a body, or has ended one and not yet released, is the
\* recorded owner of its lane's unexpired, unreleased lease: between two
\* renewals at most one minute of the lease is used up.
HolderOwnsLease ==
  \A w \in Workers : pc[w] \in Holding =>
    /\ leases[w[2]].owner = w[1]
    /\ leases[w[2]].left >= (IF pc[w] = "run" /\ ~due[w] THEN LeaseTTL ELSE LeaseTTL - 1)

\* The processes in which each lane's body runs, and the lanes out of service.
Bodies == [l \in Lanes |-> {p \in Procs : pc[<<p, l>>] \in Running}]

Blocked == {l \in Lanes : tasks[l].status = "reconciliation_needed"}

Contract == INSTANCE LaneContract WITH running <- Bodies, blocked <- Blocked

\* The cycles of all processes together keep the contract: one body per lane
\* at a time, no body in a lane that needs reconciliation, such a lane only
\* where no body runs, and nothing but a repair puts it back in service.
ImplementsContract == Contract!Spec

\* Nothing but the operator's repair changes a row that needs reconciliation.
BlockedUntilRepair ==
  [][\A l \in Lanes :
       tasks[l].status = "reconciliation_needed" /\ tasks'[l] # tasks[l] => Repair(l)]_vars

\* A claim is marked only once it is stale: a cycle that found a stale claim
\* does not mark a newer claim on the same row.
OnlyStaleClaimsAreMarked ==
  [][\A l \in Lanes :
       tasks[l].status # tasks'[l].status /\ tasks'[l].status = "reconciliation_needed"
         => StaleClaim(tasks[l])]_vars

\* A renewal that succeeds, and so lets the body run on, renewed the lease of
\* the worker's own process.  The code does not keep this when a host sleeps:
\* RenewLease names the lease alone.
RenewsOwnLease ==
  [][\A w \in Workers :
       pc[w] = "run" /\ pc'[w] = "touch" => leases[w[2]].owner = w[1]]_vars

\* No lane is claimed while its latest recorded failure is cooling down.
BackoffIsApplied ==
  [][\A l \in Lanes :
       tasks[l].status = "queued" /\ tasks'[l].status = "claimed"
         => WaitAfterLatestFailure(results[l]) = 0]_vars

\* Until a process is killed, the result row of a lane that finished says what
\* its task row says, whenever no cycle is between two store calls.
ResultAgreesUntilCrash ==
  crashes = 0 /\ Settled =>
    \A l \in Lanes :
      tasks[l].status \in {"completed", "failed"} => results[l].status = tasks[l].status

\* A claim nobody works on any more (its process died) is not left claimed
\* for ever: some daemon's recovery surfaces it.
Attended(l) == \E p \in Procs : pc[<<p, l>>] \in Holding \cup {"acquire", "refused"}

AbandonedClaimSurfaces ==
  \A l \in Lanes : (tasks[l].status = "claimed" /\ ~Attended(l)) ~> (tasks[l].status # "claimed")

\* A failed lane is claimed again once its backoff is over, unless recovery
\* has handed it to the operator.
FailedLaneIsRetried ==
  \A l \in Lanes :
    (tasks[l].status = "failed") ~> (tasks[l].status \in {"claimed", "reconciliation_needed"})
============================================================================
