# Agent Machine: a verification project

Agent Machine (`am`) is a Go program that takes issues from Linear, runs coding
agents on them in local workspaces, reviews the result, hands it over as a pull
request, merges it and cleans up. Its workers coordinate through one SQLite
database; they may be goroutines ("lanes") of one daemon, several daemons, or
single `am worker <role>` processes.

This directory holds TLA+ modules that model the parts of the program where
workers meet, TLC configurations that check them on small instances, and TLAPS
proofs of what matters most for every size. `PROJECT.json` maps each definition
to the source lines it stands for, and lists the runs, the theorems, the hazards
and the disagreements found between the code and its documents.

Contents: 1 Inventory. 2 Modules and how they correspond to the code. 3 Runs.
4 Fairness. 5 Proofs. 6 Findings. 7 Assumptions and bounds. 8 What is not
modelled. 9 Plan.

## 1 Inventory

**State store** (`internal/state/store.go`). One SQLite file, one connection per
process (`SetMaxOpenConns(1)`), so every statement or transaction is atomic and
the calls of different processes interleave between them. Rows that workers
coordinate by:

| rows | operations | who relies on them |
|---|---|---|
| `leases` | AcquireLease, RenewLease, ReleaseLease, ReclaimLease, UpsertLease | lanes (`lane:<name>`), selected workers (`worker:<role>`), run lock (`run:<issue>`) |
| `worker_tasks` | UpsertWorkerTask, ClaimWorkerTask, ClaimNextWorkerTask, TouchClaimedWorkerTask, CompleteWorkerTask, stale marking, repair requeue | lanes, selected workers, issue dispatch |
| `worker_results` | UpsertWorkerResult, WorkerResults | retry backoff, status |
| `daemon_heartbeats` | UpsertDaemonHeartbeat | stale recovery |
| `worker_payload_refs` | Upsert, Pending, Complete | review and handoff phases |
| `pr_handoff_intents` | Upsert, Complete, read | handoff |
| attempts, PR mappings, review, feedback, merge blockers, cleanup states, events | upserts and reads | reconciler, merge, cleanup, status |

Hard: methods that test a status and not who wrote it; a check and the update
that relies on it in different transactions; ages and expiries read by one
process and renewed by another.
Right when: one claim, one worker; a lease is renewed and released by its owner;
recovery touches only abandoned claims.

**Continuous daemon** (`continuous.go`). Six lanes (scheduler, cleanup, merge,
handoff, review, implementation), each a goroutine that loops over
`runContinuousWorkerTask`: recover stale claims, queue and claim the lane's
row, take the lane's lease, run the body under a supervision goroutine that
renews once a minute, complete the row, record the result, release. An error of
one lane lets the others finish their cycle and ends the daemon.
Hard: two daemons on one store, host suspend, kill between two calls, body
cancelled by supervision. Right when: a body runs in one process at a time, a
failed lane backs off and is retried, an abandoned claim surfaces for the operator.

**Selected workers** (`selected_worker.go`). One cycle of the same machinery,
then the process ends.

**Issue workers** (`implementation_worker_process.go`, `review_worker_process.go`,
`handoff_worker_process.go`). The scheduler lane enqueues one row per candidate
issue (`implementation:<issue>:<attempt>` ...); lane bodies claim such rows, run
the attempt, complete the row. These rows name a lease that is never taken.
Hard: enqueue checks and then upserts; a claim may go stale under a long run; a
claim error leaves earlier claims of a batch behind.
Right when: an issue is dispatched once per attempt, and never by two workers.

**Run lock** (`internal/workspace/locks.go`). The lease `run:<issue>` (4 hours)
with a JSON export in the workspace root. Acquire, reclaim of an owner whose
process is gone, one heartbeat, release; candidate selection sweeps stale exports.
Hard: judging the owner and reclaiming are two steps; export and lease are two
objects. Right when: one run per workspace, visible to merge and cleanup.

**Run attempt** (`run_one.go`, `implementation_worker.go`, `review_worker.go`,
`handoff*.go`, `internal/attemptlifecycle`). Move the issue to Running, prepare the
workspace, run the agent, check the scope, commit, push, open the pull request,
have it reviewed, move the issue to Handoff, write the record. Between the phases
a payload file and a reference to it are written, so that a lane can take over.
Hard: each phase has external effects and may be repeated; a repeated phase sets
its reference to pending again; the record comes last.
Right when: only reviewed work is handed over, whoever does the handing over.

**Handoff and review lanes** (`handoff_worker_process.go`, `review_worker_process.go`).
They pick a pending payload, or an issue whose review waited for checks, take the
run lock and do the phase. Hard: what they pick is not looked at again under the
lock. Right when: every payload is worked on in the end, and a redone phase
changes nothing it should not.

**Reconciler and candidate selection** (`reconciler.go`, `candidate_selection.go`,
`feedback.go`). An ordered decision over recorded and external facts: what to do with
an issue. Sequential; hard through the number of combinations. Right when: no fact is
ignored that makes a dispatch unsafe, and each issue has one owner at a time.

**Outcome of an attempt** (`internal/attemptlifecycle`, `attemptoutcome`,
`reviewpolicy`, `runclassification`, `stateprojection`). From the way an attempt
stopped to its status, its record and the rows in the store, which merging and
selection rely on. Hard: rows a record does not mention keep what an older one said.
Right when: the store vouches only for what the newest attempt did.

**Merge and cleanup lanes** (`merge.go`, `merge_worker.go`, `cleanup.go`,
`internal/cleanupworker`). Merge a pull request, delete its branch, move the issue to
Done; delete workspaces of finished issues. Hard: failure between the external
steps; decisions that are old by the time they are carried out; neither lane takes
the run lock. Right when: nothing is merged that was not accepted and approved, and
no workspace goes before its issue is done.

**Code hosts** (`internal/ghapi`, `internal/gitlabapi`, `internal/codeownership`).
What reviews, checks and merge states come to, and whose a pull request is. Right
when: the gate is passed only if the host itself would say so.

**Artifacts, backfill, store opening, budgets** (`internal/artifacts`,
`internal/backfill`, `store.go` migrations, `internal/runbudget`). Repair of run
records after a human acted, seeding the store from files, migrations by whoever opens
the store first, limits of a run.

**Linear status worker** (`internal/linearstatus`). Queued transitions of an
issue's status, overwritten by a later queueing of the same key; nothing in the
program queues one.

**Everything else** (reports, clients, runtimes, text, configuration, tools) is
listed in `PROJECT.json` with the reason it is left out: it keeps no shared
state or decides nothing.

## 2 Modules

| module | models | relation to the others |
|---|---|---|
| `StateStore` | the coordination rows and what each store method tests and writes in one of them | no variables; extended by the modules below |
| `StateStoreProofs` | lemmas about rows that the proofs of `LaneWorker` and `IssueWorker` share | |
| `LaneContract` | what the task machinery promises to a lane's body | abstract specification, no store and no clock |
| `LaneWorker` | `runContinuousWorkerTask` in the lanes of several processes, supervision, daemon, crash, suspend, operator repair, time | implements `LaneContract` |
| `LaneWorkerProofs` | theorems about `LaneWorker` | |
| `LockContract` | what the run lock promises to those who take it | abstract specification, taking and giving back in one step each |
| `RunLock` | the run lock of one issue, by workers of several processes on several hosts | implements `LockContract` |
| `RunLockProofs` | theorems about `RunLock` | |
| `IssueWorker` | dispatch, claim, batch and completion of implementation tasks by daemons and `am worker implementation` | the lane's exclusion taken from `LaneContract`; uses each issue's run lock as `LockContract` has it |
| `IssueWorkerProofs` | theorems about `IssueWorker` | |
| `AttemptPolicy` | an attempt's status, the reviewer's lines, the record and the facts the store keeps after it | no variables |
| `Reconciler` | the ordered decision, selection, the merge gate, the retry gate, the cleanup decision | over `AttemptPolicy`'s facts |
| `ReconcilerProofs` | lemmas about the ordered rules, for any facts whatever | |
| `CodeHost` | GitHub's and GitLab's answers, ownership, which pull request is handed over | over `Reconciler`'s pull requests |
| `Artifacts` | repair of run records, backfill | over `AttemptPolicy`'s records |
| `Upkeep` | safe paths, the sweep of `am cleanup`, migrations, budget limits | uses the cleanup decision |
| `Decisions` | asks each of these decisions every question of a bounded size | one variable: a question and its answer |
| `DecisionClaims` | what the documents say of the decisions and the code does not do | over `Decisions`; TLC refutes both |
| `DecisionsProofs` | theorems about `Decisions`, for inputs of any size | over `DecisionClaims`, `ReconcilerProofs` |
| `DeliveryContract` | what the lanes promise of one issue | abstract specification |
| `Delivery` | one issue from Ready to Done: its workspace, branch and pull request, and the implementation, handoff, review, merge and cleanup lanes at once | extends `Reconciler`; implements `DeliveryContract` |
| `DeliveryProofs` | theorems about `Delivery`: the refinement | |
| `DeliveryTypeProofs` | the type invariant of `Delivery` | over `DeliveryProofs` |
| `MCLaneWorker`, `MCRunLock`, `MCIssueWorker` | symmetry and process tables for TLC | |

**Time.** The code stores instants and compares them with now. Rows in the model
hold the distance to now (time left on a lease, age of a claim or heartbeat, wait
until a task is available), and a `Minute` (or `Tick`) moves all of them. This is
exact, since no code compares two stored instants except through now, and it
keeps the state space finite: ages stop at the staleness bound.

**`LaneWorker`.** A worker is a pair of process and lane; `pc` says which store
call it makes next. One action per store call:

| step | code |
|---|---|
| `BeginCycle`, `MarkStale`, `AfterMarking` | `recoverStaleWorkerTasks`: the reads, one transaction per row found, the early return |
| `ReadTask`, `ReadBackoff`, `Enqueue`, `Claim` | `runContinuousWorkerTask` 232-265 |
| `Acquire`, `AcquireRefused` | `acquireWorkerTaskLease`, and the failure path of 268-277 |
| `Renew`, `Touch` | `renewWorkerTaskSupervision`: two transactions and a heartbeat |
| `BodyReturns` | the body's return, cancelled or not, and `Stop` |
| `Complete`, `Report`, `Release` | 335-351 and the deferred release |
| `Start`, `Exit`, `Crash`, `Suspend`, `Resume` | the process |
| `Repair` | `RequeueReconciliationNeeded`, by an operator |

A heartbeat is written together with the step that precedes it in the code with
nothing in between that anyone else can see. `Return` is the end of a cycle: back
in `runContinuousLane`, with a heartbeat, and with an error the process drains.

**`RunLock`.** `Try` is `AcquireLease`; refused, `JudgeOwner` is the read and the
host's answer about the owner's process, `Reclaim` the `ReclaimLease` that
follows. Then the export is written (or fails to be), the run may send its one
heartbeat (`HeartbeatReads`, `HeartbeatRenews`, `HeartbeatRewrites`), and the
deferred release removes the export and releases the lease, in that order.
`SweepReads` and `SweepRemoves` are `CleanupStale` with its check and its removal
apart.

**`LockContract`** has no export, no expiry and no operation with an inside: `Take`,
`GiveBack`, `Die` and `Lapse`. `RunLock` implements it under the mapping
`holders <- {w : pc[w] \in Holding}` and `record <-` the owner of a lease that is held;
`AcquireLease` and `ReclaimLease` are `Take`, the release of the lease and the failure to
write the export are `GiveBack`, and everything else is no step at all. `IssueWorker` has
the lock as one step each way, and its use of every issue's lock is a use of
`LockContract` (`UsesRunLocks`, with all processes on one host, since it lets a lock be
taken from any dead process). So the two models meet: what the one assumes of the lock is
what the other shows of it.

**`IssueWorker`.** Schedulers queue rows, implementers claim and run them; a
self-scheduling implementer (`am worker implementation`) does both. One action per
store call or lock operation:

| step | code |
|---|---|
| `Select`, `ReadRow`, `ReadBackoff`, `Upsert` | `scheduleNextImplementationWorkerTask`, `enqueueImplementationWorkerTask`: selection, second look at the row, latest result, upsert |
| `Open`, `ClaimOwn` | the implementer's own cycle: its row is queued, and may be claimed by somebody else |
| `ClaimNext`, `ClaimOwnRowOf`, `ClaimNothing`, `Take` | `claimNext...AttemptContext` and `ClaimNextWorkerTask`, which asks for a role only |
| `Prepare`, `AcquireLock` | `prepareClaimedImplementationWorkerTask`; the facts of Linear, the code host and the runtime are a choice |
| `Complete`, `Report`, `ReleaseClaim` | a claim that comes to nothing, and `releaseClaims` after an error |
| `AttemptEnds`, `Unlock`, `CompleteAttempt`, `ReportAttempt`, `EndBatch` | `executeClaimedRunAttempt` and its deferred calls, in their order, for all claims of the batch at once |
| `FindStale`, `MarkStale` | recovery, which sees no lease for these rows |
| `Repair`, `Crash`, `LeaseExpires`, `Minute` | the operator, a kill, the run lease of a killed process, time |

**`Delivery`.** One issue. Changes of the workspace are numbered, so that version
`n` has every change up to `n` and it can be said which are committed (`tree.head`),
in the working tree (`tree.work`) and on the remote branch (`tip`); a pull request's
url is a number; the payload references are the set `pending`. The run lock is the
variable `job`, one record of what its holder is doing: `RunLock` has the lock
itself. What a lane picked before it has the lock is `seen[lane]`. A job goes through
the phases of the code, with every early return:

| step | code |
|---|---|
| `ImplSelect`, `HandSeePR`, `HandSeeHandoff`, `RevSeePending`, `ResumeSchedule`, `RevSeeResume` | selection, the claims of the handoff and review lanes, and the task row of a resumed review |
| `TakeLock`, `FindLocked` | `workspace.AcquireRunLock`, and its refusal |
| `Begin`, `Prepare`, `AgentChanges`, `AgentIsIdle`, `AgentFails`, `AgentAsks` | `executeClaimedRunAttempt` up to the agent's return |
| `ScopePasses`, `ScopeBlocks`, `ScopeUnknown` | the scope guard |
| `QueuePR`, `CommitWork`, `Push`, `OpenPR`, `HandoffFails` | `handoff.go`: payload, commit, push, pull request |
| `QueueReview`, `ReviewWaits`, `ReviewFails`, `ReviewRejects`, `ReviewAccepts` | the semantic review |
| `QueueFinal`, `FinalHandoff`, `WriteRecord` | the move to Handoff, then the record, the reference and the lock in the order of the defers |
| `MergeSchedule` ... `MergeRemove` | `merge.go` and `merge_worker.go`, one action per external call; a row ends, completed or failed, with `EndsMerge` |
| `CleanDecide`, `CleanDelete` | `cleanup.go`, decision and deletion apart |
| `Crash`, `ResumeRepair`, `RowRepair` | the death of the daemon, and the operator's repair of the rows it left claimed |
| `HumanReviews`, `HumanMerges`, `HumanAnswers`, `ChecksFinish`, `Conflict` | humans, the author, the code host |

A merge row belongs to a pull request: it waits (`waiting`), is worked on (`merge`), or
was left claimed by a worker that died and was marked `reconciliation_needed` (`stale`).
The rows of the issue's attempt and of its cleanup matter only in that last case
(`blocked`), in which they keep their lane from the issue until the operator repairs them.
`Prepare` has the failures before and after the clone apart, and a feedback file written
where there is no workspace, which makes the next clone impossible (`Unusable`). A job that
fails where the code returns before it has a record to write ends with `GivesUp`: the
deferred calls run, the store learns nothing. `ReviewChoices` says whether a review command is
configured where the work is handed off: always, never, or either, since each process reads
its configuration when it starts; without one the work counts as accepted as it is, and
goes to the handoff.

An attempt does all phases itself; the handoff lane does `CommitWork` to `QueueReview`
or `FinalHandoff`, the review lane the review (and, resumed, the handoff too). Every
decision in it is the operator of `Reconciler` or `AttemptPolicy` that `Decisions`
checks by itself. Three things about the code that the module shows and a reader may
not expect: nothing is looked at again under the run lock; the merge and cleanup lanes
take no run lock at all, and merging is kept off a locked issue by the lease rule
of the reconciler only, since `workspaceLockedOrModified` looks for a file `.am.lock`
in the workspace while the lock is exported to `.am-locks/<issue>.json`; and an inline
attempt settles neither its PR reference nor its handoff reference, so the
handoff lane does that work once more.

**`DeliveryContract`** is what that comes to for the issue: it is handed over only
after an accepted review, or as it is where no review is configured, a lane merges only
accepted and approved work, it is done only after a merge, and its workspace goes only then. The refinement mapping is
`stage <- state`, `reviewed <- accepted`, `approved <- approved`,
`mergers <- {l.by : l \in landed}`, `workspace <- tree.where`; `accepted` and `approved`
are the history of the issue, written by the review's acceptance (`QueueReview`'s, where
there is no review) and by a human's approval and read by no step of the lanes.

**`AttemptPolicy`, `Reconciler`, `CodeHost`, `Artifacts`, `Upkeep`** have no variables:
they are the program's pure decisions as operators, named like the functions they
translate (`FactsAfter` is `upsertAttemptResultTx`, `Reconcile` the rules of
`reconciler.go` in their order, `FirstRule` the early returns). Free text is kept as far
as a decision reads it. **`Decisions`** puts each of them to every input of a bounded
size, one question to a behaviour (a history of records, a diff, a list of candidates, a
view of an issue, an answer of a code host, a list of pull requests, a file, a sweep, a
series of store openings, a budget), and its properties say what the answer must be in
terms that do not repeat the operator: who may act on an issue at once, which record
vouches for a merge, which directories a sweep may have deleted.

## 3 Runs

Each property's comment in its module says what it means; each has a mutant in
`PROJECT.json`, a faulty version of a code definition (`\* Faulty:` in the
modules) under which TLC finds it violated.

| run | instance | shows |
|---|---|---|
| `lane_safety` | 3 processes, 1 lane, 1 crash | types, lease ownership, refinement of `LaneContract`, blocked rows stay, only stale claims are marked |
| `lane_liveness` | 2 processes, 1 crash, hosts that sleep, repairs at any time, fairness | abandoned claims surface, failed lanes are retried |
| `issue_tasks` | 2 daemons, batches of 2, 2 issues, 1 crash | types, a running issue's row blocks dispatch, one claimant per issue, blocked rows stay, run locks are used as `LockContract` has them |
| `issue_mixed` | a daemon and an `am worker implementation`, 1 issue, 1 crash, fairness | one attempt per issue although rows are claimed twice, abandoned claims surface |
| `run_lock` | 4 workers, 3 processes, 2 hosts, 2 crashes, fairness | types, refinement of `LockContract` (one run at a time, its process owns the live lease), dead owners are replaced |
| `run_lock_reclaim` | 3 workers, 2 processes of a host, 1 crash | violation, see 6 |
| `decisions` | the bounds below | an attempt is no success without a review; only the newest record vouches; retries are counted; the scope guard is exact; order and delay of candidates; one lane acts on an issue, never on one in doubt; merges are vouched for; deletions are of finished issues; the gate trusts the host; the pull request handed over is ours; repairs, migrations, budgets |
| `delivery` | implementation, handoff, merge and cleanup lanes, with and without a review command, 1 attempt, 1 human round, 1 failure, 1 crash | types, a holder of the run lock can always go on, refinement of `DeliveryContract` |
| `delivery_drains` | 3 lanes, 1 attempt, 1 failure, 1 crash, fairness | every pending payload and row is worked on in the end |
| `scope_uncommitted` | 1 attempt, nothing goes wrong | violation, see 6 |
| `feedback_stalls` | 2 attempts, the merge lane, 1 human round | violation, see 6 |
| `cleanup_under_lease` | 1 attempt, the merge lane, 1 human round | violation, see 6 |

More instances stay here for a reader to run (`tlc -config MCLaneWorkerSleep.cfg
MCLaneWorker` and so on). Two of them hold:

| instance | of | shows |
|---|---|---|
| `MCLaneWorkerOne.cfg` | `MCLaneWorker`: 1 process at a time of 2 identities, 2 lanes, suspend, crash, repairs at any time | what the theorems `FailuresCoolDown` and `ResultsAgreeWithRows` say: backoff applied, result rows agree with task rows until a crash |
| `MCDeliveryTwice.cfg` | `Delivery`: implementation, handoff and merge lanes, 2 attempts, 2.5 million states | what `delivery` shows, where one attempt works on the leavings of another |

The others end in a violation that section 6 describes:

| instance | of | violated |
|---|---|---|
| `MCLaneWorkerLost.cfg` | `MCLaneWorker` | `RenewsOwnLease` |
| `MCLaneWorkerSleep.cfg` | `MCLaneWorker` | `OnlyStaleClaimsAreMarked` |
| `MCIssueWorkerTwice.cfg` | `MCIssueWorker` | `ClaimsAreNotRequeued` |
| `MCIssueWorkerLong.cfg` | `MCIssueWorker` | `LiveAttemptsAreNotMarked` |
| `DecisionClaimsExplain.cfg` | `DecisionClaims` | `ExplainAgrees` |
| `DecisionClaimsOpenPR.cfg` | `DecisionClaims` | `OpenPRIsKept` |
| `MCDeliveryStalls.cfg` | `Delivery` | `MergedIsFinished` |

Why the bounds are enough. `LeaseTTL` 2, `StaleAfter` 3 and `Backoff` 1 keep the
order of the real constants (renewal 1 min, backoff 1 to 5 min, lease 5 min,
stale 15 min) in the shortest instance in which a lease outlives a renewal and a
claim outlives its lease. One row and one lease serve a lane, so one lane with
three processes has an owner, a taker-over and a bystander that recovers; the
second lane of `MCLaneWorkerOne.cfg` matters where one lane's recovery meets another
lane's body of the same process. One crash leaves every combination of rows a crash can leave; a
second only repeats it, since a new process has a fresh identity. For `RunLock`,
four workers give a dead owner, its judge, a second worker of the judge's process
and a worker on another host. For
`IssueWorker`, two issues and batches of two give a batch with an earlier claim
when a later one fails; one issue is enough where two workers meet on it, which is all the mixed instance is about. `StaleAfter` 2 exceeds `Backoff` 1 and is less than an attempt may last,
as 15 minutes are less than the command timeout of 90.

For `Delivery`, one attempt has every phase of every lane: what it leaves is taken up by the
handoff and merge lanes, which go on while it does, and what the cleanup deletes may be in
use by any of them. Two attempts, the least in which one works on the leavings of another,
are in `feedback_stalls` and in `MCDeliveryTwice.cfg`, for which the cleanup lane is left
out: with it the instance is out of reach. One human round is an approval, a rejection or
a merge, and the merge lane's way back to Ready with it; one failure of an external
call meets every call, one crash every point between two; a second of either repeats
the first from a state that was reached before. `MaxPicks` is how many lanes may
stand between picking and locking: with one, whatever happens between the two is still
done by the holder of the lock and by the lanes that take none. The review
lane is not in the instance of `delivery` but in that of `delivery_drains`. The proof
(section 5) covers all lanes at once, and any number of attempts.

For `Decisions`: three records tell the newest, the one before it and the row kept
from the first apart; two files and paths of two segments have every relation of a
path and a pattern (equal, below, beside); two candidates are all the order compares;
three marker lines have a first, a second and one that must not count; four checks
cover the gate's four states; three reviews by two people have a last word that
contradicts an earlier one; eight retries pass the maximum delay. The properties are
about one decision each, so the size of a single input is all that matters.

## 4 Fairness

`LaneWorker`: goroutines of a live process get to run (weak fairness of each
worker's steps); a body ends (strong fairness of `Body`: commands have timeouts, and
a renewal only delays the return); a daemon that is down is
started again by whoever runs it (weak fairness of `Start`); hosts that are suspended wake
and stay awake in the end (`<>[](asleep = {})`); time goes on (strong
fairness of `Minute`, with `[]<>Settled`: lanes rest between cycles, so the
moments at which no store call is under way keep coming). Nothing is assumed of
crashes, of the operator, or of the order of processes. `RunLock`: the same for a
worker's own steps; workers keep trying, since the issue remains a candidate.
`IssueWorker`: the same for a cycle that has begun (`MidCycle`, `Work`; attempts end
because commands time out) and for time, and every recovery marks what it finds
(weak fairness of `FindStale` and `MarkStale`: some lane of a live daemon always
begins another cycle). No fairness makes a scheduler pick an issue. `Delivery`: the
holder of the run lock goes on (weak fairness of `JobSteps`: every external call and
command has a timeout), a lane that has picked something comes to the lock (weak
fairness of `TakeLock` or `FindLocked`), and the handoff and review lanes poll for ever.
Picking and taking the lock are strongly fair for these two lanes: the lock is free
again and again, and a failed attempt waits for a backoff of many polls before it is
picked, so that they do not always come too late. Nothing is assumed of humans, of the
code host, of the operator, or of the agent's success. A row whose worker died waits for
the operator, and the property says so.

## 5 Proofs

TLAPS checks, for every set of processes, lanes, workers and hosts and every
value of the bounds:

`LaneWorkerProofs`
- `TypeCorrect`: `Spec => []TypeOK`, with no further hypothesis.
- `HoldersOwnTheirLease`, `MarksOnlyStaleClaims`, `LanesKeepTheContract`,
  `OneBodyPerLane`, each under `~MaySuspend /\ ~RepairAnytime`.
- `ResultsAgreeWithRows` and `FailuresCoolDown` (properties `ResultAgreesUntilCrash` and
  `BackoffIsApplied`), under `MaxDaemons = 1`, with any suspension and repairs at any time.
- `RenewalsAreOfOwnLeases`, under either pair of conditions: what `RenewsOwnLease` says and
  `MCLaneWorkerLost.cfg` refutes for two daemons of which one sleeps.
- `BlockedRowsStay` (property `BlockedUntilRepair`), under either: for any number of daemons
  with `~MaySuspend /\ ~RepairAnytime`, and for one daemon at a time without them (before the
  proof TLC found the invariant and the property to hold on the instance of `MCLaneWorkerOne.cfg`).

The first two hypotheses are the conditions under which the code keeps its promise:
with a suspended host `RenewsOwnLease` and `OnlyStaleClaimsAreMarked` fail
(`MCLaneWorkerLost.cfg`, `MCLaneWorkerSleep.cfg`), and a repair between two store calls of a cycle can put a row
under an `Enqueue` that was decided before it was blocked.

The argument. None of these is inductive. `IInv` ties together a row, its
lease and the workers around it: a claimed row is either being worked on, under a
lease its worker owns with time left (`HeldRow`, `LeaseIsOwned`), or between its
claim and its lease (`EarlyRow`), or abandoned; a cycle that has found a claim
stale has found one that nobody attends to, and its mark meets the same row or
none (`FoundRow`); and no worker acts on a row marked for the operator
(`RowShape`). The key fact is that a running worker renews before each minute, so
its lease has at least `LeaseTTL - 1 > 0` minutes left whenever somebody looks:
no other worker acquires it, and recovery never selects its claim. `IInv` is
preserved action by action; refinement then needs, for each action, which
abstract step it is (`Acquire` is `Begin`, `BodyReturns` and `Crash` are `End`,
`MarkStale` is `Surface`, `Repair` is `Repair`, everything else stutters), and
`IInv` supplies the guards.

With one daemon at a time none of this is needed and less of it holds: its host may
sleep until another of its lanes marks the claim of a body that is still asleep, and an
operator may queue that row again before the body has ended. What is left (`OneInv`) is
that one process at most is up, so that nobody else works in a worker's lane (`OneUp`);
what a worker may count on at its step (`WorkerFits`: the wait it read or queued covers
the backoff of the result row, the row it is to complete was completed by nobody else, and
the lease it runs under is its own); and what a lane's rows say of each other when no
result is due (`LaneFits`). For the rows that wait for an operator it adds that a row a cycle
has read and is to enqueue over is neither claimed nor blocked (`InService`). `RowStep`
says which statement wrote a row and what it tested; only the enqueue tests nothing, a
recovery marks claims only, and with one daemon nobody else claims that row, so it is still
in service when the enqueue comes. `MaxDaemons = 1` cannot be dropped for the backoff: a second
daemon may queue the row between the completion of a task and the recording of its failure.

`RunLockProofs`
- `TypeCorrect`: `Spec => []TypeOK`.
- `OnlyTwoVerdictsLetTwoRun`: with `~MayOverrun`, in every behaviour in which no two
  workers are between their verdict on a dead owner and their reclaim at once (`OneVerdict`),
  one run at a time holds the lock (`OneRunAtATime`), it is on record in the database
  (`RunIsVisible`), and the lock keeps `LockContract` (property `ImplementsContract`).
  Nothing in the code keeps two workers of a host from standing there together; the
  run `run_lock_reclaim` shows what comes of it. The theorem and the run settle finding 1:
  two standing verdicts are the cause of two runs, and there is no other.

The invariant adds to the two safety properties that a worker between its verdict and
its reclaim has judged a process that is dead (`ReclaimsFromDead`), that the lease
it judged still stands (`JudgedLeaseIsHeld`), and that dead processes' workers do
nothing (`DeadAreIdle`). Its steps are proved from `OneVerdict`. For the refinement each action is one of four
kinds: nothing its users see changes (`Unseen`), the lock is taken from nobody or from the
dead (`Taken`), it is given back by its holder (`GivenBack`), or a process dies or a lease
runs out.

`IssueWorkerProofs`
- `TypeCorrect`: `Spec => []TypeOK`, and `OneAttempt`: `Spec => []OneAttemptPerIssue`,
  with no further hypothesis. The second needs neither the lanes' exclusion nor anything
  about the rows. Its invariant adds that a killed process has no attempts
  (`DeadAttemptNothing`), because `AcquireLock` may take a dead process's lock over.
- `RunningBlocksDispatch`, `OneClaimantOnly` and `MarkedRowsStay` (properties
  `RunningBlocks`, `OneClaimant`, `BlockedUntilRepair`), under `LanesOfDaemons`: one
  scheduler lane, one implementation lane, and implementers that leave the queueing to the
  scheduler. That is how daemons are built; `am worker implementation` breaks it, and
  `MCIssueWorkerTwice.cfg` shows that the hypothesis is needed.
- `BatchesUseRunLocks`: `Spec => UsesRunLocks`, with no further hypothesis. A batch gives
  back the locks it took, all at once or one by one, and takes none that a live process
  has, whichever of its claims fails.

`BInv`, behind the last three, says that a body keeps its claims to itself: the workers of
a lane other than the one whose body runs are idle (`OneBody`), what the scheduler read of a row still holds when
it queues the row (`StillRunnable`), the row of an issue in somebody's batch blocks
dispatch, and is claimed or marked by recovery while the batch is being claimed
(`HeldRows`), and time changes no row that waits for its repair (`RowTimes`). A repaired row
of a long attempt can be queued while the attempt runs; it is `OneBody` that keeps it from
being claimed again, since the claimers of all processes share the lane of the worker that
still runs it.

`ReconcilerProofs` has no theorem of its own that a run checks. `FirstRuleDecides` says
what a list of early returns comes to: the decision of the first rule that applies, with no
rule before it applying. From it follow, for any facts whatever, that every rule but the
ones named holds back (`EarlyRulesHoldBack`, `PRRulesDecide`, `RecordRulesDecide`), hence what must
be true of an issue that is run (`RunsAreQuiet`), merged (`MergesArePermitted`) or deleted
(`DeletesAreOfTheDone`).

`DecisionsProofs` has one theorem for each property of `decisions`, and one more, for
histories, lists, diffs and delays of any length, with no hypothesis:
- about one issue: `LanesDoNotCollide`, `OthersAreLeftAlone`, `MergesVouchedFor`,
  for the cleanup `DeletesSafe`, and `ExplainsUnlessRetried`: of an issue without a recorded
  retry `am explain` says what the lanes do (with one it does not, finding 6);
- about attempts and what the store keeps: `SuccessIsReviewed`, `RetriesCounted`,
  `MergesNeedTheLastRecord`, `RepairsSettle`, `StoreKeptWhole`;
- about the limits of a run: `LimitsStopRuns`, for the budgets that `Decisions` asks about,
  which are of a fixed size (no constant bounds them);
- about lists: `GuardIsExact`, `SelectionIsBest`, `HandoffsAreOurs`, `GateTrusts`,
  `DelaysGrowToTheMaximum`.

A question and its answer are one state, so most of these hold of every answer at once. Where
a question grows (records one after another, openings of the store one after another), the
invariant says of the answer so far what the property says of the last one, and a little
more: `FactsAnswer` that the facts are what the last record made of some facts, and count the
records to retry since the last one with new feedback; `StoreAnswer` that the database is
whole up to the newest release that got through. The order of
candidates is shown to have a first by taking the least under each key in turn
(`SomebodyIsFirst`), and to be the order of ready, label, priority and age that `BestIsPicked`
states without keys; that the recursive retry delay is defined for every number of retries is
shown without an induction theorem, by the least number for which it would not be
(`DelaysAreDefined`, over `LeastOfSome`). What two commands used is added up in the model by
a fold and in the property by a running total; each is unfolded step by step until both are
the same sum (`FoldOfUsed`, `TotalOfUsed`).

`DeliveryProofs`
- `CopiesAreCovered`: `Spec => []IInv`, and `LanesKeepTheContract`:
  `Spec => ContractSpec`, for any set of lanes and any bounds, with no hypothesis but
  `BoundsAssumption`, and not even that is used.

What the contract's guards speak of happened in the past: was the work ever accepted,
did a human approve, was anything merged. What a step of the lanes tests is a copy made
since: a job's next step, a pick made before the lock was free, a payload, the pull
request the merge lane looked up, a cleanup already decided. The refinement is not
inductive without saying that no copy outruns the event: `HandoffsAreAccepted` (a job or
a pick that is about to hand over, a pending handoff payload and the state Handoff all
have an acceptance behind them), `ApprovalsAreGiven` (so has an approval on the pull
request or in the merge lane's memory; a merge lane at `squash` has both), `EndsAreMerged`
(the merge lane's later steps, Done, and a cleanup about to delete have a merge behind
them). `Shape` has the record fields the steps set, in place of full typing. Two lemmas
are about the decisions: `AcceptedIsVouched`, that the review accepts nothing but a pass
or missing evidence, and `OnlyDoneIsDeleted`, that in the ordered cleanup rules the one
that keeps unfinished issues comes before every one that deletes. Each action then is one
step of the contract or none: `FinalHandoff` is `HandsOff`, `ReviewAccepts` is `Reviews`,
`MergeSquash` is `LaneMerges`, `MergeToDone` is `Finishes`, `MergeRemove` and `CleanDelete`
are `Deletes`, and so on. TLC found `IInv` to hold on an instance with two attempts, and on
one with all five lanes and a single attempt, before it was proved.

`DeliveryTypeProofs`
- `TypeCorrect`: `Spec => []TypeOK`, for any set of lanes and any bounds, from
  `BoundsAssumption`.

The types bound numbers that several actors hand on, so they say more than that a variable
has its fields. `TInv` has four parts. `PRInv`: pull requests are numbered as they were
opened, at most one is open, and each needs a round of the humans before there can be
another, since the merge lane squashes none that nobody looked at; so there are at most
`MaxRounds + 1`. `VersionInv`: each attempt makes one version at most, and only an attempt
makes one. `CopyInv`: no job, pick, payload, record or row names a pull request that was not
opened. `RowInv`: no merge row does either, waiting, worked on or stale. Every step then is one of few kinds for each part (a pull request is opened,
changes, lands, or is left alone), and the parts are kept one by one. TLC found `TInv` to
hold on an instance with two attempts, on one with five lanes, and on one with two rounds.

Every invariant and every action property that a passing run checks is a theorem, but one.
Only model-checked:
- Liveness: `AbandonedClaimSurfaces` (of lanes and of issues), `FailedLaneIsRetried`,
  `DeadOwnerIsReplaced`, `PendingIsDrained`. They need fairness, which the prover does not
  reason about.
- `JobGoesOn`, which is about `ENABLED`, out of the prover's reach too.

## 6 Findings

Shown by runs:

1. `run_lock_reclaim`: two workers that find the same owner dead both end up holding
   the run lock (`locks.go:134`). `OnlyTwoVerdictsLetTwoRun` shows that nothing else does.
2. `scope_uncommitted`: the scope guard compares commits with the base branch, and runs
   before the runner commits what the agent left in the working tree, so uncommitted
   changes pass it and are handed over (`scopeguard.go:38`, `handoff.go:263`).
3. `feedback_stalls`: a success keeps the retry row of the failure before it, and the
   retry gate does not admit the decision that feedback on a pull request gets, so the
   issue that the merge lane moved back to Ready "for pickup" is never picked up
   (`store.go:1583`, `candidate_selection.go:186`, `merge_worker.go:158`).
4. `cleanup_under_lease`: neither the removal after a merge nor the cleanup asks for the
   run lock or its lease (`cleanup.go:283`, `merge.go:368`), so an attempt loses its
   workspace under it (`end-to-end-orchestration.md:128` says they must respect leases).
   `JobGoesOn` shows that such an attempt still comes to its end.

Shown by the instances to run by hand:

5. `MCLaneWorkerLost.cfg`: `RenewLease` renews a lease whoever owns it (`store.go:482`). A
   daemon's host sleeps past lease and staleness bound, a second daemon marks the claim, an
   operator requeues it, the second daemon claims the row and takes the lease; the first one
   wakes, renews what is now the other's lease, and both run the lane's body, where
   `durable-worker-orchestration.md:217` has a worker fail closed "instead of continuing
   under uncertain ownership".
6. `DecisionClaimsExplain.cfg`: `am explain` reconciles each issue and looks at no retry
   decision, so it calls an issue one for the operator that selection picks once its backoff
   has passed (`explain.go:120`), although the documents have it report retry reasons
   (`harness-behavior.md:110`) and the next decision (`:145`).
7. `DecisionClaimsOpenPR.cfg`: a workspace of a finished issue with an ended attempt is
   deleted though its pull request is open (`cleanup.go:426`, which asks for it only where the
   status is not terminal; `durable-worker-orchestration.md:177` has cleanup respect open
   pull requests, and so does `sqlite-orchestration-state.md`). `DeletesAreSafe` claims no
   more than the code keeps: the issue is done and the attempt has ended.
8. `MCDeliveryStalls.cfg`: what fails after the squash is not tried again, since only open
   pull requests get a merge row (`merge.go:158`); the issue stays in Handoff, with its branch
   and workspace, where `harness-behavior.md:279` has a merge delete the branch and move the
   issue to Done. The convergence of merged pull requests (`MergeConverge`) helps only a row
   that was queued before the merge, or one that an operator requeues after a crash.
9. `MCLaneWorkerSleep.cfg`: stale recovery marks a claim its live worker has renewed since
   it was selected (`store.go:994` tests the status alone).
10. `MCIssueWorkerTwice.cfg`: the enqueue of an issue checks the row and upserts it in
    separate transactions (`implementation_worker_process.go:86`), so with an `am worker
    implementation` beside a daemon a claimed row can be put back into the queue and claimed
    twice. The run lock stops the second attempt (theorem `OneAttempt`), whose failure then
    becomes the row's status.
11. `MCIssueWorkerLong.cfg`: issue rows name a lease that nobody takes and are never touched,
    so recovery marks the claim of any attempt longer than 15 minutes.

Met while modelling, part of the models as they are, and not settled by a run:

- `workspaceLockedOrModified` looks for `.am.lock` in the workspace, where no lock is.
- `end-to-end-orchestration.md:141-142` says that `max_retry_backoff_ms` is only stored and
  no backoff is applied; the code (`candidate_selection.go:233`) and
  `harness-behavior.md:101` have one, which is what `DelayGrows` is about.
- A merge lane that writes feedback for an issue without a workspace makes its directory
  (`merge_worker.go:52`, `:142`); it is not empty then, and no later attempt clones there.
- An inline attempt leaves its PR and handoff references pending; the handoff lane redoes
  the pull request, and with it the review and the handoff.
- After feedback, a handoff redone from an older payload makes the issue look already
  addressed (`AlreadyAddressed`).
- A scope pattern of a directory loses its trailing slash, and deleted files are no part of
  the diff the guard looks at (`--diff-filter=ACMRT`).
- An issue that fails its review without a known class goes back to Ready and is never
  selectable; a failed attempt with an open pull request is not retried in Running.
- A retry with new feedback starts counting again; an unreadable payload blocks those
  behind it; a lookup that fails is taken for a pull request that is not merged.
- A later comment of a reviewer replaces the request for changes (`ghapi/api.go:240`); a
  GitLab merge request with no known state is mergeable, and its running pipelines count
  as failed.
- `am explain` does not know task rows either. A pull request the agent named is
  handed over although it is closed; one just created is validated only afterwards.
- Backfill's "reconciliation-needed" neither ends nor holds back a retry, and backfill
  overwrites newer rows. A lookup error ends a repair of all artifacts, one unreadable
  workspace ends a sweep, and "superseded" is never looked at again.
- A negative duration in the budget means no limit (`config/budget.go:180`). The base
  branch defaults to `develop` in one place and to `main` in another.

## 7 Assumptions and bounds

- A store call takes no time: time passes while workers wait, and a running
  worker that is awake renews once in each minute. A host suspend is the case in
  which this fails, and is modelled as such (`MaySuspend`).
- A process is suspended while its workers wait, not in the middle of a store call.
- The operator repairs between cycles unless `RepairAnytime`.
- A new process has an identity no row names. (Identities are host and pid, which
  the system may reuse; a container that restarts with the same pid would count as
  its own predecessor.)
- The store works: an SQL error is modelled only where the code produces it itself
  (no row matched).
- The scheduler lane's body calls the same recovery as every cycle does; it is
  covered by `BeginCycle`. `maxCycles` is 0, as in the daemon.
- `RunLock`: a run lasts no longer than its lease unless `MayOverrun`; no run of the
  instance sets it, because the 4 hours exceed the wall-clock budget of a run (2 hours by default,
  `internal/runbudget/budget.go`); a larger configured budget would not be refused.
- The backoff can be missed: a second daemon may queue a lane's row, or the scheduler
  an issue's, between the completion of a task and the recording of its failure.
  `BackoffIsApplied` is therefore proved for the lanes of one daemon only, and no run
  checks it.
- `IssueWorker`: one body of a lane at a time, which `LaneWorker` shows for hosts that
  are not suspended; the run lock as one step each way, which `RunLock` shows
  (`ImplementsContract`) while no two workers judge one dead owner. No process starts again after a crash (a new one
  would have an unused identity; the surviving one plays its part), and what a crash
  leaves of a cycle's own row is `LaneWorker`'s business. A batch is not cancelled
  half claimed. Selection's reads are one step, since the row is read again.
- `Delivery`: one issue, with the run lock as one step each way (`RunLock`), and each lane
  doing one thing at a time (`LaneWorker`). The rows of the lanes' own cycles are left out;
  those of pull requests and of a resumed review are kept, and of the attempt and the cleanup
  whether a crash left them to the operator. A row is marked at once when its worker dies,
  where the code waits for its staleness: nothing takes it up in between. A merge takes the
  ownership of the pull request (`prInvariantBlockReason`) as `valid` has it. Checks that fail are
  checks that never finish, and the text of feedback is the round it is from. A crash takes
  every lane with it, and the sweep of the dead process's lock is part of it. The time a
  backoff lasts is not modelled (fairness, section 4), nor are the retries that set its
  length, which `Decisions` has.
- `Decisions`: the store is at hand, as every lane requires. Texts are kept as far as a
  decision reads them.
- Named bounds: `MaxDaemons`, `MaxCrashes`, `LeaseTTL`, `StaleAfter`, `Backoff`,
  `Capacity`, `LockTTL`; `MaxPicks`, `MaxAttempts`, `MaxRounds`, `MaxFaults`, `MaxCrashes` of
  `Delivery`; the constants of `Decisions`. In `PROJECT.json` the modules' `\* Faulty:`
  definitions are the mutants and no part of any specification.

## 8 Not modelled

The run lock without a state store (files only). A batch of issue claims that supervision
cancels half way, and the review lane's filtered claim, which may complete the row of
another process's cycle. Queued Linear transitions: nothing in the program queues one.
The status of PR handoff intents, cleanup states, events and snapshots, which nothing
reads back to decide. Agent runtimes, git, and the requests to Linear and the code hosts:
their outcomes are choices of the steps that wait for them. Reports, prompts,
configuration other than the budget, the smoke tools, the terminal UI: they format,
parse or display. `PROJECT.json` lists every part with its reason.

## 9 Plan

Done since the first version: handoff, review, merge and cleanup lanes composed
(`Delivery`), the decisions (`Reconciler`, `Decisions` and what they extend), the refinement
proofs, a contract for the run lock that one model implements and another uses, and proofs of
every safety property that a run checks, but for the one named in section 5.

Left, most important first:

1. `IssueWorker`, further: review tasks with their filtered claim, and cancellation by
   supervision.
2. `Delivery` with two issues, for what they share: the batch, and the order in which
   pending payloads are picked.
3. `Delivery` over `LockContract`: its `job` is the holder of one issue's lock, as in
   `IssueWorker`.
4. `RunLock` when a run outlives its lease (`MayOverrun`): what is still true of the second
   run that gets in, and of the export that the first one removes.
5. What is left of `LaneContract` for one daemon when its host sleeps or a repair falls into
   a cycle, beyond the rows out of service: `OneInv` is the invariant to start from.
