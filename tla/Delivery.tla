------------------------------ MODULE Delivery ------------------------------
(***************************************************************************)
(* One issue on its way from Ready to Done, with its workspace, its branch *)
(* and its pull request, and the lanes that work on it at the same time:   *)
(*                                                                         *)
(*   impl   an attempt (run_one.go executeClaimedRunAttempt): the agent,   *)
(*          the scope guard, the pull request, the review and the handoff, *)
(*          all in line                                                    *)
(*   hand   the handoff lane (handoff_worker_process.go), which redoes the *)
(*          pull request or the final handoff from a pending payload       *)
(*   rev    the review lane (review_worker_process.go), which redoes a     *)
(*          pending review or resumes one that waited for checks           *)
(*   merge  the merge lane (merge.go, merge_worker.go)                     *)
(*   clean  the cleanup lane (cleanup.go)                                  *)
(*                                                                         *)
(* The first three hold the run lock of the workspace while they work, so  *)
(* there is one job at a time (RunLock has the lock itself, LaneWorker the *)
(* rows of the lanes' tasks); merge and clean take no run lock.  Humans    *)
(* and the code host act whenever they can, a daemon may die with all its  *)
(* lanes, and any external call may fail.                                  *)
(*                                                                         *)
(* Changes of the workspace are numbered: version n has every change up to *)
(* n, version 0 is the base branch.  A pull request's url is a number.     *)
(***************************************************************************)
EXTENDS Reconciler, FiniteSets

CONSTANTS Active,       \* the lanes that run, as one daemon or one worker each
          ReviewChoices, \* whether a review command is configured where the work is
                         \* handed off: yes, no, or either, as each process reads
                         \* its configuration when it starts
          Failures,     \* statuses a failing agent or reviewer may end with
          MaxPicks,     \* how many lanes are between picking and locking
          MaxAttempts,  \* how many attempts there are
          MaxRounds,    \* how often humans review or merge
          MaxFaults,    \* how many external calls fail, conflicts included
          MaxCrashes    \* how often the daemon dies

ASSUME BoundsAssumption ==
  /\ Active \subseteq {"impl", "hand", "rev", "merge", "clean"}
  /\ ReviewChoices \subseteq BOOLEAN /\ ("rev" \in Active => TRUE \in ReviewChoices)
  /\ Failures \subseteq Statuses
  /\ MaxPicks \in Nat
  /\ MaxAttempts \in Nat /\ MaxRounds \in Nat /\ MaxFaults \in Nat /\ MaxCrashes \in Nat

VARIABLES
  state,     \* the issue's Linear state
  pr,        \* its open pull request, NoPR if there is none
  landed,    \* merged pull requests: url and merged by whom
  tip,       \* version on the remote branch, 0 if there is no branch
  tree,      \* workspace: where, the committed head and the working version
  feedback,  \* PR feedback in the workspace: the round it is from, 0 if none
  facts,     \* what the store knows of the attempt
  pending,   \* worker_payload_refs: the payloads whose status is pending
  payload,   \* the payload files they point to
  resume,    \* the worker task that resumes a review: "none" (or it ended),
             \* "queued", "claimed", or "stale" (reconciliation_needed)
  seen,      \* what each lane picked, before it has the run lock
  job,       \* what the holder of the run lock is doing, NoJob if nobody
  merge,     \* the step of the merge lane, the row it works on and its PR
  waiting,   \* pull requests with a merge row that waits
  stale,     \* those whose merge row is reconciliation_needed: a worker died
  blocked,   \* lanes, impl and clean, whose row of the issue is that
  clean,     \* whether the cleanup lane is about to delete the workspace
  made,      \* how many versions there are
  drifted,   \* versions whose difference to the base leaves the ticket's scope
  accepted,  \* whether a review, or the want of one, ever accepted the work
  approved,  \* whether a human ever approved a pull request
  attempts, round, faults, crashes  \* how much of the bounds is used up

host == <<pr, landed, tip>>
local == <<tree, feedback, made, drifted>>
store == <<facts, pending, payload, resume>>
rows == <<waiting, stale, blocked>>
lanes == <<merge, clean, rows>>
past == <<accepted, approved>>
bounds == <<attempts, round, faults, crashes>>
vars == <<state, host, local, store, seen, job, lanes, past, bounds>>

----------------------------------------------------------------------------
(* Jobs.  A job has its lane, its next step, what it is about (kind), the  *)
(* reference it settles (ref), what it remembers of the issue (was) and of *)
(* its pull request (asked, the review decision), its url and the          *)
(* reviewer's verdict, and once it stops the record to write.  Whether a   *)
(* reference ends as completed or failed is nobody's business afterwards,  *)
(* nor is the status of the intent that goes with a PR handoff; what a     *)
(* settled payload and a used memory say is forgotten.                     *)

Lanes == {"impl", "hand", "rev"}
NoRecord == Record("none", NoReview, 0, FALSE)

Job(lane, step) ==
  [lane |-> lane, step |-> step, kind |-> "run", ref |-> "none", was |-> "Other",
   asked |-> "", url |-> 0, verdict |-> NoReview, rec |-> NoRecord]
NoJob == Job("none", "none")

Inline(j) == j.lane = "impl" \/ j.kind = "resume"

\* workspaceLockedOrModified: only uncommitted changes are seen, since the
\* lock file it looks for is not where the run lock is kept.
InUse == tree.work # tree.head

\* A decision's view of the issue, with the pull request it looked up.
ViewOf(p) ==
  [state |-> state, blocked |-> FALSE, lock |-> job # NoJob, lease |-> job # NoJob,
   broken |-> FALSE, facts |-> facts, pr |-> p, artifact |-> "none",
   feedback |-> feedback # 0, inUse |-> InUse]

\* The retries only set the length of a backoff, which is not modelled; the
\* outcome is only read of records without a status.
Remember(r) ==
  [FactsAfter(facts, [r EXCEPT !.hash = feedback]) EXCEPT !.retries = 0, !.outcome = ""]

NoTree == [where |-> "absent", head |-> 0, work |-> 0]
Deleted == [NoTree EXCEPT !.where = "deleted"]
Clone == [NoTree EXCEPT !.where = "here"]

NoPayloads == [pr |-> 0, review |-> 0, handoff |-> [url |-> 0, verdict |-> NoReview]]

Init ==
  /\ state = "Ready" /\ pr = NoPR /\ landed = {} /\ tip = 0
  /\ tree = NoTree /\ feedback = 0 /\ made = 0 /\ drifted = {}
  /\ facts = NoFacts /\ pending = {} /\ payload = NoPayloads /\ resume = "none"
  /\ seen = [l \in Lanes |-> NoJob] /\ job = NoJob
  /\ merge = [step |-> "none", url |-> 0, pr |-> NoPR] /\ clean = FALSE
  /\ waiting = {} /\ stale = {} /\ blocked = {}
  /\ accepted = FALSE /\ approved = FALSE
  /\ attempts = 0 /\ round = 0 /\ faults = 0 /\ crashes = 0

\* An external call fails.
Fails ==
  /\ faults < MaxFaults
  /\ faults' = faults + 1
  /\ UNCHANGED <<attempts, round, crashes>>

Works == UNCHANGED bounds

----------------------------------------------------------------------------
(* A lane picks its work, then takes the run lock; between the two others  *)
(* may work on the issue, and nothing is looked at again under the lock.   *)
(* A lane does one thing at a time (LaneWorker).                           *)

IsIdle(l) ==
  /\ l \in Active /\ seen[l] = NoJob /\ job.lane # l
  /\ Cardinality({m \in Lanes : seen[m] # NoJob}) < MaxPicks

Picks(l, j) ==
  /\ IsIdle(l)
  /\ seen' = [seen EXCEPT ![l] = j]
  /\ UNCHANGED <<state, host, local, store, job, lanes, past, bounds>>

\* The scheduler's selection and the implementation task it leads to, unless
\* the issue's row still waits for the operator.
ImplSelect ==
  /\ attempts < MaxAttempts /\ "impl" \notin blocked
  /\ Selectable(ViewOf(pr), TRUE, TRUE)
  /\ Picks("impl", [Job("impl", "begin") EXCEPT !.was = state, !.asked = pr.review])

\* claimNextPRHandoffPendingAttempt
HandSeePR ==
  /\ "pr" \in pending
  /\ Picks("hand", [Job("hand", "commit") EXCEPT !.kind = "pr", !.ref = "pr", !.url = payload.pr])

\* claimNextHandoffPendingAttempt, once no PR handoff is pending
HandSeeHandoff ==
  /\ "pr" \notin pending /\ "handoff" \in pending
  /\ Picks("hand", [Job("hand", "final") EXCEPT !.kind = "handoff", !.ref = "handoff",
                      !.url = payload.handoff.url, !.verdict = payload.handoff.verdict])

\* claimNextReviewPendingAttempt
RevSeePending ==
  /\ "review" \in pending
  /\ Picks("rev", [Job("rev", "review") EXCEPT !.kind = "pending", !.ref = "review",
                     !.url = payload.review])

\* The review may be resumed: it waited for checks, and they are green.
Resumable ==
  LET d == Repaired(ViewOf(pr))
  IN pr # NoPR /\ d.run /\ d.next = "run_semantic_review_after_checks_ready"

\* No row blocks dispatch: the one there was has ended.
MayEnqueue == resume = "none"

\* The scheduler's part of it.
ResumeSchedule ==
  /\ "rev" \in Active /\ MayEnqueue /\ Resumable
  /\ resume' = "queued"
  /\ UNCHANGED <<state, host, local, facts, pending, payload, seen, job, lanes, past, bounds>>

\* The review lane looks for pending reviews first; it passes over one
\* whose workspace is locked.
NothingPending == "review" \notin pending \/ job # NoJob

ResumeJob == [Job("rev", "queueReview") EXCEPT !.kind = "resume", !.url = pr.url]

\* claimNextQueuedReviewReadyAttempt: the row is claimed and the issue looked
\* at again, but it is not looked at a third time under the lock.  How the
\* row ends, and the scope checked once more for the handoff's summary,
\* decide nothing.
RevSeeResume ==
  /\ IsIdle("rev") /\ resume = "queued" /\ NothingPending
  /\ \/ /\ Works /\ Resumable /\ resume' = "claimed"
        /\ seen' = [seen EXCEPT !["rev"] = ResumeJob]
     \/ (IF Resumable THEN Fails ELSE Works) /\ resume' = "none" /\ UNCHANGED seen
  /\ UNCHANGED <<state, host, local, facts, pending, payload, job, lanes, past>>

\* The operator requeues a row whose worker died.
ResumeRepair ==
  /\ resume = "stale"
  /\ resume' = "queued"
  /\ UNCHANGED <<state, host, local, facts, pending, payload, seen, job, lanes, past, bounds>>

\* The handoff lane records its payload as pending once more when it begins.
TakeLock(l) ==
  /\ seen[l] # NoJob /\ job = NoJob
  /\ attempts' = IF l = "impl" THEN attempts + 1 ELSE attempts
  /\ job' = seen[l] /\ seen' = [seen EXCEPT ![l] = NoJob]
  /\ pending' = IF seen[l].kind = "pr" THEN pending \cup {"pr"} ELSE pending
  /\ payload' = IF seen[l].kind = "pr" THEN [payload EXCEPT !.pr = seen[l].url] ELSE payload
  /\ UNCHANGED <<state, host, local, facts, resume, lanes, past, round, faults, crashes>>

\* The row of a resume ends with it.
EndsRow(j) == resume' = IF j.kind = "resume" THEN "none" ELSE resume

FindLocked(l) ==
  /\ seen[l] # NoJob /\ job # NoJob
  /\ seen' = [seen EXCEPT ![l] = NoJob] /\ EndsRow(seen[l])
  /\ UNCHANGED <<state, host, local, facts, pending, payload, job, lanes, past, bounds>>

----------------------------------------------------------------------------
(* How a job goes on, and how it ends.                                     *)

At(step) == job.step = step
Goes(step) == job' = [job EXCEPT !.step = step]
Quits == job' = NoJob

\* It stops: a record is still to be written, then it is over.
Stops(r) == job' = [job EXCEPT !.step = "record", !.rec = r]

\* Faulty: the reference that was worked on stays as it is.
SettlesNothing(queued) ==
  /\ pending' = pending \cup DOMAIN queued
  /\ payload' = [p \in DOMAIN payload |->
                   IF p \in DOMAIN queued THEN queued[p] ELSE payload[p]]

\* completeWorkerPayloadRef of the job's reference, next to what it queues.
Settles(queued) ==
  /\ pending' = (pending \ {job.ref}) \cup DOMAIN queued
  /\ payload' = [p \in DOMAIN payload |->
                   IF p \in DOMAIN queued THEN queued[p]
                   ELSE IF p = job.ref THEN NoPayloads[p] ELSE payload[p]]

Queues(p, data) ==
  /\ pending' = pending \cup {p}
  /\ payload' = [payload EXCEPT ![p] = data]

\* It stops without a record, as it does where the code returns before it
\* has one to write: the defers run all the same.
GivesUp == Settles(<<>>) /\ EndsRow(job) /\ Quits

\* writeRunRecord, then the reference and the lock, in the order of defers.
WriteRecord ==
  /\ At("record")
  /\ facts' = Remember(job.rec)
  /\ GivesUp
  /\ UNCHANGED <<state, host, local, seen, lanes, past, bounds>>

----------------------------------------------------------------------------
(* The agent's part of an attempt.                                         *)

\* An issue that was ready when it was selected is moved to Running.
Begin ==
  /\ At("begin")
  /\ \/ /\ Works /\ job' = [job EXCEPT !.step = "prepare", !.was = "Other"]
        /\ state' = IF job.was = "Ready" THEN "Running" ELSE state
     \/ Fails /\ Quits /\ UNCHANGED state
  /\ UNCHANGED <<host, local, store, seen, lanes, past>>

\* Feedback written where there is no workspace leaves a directory no clone
\* can be put in.
Unusable == tree.where # "here" /\ feedback # 0

Cloned == IF tree.where = "here" THEN tree ELSE Clone
Fetched == IF job.asked = "CHANGES_REQUESTED" THEN round ELSE feedback

\* The workspace is cloned if it is not there; feedback that was asked for
\* when the issue was selected is fetched again.  What fails after the clone
\* leaves it there; only a timeout leaves a record.
Prepare ==
  /\ At("prepare")
  /\ \/ /\ Works /\ ~Unusable /\ job' = [job EXCEPT !.step = "agent", !.asked = ""]
        /\ tree' = Cloned /\ feedback' = Fetched
     \/ Works /\ Unusable /\ Quits /\ UNCHANGED <<tree, feedback>>
     \/ /\ Fails /\ ~Unusable /\ Quits
        /\ tree' = Cloned /\ feedback' \in {feedback, Fetched}
     \/ /\ Fails /\ ~Unusable /\ tree' \in {tree, Cloned} /\ UNCHANGED feedback
        /\ Quits \/ Stops(RecordOfStop([Stop("workspace", 0) EXCEPT !.runtime = "timeout"]))
  /\ UNCHANGED <<state, host, made, drifted, store, seen, lanes, past>>

\* The agent changes files, commits them or not, leaves the scope or not
\* (or comes back into it), and may name the issue's pull request.
AgentChanges ==
  /\ At("agent") /\ tree.where = "here"
  /\ made' = made + 1
  /\ \E commits, leaves \in BOOLEAN :
       /\ tree' = [tree EXCEPT !.work = made + 1, !.head = IF commits THEN made + 1 ELSE @]
       /\ drifted' = IF leaves THEN drifted \cup {made + 1} ELSE drifted
  /\ \E url \in {0, pr.url} : job' = [job EXCEPT !.step = "scope", !.url = url]
  /\ UNCHANGED <<state, host, feedback, store, seen, lanes, past, bounds>>

AgentIsIdle ==
  /\ At("agent") /\ tree.where = "here"
  /\ Goes("scope")
  /\ UNCHANGED <<state, host, local, store, seen, lanes, past, bounds>>

AgentFails ==
  /\ At("agent")
  /\ \E url \in {0, pr.url} : \E s \in StopsBeforePR(url) :
       /\ s.phase \in {"implementation", "validation"} /\ LifecycleStatus(s) \in Failures
       /\ Stops(RecordOfStop(s))
  /\ UNCHANGED <<state, host, local, store, seen, lanes, past, bounds>>

AgentAsks ==
  /\ At("agent")
  /\ LET stop == [Stop("needs_info", 0) EXCEPT !.questions = TRUE]
     IN \/ Works /\ state' = "NeedsInfo" /\ Stops(RecordOfStop(stop))
        \/ /\ Fails /\ UNCHANGED state
           /\ Stops(RecordOfStop([stop EXCEPT !.runtime = "needs_info_failed"]))
  /\ UNCHANGED <<host, local, store, seen, lanes, past>>

\* The guard compares what is committed with the base, not the working tree.
InScope == tree.head \notin drifted

ScopePasses ==
  /\ At("scope") /\ tree.where = "here" /\ InScope
  /\ Goes("queuePR")
  /\ UNCHANGED <<state, host, local, store, seen, lanes, past, bounds>>

ScopeBlocks ==
  /\ At("scope") /\ tree.where = "here" /\ ~InScope
  /\ \/ Works /\ state' = "Ready"
     \/ Fails /\ UNCHANGED state
  /\ Stops(RecordOfStop([Stop("scope_guard", job.url) EXCEPT !.outOfScope = TRUE]))
  /\ UNCHANGED <<host, local, store, seen, lanes, past>>

\* The comparison fails, as it must when the workspace is gone.
ScopeUnknown ==
  /\ At("scope")
  /\ IF tree.where = "here" THEN Fails ELSE Works
  /\ Stops(RecordOfStop([Stop("scope_guard", job.url) EXCEPT !.scopeError = TRUE]))
  /\ UNCHANGED <<state, host, local, store, seen, lanes, past>>

----------------------------------------------------------------------------
(* The pull request: by the attempt, or by the handoff lane.               *)

\* The payload and its reference are written before anything is pushed; the
\* attempt does the work itself and never settles that reference.  The intent
\* that goes with it comes after it, and may fail when the reference is there.
QueuePR ==
  /\ At("queuePR")
  /\ \/ Works /\ Queues("pr", job.url) /\ Goes("commit")
     \/ /\ Fails /\ Stops(RecordOfStop(Stop("handoff", 0)))
        /\ Queues("pr", job.url) \/ UNCHANGED <<pending, payload>>
  /\ UNCHANGED <<state, host, local, facts, resume, seen, lanes, past>>

\* The pull request the payload names was merged meanwhile.
AlreadyLanded == \E l \in landed : l.url = job.url

HasWork == tree.where = "here" /\ tree.work # 0

\* What the working tree has is committed; there must be something to hand
\* over, and the named pull request must not be merged.
CommitWork ==
  /\ At("commit") /\ HasWork
  /\ tree' = [tree EXCEPT !.head = tree.work]
  /\ IF AlreadyLanded
     THEN Settles(<<>>) /\ Quits
     ELSE Goes("push") /\ UNCHANGED <<pending, payload>>
  /\ UNCHANGED <<state, host, feedback, made, drifted, facts, resume, seen, lanes,
                 past, bounds>>

\* Faulty: only a failing call ends the handoff, not a want of work or workspace.
HandoffFailsOnFault ==
  /\ job.step \in {"commit", "push", "openPR"} /\ Fails
  /\ Stops(RecordOfStop(Stop("handoff", IF job.kind = "pr" THEN job.url ELSE 0)))
  /\ UNCHANGED <<state, host, local, store, seen, lanes, past>>

HandoffFails ==
  /\ job.step \in {"commit", "push", "openPR"}
  /\ IF (~HasWork /\ ~At("openPR")) \/ (tip = 0 /\ At("openPR")) THEN Works ELSE Fails
  /\ Stops(RecordOfStop(Stop("handoff", IF job.kind = "pr" THEN job.url ELSE 0)))
  /\ UNCHANGED <<state, host, local, store, seen, lanes, past>>

\* The push replaces the branch; the open pull request's checks start over.
Push ==
  /\ At("push") /\ HasWork
  /\ tip' = tree.head
  /\ pr' = IF pr = NoPR THEN NoPR ELSE [pr EXCEPT !.checks = <<"pending">>, !.merge = "mergeable"]
  /\ Goes("openPR")
  /\ UNCHANGED <<state, landed, local, store, seen, lanes, past, bounds>>

NewPR ==
  [url |-> Cardinality(landed) + 1, valid |-> TRUE, review |-> "", merge |-> "mergeable",
   checks |-> <<"pending">>]

\* The branch's open pull request is updated, or one is created.
OpenPR ==
  /\ At("openPR") /\ tip # 0
  /\ pr' = IF pr = NoPR THEN NewPR ELSE pr
  /\ job' = [job EXCEPT !.step = "queueReview", !.url = pr'.url]
  /\ UNCHANGED <<state, landed, tip, local, store, seen, lanes, past, bounds>>

----------------------------------------------------------------------------
(* The review, and the final handoff.                                      *)

\* The handoff lane leaves the review to the review lane, and is done.  A
\* failure leaves no record, and the reference settled or not.  Without a
\* review command the work counts as accepted as it is.
QueueReview ==
  /\ At("queueReview")
  /\ \/ /\ TRUE \in ReviewChoices /\ Works /\ UNCHANGED <<resume, accepted>>
        /\ IF job.kind = "pr"
           THEN Settles([review |-> job.url]) /\ Quits
           ELSE /\ Queues("review", job.url)
                /\ job' = [job EXCEPT !.step = "review", !.ref = "review"]
     \/ /\ FALSE \in ReviewChoices /\ Works /\ accepted' = TRUE /\ UNCHANGED resume
        /\ IF job.kind = "pr"
           THEN Settles([handoff |-> [url |-> job.url, verdict |-> NoReview]]) /\ Quits
           ELSE Goes("queueFinal") /\ UNCHANGED <<pending, payload>>
     \/ /\ Fails /\ UNCHANGED accepted
        /\ GivesUp \/ (Settles([review |-> job.url]) /\ EndsRow(job) /\ Quits)
  /\ UNCHANGED <<state, host, local, facts, seen, lanes, approved>>

\* The checks of the pull request, as far as it is still open.
ChecksAreGreen == pr.url = job.url => ChecksStatus(pr.checks) = "success"

ReviewWaits ==
  /\ At("review") /\ ~ChecksAreGreen
  /\ Stops(Record("review_not_ready", NoReview, job.url, TRUE))
  /\ UNCHANGED <<state, host, local, store, seen, lanes, past, bounds>>

\* The review fails, or what comes before it does, with no record then.
ReviewFails ==
  /\ At("review")
  /\ \/ /\ Works /\ UNCHANGED <<pending, payload, resume>>
        /\ \E s \in StopsInReview(job.url) :
             /\ ~s.notReady /\ LifecycleStatus(s) \in Failures
             /\ Stops(RecordOfStop(s))
     \/ Fails /\ GivesUp
  /\ UNCHANGED <<state, host, local, facts, seen, lanes, past>>

Verdicts == {Reviewed(lines) : lines \in {<<"REVIEW_PASS">>, <<"REVIEW_FAIL">>}
                                         \cup {<<"REVIEW_FAIL", c>> : c \in Classes}}

\* Faulty: whatever a failed review misses is for a human to judge.
AcceptsAny(v) == v.status \in {"passed", "failed"}

Accepts(v) == v.status = "passed" \/ RoutesToHuman(v, job.url)

\* A rejected pull request sends its issue back to Ready.
ReviewRejects ==
  /\ At("review") /\ ChecksAreGreen
  /\ \E v \in Verdicts :
       /\ ~Accepts(v)
       /\ \/ Works /\ state' = "Ready" /\ Stops(Record("review_failed", v, job.url, TRUE))
          \/ Fails /\ UNCHANGED state /\ Stops(Record("review_failed", v, job.url, TRUE))
  /\ UNCHANGED <<host, local, store, seen, lanes, past>>

ReviewAccepts ==
  /\ At("review") /\ ChecksAreGreen
  /\ \E v \in Verdicts :
       /\ Accepts(v)
       /\ job' = [job EXCEPT !.step = "queueFinal", !.verdict = v,
                             !.ref = IF Inline(job) THEN "none" ELSE @]
       /\ accepted' = (accepted \/ v.status = "passed" \/ v.class = "missing_evidence_only")
  /\ IF Inline(job) THEN Settles(<<>>) ELSE UNCHANGED <<pending, payload>>
  /\ UNCHANGED <<state, host, local, facts, resume, seen, lanes, approved, bounds>>

\* The final handoff is queued; a pending review leaves it to the handoff
\* lane, the others do it themselves and never settle its reference.
QueueFinal ==
  LET data == [url |-> job.url, verdict |-> job.verdict]
  IN /\ At("queueFinal")
     /\ IF Inline(job) THEN Queues("handoff", data) /\ Goes("final")
        ELSE Settles([handoff |-> data]) /\ Quits
     /\ UNCHANGED <<state, host, local, facts, resume, seen, lanes, past, bounds>>

\* The pull request's text is updated and the issue moved, whatever state
\* it is in by now; the record comes after.  A context that ends before or
\* after the move, and states that cannot be asked for, leave no record.
FinalHandoff ==
  /\ At("final")
  /\ \/ /\ Works /\ state' = "Handoff" /\ UNCHANGED <<pending, payload, resume>>
        /\ Stops(Record("success", job.verdict, job.url, FALSE))
     \/ /\ Fails /\ UNCHANGED <<state, pending, payload, resume>>
        /\ Stops(Record("failed", job.verdict, job.url, TRUE))
     \/ Fails /\ state' \in {state, "Handoff"} /\ GivesUp
  /\ UNCHANGED <<host, local, facts, seen, lanes, past>>

----------------------------------------------------------------------------
(* The merge lane.  It looks its pull request up when it claims the row of *)
(* one and acts on what it saw; every later step is an external call.      *)

\* The row ends, completed or failed.  Only an open pull request gets a row
\* again: what failed after the squash is taken up by nobody.
EndsMerge == merge' = [step |-> "none", url |-> 0, pr |-> NoPR]
MergeGoes(step) == merge' = [merge EXCEPT !.step = step]

\* A pull request has one row; one that waits for the operator stays so.
MergeSchedule ==
  /\ "merge" \in Active /\ pr # NoPR /\ state = "Handoff"
  /\ pr.url \notin waiting \cup stale \cup {merge.url}
  /\ waiting' = waiting \cup {pr.url}
  /\ UNCHANGED <<state, host, local, store, seen, job, merge, stale, blocked, clean, past, bounds>>

MergeClaim ==
  /\ merge.step = "none"
  /\ \E u \in waiting :
       /\ waiting' = waiting \ {u}
       /\ \/ Works /\ merge' = [step |-> "handle", url |-> u, pr |-> pr]
          \/ Fails /\ UNCHANGED merge
  /\ UNCHANGED <<state, host, local, store, seen, job, stale, blocked, clean, past>>

\* Feedback about a conflict is none of the rounds' feedback.
ConflictFeedback == MaxRounds + 1

MergeDecision == Reconcile(ViewOf(merge.pr))

\* HandlePullRequest up to its first external change.  Feedback is written
\* where the workspace belongs, whether there is one or not.
MergeHandle ==
  LET conflict == merge.pr.merge = "conflict"
      changes == /\ merge.pr.review = "CHANGES_REQUESTED" /\ ~MergeDecision.quarantine
                 /\ ~AlreadyAddressed(facts, merge.pr.url, round)
      ours == state = "Handoff" /\ merge.pr.valid
  IN /\ merge.step = "handle" /\ merge.pr # NoPR
     /\ \/ /\ Works /\ ours /\ (conflict \/ changes)
           /\ MergeGoes("toReady") /\ feedback' = IF conflict THEN ConflictFeedback ELSE round
        \/ /\ Works /\ ~(ours /\ (conflict \/ changes)) /\ UNCHANGED feedback
           /\ IF ours /\ merge.pr.review = "APPROVED" /\ MergeDecision.merge
              THEN MergeGoes("squash") ELSE EndsMerge
        \/ Fails /\ EndsMerge /\ UNCHANGED feedback
     /\ UNCHANGED <<state, host, tree, made, drifted, store, seen, job, rows, clean, past>>

\* handleAlreadyMergedMissingMergeTaskPR, which needs a row from before the
\* merge, or one the operator requeued.
MergeConverge ==
  /\ merge.step = "handle" /\ merge.pr = NoPR
  /\ \/ /\ Works
        /\ IF \E l \in landed : l.url = merge.url
           THEN MergeGoes(IF state = "Done" THEN "remove" ELSE "toDone") ELSE EndsMerge
     \/ Fails /\ EndsMerge
  /\ UNCHANGED <<state, host, local, store, seen, job, rows, clean, past>>

MergeToReady ==
  /\ merge.step = "toReady"
  /\ \/ Works /\ state' = "Ready"
     \/ Fails /\ UNCHANGED state
  /\ EndsMerge
  /\ UNCHANGED <<host, local, store, seen, job, rows, clean, past>>

\* What is merged is what the branch has by now.
Land(who) ==
  /\ landed' = landed \cup {[url |-> pr.url, by |-> who]}
  /\ pr' = NoPR

MergeSquash ==
  /\ merge.step = "squash"
  /\ \/ /\ Works /\ pr.url = merge.pr.url /\ pr.merge = "mergeable"
        /\ Land("lane") /\ MergeGoes("branch")
     \/ /\ IF pr.url = merge.pr.url /\ pr.merge = "mergeable" THEN Fails ELSE Works
        /\ EndsMerge /\ UNCHANGED <<pr, landed>>
  /\ UNCHANGED <<state, tip, local, store, seen, job, rows, clean, past>>

MergeDeleteBranch ==
  /\ merge.step = "branch"
  /\ \/ Works /\ tip' = 0 /\ MergeGoes("toDone")
     \/ Fails /\ EndsMerge /\ UNCHANGED tip
  /\ UNCHANGED <<state, pr, landed, local, store, seen, job, rows, clean, past>>

MergeToDone ==
  /\ merge.step = "toDone"
  /\ \/ Works /\ state' = "Done" /\ MergeGoes("remove")
     \/ Fails /\ EndsMerge /\ UNCHANGED state
  /\ UNCHANGED <<host, local, store, seen, job, rows, clean, past>>

\* Faulty: the files go, the clone's head stays.
RemoveFiles ==
  /\ tree' = IF tree.where = "here" THEN [Deleted EXCEPT !.head = tree.head] ELSE tree
  /\ feedback' = 0

\* The workspace goes, locked or not, with its feedback.
RemoveTree ==
  /\ tree' = IF tree.where = "here" THEN Deleted ELSE tree
  /\ feedback' = 0

MergeRemove ==
  /\ merge.step = "remove"
  /\ \/ Works /\ RemoveTree
     \/ Fails /\ UNCHANGED <<tree, feedback>>
  /\ EndsMerge
  /\ UNCHANGED <<state, host, made, drifted, store, seen, job, rows, clean, past>>

----------------------------------------------------------------------------
(* The cleanup lane decides, then deletes; it asks for no lock either.     *)

\* What the code host says of the recorded pull request.
PRFacts == IF \E l \in landed : l.url = facts.url THEN "merged" ELSE "open"

Cleanable ==
  [unsafe |-> FALSE, dirty |-> tree.work # tree.head, facts |-> facts, ours |-> TRUE,
   branch |-> TRUE, done |-> state = "Done",
   pr |-> PRFacts]

CleanDecide ==
  /\ "clean" \in Active /\ "clean" \notin blocked /\ ~clean /\ tree.where = "here"
  /\ CleanupDecision(Cleanable).delete
  /\ clean' = TRUE
  /\ UNCHANGED <<state, host, local, store, seen, job, merge, rows, past, bounds>>

CleanDelete ==
  /\ clean
  /\ clean' = FALSE
  /\ \/ Works /\ RemoveTree
     \/ Fails /\ UNCHANGED <<tree, feedback>>
  /\ UNCHANGED <<state, host, made, drifted, store, seen, job, merge, rows, past>>

----------------------------------------------------------------------------
(* Humans and the code host, at any time, and the death of the daemon.     *)

HumanReviews ==
  /\ pr # NoPR /\ round < MaxRounds
  /\ \E decision \in {"APPROVED", "CHANGES_REQUESTED"} :
       /\ pr' = [pr EXCEPT !.review = decision]
       /\ approved' = (approved \/ decision = "APPROVED")
  /\ round' = round + 1
  /\ UNCHANGED <<state, landed, tip, local, store, seen, job, lanes, accepted, attempts, faults, crashes>>

HumanMerges ==
  /\ pr # NoPR /\ pr.merge = "mergeable" /\ round < MaxRounds
  /\ Land("human")
  /\ round' = round + 1
  /\ UNCHANGED <<state, tip, local, store, seen, job, lanes, past, attempts, faults, crashes>>

HumanAnswers ==
  /\ state = "NeedsInfo"
  /\ state' = "Ready"
  /\ UNCHANGED <<host, local, store, seen, job, lanes, past, bounds>>

\* Checks that fail are checks that never finish, as far as the code goes.
ChecksFinish ==
  /\ pr # NoPR /\ pr.checks = <<"pending">>
  /\ pr' = [pr EXCEPT !.checks = <<"success">>]
  /\ UNCHANGED <<state, landed, tip, local, store, seen, job, lanes, past, bounds>>

Conflict ==
  /\ pr # NoPR /\ pr.merge = "mergeable"
  /\ Fails
  /\ pr' = [pr EXCEPT !.merge = "conflict"]
  /\ UNCHANGED <<state, landed, tip, local, store, seen, job, lanes, past>>

\* Its run lock is swept; the rows its workers had claimed wait for the
\* operator, and keep their lane from the issue until then.
Crash ==
  /\ crashes < MaxCrashes
  /\ crashes' = crashes + 1
  /\ job' = NoJob /\ seen' = [l \in Lanes |-> NoJob] /\ clean' = FALSE
  /\ EndsMerge /\ UNCHANGED waiting
  /\ stale' = IF merge.step = "none" THEN stale ELSE stale \cup {merge.url}
  /\ blocked' = blocked \cup (IF job.lane = "impl" \/ seen["impl"] # NoJob THEN {"impl"} ELSE {})
                        \cup (IF clean THEN {"clean"} ELSE {})
  /\ resume' = IF resume = "claimed" THEN "stale" ELSE resume
  /\ UNCHANGED <<state, host, local, facts, pending, payload, past, attempts, round, faults>>

\* The operator requeues a row whose worker died.
RowRepair ==
  /\ \/ /\ \E u \in stale : stale' = stale \ {u} /\ waiting' = waiting \cup {u}
        /\ UNCHANGED blocked
     \/ /\ \E l \in blocked : blocked' = blocked \ {l}
        /\ UNCHANGED <<waiting, stale>>
  /\ UNCHANGED <<state, host, local, store, seen, job, merge, clean, past, bounds>>

----------------------------------------------------------------------------
Picking ==
  \/ ImplSelect \/ HandSeePR \/ HandSeeHandoff \/ RevSeePending \/ ResumeSchedule \/ RevSeeResume
  \/ \E l \in Lanes : TakeLock(l) \/ FindLocked(l)

AgentSteps ==
  \/ Begin \/ Prepare \/ AgentChanges \/ AgentIsIdle \/ AgentFails \/ AgentAsks
  \/ ScopePasses \/ ScopeBlocks \/ ScopeUnknown

HandoffSteps ==
  \/ QueuePR \/ CommitWork \/ HandoffFails \/ Push \/ OpenPR
  \/ QueueReview \/ ReviewWaits \/ ReviewFails \/ ReviewRejects \/ ReviewAccepts
  \/ QueueFinal \/ FinalHandoff

JobSteps == AgentSteps \/ HandoffSteps \/ WriteRecord

MergeSteps ==
  \/ MergeSchedule \/ MergeClaim \/ MergeHandle \/ MergeConverge \/ MergeToReady
  \/ MergeSquash \/ MergeDeleteBranch \/ MergeToDone \/ MergeRemove

CleanSteps == CleanDecide \/ CleanDelete

Environment ==
  \/ HumanReviews \/ HumanMerges \/ HumanAnswers \/ ResumeRepair \/ RowRepair
  \/ ChecksFinish \/ Conflict \/ Crash

Next == Picking \/ JobSteps \/ MergeSteps \/ CleanSteps \/ Environment

\* Lanes poll for ever and a holder goes on.  The handoff and review lanes
\* meet a free lock again and again: a failed attempt waits for a backoff
\* many polls long before it is picked again.
Fairness ==
  /\ WF_vars(JobSteps)
  /\ \A l \in Lanes : WF_vars(TakeLock(l) \/ FindLocked(l))
  /\ SF_vars(job = NoJob /\ (HandSeePR \/ HandSeeHandoff))
  /\ SF_vars(job = NoJob /\ (RevSeePending \/ RevSeeResume))
  /\ SF_vars(TakeLock("hand")) /\ SF_vars(TakeLock("rev"))

Spec == Init /\ [][Next]_vars
FairSpec == Spec /\ Fairness

----------------------------------------------------------------------------
(* Properties.                                                             *)

Urls == 0..(MaxRounds + 1)
Versions == 0..MaxAttempts

\* Every variable has a value the code can give it, and what is committed,
\* pushed or merged was made before.
TypeOK ==
  /\ state \in States \ {"Other"}
  /\ pr.url \in Urls /\ pr.review \in {"", "APPROVED", "CHANGES_REQUESTED"}
  /\ pr.merge \in {"unknown", "mergeable", "conflict"}
  /\ \A l \in landed : l.url \in Urls /\ l.by \in {"lane", "human"}
  /\ tip \in 0..made /\ tree.head \in 0..tree.work /\ tree.work \in 0..made
  /\ made \in Versions /\ drifted \subseteq 1..made /\ accepted \in BOOLEAN
  /\ feedback \in 0..(MaxRounds + 1)
  /\ facts.status \in Statuses \cup {"none"} /\ facts.url \in Urls
  /\ resume \in {"none", "queued", "claimed", "stale"}
  /\ waiting \cup stale \subseteq Urls /\ blocked \subseteq {"impl", "clean"}
  /\ pending \subseteq {"pr", "review", "handoff"} /\ DOMAIN payload = DOMAIN NoPayloads
  /\ job.lane \in Lanes \cup {"none"} /\ \A l \in Lanes : seen[l].lane \in {l, "none"}

\* The promise of the lanes (DeliveryContract), kept by every step of theirs.
Contract == INSTANCE DeliveryContract WITH
  stage <- state, reviewed <- accepted, approved <- approved,
  mergers <- {l.by : l \in landed}, workspace <- tree.where
ContractSpec == Contract!Spec

\* Whoever holds the run lock can go on to its end, whatever the lanes that
\* ask for no lock do meanwhile to the workspace, the branch and the pull
\* request it works on: the lock is never held for ever.
JobGoesOn == job # NoJob => ENABLED JobSteps

\* A pending payload is worked on in the end, whoever queued it, after
\* crashes and failures too, and so is the row of a resumed review, unless
\* its worker died: nothing waits for ever.
PendingIsDrained ==
  /\ \A p \in {"pr", "review", "handoff"} : (p \in pending) ~> (p \notin pending)
  /\ (resume \in {"queued", "claimed"}) ~> (resume \in {"none", "stale"})

\* An issue is handed over with nothing outside the ticket's scope on its
\* branch (docs/specs/harness-behavior.md: the scope guard compares the
\* changed files before review and handoff).
HandedOffInScope == state = "Handoff" => tip \notin drifted

\* A workspace is not deleted while an attempt, a handoff or a review has its
\* run lock and lease (docs/specs/end-to-end-orchestration.md: merge and
\* cleanup lanes must respect active leases).
DeletesRespectRuns ==
  [][tree.where = "here" /\ tree'.where = "deleted" => job = NoJob]_vars

\* What a lane merged is done, once no row of the merge lane is left of it
\* (docs/specs/harness-behavior.md: a successful merge deletes the branch and
\* moves the issue to Done).
MergedIsFinished ==
  (\E l \in landed : l.by = "lane") /\ merge.step = "none" /\ waiting = {} /\ stale = {}
    => state = "Done"

\* An issue the merge lane moved back to Ready with feedback is picked up
\* again: it is selectable as soon as nobody works on it.
FeedbackIsPicked ==
  state = "Ready" /\ job = NoJob /\ pr.review = "CHANGES_REQUESTED"
    /\ facts.status = "success" => Selectable(ViewOf(pr), TRUE, TRUE)
============================================================================
