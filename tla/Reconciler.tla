----------------------------- MODULE Reconciler -----------------------------
(***************************************************************************)
(* What may be done with an issue now: the reconciler's decision           *)
(* (reconciler.go), what review and checks of its pull request say         *)
(* (internal/mergegate), when a review-failed pull request is repaired     *)
(* (feedback.go), when a candidate is picked again (candidate_selection    *)
(* .go), and when its workspace may be deleted (cleanup.go).               *)
(*                                                                         *)
(* A decision reads one view of the issue, a record with                   *)
(*   state     its Linear state ("Other" is one the project does not name) *)
(*   blocked   whether it has a label "blocked" or "needs-info"            *)
(*   lock      whether its workspace has a run lock file                   *)
(*   lease     whether the store has an unexpired run lease for it         *)
(*   broken    whether the facts of the store could not be read            *)
(*   facts     what the store knows (AttemptPolicy), NoFacts if nothing    *)
(*   pr        its open pull request, NoPR if there is none                *)
(*   artifact  status in the artifacts of its workspace, when a scan looks *)
(*             at them, "none" otherwise                                   *)
(*   feedback  whether its workspace has PR feedback                       *)
(*   inUse     whether its workspace has uncommitted changes               *)
(* Decisions without a state store are left out: every lane requires it.   *)
(***************************************************************************)
EXTENDS AttemptPolicy, FiniteSetsExt, TLC

States == {"Ready", "Running", "NeedsInfo", "Handoff", "Done", "Other"}

\* The project's ready, running and active states.
Runnable(state) == state \in {"Ready", "Running"}

----------------------------------------------------------------------------
(* Pull requests, as the code host reports them.                           *)

CheckStates == {"success", "pending", "unknown", "failed"}

NoPR == [url |-> 0, valid |-> TRUE, review |-> "", merge |-> "unknown", checks |-> <<>>]

\* The first check that is unknown or pending decides which of the two it is.
ChecksStatus(checks) ==
  LET open == {i \in DOMAIN checks : checks[i] \in {"unknown", "pending"}}
  IN IF checks = <<>> THEN "unavailable"
     ELSE IF \A i \in DOMAIN checks : checks[i] = "success" THEN "success"
     ELSE IF open = {} THEN "failed"
     ELSE IF checks[Min(open)] = "unknown" THEN "unavailable" ELSE "pending"

\* EvaluatePullRequest: why the gate holds a merge back, "" if it does not.
MergeGate(pr) ==
  IF pr.merge = "conflict" THEN "merge_conflict"
  ELSE IF pr.merge # "mergeable" THEN "mergeable_unknown"
  ELSE IF ChecksStatus(pr.checks) # "success" THEN "status_checks" ELSE ""

----------------------------------------------------------------------------
(* The reconciler's decision.                                              *)

Blocked(life, next) ==
  [life |-> life, next |-> next, run |-> FALSE, merge |-> FALSE, retry |-> FALSE,
   quarantine |-> FALSE, repair |-> FALSE]
Admitted(life, next) == [Blocked(life, next) EXCEPT !.run = TRUE, !.retry = TRUE]
Quarantined(next) == [Blocked("quarantined", next) EXCEPT !.quarantine = TRUE]
RunAgent == [Blocked("ready", "run_agent") EXCEPT !.run = TRUE]
MergeApproved == [Blocked("merge_ready", "merge_approved_pr") EXCEPT !.merge = TRUE]

\* The first rule that applies, each a condition and its decision.
FirstRule(rules, otherwise) ==
  LET hits == {i \in DOMAIN rules : rules[i][1]}
  IN IF hits = {} THEN otherwise ELSE rules[Min(hits)][2]

Known(v) == v.facts.status # "none"
Unmapped(v) == ~v.broken /\ ~Known(v) /\ v.pr # NoPR
ArtifactOnly(v) == v.artifact # "none" /\ v.facts.status \in {"none", ""}
ArtifactConflict(v) ==
  v.artifact \notin {"none", ""} /\ ~ArtifactOnly(v) /\ v.artifact # v.facts.status

Mapped(v) == v.facts.url # 0

\* The decision needs the store, the code host or the artifacts repaired.
NeedsRepair(v) ==
  \/ v.broken \/ Unmapped(v) \/ ArtifactOnly(v) \/ ArtifactConflict(v)
  \/ (Mapped(v) /\ v.pr = NoPR)

\* Faulty: only the lock file says that somebody works on the issue.
EarlyRulesByFile(v) ==
  <<<<v.blocked, Blocked("blocked", "operator_unblock_issue")>>,
    <<v.lock, Blocked("running", "wait_for_or_clear_run_lock")>>,
    <<v.broken \/ Unmapped(v), Blocked("blocked", "repair_sqlite_state_store")>>>>

\* What stands before any question about the pull request or the record.
EarlyRules(v) ==
  <<<<v.blocked, Blocked("blocked", "operator_unblock_issue")>>,
    <<v.lock, Blocked("running", "wait_for_or_clear_run_lock")>>,
    <<v.broken \/ Unmapped(v), Blocked("blocked", "repair_sqlite_state_store")>>,
    <<v.lease, Blocked("running", "wait_for_or_release_run_lease")>>,
    <<ArtifactOnly(v), Blocked("blocked", "repair_sqlite_state_store")>>,
    <<ArtifactConflict(v), Blocked("blocked", "repair_artifact_or_sqlite_state")>>,
    <<v.state = "NeedsInfo", Blocked("needs_info", "answer_questions_then_move_ready")>>,
    <<v.state = "Done", Blocked("done", "cleanup_workspace")>>>>

\* A ready issue whose success has a pull request goes again with feedback.
FeedbackRetry(v) ==
  v.state = "Ready" /\ v.feedback /\ v.facts.status = "success" /\ Mapped(v)

\* Faulty: a good review is enough, whatever came after it.
MergeBlockedByReview(f, url) ==
  \/ f.url \notin {0, url}
  \/ f.review # "passed" /\ f.class # "missing_evidence_only"

\* sqliteMergeBlockReason: the store does not vouch for this pull request.
MergeBlockedByFacts(f, url) ==
  \/ f.url \notin {0, url}
  \/ f.status # "success"
  \/ f.review \notin {"passed", "failed"}
  \/ f.review = "failed" /\ f.class # "missing_evidence_only"

\* A wait for checks is over once they are green.
ReviewReady(v) ==
  /\ Runnable(v.state)
  /\ ChecksStatus(v.pr.checks) = "success"
  /\ v.facts.status = "review_not_ready"
  /\ v.facts.url \in {0, v.pr.url}

\* applyPRInvariants
PRRules(v) ==
  <<<<v.facts.status = "", Blocked("blocked", "repair_sqlite_state_store")>>,
    <<~v.pr.valid, Quarantined("close_or_repair_invalid_pr")>>,
    <<v.pr.review = "CHANGES_REQUESTED",
      [Admitted("feedback_retry", "capture_feedback_and_retry") EXCEPT !.run = Runnable(v.state)]>>,
    <<ReviewReady(v), Admitted("running", "run_semantic_review_after_checks_ready")>>,
    <<FeedbackRetry(v), Admitted("feedback_retry", "retry_with_unresolved_pr_feedback")>>,
    <<v.state # "Handoff", Blocked("blocked", "reconcile_linear_state")>>,
    <<v.pr.review # "APPROVED", Blocked("handoff_ready", "await_human_approval")>>,
    <<MergeGate(v.pr) # "", Blocked("handoff_ready", "wait_for_green_mergeable_pr")>>,
    <<MergeBlockedByFacts(v.facts, v.pr.url), Quarantined("repair_run_artifact_before_merge")>>,
    <<v.inUse, Blocked("blocked", "clear_workspace_lock_or_changes")>>>>

\* No open pull request: the mapping, then the recorded outcome, decide
\* (applyTerminalArtifact).
RecordRules(v) ==
  <<<<Mapped(v), Blocked("blocked", "reconcile_missing_or_closed_pr_mapping")>>,
    <<v.facts.status = "review_failed",
      Blocked("review_failed", "repair_review_findings_before_retry")>>,
    <<v.facts.status \in {"needs_info", "needs_info_failed"},
      Blocked("needs_info", "answer_questions_then_retry")>>,
    <<v.facts.status \in {"merged", "superseded"}, Blocked("done", "cleanup_workspace")>>,
    <<TerminalStatus(v.facts.status), Blocked("blocked", "operator_repair_or_clear_artifact")>>>>

Settled == Blocked("ready", "run_agent")

Reconcile(v) ==
  LET early == FirstRule(EarlyRules(v), RunAgent)
      asked == early = RunAgent /\ v.pr # NoPR
      decision ==
        IF asked THEN FirstRule(PRRules(v), MergeApproved)
        ELSE IF early # RunAgent THEN early
        ELSE FirstRule(RecordRules(v), IF Runnable(v.state) THEN RunAgent ELSE Settled)
      mismatch == v.facts.status = "" \/ v.facts.url \notin {0, v.pr.url}
  IN [decision EXCEPT !.repair = NeedsRepair(v) \/ (asked /\ mismatch)]

\* repairableReviewFailedPR: a rejected pull request goes back to the agent.
Repairable(v, d) ==
  /\ v.pr # NoPR /\ v.pr.valid
  /\ Runnable(v.state)
  /\ d.next \in {"reconcile_linear_state", "repair_review_findings_before_handoff"}
  /\ ~d.repair
  /\ v.facts.status = "review_failed"
  /\ v.facts.url \in {0, v.pr.url}
  /\ v.facts.review # "passed" /\ v.facts.class = "behavior_spec_blocker"

Repaired(v) ==
  LET d == Reconcile(v)
  IN IF Repairable(v, d)
     THEN Admitted("review_failed", "repair_review_findings_before_handoff") ELSE d

----------------------------------------------------------------------------
(* Selection: the recorded retry decision against the reconciler's.        *)

MustWait == [found |-> TRUE, runnable |-> FALSE]
MayRetry == [found |-> TRUE, runnable |-> TRUE]

\* retryBackoffDecision; elapsed says that the backoff has passed.
RetryDecision(v, elapsed) ==
  IF v.state \in {"NeedsInfo", "Done"} THEN MustWait
  ELSE IF v.broken \/ ~Known(v) \/ v.facts.retry = "" THEN [MustWait EXCEPT !.found = FALSE]
  ELSE IF v.facts.retry = "retry_after_backoff" /\ elapsed THEN MayRetry ELSE MustWait

\* retryGateAllowsRepair: what a retry decision that says no lets through.
GateLetsThrough(v, d) ==
  /\ d.run /\ d.retry /\ ~d.repair
  /\ \/ /\ d.next = "repair_review_findings_before_handoff"
        /\ v.state \notin {"NeedsInfo", "Done"}
        /\ v.facts.retry = "repair_review_findings_before_handoff"
     \/ d.next = "retry_with_unresolved_pr_feedback"

RetryableStatus(status) == status \in {"failed", "timeout", "budget_exceeded"}

\* retryBackoffOverridesTerminalBlock
OverridesRecord(v, d, r) ==
  /\ r.found /\ r.runnable
  /\ v.pr = NoPR
  /\ d.next = "operator_repair_or_clear_artifact"
  /\ RetryableStatus(v.facts.status)

\* Faulty: a resumed review is picked like any other run.
SelectableByAll(v, elapsed, skipResumes) ==
  LET r == RetryDecision(v, elapsed)
  IN ~v.blocked /\ (r.found /\ ~r.runnable => GateLetsThrough(v, Repaired(v)))
     /\ Repaired(v).run

\* May selection pick this issue?  The scheduler leaves resumed reviews to
\* the review lane (skipResumes).
Selectable(v, elapsed, skipResumes) ==
  LET d == Repaired(v)
      r == RetryDecision(v, elapsed)
  IN /\ ~v.blocked
     /\ ~(skipResumes /\ d.run /\ d.next = "run_semantic_review_after_checks_ready")
     /\ r.found /\ ~r.runnable => GateLetsThrough(v, d)
     /\ d.run \/ OverridesRecord(v, d, r)

\* feedbackAlreadyAddressed: this feedback went into the handed-off version.
AlreadyAddressed(f, url, hash) ==
  f.status = "success" /\ f.review = "passed" /\ f.url = url /\ f.hash = hash

----------------------------------------------------------------------------
(* Cleanup of one workspace.  w has the workspace itself (dirty, unsafe,   *)
(* path as the store has it or not), what the store knows (facts, branch   *)
(* as expected or not), whether the issue is done, and the pull request    *)
(* of the mapping: "merged", "open", or "unknown" if its state, head or    *)
(* base is not what it must be.                                            *)

Keep(category) == [delete |-> FALSE, category |-> category]
Delete(category) == [delete |-> TRUE, category |-> category]

\* Faulty: an issue that is done needs no merged pull request.
EagerCleanup(w) ==
  IF w.dirty THEN Keep("dirty")
  ELSE IF w.done THEN Delete("completed") ELSE Keep("not-done")

CleanupDecision(w) ==
  LET status == IF w.facts.status = "" THEN w.facts.outcome ELSE w.facts.status
  IN FirstRule(
       <<<<w.unsafe, Keep("unsafe")>>,
         <<w.dirty, Keep("dirty")>>,
         <<w.facts.status = "none" \/ ~w.ours, Keep("reconciliation-needed")>>,
         <<~w.done, Keep(IF TerminalStatus(status) THEN "not-done" ELSE "non-terminal")>>,
         <<TerminalStatus(status), Delete("completed")>>,
         <<w.facts.url # 0 /\ w.branch /\ w.pr = "merged", Delete("merged-pr")>>>>,
       Keep("reconciliation-needed"))
============================================================================
