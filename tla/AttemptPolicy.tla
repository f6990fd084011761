--------------------------- MODULE AttemptPolicy ---------------------------
(***************************************************************************)
(* What one attempt at an issue is said to have come to, and what the      *)
(* state store remembers of it: the status (internal/attemptlifecycle),    *)
(* the reviewer's verdict (internal/reviewpolicy), the derived             *)
(* classification (internal/runclassification, internal/evaluation), and   *)
(* the row a record leaves behind (internal/stateprojection,               *)
(* store.go upsertAttemptResultTx).  All of it is pure.                    *)
(*                                                                         *)
(* Free text is kept only as far as a decision reads it: that an error     *)
(* text exists (err), that it has the word "check" (check), that review    *)
(* findings speak of scope drift (drift).  A URL is a number, 0 if empty.  *)
(***************************************************************************)
EXTENDS Naturals, Sequences

Statuses == {"success", "failed", "review_failed", "review_not_ready",
             "needs_info", "needs_info_failed", "timeout", "budget_exceeded"}

----------------------------------------------------------------------------
(* The reviewer's output is lines of which only the markers count.  A      *)
(* classification line is represented by the value after its colon.        *)

Classes == {"behavior_spec_blocker", "missing_evidence_only", "unknown"}
PassOrFail == {"REVIEW_PASS", "REVIEW_FAIL"}
ClassLines == Classes \cup {"anything else"}

FirstOf(lines, wanted) ==
  LET hits == {i \in DOMAIN lines : lines[i] \in wanted}
  IN IF hits = {} THEN "none" ELSE lines[CHOOSE i \in hits : \A j \in hits : i <= j]

\* Faulty: a passing marker anywhere wins.
LenientReviewStatus(lines) ==
  IF \E i \in DOMAIN lines : lines[i] = "REVIEW_PASS" THEN "passed"
  ELSE IF FirstOf(lines, PassOrFail) = "none" THEN "unknown" ELSE "failed"

ReviewStatus(lines) ==
  [REVIEW_PASS |-> "passed", REVIEW_FAIL |-> "failed", none |-> "unknown"]
    [FirstOf(lines, PassOrFail)]

ReviewClass(status, lines) ==
  LET value == FirstOf(lines, ClassLines)
  IN IF status = "passed" THEN "" ELSE IF value \in Classes THEN value ELSE "unknown"

NoReview == [status |-> "", class |-> ""]
Reviewed(lines) ==
  [status |-> ReviewStatus(lines), class |-> ReviewClass(ReviewStatus(lines), lines)]

\* A failed review that only misses evidence is for a human to judge.
RoutesToHuman(review, url) ==
  review.status = "failed" /\ review.class = "missing_evidence_only" /\ url # 0

----------------------------------------------------------------------------
(* The status of an attempt, from the facts at hand where it stopped.      *)

LifecycleStatus(in) ==
  IF in.budget \/ in.runtime = "budget_exceeded" THEN "budget_exceeded"
  ELSE IF in.runtime = "timeout" THEN "timeout"
  ELSE IF in.notReady \/ in.phase = "review_readiness" THEN "review_not_ready"
  ELSE IF in.runtime = "needs_info_failed" THEN "needs_info_failed"
  ELSE IF in.questions \/ in.phase = "needs_info" THEN "needs_info"
  ELSE IF in.outOfScope THEN "review_failed"
  ELSE IF in.scopeError THEN "failed"
  ELSE IF in.review.status \notin {"", "passed"}
       THEN IF RoutesToHuman(in.review, in.url) THEN "success" ELSE "review_failed"
  ELSE IF in.phase = "success" /\ in.url # 0 THEN "success"
  ELSE IF \/ in.phase \in {"handoff", "preflight", "validation", "implementation"}
          \/ in.runtime = "failed"
          \/ in.url = 0
       THEN "failed"
  ELSE "success"

(* Where an attempt can stop before its handoff, and with what in hand     *)
(* (run_one.go, implementation_worker.go, review_worker.go).  A stop has   *)
(* the review there was, if any, and a URL only if a PR was known.         *)
Stop(phase, url) ==
  [phase |-> phase, url |-> url, review |-> NoReview, runtime |-> "", budget |-> FALSE,
   outOfScope |-> FALSE, scopeError |-> FALSE, questions |-> FALSE, notReady |-> FALSE]

StopsBeforePR(url) ==
  {[Stop(ph, url) EXCEPT !.runtime = rt] :
      ph \in {"implementation", "validation"}, rt \in {"failed", "timeout"}}
  \cup {[Stop("needs_info", url) EXCEPT !.questions = TRUE, !.runtime = rt] :
      rt \in {"", "needs_info_failed"}}
  \cup {[Stop("implementation", url) EXCEPT !.budget = TRUE],
        [Stop("scope_guard", url) EXCEPT !.scopeError = TRUE],
        [Stop("scope_guard", url) EXCEPT !.outOfScope = TRUE],
        Stop("handoff", url)}

StopsInReview(url) ==
  {[Stop("review_readiness", url) EXCEPT !.notReady = TRUE],
   [Stop("review", url) EXCEPT !.budget = TRUE],
   [Stop("review", url) EXCEPT !.runtime = "failed"]}
  \cup {[Stop("review", url) EXCEPT !.review.status = "error", !.runtime = rt] :
           rt \in {"", "timeout"}}

----------------------------------------------------------------------------
(* Records and their classification.  A record also keeps the hash of the  *)
(* feedback file its workspace had when it was written.                    *)

Record(status, review, url, err) ==
  [status |-> status, review |-> review.status, class |-> review.class, url |-> url,
   err |-> err, check |-> FALSE, drift |-> FALSE, hash |-> 0]

\* The scope guard's findings are recorded as a failed review of their own.
ScopeReview == [status |-> "failed", class |-> "behavior_spec_blocker"]

\* Needs-info records drop the URL; every stop leaves an error text.
RecordOfStop(in) ==
  LET status == LifecycleStatus(in)
      url == IF status = "needs_info" THEN 0 ELSE in.url
  IN Record(status, IF in.outOfScope THEN ScopeReview ELSE in.review, url, TRUE)

NeedsInfoUsed(r) == r.status \in {"needs_info", "needs_info_failed"}
OutOfBudget(r) == r.status \in {"timeout", "budget_exceeded"}
Operational(r) == r.status \in
  {"failed", "timeout", "budget_exceeded", "review_failed", "needs_info_failed"}

\* mergegate.EvaluateRunRecord: would this record alone stop a merge?
RecordBlocksMerge(r) == r.status = "review_failed" \/ r.check

MergeEligible(r) == r.status = "success" /\ r.review = "passed" /\ r.url # 0

Outcome(r) ==
  IF r.status = "success" /\ r.review = "passed" THEN "handoff_ready"
  ELSE IF r.status = "review_not_ready" THEN "waiting_for_checks"
  ELSE IF NeedsInfoUsed(r) THEN "needs_info"
  ELSE IF r.review = "failed" /\ r.class = "missing_evidence_only" THEN "human_review"
  ELSE IF r.status = "review_failed" \/ r.review = "failed" THEN "review_failed"
  ELSE IF OutOfBudget(r) THEN r.status
  ELSE IF r.err \/ r.status = "failed" THEN "operational_failure"
  ELSE r.status

BlockedBy(r) ==
  (IF r.url = 0 /\ ~NeedsInfoUsed(r) THEN {"missing_pr_url"} ELSE {})
  \cup (IF r.status = "review_not_ready" THEN {"waiting_for_checks"}
        ELSE {r.status} \ {"success"})
  \cup (IF r.review \notin {"", "passed"} THEN {"review"} ELSE {})
  \cup (IF RecordBlocksMerge(r) /\ r.status # "review_not_ready" THEN {"merge_blocked"} ELSE {})

NextAction(r) ==
  IF MergeEligible(r) THEN "await_approval_and_green_checks"
  ELSE IF NeedsInfoUsed(r) THEN "answer_needs_info_questions"
  ELSE IF r.status = "review_failed" \/ r.review = "failed"
       THEN IF r.class = "missing_evidence_only"
            THEN "await_human_review_for_behavior_contract_evidence"
            ELSE "repair_review_findings_before_handoff"
  ELSE IF OutOfBudget(r) THEN "split_or_reduce_issue_scope_then_retry"
  ELSE IF r.status = "review_not_ready" THEN "wait_for_github_checks_then_retry"
  ELSE IF r.url = 0 THEN "inspect_run_log_and_create_or_repair_pr"
  ELSE IF RecordBlocksMerge(r) THEN "resolve_merge_gate_blocker"
  ELSE "inspect_run_artifact"

ShouldRetry(r) ==
  /\ ~NeedsInfoUsed(r)
  /\ ~MergeEligible(r)
  /\ r.class # "missing_evidence_only"
  /\ r.status = "review_not_ready" \/ OutOfBudget(r) \/ Operational(r)

NeedsOperator(r) ==
  /\ r.status # "review_not_ready"
  /\ \/ RecordBlocksMerge(r) \/ Operational(r) \/ r.drift
     \/ r.status = "success" /\ r.review # "passed"

\* internal/cleanup: statuses after which a workspace may go.
TerminalStatus(status) == status \in
  {"success", "review_failed", "failed", "github_app_error", "canceled", "cancelled",
   "needs_info", "needs_info_failed", "timeout", "budget_exceeded", "merged", "superseded",
   "manual_repair"}

----------------------------------------------------------------------------
(* The facts the store keeps of an issue's attempt, joined from the rows   *)
(* of that attempt.  The attempt number is always 1, so later records      *)
(* update the same rows: status and feedback hash always, the others only  *)
(* when the record has something to put there.                             *)

NoFacts == [status |-> "none", url |-> 0, review |-> "", class |-> "", retry |-> "",
            retries |-> 0, hash |-> 0, outcome |-> ""]

\* stateprojection retries these by itself, whatever the classification says.
RetryState(r) ==
  IF r.status \in {"failed", "timeout", "budget_exceeded"} THEN "retry_after_backoff"
  ELSE IF ShouldRetry(r) THEN NextAction(r) ELSE ""

\* Faulty: the retry decision is replaced by an empty one too.
FactsAfterForgetting(f, r) ==
  [f EXCEPT !.status = r.status, !.hash = r.hash, !.retry = RetryState(r),
            !.url = IF r.url = 0 THEN @ ELSE r.url]

FactsAfter(f, r) ==
  [status  |-> r.status,
   hash    |-> r.hash,
   url     |-> IF r.url # 0 THEN r.url ELSE f.url,
   review  |-> IF r.review # "" \/ r.class # "" THEN r.review ELSE f.review,
   class   |-> IF r.review # "" \/ r.class # "" THEN r.class ELSE f.class,
   retry   |-> IF RetryState(r) # "" THEN RetryState(r) ELSE f.retry,
   retries |-> IF RetryState(r) = "" THEN f.retries
               ELSE IF r.hash # 0 THEN 1 ELSE f.retries + 1,
   outcome |-> IF TerminalStatus(r.status) THEN Outcome(r) ELSE f.outcome]
============================================================================
