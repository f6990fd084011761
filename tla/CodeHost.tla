------------------------------ MODULE CodeHost ------------------------------
(***************************************************************************)
(* Pull requests on the code host: what the clients make of the answers of *)
(* GitHub (internal/ghapi) and GitLab (internal/gitlabapi), which authors  *)
(* are expected (internal/codeownership), and which pull request a handoff *)
(* hands over (handoff.go).                                                *)
(*                                                                         *)
(* A client's view of an open pull request has the fields of the           *)
(* reconciler's: url, valid, review, merge and checks, where checks is a   *)
(* sequence of CheckStates.  A list of checks that could not be read is    *)
(* one check whose state is unknown.                                       *)
(***************************************************************************)
EXTENDS Reconciler, Integers

Unread == <<"unknown">>

----------------------------------------------------------------------------
(* GitHub.  An answer has the reviews in the order they were given (each   *)
(* [by, says]), GitHub's own word on merging (mergeable: "yes", "no" or    *)
(* "unset"; state: "clean", "dirty" or another), and the commit statuses   *)
(* and check runs of the head.                                             *)

LastWords(reviews) ==
  {reviews[i].says : i \in {j \in DOMAIN reviews :
     \A k \in DOMAIN reviews : reviews[k].by = reviews[j].by => k <= j}}

\* Faulty: one approval is enough.
ApprovalWins(reviews) ==
  IF "APPROVED" \in LastWords(reviews) THEN "APPROVED"
  ELSE IF "CHANGES_REQUESTED" \in LastWords(reviews) THEN "CHANGES_REQUESTED" ELSE ""

\* reviewDecisionFromReviews: the last review of each reviewer counts, a
\* comment as well, and one that asks for changes outweighs the approvals.
ReviewDecision(reviews) ==
  IF "CHANGES_REQUESTED" \in LastWords(reviews) THEN "CHANGES_REQUESTED"
  ELSE IF "APPROVED" \in LastWords(reviews) THEN "APPROVED" ELSE ""

\* checksWithMergeStateFallback: if only the check runs could not be read,
\* GitHub's clean merge state stands for all checks.
GitHubChecks(gh) ==
  IF /\ gh.state = "clean" /\ gh.runs = Unread
     /\ \A i \in DOMAIN gh.statuses : gh.statuses[i] = "success"
  THEN <<"success">>
  ELSE gh.statuses \o gh.runs

GitHubMerge(gh) ==
  IF gh.mergeable = "no" \/ gh.state = "dirty" THEN "conflict"
  ELSE IF gh.mergeable = "yes" THEN "mergeable" ELSE "unknown"

\* openPullRequestSummary; reviews that could not be read are no reviews.
GitHubPR(gh) ==
  [NoPR EXCEPT !.url = 1, !.review = ReviewDecision(gh.reviews), !.merge = GitHubMerge(gh),
               !.checks = GitHubChecks(gh)]

----------------------------------------------------------------------------
(* GitLab.  An answer has the merge status, whether there are conflicts,   *)
(* the pipelines of the merge request and of its branch ("none" if there   *)
(* is none, or none could be read), and the approvals required and given.  *)

GitLabConflict(gl) == gl.status # "mergeable" /\ (gl.conflicts \/ gl.status = "conflict")

\* statusCheckFromGitLabPipeline, as the merge gate reads it: only the state
\* "pending" is waited for.
PipelineCheck(pipeline) == IF pipeline = "running" THEN "failed" ELSE pipeline

PipelineChecks(pipeline) == IF pipeline = "none" THEN <<>> ELSE <<PipelineCheck(pipeline)>>

\* statusChecks: the latest pipeline of the branch is asked for last.
GitLabChecks(gl) ==
  LET word == IF gl.status = "mergeable" THEN <<"success">>
              ELSE IF GitLabConflict(gl) THEN <<"failed">> ELSE <<>>
      read == word \o PipelineChecks(gl.head) \o PipelineChecks(gl.pipeline)
  IN IF read # <<>> THEN read
     ELSE IF gl.latest # "none" THEN PipelineChecks(gl.latest) ELSE Unread

\* mergeability: no word from GitLab counts as mergeable.
GitLabMerge(gl) == IF GitLabConflict(gl) THEN "conflict" ELSE "mergeable"

ApprovalsLeft(gl) == IF gl.given < gl.required THEN gl.required - gl.given ELSE 0

GitLabReview(gl) ==
  IF gl.required = 0 /\ gl.given = 0 THEN ""
  ELSE IF ApprovalsLeft(gl) = 0 THEN "APPROVED" ELSE ""

GitLabPR(gl) ==
  [NoPR EXCEPT !.url = 1, !.review = GitLabReview(gl), !.merge = GitLabMerge(gl),
               !.checks = GitLabChecks(gl)]

----------------------------------------------------------------------------
(* Whose pull requests are the machine's.  who has the provider, the       *)
(* logins of an override, and the GitHub app ("" if none is configured),   *)
(* which opens pull requests and commits under its own name.               *)

ExpectedAuthors(who) ==
  IF who.override # {} THEN who.override
  ELSE IF who.provider = "github" THEN {who.app} \ {""} ELSE {}

AllowsPRAuthor(who, login) == login # "" /\ login \in ExpectedAuthors(who)

\* The override is about who opened it: GitHub commits must be the app's.
CommitsAreOurs(who, authors) ==
  who.provider = "gitlab" \/ \A a \in authors : a = who.app /\ a # ""

\* prInvariantBlockReason finds nothing.  A pull request has the branches
\* it goes from ("ours" is the issue's) and to, its author, the authors of
\* its commits, whether it is open, and whether it is small enough.
Valid(who, base, pr) ==
  /\ pr.base \in {"", base} /\ pr.branch = "ours"
  /\ AllowsPRAuthor(who, pr.author) /\ CommitsAreOurs(who, pr.commits)

HandoffBlocked(who, base, pr) == ~Valid(who, base, pr) \/ ~pr.small

----------------------------------------------------------------------------
(* Which pull request is handed over.  s has the pull requests on the      *)
(* host, what the lookup of the one the agent named gave (is: "none" if it *)
(* named none, "foreign", "failing", "missing", or "found" and at: its     *)
(* place), and the one the host would create.  A merged one ended the      *)
(* handoff before.                                                         *)

OpenOnBranch(s) == {i \in DOMAIN s.prs : s.prs[i].open /\ s.prs[i].branch = "ours"}

\* validateAdvisoryPRForHandoff: one that is not found is looked up by its
\* branch, one on another branch is passed over.
Advised(s) ==
  IF s.advised.is = "missing" THEN OpenOnBranch(s)
  ELSE {i \in DOMAIN s.prs : s.advised = [is |-> "found", at |-> i] /\ s.prs[i].branch = "ours"}

\* Faulty: of several on the branch the first is taken.
ChosenFirst(s) ==
  IF Advised(s) # {} THEN Advised(s)
  ELSE {i \in OpenOnBranch(s) : \A j \in OpenOnBranch(s) : i <= j}

Chosen(s) == IF Advised(s) # {} THEN Advised(s) ELSE OpenOnBranch(s)

Refused == [handed |-> FALSE, created |-> FALSE]

\* executeRunnerPRHandoffContext after the push.  What it creates is checked
\* once it exists.
PRForHandoff(who, base, s) ==
  LET chosen == Chosen(s)
      pr == IF chosen = {} THEN s.new ELSE s.prs[CHOOSE i \in chosen : TRUE]
  IN IF s.advised.is \in {"foreign", "failing"} \/ Cardinality(chosen) > 1 THEN Refused
     ELSE IF HandoffBlocked(who, base, pr) THEN [Refused EXCEPT !.created = chosen = {}]
     ELSE [handed |-> TRUE, created |-> chosen = {}, pr |-> pr]
=============================================================================
