----------------------------- MODULE Decisions -----------------------------
(***************************************************************************)
(* The pure decisions of the program, put to every input of a bounded      *)
(* size.  A state is one question and its answer; a property compares the  *)
(* answer with what the decision is for.  Beside AttemptPolicy and         *)
(* Reconciler these are the answers of the code hosts and the choice of a  *)
(* pull request (CodeHost), the files of the workspaces (Artifacts), the   *)
(* sweep over them, the opening of the store and the limits of a run       *)
(* (Upkeep), the scope guard (internal/scopeguard), the order of           *)
(* candidates and the retry delay (candidate_selection.go).                *)
(***************************************************************************)
EXTENDS CodeHost, Artifacts, Upkeep, Functions

CONSTANTS
  Segments,       \* names a path is made of
  MaxLines,       \* bound on marker lines of a review
  MaxRecords,     \* bound on records of one issue
  MaxChecks,      \* bound on checks of a pull request
  MaxFiles,       \* bound on files of a diff
  MaxCandidates,  \* bound on candidates of a selection
  MaxRetries,     \* bound on retries counted
  MaxReviews      \* bound on reviews of a pull request

ASSUME DecisionsAssumption ==
  /\ \A n \in {MaxLines, MaxRecords, MaxChecks, MaxFiles, MaxCandidates, MaxRetries,
                MaxReviews} : n \in Nat
  /\ "*" \notin Segments /\ "" \notin Segments

VARIABLE asked

UpTo(S, n) == UNION {[1 .. k -> S] : k \in 0 .. n}

----------------------------------------------------------------------------
(* The scope guard.  A path is a sequence of names; in a pattern "*"       *)
(* stands for one name, and as the last name for everything below.  A      *)
(* bullet that names a directory loses its slash when it is read           *)
(* (path.Clean), so it is the path of a file.                              *)

Paths == UNION {[1 .. k -> Segments] : k \in 1 .. 2}
Patterns == Paths \cup {Append(p, "*") : p \in Paths} \cup {<<"*", s>> : s \in Segments}

Below(dir, file) == Len(file) > Len(dir) /\ SubSeq(file, 1, Len(dir)) = dir

Matches(pattern, file) ==
  IF Len(pattern) > 1 /\ pattern[Len(pattern)] = "*"
  THEN Below(SubSeq(pattern, 1, Len(pattern) - 1), file)
  ELSE /\ Len(pattern) = Len(file)
       /\ \A i \in DOMAIN file : pattern[i] \in {"*", file[i]}

\* Faulty: a file that an allowed path names is not looked up any further.
AllowedFirst(contract, files) ==
  {[file |-> f, rule |-> "allowed"] : f \in
     {g \in files : contract.allowed # {} /\ ~\E p \in contract.allowed : Matches(p, g)}}
  \cup {[file |-> f, rule |-> "out of scope"] : f \in
     {g \in files : contract.allowed = {} /\ \E p \in contract.out : Matches(p, g)}}

\* Evaluate: the violations.  Without a contract there is only a warning.
ScopeViolations(contract, files) ==
  {[file |-> f, rule |-> "out of scope"] : f \in
     {g \in files : \E p \in contract.out : Matches(p, g)}}
  \cup {[file |-> f, rule |-> "allowed"] : f \in
     {g \in files : contract.allowed # {} /\ ~\E p \in contract.allowed : Matches(p, g)}}

----------------------------------------------------------------------------
(* The order of candidates.                                                *)

Candidates ==
  [ready : BOOLEAN, label : {"runner-safety", "docs-only", "none"}, priority : {0, 1, 4},
   created : {1, 2, 9999}]

\* Faulty: an issue without a priority, 0, comes before the urgent ones.
UnsetFirst(c) ==
  <<IF c.ready THEN 0 ELSE 1,
    [l \in {"runner-safety", "docs-only", "none"} |->
       IF l = "runner-safety" THEN 0 ELSE IF l = "docs-only" THEN 1 ELSE 2][c.label],
    c.priority,
    c.created>>

SortKey(c) ==
  <<IF c.ready THEN 0 ELSE 1,
    [l \in {"runner-safety", "docs-only", "none"} |->
       IF l = "runner-safety" THEN 0 ELSE IF l = "docs-only" THEN 1 ELSE 2][c.label],
    IF c.priority = 0 THEN 99 ELSE c.priority,
    c.created>>

\* The first place where two keys differ decides; equal keys keep their
\* order by identifier, which is the position here.
Before(list, i, j) ==
  LET k == SortKey(list[i])
      l == SortKey(list[j])
      differ == {n \in 1 .. 4 : k[n] # l[n]}
  IN IF differ = {} THEN i < j ELSE k[Min(differ)] < l[Min(differ)]

\* The first ready candidate that may be picked, else the first one.
Pick(list, may) ==
  LET ready == {i \in may : list[i].ready}
      from == IF ready # {} THEN ready ELSE may
  IN IF may = {} THEN 0 ELSE CHOOSE i \in from : \A j \in from \ {i} : Before(list, i, j)

----------------------------------------------------------------------------
(* The delay before a retry, in seconds: it doubles with each retry        *)
(* counted, up to the configured maximum.                                  *)

\* Faulty: the doubling starts with the first retry.
EagerDelay(count, max) ==
  LET grown[n \in Nat] == IF n = 0 THEN 1 ELSE 2 * grown[n - 1]
  IN IF max <= 0 THEN 0 ELSE Min({grown[count], max})

RetryDelay(count, max) ==
  LET grown[n \in Nat] ==
        IF n <= 1 THEN 1 ELSE IF 2 * grown[n - 1] >= max THEN max ELSE 2 * grown[n - 1]
  IN IF max <= 0 THEN 0 ELSE Min({grown[count], max})

\* explainCandidateSelection: what the explain command says would run.  It
\* looks at no retry decision.
ExplainsRun(v) == Repaired(v).run

----------------------------------------------------------------------------
(* The questions.                                                          *)

Ask(about, in, out) == asked' = [about |-> about, in |-> in, out |-> out]
Unasked == asked.about = "nothing"

Init == asked = [about |-> "nothing", in |-> <<>>, out |-> <<>>]

\* Decide: an attempt stops somewhere, or gets through the review with the
\* reviewer's lines, and a status is recorded.
AskStatus ==
  /\ Unasked
  /\ \E url \in {0, 1} :
       \/ \E in \in StopsBeforePR(url) \cup StopsInReview(url) :
            Ask("status", [stop |-> in, lines |-> <<>>], RecordOfStop(in))
       \/ \E lines \in UpTo(PassOrFail \cup ClassLines, MaxLines) :
            LET in == [Stop("success", url) EXCEPT !.review = Reviewed(lines)]
            IN Ask("status", [stop |-> in, lines |-> lines],
                   Record(LifecycleStatus(in), in.review, url, FALSE))

\* The records one issue can get: of stops, and of attempts that got their
\* review (a project with a review command has no other success).
Verdicts == {[status |-> "passed", class |-> ""]} \cup
            [status : {"failed", "unknown"}, class : Classes]

EndedAttempts ==
  {RecordOfStop(in) : in \in StopsBeforePR(0) \cup StopsBeforePR(1) \cup StopsInReview(1)}
  \cup {Record(LifecycleStatus([Stop("success", 1) EXCEPT !.review = v]), v, 1, FALSE) :
          v \in Verdicts}

\* With PR feedback in the workspace, or without.
IssueRecords == EndedAttempts \cup {[r EXCEPT !.hash = 1] : r \in EndedAttempts}

\* upsertAttemptResultTx: one more record of the same issue.
AskFacts ==
  \/ /\ Unasked
     /\ \E r \in IssueRecords : Ask("facts", <<r>>, FactsAfter(NoFacts, r))
  \/ /\ asked.about = "facts" /\ Len(asked.in) < MaxRecords
     /\ \E r \in IssueRecords : Ask("facts", Append(asked.in, r), FactsAfter(asked.out, r))

\* Up to two patterns.
PatternSets == {{}} \cup {{p, q} : p, q \in Patterns}

\* Evaluate, for every contract of one or two patterns.
AskScope ==
  /\ Unasked
  /\ \E allowed, out \in PatternSets :
     \E files \in SUBSET Paths :
       /\ Cardinality(files) <= MaxFiles /\ Cardinality(allowed \cup out) \in 1 .. 2
       /\ LET in == [allowed |-> allowed, out |-> out]
          IN Ask("scope", [contract |-> in, files |-> files], ScopeViolations(in, files))

AskPick ==
  /\ Unasked
  /\ \E list \in UpTo(Candidates, MaxCandidates) : \E may \in SUBSET DOMAIN list :
       Ask("pick", [list |-> list, may |-> may], Pick(list, may))

AskDelay ==
  /\ Unasked
  /\ \E count \in 0 .. MaxRetries, max \in -1 .. 20 :
       Ask("delay", [count |-> count, max |-> max], RetryDelay(count, max))

AskChecks ==
  /\ Unasked
  /\ \E checks \in UpTo(CheckStates, MaxChecks) : Ask("checks", checks, ChecksStatus(checks))

\* What can stand in the way of everything else, one at a time.
Obstacles == {"none", "blocked", "lock", "lease", "broken", "artifact"}

KnownFacts ==
  {NoFacts} \cup
  {f \in [status : {"success", "failed", "review_failed", "review_not_ready", "needs_info"},
          url : 0 .. 2, review : {"", "passed", "failed"}, class : {""} \cup Classes,
          retry : {"", "retry_after_backoff", "repair_review_findings_before_handoff"},
          retries : {0}, hash : {0}, outcome : {""}] :
     f.review = "failed" <=> f.class # ""}

OpenPRs ==
  {NoPR} \cup
  [url : {1}, valid : BOOLEAN, review : {"", "APPROVED", "CHANGES_REQUESTED"},
   merge : {"mergeable", "conflict"}, checks : {<<"success">>, <<"pending">>}]

\* The scheduler, the review lane and the merge lane look at the same view.
AskIssue ==
  /\ Unasked
  /\ \E st \in States, o \in Obstacles, pr \in OpenPRs, feedback, inUse \in BOOLEAN :
     \E f \in IF o = "broken" THEN {NoFacts} ELSE KnownFacts :
       LET v == [state |-> st, blocked |-> o = "blocked", lock |-> o = "lock",
                 lease |-> o = "lease", broken |-> o = "broken",
                 facts |-> f, pr |-> pr,
                 artifact |-> IF o = "artifact" THEN "success" ELSE "none",
                 feedback |-> feedback, inUse |-> inUse]
       IN Ask("issue", v,
              [pick |-> Selectable(v, TRUE, TRUE),
               resume |-> Repaired(v).next = "run_semantic_review_after_checks_ready"
                          /\ Repaired(v).run,
               merge |-> Reconcile(v).merge,
               explained |-> ExplainsRun(v)])

AskCleanup ==
  /\ Unasked
  /\ \E dirty, unsafe, ours, done, branch \in BOOLEAN :
     \E f \in KnownFacts, pr \in {"merged", "open", "unknown"} :
       LET w == [dirty |-> dirty, unsafe |-> unsafe, ours |-> ours, done |-> done,
                 branch |-> branch, facts |-> f, pr |-> pr]
       IN Ask("cleanup", w, CleanupDecision(w))

\* Two entries of a root, of a few workspaces each.
Workspaces ==
  {[dirty |-> FALSE, unsafe |-> FALSE, ours |-> TRUE, done |-> done, branch |-> TRUE,
    facts |-> f, pr |-> "open"] : done \in BOOLEAN, f \in {NoFacts, [NoFacts EXCEPT !.status = "failed"]}}
Entries ==
  [name : {"plain", "hidden", "state"}, kind : {"directory", "link"},
   files : {{}, {"evidence", "scratch"}, {"work"}}, fails : {"none", "look", "remove"},
   w : Workspaces]

AskSweep ==
  /\ Unasked
  /\ \E root \in {"directory", "link"}, entries \in [1 .. 2 -> Entries] :
     \E apply \in BOOLEAN :
       LET in == [root |-> root, apply |-> apply, entries |-> entries]
       IN Ask("sweep", in, Sweep(root, entries, apply))

\* Processes open the store one after the other.  The first migration of
\* this release makes the last one's column.
Openings ==
  {[release |-> v, early |-> early \/ v = LastMigration, dies |-> dies] :
     v \in LastMigration - 2 .. LastMigration, early, dies \in BOOLEAN}

AskStore ==
  \/ /\ Unasked
     /\ \E by \in Openings : Ask("store", <<by>>, Opened(NewDatabase, by))
  \/ /\ asked.about = "store" /\ Len(asked.in) < MaxRecords
     /\ \E by \in Openings : Ask("store", Append(asked.in, by), Opened(asked.out, by))

Settings == {Absent, Off, Nonsense} \cup {Number(n) : n \in {-1, 1, 2}}

AskLimits ==
  /\ Unasked
  /\ \E yaml \in [wall : Settings, pi : Settings, runtime : Settings, tokens : Settings] :
     \E wall \in {0, 2, 9}, used \in UpTo({0, 2}, 2) :
       LET in == [yaml |-> yaml, wall |-> wall, used |-> used]
       IN Ask("limits", in,
              [refused |-> Invalid(yaml), runtime |-> Limits(yaml).runtime,
               stops |-> Exceeded(Limits(yaml), wall, used)])

\* A review of one of two reviewers; statuses and check runs were read or not.
Reviews == [by : {"ann", "bob"}, says : {"APPROVED", "CHANGES_REQUESTED", "COMMENTED"}]
ReadChecks == UpTo(CheckStates \ {"unknown"}, 1) \cup {Unread}
PipelineStates == {"none", "success", "pending", "running", "failed"}

\* OpenPullRequests of either client.
AskHost ==
  /\ Unasked
  /\ \/ \E reviews \in UpTo(Reviews, MaxReviews), statuses, runs \in ReadChecks :
         \E mg \in {"yes", "no", "unset"}, st \in {"clean", "dirty", "blocked"} :
           LET gh == [host |-> "github", reviews |-> reviews, mergeable |-> mg, state |-> st,
                      statuses |-> statuses, runs |-> runs]
           IN Ask("host", gh, GitHubPR(gh))
     \/ \E st \in {"mergeable", "conflict", "checking"}, conflicts \in BOOLEAN :
        \E head, pipeline, latest \in PipelineStates, required, given \in 0 .. 2 :
           LET gl == [host |-> "gitlab", status |-> st, conflicts |-> conflicts, head |-> head,
                      pipeline |-> pipeline, latest |-> latest, required |-> required,
                      given |-> given]
           IN Ask("host", gl, GitLabPR(gl))

\* Pull requests with nothing or one thing wrong.
Good == [base |-> "main", branch |-> "ours", author |-> "app", commits |-> {"app"},
         open |-> TRUE, small |-> TRUE]
AsCreated ==
  {Good, [Good EXCEPT !.commits = {"app", "agent"}], [Good EXCEPT !.small = FALSE]}
AsFound ==
  AsCreated \cup {[Good EXCEPT !.base = "dev"], [Good EXCEPT !.branch = "other"],
                 [Good EXCEPT !.author = "ann"], [Good EXCEPT !.open = FALSE]}

Owners ==
  [provider : {"github", "gitlab"}, override : {{}, {"ann"}}, app : {"", "app"}]

AskHandoff ==
  /\ Unasked
  /\ \E who \in Owners, prs \in UpTo(AsFound, 2), new \in AsCreated :
     \E advised \in {[is |-> w, at |-> 0] : w \in {"none", "foreign", "failing", "missing"}}
                     \cup {[is |-> "found", at |-> i] : i \in DOMAIN prs} :
       LET s == [prs |-> prs, advised |-> advised, new |-> new]
       IN Ask("handoff", [who |-> who, host |-> s], PRForHandoff(who, "main", s))

\* A file of an attempt, and what the host says of the pull requests.
Hosts == [1 .. 2 -> {"open", "closed", "merged", "error"}]

AskRepair ==
  /\ Unasked
  /\ \E r \in IssueRecords, named \in 0 .. 2, host \in Hosts :
       Ask("repair", [file |-> File(r, named), host |-> host], Repair(File(r, named), host))

\* Two workspaces with files of one issue, each repaired before.
AskBackfill ==
  /\ Unasked
  /\ \E r, q \in IssueRecords, st \in {"open", "closed", "merged"} :
     \E f \in {g \in KnownFacts : g.retry = ""} :
       LET host == [i \in 1 .. 2 |-> st]
           files == <<Repair(File(r, 0), host), Repair(File(q, 0), host)>>
       IN Ask("backfill", [files |-> files, facts |-> f], Seeded(f, files))

Next ==
  \/ AskStatus \/ AskFacts \/ AskScope \/ AskPick \/ AskDelay \/ AskChecks \/ AskIssue
  \/ AskCleanup \/ AskHost \/ AskHandoff \/ AskRepair \/ AskBackfill
  \/ AskSweep \/ AskStore \/ AskLimits

Spec == Init /\ [][Next]_asked

----------------------------------------------------------------------------
(* Properties.                                                             *)

\* A success has a pull request, and a reviewer who was asked either passed
\* it first or missed only evidence (attempt_lifecycle.go:104).
NoFalseSuccess ==
  asked.about = "status" /\ asked.out.status = "success" =>
    LET in == asked.in.stop
        marks == FirstOf(asked.in.lines, PassOrFail)
        class == FirstOf(asked.in.lines, ClassLines)
    IN /\ in.url # 0 /\ in.phase = "success"
       /\ marks = "REVIEW_PASS" \/ (marks = "REVIEW_FAIL" /\ class = "missing_evidence_only")

\* Whatever was recorded before, the store lets a merge through only if the
\* last record is itself a reviewed success: no earlier review stands in for
\* it (store.go:1570 keeps the row of a record without a review).  After a
\* backfill that holds of every file of the issue (backfill.go:36).
StoreVouches ==
  asked.about \in {"facts", "backfill"} /\ ~MergeBlockedByFacts(asked.out, asked.out.url) =>
    LET vouching == IF asked.about = "facts" THEN {asked.in[Len(asked.in)]}
                    ELSE {f.record : f \in Range(asked.in.files)}
    IN \A r \in vouching :
         /\ r.status = "success" /\ r.url # 0 /\ r.url = asked.out.url
         /\ r.review = "passed" \/ r.class = "missing_evidence_only"

\* The retry count, from which the delay is computed, is the number of
\* records to retry since the last one that had PR feedback; such a record
\* starts again at one (store.go:1583).
RetriesCountTheRecords ==
  asked.about = "facts" =>
    LET h == asked.in
        counted == {i \in DOMAIN h : RetryState(h[i]) # ""}
        resets == {i \in counted : h[i].hash # 0}
    IN asked.out.retries = Cardinality({i \in counted : \A j \in resets : i >= j})

\* The scope guard objects to a diff exactly if one of its files is out of
\* scope, or is not among the paths allowed when there are any; it names
\* every such file (scopeguard.go:56).
ScopeIsExact ==
  asked.about = "scope" =>
    LET c == asked.in.contract
        Hit(ps, f) == \E p \in ps : Matches(p, f)
    IN {v.file : v \in asked.out} =
         {f \in asked.in.files : Hit(c.out, f) \/ ~(c.allowed = {} \/ Hit(c.allowed, f))}

\* What selection is to prefer: what is ready, then what is safer to run (work
\* on the runner's safety, then on documents), then what is more urgent (1 is
\* the most urgent, 0 is none given), then what is older.
Safer(c, d) ==
  \/ c.label = "runner-safety" /\ d.label \in {"docs-only", "none"}
  \/ c.label = "docs-only" /\ d.label = "none"
MoreUrgent(c, d) == c.priority # 0 /\ (d.priority = 0 \/ c.priority < d.priority)
Preferred(c, d) ==
  \/ c.ready /\ ~d.ready
  \/ c.ready = d.ready /\ Safer(c, d)
  \/ c.ready = d.ready /\ c.label = d.label /\ MoreUrgent(c, d)
  \/ /\ c.ready = d.ready /\ c.label = d.label /\ c.priority = d.priority
     /\ c.created < d.created

\* Selection picks somebody if anybody may run, one who may run, and nobody
\* before another who may run and is preferred; of equals, the first by
\* identifier (candidate_selection.go:31, :301).
BestIsPicked ==
  asked.about = "pick" =>
    LET list == asked.in.list
        may == asked.in.may
        best == asked.out
    IN IF may = {} THEN best = 0
       ELSE /\ best \in may
            /\ \A i \in may : ~Preferred(list[i], list[best])
            /\ \A i \in may : list[i] = list[best] => best <= i

\* The delay never passes the maximum, never shrinks with one more retry,
\* and the first retry waits a second (candidate_selection.go:233).
DelayGrows ==
  asked.about = "delay" =>
    LET in == asked.in
        more == RetryDelay(in.count + 1, in.max)
    IN /\ asked.out <= Max({in.max, 0}) /\ asked.out <= more
       /\ more < in.max /\ in.count > 0 => more = 2 * asked.out
       /\ in.count <= 1 /\ in.max > 0 => asked.out = 1

\* At most one lane acts on an issue: what the scheduler picks is neither
\* the review lane's nor the merge lane's (candidate_selection.go:131).
OneLaneActs ==
  asked.about = "issue" =>
    Cardinality({lane \in {"pick", "resume", "merge"} : asked.out[lane]}) <= 1

\* An issue somebody works on, one that is blocked, and one whose facts or
\* artifacts are in doubt is left alone by every lane; an issue with an open
\* pull request is run again only to repair it or to take its feedback
\* (reconciler.go:92, candidate_selection.go:190).
OnlyQuietIssuesMove ==
  asked.about = "issue" =>
    LET v == asked.in
    IN /\ asked.out.pick \/ asked.out.resume \/ asked.out.merge =>
            ~(v.blocked \/ v.lock \/ v.lease \/ v.broken \/ Unmapped(v) \/ ArtifactOnly(v))
       /\ asked.out.pick /\ v.pr # NoPR =>
            /\ v.pr.valid
            /\ \/ v.pr.review = "CHANGES_REQUESTED"
               \/ v.facts.status = "success" /\ v.feedback
               \/ /\ v.facts.status = "review_failed"
                  /\ v.facts.class = "behavior_spec_blocker"

\* A merge is let through only of an approved, green, conflict-free pull
\* request that the store says a reviewer or a human vouches for, while
\* nobody uses its workspace (reconciler.go:410).
MergesAreVouched ==
  asked.about = "issue" /\ asked.out.merge =>
    LET v == asked.in
    IN /\ v.state = "Handoff" /\ v.pr.valid /\ v.pr.review = "APPROVED"
       /\ v.pr.merge = "mergeable" /\ v.pr.checks = <<"success">>
       /\ v.facts.status = "success" /\ v.facts.url \in {0, v.pr.url}
       /\ v.facts.review = "passed" \/ v.facts.class = "missing_evidence_only"
       /\ ~(v.lock \/ v.lease \/ v.inUse)

\* A workspace is deleted only if it is clean, its issue is done and the
\* store knows its attempt, which had ended or whose pull request is merged
\* (cleanup.go:396).  Whether its pull request is open or somebody works in
\* it is not looked at: see OpenPRIsKept of DecisionClaims, and
\* DeletesRespectRuns of Delivery.  A sweep deletes only when it is to,
\* nothing but plain directories without anybody's work in them, and nothing
\* after an error (cleanup.go:120).
DeletesAreSafe ==
  /\ asked.about = "cleanup" /\ asked.out.delete =>
    LET w == asked.in
    IN /\ ~w.dirty /\ ~w.unsafe /\ w.ours /\ w.done /\ Known(w)
       /\ w.facts.status = "review_not_ready" => w.facts.url # 0 /\ w.pr = "merged"
  /\ asked.about = "sweep" =>
    \A i \in DOMAIN asked.out : asked.out[i] = "deleted" =>
      LET e == asked.in.entries[i]
      IN /\ asked.in.apply /\ asked.in.root = "directory"
         /\ e.kind = "directory" /\ e.name = "plain" /\ "work" \notin e.files
         /\ e.w.done /\ Known(e.w)
         /\ \A j \in 1 .. i - 1 : asked.out[j] \notin {"failed", "error"}

\* The gate reports checks as failed only when none can still change that
\* (mergegate.go:117), and lets an approved pull request pass only if the
\* host says so itself:
\* somebody's last review approves and nobody's asks for changes (on GitLab
\* every approval required is given, and there is one), there is no
\* conflict, and every check that was read is green; checks that were not
\* read matter only if GitHub calls the merge clean (ghapi/api.go:190,
\* gitlabapi/api.go:205).
GateTrustsHost ==
  /\ asked.about = "checks" /\ asked.out = "failed" => Range(asked.in) \subseteq {"success", "failed"}
  /\ asked.about = "host" /\ asked.out.review = "APPROVED" /\ MergeGate(asked.out) = "" =>
    LET h == asked.in
        By(who) == {i \in DOMAIN h.reviews : h.reviews[i].by = who}
        Says(who) == IF By(who) = {} THEN "" ELSE h.reviews[Max(By(who))].says
    IN IF h.host = "github"
       THEN /\ {Says("ann"), Says("bob")} \cap {"APPROVED", "CHANGES_REQUESTED"} = {"APPROVED"}
            /\ h.mergeable = "yes" /\ h.state # "dirty"
            /\ Range(h.statuses) \subseteq {"success"}
            /\ Range(h.runs) \subseteq {"success"} \/ (h.runs = Unread /\ h.state = "clean")
       ELSE /\ h.given >= Max({h.required, 1})
            /\ h.status = "conflict" \/ h.conflicts => h.status = "mergeable"
            /\ {h.head, h.pipeline} \subseteq {"none", "success"}

\* A pull request that is handed over is one the reconciler does not
\* quarantine; if the agent named none of the issue's branch, no other one
\* is open on that branch; and on GitHub nobody but the app wrote its
\* commits (handoff.go:236).
HandedOffIsOurs ==
  asked.about = "handoff" /\ asked.out.handed =>
    LET who == asked.in.who
        s == asked.in.host
        pr == asked.out.pr
        rivals == {i \in DOMAIN s.prs : s.prs[i].open /\ s.prs[i].branch = "ours"}
    IN /\ pr.base = "main" /\ pr.branch = "ours" /\ pr.small
       /\ pr.author \in {"ann", "app"} /\ (pr.author = "ann" => who.override = {"ann"})
       /\ who.provider = "github" => pr.commits = {"app"}
       /\ s.advised.is # "found" => Cardinality(rivals) = (IF asked.out.created THEN 0 ELSE 1)

\* A repair says merged or superseded only of the pull request the file then
\* names and only if the host does, keeps the status it replaced and the
\* review, and has nothing left to do (artifacts.go:272).
RepairsHold ==
  asked.about = "repair" =>
    LET before == asked.in.file
        after == asked.out
        host == asked.in.host
    IN /\ Repair(after, host) = after
       /\ after.record.status # before.record.status =>
            /\ after.orig = before.record.status
            /\ host[after.record.url] =
                 IF after.record.status = "merged" THEN "merged" ELSE "closed"
       /\ after.record.review = before.record.review /\ after.record.class = before.record.class

\* Whichever releases opened the store, in any order and killed half-way or
\* not: it is as the newest of those that got through left it, every
\* migration up to that one's was made, none was made twice, and a newer
\* release is never kept out (store.go:2018).
StoreIsWhole ==
  asked.about = "store" =>
    LET newest == Max({0} \cup {by.release : by \in {b \in Range(asked.in) : ~b.dies}})
    IN /\ asked.out.applied = 1 .. newest
       /\ newest = LastMigration => asked.out.column

\* An attempt is not stopped by a limit nobody set, and is stopped by every
\* positive limit that was; it runs without a timeout only if the file says
\* so, by the newer of the two names if it uses both (budget.go:126,
\* runbudget/budget.go:11).
LimitsHold ==
  asked.about = "limits" /\ ~asked.out.refused =>
    LET y == asked.in.yaml
        sum == FoldFunction(+, 0, asked.in.used)
        named == IF y.runtime # Absent THEN y.runtime ELSE y.pi
    IN /\ asked.out.stops <=>
            \/ asked.in.wall > (IF y.wall = Absent THEN 8 ELSE IF y.wall.n > 0 THEN y.wall.n ELSE 9)
            \/ y.tokens.n > 0 /\ sum > y.tokens.n
       /\ asked.out.runtime <= 0 => named = Off \/ named.n < 0
==============================================================================
