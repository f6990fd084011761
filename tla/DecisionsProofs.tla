--------------------------- MODULE DecisionsProofs ---------------------------
(* The answers of Decisions, for every value of the constants: however many *)
(* records, openings, lines, files or candidates a question has.            *)
EXTENDS DecisionClaims, ReconcilerProofs, FiniteSetTheorems

----------------------------------------------------------------------------
(* Who asks what.                                                          *)

\* What asking leaves behind.
LEMMA Asked ==
  ASSUME NEW about
  PROVE  \A in, out : Ask(about, in, out) =>
           asked'.about = about /\ asked'.in = in /\ asked'.out = out
BY DEF Ask

\* A question about a thing was asked by the action for that thing.
LEMMA WhoAsks ==
  ASSUME Next
  PROVE  \/ AskStatus /\ asked'.about = "status"
         \/ AskFacts /\ asked'.about = "facts"
         \/ AskScope /\ asked'.about = "scope"
         \/ AskPick /\ asked'.about = "pick"
         \/ AskDelay /\ asked'.about = "delay"
         \/ AskChecks /\ asked'.about = "checks"
         \/ AskIssue /\ asked'.about = "issue"
         \/ AskCleanup /\ asked'.about = "cleanup"
         \/ AskHost /\ asked'.about = "host"
         \/ AskHandoff /\ asked'.about = "handoff"
         \/ AskRepair /\ asked'.about = "repair"
         \/ AskBackfill /\ asked'.about = "backfill"
         \/ AskSweep /\ asked'.about = "sweep"
         \/ AskStore /\ asked'.about = "store"
         \/ AskLimits /\ asked'.about = "limits"
<1>1. AskStatus => asked'.about = "status"
  BY Asked, Zenon DEF AskStatus
<1>2. AskFacts => asked'.about = "facts"
  BY DEF AskFacts, Ask
<1>3. AskScope => asked'.about = "scope"
  BY DEF AskScope, Ask
<1>4. AskPick => asked'.about = "pick"
  BY DEF AskPick, Ask
<1>5. AskDelay => asked'.about = "delay"
  BY DEF AskDelay, Ask
<1>6. AskChecks => asked'.about = "checks"
  BY DEF AskChecks, Ask
<1>7. AskIssue => asked'.about = "issue"
  BY DEF AskIssue, Ask
<1>8. AskCleanup => asked'.about = "cleanup"
  BY DEF AskCleanup, Ask
<1>9. AskHost => asked'.about = "host"
  BY Asked, Zenon DEF AskHost
<1>10. AskHandoff => asked'.about = "handoff"
  BY DEF AskHandoff, Ask
<1>11. AskRepair => asked'.about = "repair"
  BY DEF AskRepair, Ask
<1>12. AskBackfill => asked'.about = "backfill"
  BY Asked, Zenon DEF AskBackfill
<1>13. AskSweep => asked'.about = "sweep"
  BY DEF AskSweep, Ask
<1>14. AskStore => asked'.about = "store"
  BY DEF AskStore, Ask
<1>15. AskLimits => asked'.about = "limits"
  BY DEF AskLimits, Ask
<1> QED
  BY <1>1, <1>2, <1>3, <1>4, <1>5, <1>6, <1>7, <1>8, <1>9, <1>10, <1>11, <1>12, <1>13, <1>14,
     <1>15 DEF Next
----------------------------------------------------------------------------
(* The three lanes at one issue.                                           *)

\* An open pull request that is looked at has one check, green or pending.
LEMMA ViewsOfHost ==
  ASSUME NEW pr \in OpenPRs, pr # NoPR
  PROVE  pr.checks \in {<<"success">>, <<"pending">>}
BY DEF OpenPRs

\* An answer about an issue is what the three lanes and explain make of the
\* same view of it.
IssueAnswer ==
  asked.about = "issue" =>
    LET v == asked.in
    IN /\ v.facts \in KnownFacts /\ v.pr \in OpenPRs
       /\ asked.out.pick <=> Selectable(v, TRUE, TRUE)
       /\ asked.out.resume <=> /\ Repaired(v).next = "run_semantic_review_after_checks_ready"
                               /\ Repaired(v).run
       /\ asked.out.merge <=> Reconcile(v).merge
       /\ asked.out.explained <=> Repaired(v).run

\* The invariant IssueAnswer of the questions about an issue holds always.
LEMMA IssueAnswered == Spec => []IssueAnswer
<1>1. Init => IssueAnswer
  BY DEF Init, IssueAnswer
<1>2. IssueAnswer /\ [Next]_asked => IssueAnswer'
  <2>1. IssueAnswer /\ UNCHANGED asked => IssueAnswer'
    BY DEF IssueAnswer
  <2>2. ASSUME AskIssue PROVE IssueAnswer'
    <3>1. PICK st \in States, o \in Obstacles, pr \in OpenPRs, feedback \in BOOLEAN,
               inUse \in BOOLEAN :
            \E f \in IF o = "broken" THEN {NoFacts} ELSE KnownFacts :
              LET v == [state |-> st, blocked |-> o = "blocked", lock |-> o = "lock",
                        lease |-> o = "lease", broken |-> o = "broken",
                        facts |-> f, pr |-> pr,
                        artifact |-> IF o = "artifact" THEN "success" ELSE "none",
                        feedback |-> feedback, inUse |-> inUse]
              IN Ask("issue", v,
                     [pick |-> Selectable(v, TRUE, TRUE),
                      resume |-> Repaired(v).next = "run_semantic_review_after_checks_ready"
                                 /\ Repaired(v).run,
                      merge |-> Reconcile(v).merge,
                      explained |-> ExplainsRun(v)])
      BY <2>2, Zenon DEF AskIssue
    <3>2. PICK f \in KnownFacts :
            LET v == [state |-> st, blocked |-> o = "blocked", lock |-> o = "lock",
                      lease |-> o = "lease", broken |-> o = "broken",
                      facts |-> f, pr |-> pr,
                      artifact |-> IF o = "artifact" THEN "success" ELSE "none",
                      feedback |-> feedback, inUse |-> inUse]
            IN Ask("issue", v,
                   [pick |-> Selectable(v, TRUE, TRUE),
                    resume |-> Repaired(v).next = "run_semantic_review_after_checks_ready"
                               /\ Repaired(v).run,
                    merge |-> Reconcile(v).merge,
                    explained |-> ExplainsRun(v)])
      <4>1. NoFacts \in KnownFacts
        BY DEF KnownFacts
      <4> QED
        BY <3>1, <4>1, Zenon
    <3> DEFINE v == [state |-> st, blocked |-> o = "blocked", lock |-> o = "lock",
                     lease |-> o = "lease", broken |-> o = "broken",
                     facts |-> f, pr |-> pr,
                     artifact |-> IF o = "artifact" THEN "success" ELSE "none",
                     feedback |-> feedback, inUse |-> inUse]
               out == [pick |-> Selectable(v, TRUE, TRUE),
                       resume |-> Repaired(v).next = "run_semantic_review_after_checks_ready"
                                  /\ Repaired(v).run,
                       merge |-> Reconcile(v).merge,
                       explained |-> ExplainsRun(v)]
    <3>3. v.facts = f /\ v.pr = pr
      OBVIOUS
    <3>4. Ask("issue", v, out)
      BY <3>2, Zenon
    <3> HIDE DEF v
    <3>5. /\ out.pick <=> Selectable(v, TRUE, TRUE)
          /\ out.resume <=> /\ Repaired(v).next = "run_semantic_review_after_checks_ready"
                            /\ Repaired(v).run
          /\ out.merge <=> Reconcile(v).merge
          /\ out.explained <=> Repaired(v).run
      BY DEF ExplainsRun
    <3> HIDE DEF out
    <3>6. asked'.in = v /\ asked'.out = out
      BY <3>4, Asked, Zenon
    <3> QED
      BY <3>3, <3>5, <3>6 DEF IssueAnswer
  <2>3. ASSUME Next PROVE AskIssue \/ asked'.about # "issue"
    BY <2>3, WhoAsks
  <2> QED
    BY <2>1, <2>2, <2>3 DEF IssueAnswer
<1> QED
  BY <1>1, <1>2, PTL DEF Spec

\* What selection picks is quiet; with an open pull request it runs, and not
\* to resume a review.
LEMMA PicksAreQuiet ==
  ASSUME NEW v, Selectable(v, TRUE, TRUE)
  PROVE  /\ Quiet(v)
         /\ ~(Repaired(v).run /\ Repaired(v).next = "run_semantic_review_after_checks_ready")
         /\ v.pr # NoPR => Repaired(v).run
         /\ ~Repaired(v).run =>
              /\ RetryableStatus(v.facts.status)
              /\ v.facts.retry = "retry_after_backoff"
<1> DEFINE d == Repaired(v)
           r == RetryDecision(v, TRUE)
<1>1. /\ ~(d.run /\ d.next = "run_semantic_review_after_checks_ready")
      /\ d.run \/ OverridesRecord(v, d, r)
  BY DEF Selectable
<1>2. CASE d.run
  BY <1>1, <1>2, RunsAreQuiet
<1>3. CASE ~d.run
  <2>1. /\ r.found /\ r.runnable /\ v.pr = NoPR
        /\ d.next = "operator_repair_or_clear_artifact" /\ RetryableStatus(v.facts.status)
    BY <1>1, <1>3 DEF OverridesRecord
  <2>2. v.facts.retry = "retry_after_backoff"
    BY <2>1 DEF RetryDecision, MustWait, MayRetry
  <2>3. d = Reconcile(v)
    BY <1>3, RepairedOrNot
  <2>4. Quiet(v)
    BY <2>1, <2>3, Reconciled DEF Idle, Acted
  <2> QED
    BY <1>1, <1>3, <2>1, <2>2, <2>4
<1> QED
  BY <1>2, <1>3

\* At most one lane acts on an issue: what the scheduler picks is neither the
\* review lane's nor the merge lane's.
THEOREM LanesDoNotCollide == Spec => []OneLaneActs
<1>1. IssueAnswer => OneLaneActs
  <2> SUFFICES ASSUME IssueAnswer, asked.about = "issue"
               PROVE  Cardinality({lane \in {"pick", "resume", "merge"} : asked.out[lane]}) <= 1
    BY DEF OneLaneActs
  <2> DEFINE v == asked.in
             acting == {lane \in {"pick", "resume", "merge"} : asked.out[lane]}
  <2>1. /\ asked.out.pick <=> Selectable(v, TRUE, TRUE)
        /\ asked.out.resume <=> /\ Repaired(v).next = "run_semantic_review_after_checks_ready"
                                /\ Repaired(v).run
        /\ asked.out.merge <=> Reconcile(v).merge
    BY DEF IssueAnswer
  <2>2. ~(asked.out.pick /\ asked.out.resume)
    BY <2>1, PicksAreQuiet
  <2>3. asked.out.merge => ~asked.out.resume /\ ~asked.out.pick
    BY <2>1, MergesArePermitted, PicksAreQuiet
  <2>4. acting = {} \/ \E lane \in {"pick", "resume", "merge"} : acting = {lane}
    BY <2>2, <2>3
  <2> HIDE DEF acting
  <2>5. Cardinality(acting) <= 1
    <3>1. CASE acting = {}
      BY <3>1, FS_EmptySet
    <3>2. ASSUME NEW lane, acting = {lane} PROVE Cardinality(acting) = 1
      BY <3>2, FS_Singleton
    <3> QED
      BY <2>4, <3>1, <3>2
  <2> QED
    BY <2>5 DEF acting
<1> QED
  BY <1>1, IssueAnswered, PTL

\* An issue somebody works on, that is blocked or in doubt is left alone by
\* every lane; one with an open pull request is picked only to repair it or
\* for its feedback.
THEOREM OthersAreLeftAlone == Spec => []OnlyQuietIssuesMove
<1>1. IssueAnswer => OnlyQuietIssuesMove
  <2> SUFFICES ASSUME IssueAnswer, asked.about = "issue"
               PROVE  OnlyQuietIssuesMove
    BY DEF OnlyQuietIssuesMove
  <2> DEFINE v == asked.in
  <2>1. /\ asked.out.pick <=> Selectable(v, TRUE, TRUE)
        /\ asked.out.resume <=> /\ Repaired(v).next = "run_semantic_review_after_checks_ready"
                                /\ Repaired(v).run
        /\ asked.out.merge <=> Reconcile(v).merge
    BY DEF IssueAnswer
  <2>2. asked.out.pick \/ asked.out.resume \/ asked.out.merge => Quiet(v)
    BY <2>1, PicksAreQuiet, RunsAreQuiet, MergesArePermitted
  <2>3. asked.out.pick /\ v.pr # NoPR =>
          /\ v.pr.valid
          /\ \/ v.pr.review = "CHANGES_REQUESTED"
             \/ v.facts.status = "success" /\ v.feedback
             \/ v.facts.status = "review_failed" /\ v.facts.class = "behavior_spec_blocker"
    BY <2>1, PicksAreQuiet, RunsAreQuiet
  <2> QED
    BY <2>2, <2>3 DEF OnlyQuietIssuesMove, Quiet
<1> QED
  BY <1>1, IssueAnswered, PTL

\* A merge is let through only of an approved, green, conflict-free pull
\* request the store vouches for, while nobody uses its workspace.
THEOREM MergesVouchedFor == Spec => []MergesAreVouched
<1>1. IssueAnswer => MergesAreVouched
  <2> SUFFICES ASSUME IssueAnswer, asked.about = "issue", asked.out.merge
               PROVE  MergesAreVouched
    BY DEF MergesAreVouched
  <2> DEFINE v == asked.in
  <2>1. Reconcile(v).merge /\ v.pr \in OpenPRs
    BY DEF IssueAnswer
  <2>2. /\ Quiet(v) /\ v.state = "Handoff" /\ v.pr # NoPR
        /\ v.pr.valid /\ v.pr.review = "APPROVED" /\ MergeGate(v.pr) = ""
        /\ ~MergeBlockedByFacts(v.facts, v.pr.url) /\ ~v.inUse
    BY <2>1, MergesArePermitted
  <2>3. v.pr.merge = "mergeable" /\ ChecksStatus(v.pr.checks) = "success"
    BY <2>2 DEF MergeGate
  <2>4. v.pr.checks \in {<<"success">>, <<"pending">>}
    BY <2>1, <2>2, ViewsOfHost
  <2>5. ChecksStatus(<<"pending">>) # "success"
    BY DEF ChecksStatus
  <2>6. v.pr.checks = <<"success">>
    BY <2>3, <2>4, <2>5
  <2> QED
    BY <2>2, <2>3, <2>6 DEF MergesAreVouched, MergeBlockedByFacts, Quiet
<1> QED
  BY <1>1, IssueAnswered, PTL

\* Of an issue without a recorded retry, what explain says would run is what
\* selection picks or the review lane resumes.  With one they differ:
\* DecisionClaimsExplain.cfg.
THEOREM ExplainsUnlessRetried ==
  Spec => [](asked.about = "issue" /\ asked.in.facts.retry = "" => ExplainAgrees)
<1> DEFINE Agreed == asked.about = "issue" /\ asked.in.facts.retry = "" => ExplainAgrees
<1>1. IssueAnswer => Agreed
  <2> SUFFICES ASSUME IssueAnswer, asked.about = "issue", asked.in.facts.retry = ""
               PROVE  ExplainAgrees
    OBVIOUS
  <2> DEFINE v == asked.in
             d == Repaired(v)
             r == RetryDecision(v, TRUE)
  <2>1. /\ asked.out.pick <=> Selectable(v, TRUE, TRUE)
        /\ asked.out.resume <=> d.next = "run_semantic_review_after_checks_ready" /\ d.run
        /\ asked.out.explained <=> d.run
    BY DEF IssueAnswer
  <2>2. ~(asked.out.explained /\ ~asked.out.pick /\ ~asked.out.resume)
    <3> SUFFICES ASSUME asked.out.explained, ~asked.out.pick, ~asked.out.resume
                 PROVE  FALSE
      OBVIOUS
    <3>1. ~v.blocked /\ v.state \notin {"NeedsInfo", "Done"}
      BY <2>1, RunsAreQuiet DEF Quiet
    <3>2. r.found
      BY <2>1, <3>1 DEF Selectable
    <3> QED
      BY <3>1, <3>2 DEF RetryDecision, MustWait
  <2>3. asked.out.pick => asked.out.explained
    BY <2>1, PicksAreQuiet
  <2>4. asked.out.resume => asked.out.explained
    BY <2>1
  <2> QED
    BY <2>2, <2>3, <2>4 DEF ExplainAgrees
<1> HIDE DEF Agreed
<1>2. Spec => []Agreed
  BY <1>1, IssueAnswered, PTL
<1> QED
  BY <1>2 DEF Agreed
----------------------------------------------------------------------------
(* Cleanup and sweeps.                                                     *)

\* What a sweep deletes, among any number of entries.
LEMMA DeletedBySweep ==
  ASSUME NEW root, NEW n \in Nat, NEW entries \in [1 .. n -> Entries], NEW apply,
         NEW i \in 1 .. n, Sweep(root, entries, apply)[i] = "deleted"
  PROVE  LET e == entries[i]
         IN /\ apply /\ root = "directory"
            /\ e.kind = "directory" /\ e.name = "plain" /\ "work" \notin e.files
            /\ e.w.done /\ Known(e.w)
            /\ \A j \in 1 .. i - 1 : Sweep(root, entries, apply)[j] \notin {"failed", "error"}
<1> DEFINE e == entries[i]
           d == CleanupDecision(Workspace(root, e))
<1>1. /\ SafeRoot(root)
      /\ \A j \in 1 .. i - 1 : SweepsOne(root, entries[j], apply) \notin {"error", "failed"}
      /\ SweepsOne(root, e, apply) = "deleted"
  BY DEF Sweep
<1>2. \A j \in 1 .. i - 1 : Sweep(root, entries, apply)[j] \notin {"failed", "error"}
  <2> TAKE j \in 1 .. i - 1
  <2>1. j \in 1 .. n /\ \A k \in 1 .. j - 1 : k \in 1 .. i - 1
    OBVIOUS
  <2>2. Sweep(root, entries, apply)[j] = SweepsOne(root, entries[j], apply)
    BY <1>1, <2>1 DEF Sweep
  <2> QED
    BY <1>1, <2>2
<1>3. ~PassedOver(e) /\ SafePath(root, e) /\ d.delete /\ apply
  BY <1>1 DEF SweepsOne
<1>4. /\ e \in Entries
      /\ e.name \in {"plain", "hidden", "state"}
      /\ e.files \in {{}, {"evidence", "scratch"}, {"work"}}
      /\ e.w \in Workspaces
  BY DEF Entries
<1>5. e.kind = "directory" /\ e.name = "plain"
  BY <1>3, <1>4 DEF PassedOver
<1>6. /\ Workspace(root, e).dirty = Dirty(e.files)
      /\ Workspace(root, e).done = e.w.done /\ Workspace(root, e).facts = e.w.facts
  BY <1>4 DEF Workspace, Workspaces
<1>7. ~Dirty(e.files) /\ e.w.done /\ e.w.facts.status # "none"
  BY <1>3, <1>6, DeletesAreOfTheDone
<1>8. "work" \notin e.files
  BY <1>7 DEF Dirty
<1> QED
  BY <1>1, <1>2, <1>3, <1>5, <1>7, <1>8 DEF Known, SafeRoot

\* A workspace is deleted only if it is clean, its issue is done and the store
\* knows its attempt, which had ended or whose pull request is merged; a sweep
\* deletes only when it is to, nothing but plain directories without anybody's
\* work in them, and nothing after an error.
THEOREM DeletesSafe == Spec => []DeletesAreSafe
<1>1. Init => DeletesAreSafe
  BY DEF Init, DeletesAreSafe
<1>2. DeletesAreSafe /\ [Next]_asked => DeletesAreSafe'
  <2>1. DeletesAreSafe /\ UNCHANGED asked => DeletesAreSafe'
    BY DEF DeletesAreSafe
  <2>2. ASSUME AskCleanup, asked'.about = "cleanup", asked'.out.delete
        PROVE  DeletesAreSafe'
    <3>1. PICK dirty \in BOOLEAN, unsafe \in BOOLEAN, ours \in BOOLEAN, done \in BOOLEAN,
               branch \in BOOLEAN :
            \E f \in KnownFacts, pr \in {"merged", "open", "unknown"} :
              LET w == [dirty |-> dirty, unsafe |-> unsafe, ours |-> ours, done |-> done,
                        branch |-> branch, facts |-> f, pr |-> pr]
              IN Ask("cleanup", w, CleanupDecision(w))
      BY <2>2, Zenon DEF AskCleanup
    <3>2. PICK w : Ask("cleanup", w, CleanupDecision(w))
      BY <3>1, Zenon
    <3>3. asked'.in = w /\ asked'.out = CleanupDecision(w)
      BY <3>2, Asked, Zenon
    <3>4. /\ ~w.unsafe /\ ~w.dirty /\ w.ours /\ w.done /\ w.facts.status # "none"
          /\ \/ TerminalStatus(IF w.facts.status = "" THEN w.facts.outcome ELSE w.facts.status)
             \/ w.facts.url # 0 /\ w.branch /\ w.pr = "merged"
      BY <2>2, <3>3, DeletesAreOfTheDone
    <3>5. w.facts.status = "review_not_ready" => w.facts.url # 0 /\ w.pr = "merged"
      BY <3>4 DEF TerminalStatus
    <3> QED
      BY <2>2, <3>3, <3>4, <3>5 DEF DeletesAreSafe, Known
  <2>3. ASSUME AskSweep, asked'.about = "sweep" PROVE DeletesAreSafe'
    <3>1. PICK root \in {"directory", "link"}, entries \in [1 .. 2 -> Entries],
               apply \in BOOLEAN :
            Ask("sweep", [root |-> root, apply |-> apply, entries |-> entries],
                Sweep(root, entries, apply))
      BY <2>3, Zenon DEF AskSweep
    <3>2. /\ asked'.in = [root |-> root, apply |-> apply, entries |-> entries]
          /\ asked'.out = Sweep(root, entries, apply)
      BY <3>1, Asked, Zenon
    <3>3. ASSUME NEW i \in 1 .. 2, Sweep(root, entries, apply)[i] = "deleted"
          PROVE  LET e == entries[i]
                 IN /\ apply /\ root = "directory"
                    /\ e.kind = "directory" /\ e.name = "plain" /\ "work" \notin e.files
                    /\ e.w.done /\ Known(e.w)
                    /\ \A j \in 1 .. i - 1 :
                         Sweep(root, entries, apply)[j] \notin {"failed", "error"}
      <4> DEFINE n == 2
      <4>1. n \in Nat /\ i \in 1 .. n /\ entries \in [1 .. n -> Entries]
        OBVIOUS
      <4> HIDE DEF n
      <4> QED
        BY <3>3, <4>1, DeletedBySweep, Zenon
    <3>4. DOMAIN Sweep(root, entries, apply) = 1 .. 2
      BY DEF Sweep
    <3> QED
      BY <2>3, <3>2, <3>3, <3>4 DEF DeletesAreSafe
  <2>4. ASSUME Next
        PROVE  \/ AskCleanup /\ asked'.about = "cleanup"
               \/ AskSweep /\ asked'.about = "sweep"
               \/ asked'.about \notin {"cleanup", "sweep"}
    BY <2>4, WhoAsks
  <2> QED
    BY <2>1, <2>2, <2>3, <2>4 DEF DeletesAreSafe
<1> QED
  BY <1>1, <1>2, PTL DEF Spec
----------------------------------------------------------------------------
(* The records of an issue.                                                *)

RunRecords ==
  [status : Statuses, review : {"", "passed", "failed", "unknown", "error"},
   class : {""} \cup Classes, url : Nat, err : BOOLEAN, check : {FALSE}, drift : {FALSE},
   hash : Nat]

\* A success has a pull request and somebody who vouches for it.
SuccessIsVouched(r) ==
  r.status = "success" =>
    /\ r.url # 0
    /\ r.review = "passed" \/ (r.review = "failed" /\ r.class = "missing_evidence_only")

\* An attempt that stops before its end is no success.
LEMMA StopsAreNoSuccess ==
  ASSUME NEW url, NEW in \in StopsBeforePR(url) \cup StopsInReview(url)
  PROVE  /\ LifecycleStatus(in) \in Statuses \ {"success"}
         /\ in.url = url /\ in.phase # "success" /\ in.outOfScope \in BOOLEAN
         /\ in.review \in {NoReview, [status |-> "error", class |-> ""]}
<1> DEFINE Broken(ph, rt) == [Stop(ph, url) EXCEPT !.runtime = rt]
           Asking(rt) == [Stop("needs_info", url) EXCEPT !.questions = TRUE, !.runtime = rt]
           Error(rt) == [Stop("review", url) EXCEPT !.review.status = "error", !.runtime = rt]
           Fields(ph, review, rt, budget, outOfScope, scopeError, questions, notReady) ==
             /\ in.phase = ph /\ in.url = url /\ in.review = review /\ in.runtime = rt
             /\ in.budget = budget /\ in.outOfScope = outOfScope /\ in.scopeError = scopeError
             /\ in.questions = questions /\ in.notReady = notReady
           Erred == [status |-> "error", class |-> ""]
           Goal == /\ LifecycleStatus(in) \in Statuses \ {"success"}
                   /\ in.url = url /\ in.phase # "success" /\ in.outOfScope \in BOOLEAN
                   /\ in.review \in {NoReview, Erred}
<1>0. NoReview.status = "" /\ Erred.status = "error"
  BY DEF NoReview
<1>1. ASSUME NEW ph \in {"implementation", "validation"}, NEW rt \in {"failed", "timeout"},
             in = Broken(ph, rt)
      PROVE  Goal
  <2>1. Fields(ph, NoReview, rt, FALSE, FALSE, FALSE, FALSE, FALSE)
    BY <1>1 DEF Stop, NoReview
  <2>2. in.review.status = ""
    BY <1>0, <2>1
  <2> QED
    BY <2>1, <2>2 DEF LifecycleStatus, RoutesToHuman, Statuses
<1>2. ASSUME NEW rt \in {"", "needs_info_failed"}, in = Asking(rt)
      PROVE  Goal
  <2>1. Fields("needs_info", NoReview, rt, FALSE, FALSE, FALSE, TRUE, FALSE)
    BY <1>2 DEF Stop, NoReview
  <2>2. in.review.status = ""
    BY <1>0, <2>1
  <2> QED
    BY <2>1, <2>2 DEF LifecycleStatus, RoutesToHuman, Statuses
<1>3. ASSUME in = [Stop("implementation", url) EXCEPT !.budget = TRUE]
      PROVE  Goal
  <2>1. Fields("implementation", NoReview, "", TRUE, FALSE, FALSE, FALSE, FALSE)
    BY <1>3 DEF Stop, NoReview
  <2>2. in.review.status = ""
    BY <1>0, <2>1
  <2> QED
    BY <2>1, <2>2 DEF LifecycleStatus, RoutesToHuman, Statuses
<1>4. ASSUME in = [Stop("scope_guard", url) EXCEPT !.scopeError = TRUE]
      PROVE  Goal
  <2>1. Fields("scope_guard", NoReview, "", FALSE, FALSE, TRUE, FALSE, FALSE)
    BY <1>4 DEF Stop, NoReview
  <2>2. in.review.status = ""
    BY <1>0, <2>1
  <2> QED
    BY <2>1, <2>2 DEF LifecycleStatus, RoutesToHuman, Statuses
<1>5. ASSUME in = [Stop("scope_guard", url) EXCEPT !.outOfScope = TRUE]
      PROVE  Goal
  <2>1. Fields("scope_guard", NoReview, "", FALSE, TRUE, FALSE, FALSE, FALSE)
    BY <1>5 DEF Stop, NoReview
  <2>2. in.review.status = ""
    BY <1>0, <2>1
  <2> QED
    BY <2>1, <2>2 DEF LifecycleStatus, RoutesToHuman, Statuses
<1>6. ASSUME in = Stop("handoff", url)
      PROVE  Goal
  <2>1. Fields("handoff", NoReview, "", FALSE, FALSE, FALSE, FALSE, FALSE)
    BY <1>6 DEF Stop, NoReview
  <2>2. in.review.status = ""
    BY <1>0, <2>1
  <2> QED
    BY <2>1, <2>2 DEF LifecycleStatus, RoutesToHuman, Statuses
<1>7. ASSUME in = [Stop("review_readiness", url) EXCEPT !.notReady = TRUE]
      PROVE  Goal
  <2>1. Fields("review_readiness", NoReview, "", FALSE, FALSE, FALSE, FALSE, TRUE)
    BY <1>7 DEF Stop, NoReview
  <2>2. in.review.status = ""
    BY <1>0, <2>1
  <2> QED
    BY <2>1, <2>2 DEF LifecycleStatus, RoutesToHuman, Statuses
<1>8. ASSUME in = [Stop("review", url) EXCEPT !.budget = TRUE]
      PROVE  Goal
  <2>1. Fields("review", NoReview, "", TRUE, FALSE, FALSE, FALSE, FALSE)
    BY <1>8 DEF Stop, NoReview
  <2>2. in.review.status = ""
    BY <1>0, <2>1
  <2> QED
    BY <2>1, <2>2 DEF LifecycleStatus, RoutesToHuman, Statuses
<1>9. ASSUME in = [Stop("review", url) EXCEPT !.runtime = "failed"]
      PROVE  Goal
  <2>1. Fields("review", NoReview, "failed", FALSE, FALSE, FALSE, FALSE, FALSE)
    BY <1>9 DEF Stop, NoReview
  <2>2. in.review.status = ""
    BY <1>0, <2>1
  <2> QED
    BY <2>1, <2>2 DEF LifecycleStatus, RoutesToHuman, Statuses
<1>10. ASSUME NEW rt \in {"", "timeout"}, in = Error(rt)
       PROVE  Goal
  <2>1. Fields("review", Erred, rt, FALSE, FALSE, FALSE, FALSE, FALSE)
    BY <1>10 DEF Stop, NoReview
  <2>2. in.review.status = "error"
    BY <1>0, <2>1
  <2> QED
    BY <2>1, <2>2 DEF LifecycleStatus, RoutesToHuman, Statuses
<1>11. ASSUME in \in StopsBeforePR(url) PROVE Goal
  <2> DEFINE S1 == {Broken(ph, rt) : ph \in {"implementation", "validation"},
                                     rt \in {"failed", "timeout"}}
             S2 == {Asking(rt) : rt \in {"", "needs_info_failed"}}
             S3 == {[Stop("implementation", url) EXCEPT !.budget = TRUE],
                    [Stop("scope_guard", url) EXCEPT !.scopeError = TRUE],
                    [Stop("scope_guard", url) EXCEPT !.outOfScope = TRUE],
                    Stop("handoff", url)}
  <2>1. StopsBeforePR(url) = S1 \cup S2 \cup S3
    BY DEF StopsBeforePR
  <2> HIDE DEF S1, S2, S3
  <2>2. in \in S1 \/ in \in S2 \/ in \in S3
    BY <1>11, <2>1
  <2> HIDE DEF Goal
  <2>3. ASSUME in \in S1 PROVE Goal
    <3> HIDE DEF Broken
    <3>1. \E ph \in {"implementation", "validation"}, rt \in {"failed", "timeout"} :
            in = Broken(ph, rt)
      BY <2>3, SMT DEF S1
    <3> QED
      BY <1>1, <3>1
  <2>4. ASSUME in \in S2 PROVE Goal
    BY <1>2, <2>4, Zenon DEF S2
  <2>5. ASSUME in \in S3 PROVE Goal
    BY <1>3, <1>4, <1>5, <1>6, <2>5, Zenon DEF S3
  <2> QED
    BY <2>2, <2>3, <2>4, <2>5
<1>12. ASSUME in \in StopsInReview(url) PROVE Goal
  <2>1. \/ in = [Stop("review_readiness", url) EXCEPT !.notReady = TRUE]
        \/ in = [Stop("review", url) EXCEPT !.budget = TRUE]
        \/ in = [Stop("review", url) EXCEPT !.runtime = "failed"]
        \/ \E rt \in {"", "timeout"} : in = Error(rt)
    BY <1>12, Zenon DEF StopsInReview
  <2> HIDE DEF Error, Goal
  <2> QED
    BY <1>7, <1>8, <1>9, <1>10, <2>1, Zenon
<1> QED
  BY <1>11, <1>12 DEF Erred

\* The status of an attempt that gets its review.
ReviewedStatus(url, v) == LifecycleStatus([Stop("success", url) EXCEPT !.review = v])

\* An attempt that gets its review is a success only if the reviewer passed it
\* or missed nothing but evidence.
LEMMA ReviewDecides ==
  ASSUME NEW url \in Nat, NEW v, v.status \in {"passed", "failed", "unknown"}
  PROVE  /\ ReviewedStatus(url, v) \in Statuses
         /\ ReviewedStatus(url, v) = "success" =>
              /\ url # 0
              /\ v.status = "passed" \/ (v.status = "failed" /\ v.class = "missing_evidence_only")
<1> DEFINE in == [Stop("success", url) EXCEPT !.review = v]
<1>1. /\ in.phase = "success" /\ in.url = url /\ in.review = v /\ in.runtime = ""
      /\ in.budget = FALSE /\ in.outOfScope = FALSE /\ in.scopeError = FALSE
      /\ in.questions = FALSE /\ in.notReady = FALSE
  BY DEF Stop
<1>2. ReviewedStatus(url, v) = LifecycleStatus(in)
  BY DEF ReviewedStatus
<1> HIDE DEF in
<1>3. LifecycleStatus(in) =
        IF v.status # "passed"
        THEN IF v.status = "failed" /\ v.class = "missing_evidence_only" /\ url # 0
             THEN "success" ELSE "review_failed"
        ELSE IF url # 0 THEN "success" ELSE "failed"
  BY <1>1 DEF LifecycleStatus, RoutesToHuman
<1> QED
  BY <1>2, <1>3 DEF Statuses

\* What can be recorded of an issue.
LEMMA RecordsOfIssues ==
  ASSUME NEW r \in IssueRecords
  PROVE  r \in RunRecords /\ SuccessIsVouched(r)
<1>1. ASSUME NEW e \in EndedAttempts PROVE e \in RunRecords /\ SuccessIsVouched(e)
  <2>1. ASSUME NEW url \in {0, 1}, NEW in \in StopsBeforePR(url) \cup StopsInReview(url),
               e = RecordOfStop(in)
        PROVE  e \in RunRecords /\ SuccessIsVouched(e)
    <3> DEFINE st == LifecycleStatus(in)
               review == IF in.outOfScope THEN ScopeReview ELSE in.review
               kept == IF st = "needs_info" THEN 0 ELSE in.url
    <3>1. e = Record(st, review, kept, TRUE)
      BY <2>1 DEF RecordOfStop
    <3>2. /\ st \in Statuses \ {"success"} /\ in.url = url
          /\ in.review \in {NoReview, [status |-> "error", class |-> ""]}
      BY StopsAreNoSuccess
    <3> HIDE DEF st
    <3>3. kept \in Nat
      <4>1. in.url \in Nat
        <5>1. url \in Nat
          OBVIOUS
        <5> QED
          BY <3>2, <5>1
      <4> QED
        BY <4>1
    <3>4. review \in {ScopeReview, NoReview, [status |-> "error", class |-> ""]}
      BY <3>2
    <3> HIDE DEF st, review, kept
    <3>5. review.status \in {"", "error", "failed"} /\ review.class \in {""} \cup Classes
      <4>1. CASE review = ScopeReview
        BY <4>1 DEF ScopeReview, Classes
      <4>2. CASE review = NoReview
        BY <4>2 DEF NoReview
      <4>3. CASE review = [status |-> "error", class |-> ""]
        BY <4>3
      <4> QED
        BY <3>4, <4>1, <4>2, <4>3
    <3> QED
      BY <3>1, <3>2, <3>3, <3>5 DEF Record, RunRecords, SuccessIsVouched
  <2>2. ASSUME NEW v \in Verdicts,
               e = Record(LifecycleStatus([Stop("success", 1) EXCEPT !.review = v]), v, 1, FALSE)
        PROVE  e \in RunRecords /\ SuccessIsVouched(e)
    <3> DEFINE st == ReviewedStatus(1, v)
    <3>1. v.status \in {"passed", "failed", "unknown"} /\ v.class \in {""} \cup Classes
      <4>1. CASE v = [status |-> "passed", class |-> ""]
        BY <4>1
      <4>2. CASE v \in [status : {"failed", "unknown"}, class : Classes]
        BY <4>2
      <4> QED
        BY <4>1, <4>2 DEF Verdicts
    <3>2. /\ st \in Statuses
          /\ st = "success" =>
               v.status = "passed" \/ (v.status = "failed" /\ v.class = "missing_evidence_only")
      <4> DEFINE one == 1
      <4>1. one \in Nat /\ st = ReviewedStatus(one, v)
        OBVIOUS
      <4> HIDE DEF one, st
      <4>2. v.status \in {"passed", "failed", "unknown"}
        BY <3>1
      <4> QED
        BY <4>1, <4>2, ReviewDecides
    <3>3. e = Record(st, v, 1, FALSE)
      BY <2>2 DEF ReviewedStatus
    <3> HIDE DEF st
    <3>4. e \in RunRecords /\ e.status = st /\ e.url = 1 /\ e.review = v.status /\ e.class = v.class
      BY <3>1, <3>2, <3>3 DEF Record, RunRecords
    <3> QED
      BY <3>2, <3>4 DEF SuccessIsVouched
  <2>3. \/ \E in \in StopsBeforePR(0) \cup StopsBeforePR(1) \cup StopsInReview(1) :
             e = RecordOfStop(in)
        \/ \E v \in Verdicts :
             e = Record(LifecycleStatus([Stop("success", 1) EXCEPT !.review = v]), v, 1, FALSE)
    BY Zenon DEF EndedAttempts
  <2> QED
    BY <2>1, <2>2, <2>3
<1>2. CASE r \in EndedAttempts
  BY <1>1, <1>2
<1>3. CASE r \notin EndedAttempts
  <2>1. PICK e \in EndedAttempts : r = [e EXCEPT !.hash = 1]
    BY <1>3, Zenon DEF IssueRecords
  <2>2. e \in RunRecords /\ SuccessIsVouched(e)
    BY <1>1
  <2> QED
    BY <2>1, <2>2 DEF RunRecords, SuccessIsVouched
<1> QED
  BY <1>2, <1>3
----------------------------------------------------------------------------
(* What the reviewer's lines make of an attempt.                           *)

\* The first line that is wanted, if there is one.
LEMMA FirstOfFinds ==
  ASSUME NEW k \in Nat, NEW lines, DOMAIN lines = 1 .. k, NEW wanted
  PROVE  FirstOf(lines, wanted) = "none" \/ FirstOf(lines, wanted) \in wanted
<1> DEFINE hits == {i \in DOMAIN lines : lines[i] \in wanted}
<1>1. CASE hits = {}
  BY <1>1 DEF FirstOf
<1>2. CASE hits # {}
  <2>1. hits \in SUBSET Nat
    OBVIOUS
  <2>2. Min(hits) \in hits
    BY <1>2, <2>1, LeastOfSome
  <2>3. FirstOf(lines, wanted) = lines[Min(hits)]
    BY <1>2 DEF FirstOf, Min
  <2> QED
    BY <2>2, <2>3
<1> QED
  BY <1>1, <1>2

\* The verdict that is read from the lines, however many there are.
LEMMA VerdictIsRead ==
  ASSUME NEW k \in Nat, NEW lines, DOMAIN lines = 1 .. k
  PROVE  LET v == Reviewed(lines)
         IN /\ v.status \in {"passed", "failed", "unknown"}
            /\ v.status = "passed" => FirstOf(lines, PassOrFail) = "REVIEW_PASS"
            /\ v.status = "failed" => FirstOf(lines, PassOrFail) = "REVIEW_FAIL"
            /\ v.class = "missing_evidence_only" =>
                 FirstOf(lines, ClassLines) = "missing_evidence_only"
<1> DEFINE mark == FirstOf(lines, PassOrFail)
           value == FirstOf(lines, ClassLines)
<1>1. mark \in {"none", "REVIEW_PASS", "REVIEW_FAIL"}
  BY FirstOfFinds DEF PassOrFail
<1>2. /\ Reviewed(lines).status = ReviewStatus(lines)
      /\ Reviewed(lines).class = ReviewClass(ReviewStatus(lines), lines)
  BY DEF Reviewed
<1>3. ReviewStatus(lines) =
        [REVIEW_PASS |-> "passed", REVIEW_FAIL |-> "failed", none |-> "unknown"][mark]
  BY DEF ReviewStatus
<1>4. ReviewClass(ReviewStatus(lines), lines) = "missing_evidence_only" =>
        value = "missing_evidence_only"
  BY DEF ReviewClass
<1> HIDE DEF mark, value
<1>5. /\ mark = "REVIEW_PASS" => ReviewStatus(lines) = "passed"
      /\ mark = "REVIEW_FAIL" => ReviewStatus(lines) = "failed"
      /\ mark = "none" => ReviewStatus(lines) = "unknown"
  BY <1>3
<1> QED
  BY <1>1, <1>2, <1>4, <1>5 DEF mark, value

\* A success has a pull request, and a reviewer who was asked either passed it
\* first or missed only evidence.
THEOREM SuccessIsReviewed == Spec => []NoFalseSuccess
<1>1. Init => NoFalseSuccess
  BY DEF Init, NoFalseSuccess
<1>2. NoFalseSuccess /\ [Next]_asked => NoFalseSuccess'
  <2>1. NoFalseSuccess /\ UNCHANGED asked => NoFalseSuccess'
    BY DEF NoFalseSuccess
  <2>2. ASSUME AskStatus PROVE NoFalseSuccess'
    <3>1. PICK url \in {0, 1} :
            \/ \E in \in StopsBeforePR(url) \cup StopsInReview(url) :
                 Ask("status", [stop |-> in, lines |-> <<>>], RecordOfStop(in))
            \/ \E lines \in UpTo(PassOrFail \cup ClassLines, MaxLines) :
                 LET in == [Stop("success", url) EXCEPT !.review = Reviewed(lines)]
                 IN Ask("status", [stop |-> in, lines |-> lines],
                        Record(LifecycleStatus(in), in.review, url, FALSE))
      BY <2>2, Zenon DEF AskStatus
    <3>2. ASSUME NEW in \in StopsBeforePR(url) \cup StopsInReview(url),
                 Ask("status", [stop |-> in, lines |-> <<>>], RecordOfStop(in))
          PROVE  NoFalseSuccess'
      <4>1. asked'.out = RecordOfStop(in)
        BY <3>2, Asked, Zenon
      <4>2. RecordOfStop(in).status # "success"
        BY StopsAreNoSuccess DEF RecordOfStop, Record
      <4> QED
        BY <4>1, <4>2 DEF NoFalseSuccess
    <3>3. ASSUME NEW lines \in UpTo(PassOrFail \cup ClassLines, MaxLines),
                 LET in == [Stop("success", url) EXCEPT !.review = Reviewed(lines)]
                 IN Ask("status", [stop |-> in, lines |-> lines],
                        Record(LifecycleStatus(in), in.review, url, FALSE))
          PROVE  NoFalseSuccess'
      <4> DEFINE in == [Stop("success", url) EXCEPT !.review = Reviewed(lines)]
                 out == Record(LifecycleStatus(in), in.review, url, FALSE)
                 v == Reviewed(lines)
      <4>1. /\ asked'.in = [stop |-> in, lines |-> lines]
            /\ asked'.out = out
        BY <3>3, Asked, Zenon
      <4>2. in.url = url /\ in.phase = "success"
        BY DEF Stop
      <4>3. out.status = ReviewedStatus(url, v)
        BY DEF Record, ReviewedStatus
      <4> HIDE DEF in, out
      <4>4. asked'.in.stop = in /\ asked'.in.lines = lines /\ asked'.out.status = out.status
        BY <4>1
      <4>5. \E k \in Nat : DOMAIN lines = 1 .. k
        BY DEF UpTo
      <4>6. /\ v.status \in {"passed", "failed", "unknown"}
            /\ v.status = "passed" => FirstOf(lines, PassOrFail) = "REVIEW_PASS"
            /\ v.status = "failed" => FirstOf(lines, PassOrFail) = "REVIEW_FAIL"
            /\ v.class = "missing_evidence_only" =>
                 FirstOf(lines, ClassLines) = "missing_evidence_only"
        BY <4>5, VerdictIsRead
      <4> HIDE DEF v
      <4>7. url \in Nat
        OBVIOUS
      <4>8. ReviewedStatus(url, v) = "success" =>
              /\ url # 0
              /\ v.status = "passed" \/ (v.status = "failed" /\ v.class = "missing_evidence_only")
        BY <4>6, <4>7, ReviewDecides
      <4> QED
        BY <4>2, <4>3, <4>4, <4>6, <4>8 DEF NoFalseSuccess
    <3> QED
      BY <3>1, <3>2, <3>3
  <2>3. ASSUME Next PROVE AskStatus \/ asked'.about # "status"
    BY <2>3, WhoAsks
  <2> QED
    BY <2>1, <2>2, <2>3 DEF NoFalseSuccess
<1> QED
  BY <1>1, <1>2, PTL DEF Spec
----------------------------------------------------------------------------
(* What the store keeps after any number of records.                       *)

\* The records to retry since the last one that had PR feedback.
Counted(h) ==
  LET counted == {i \in DOMAIN h : RetryState(h[i]) # ""}
      resets == {i \in counted : h[i].hash # 0}
  IN {i \in counted : \A j \in resets : i >= j}

\* One more record is counted alone, with those before it, or not.
LEMMA CountedGrows ==
  ASSUME NEW h \in Seq(IssueRecords), NEW r \in IssueRecords
  PROVE  LET g == Append(h, r)
             n == Len(h) + 1
         IN /\ RetryState(r) = "" => Counted(g) = Counted(h)
            /\ RetryState(r) # "" /\ r.hash # 0 => Counted(g) = {n}
            /\ RetryState(r) # "" /\ r.hash = 0 => Counted(g) = Counted(h) \cup {n}
            /\ n \notin Counted(h) /\ Counted(h) \subseteq 1 .. Len(h)
<1> DEFINE g == Append(h, r)
           l == Len(h)
           n == l + 1
<1>1. /\ l \in Nat /\ DOMAIN h = 1 .. l /\ DOMAIN g = 1 .. n
      /\ g[n] = r /\ \A i \in 1 .. l : g[i] = h[i]
  OBVIOUS
<1>2. \A i : i \in 1 .. n <=> i \in 1 .. l \/ i = n
  BY <1>1
<1>3. /\ n \notin 1 .. l /\ n >= n
      /\ \A i \in 1 .. l : n >= i /\ ~(i >= n)
  BY <1>1
<1> HIDE DEF g, l, n
<1> DEFINE ch == {i \in 1 .. l : RetryState(h[i]) # ""}
           rh == {i \in ch : h[i].hash # 0}
           cg == {i \in 1 .. n : RetryState(g[i]) # ""}
           rg == {i \in cg : g[i].hash # 0}
<1>4. Counted(h) = {i \in ch : \A j \in rh : i >= j}
  BY <1>1 DEF Counted
<1>5. Counted(g) = {i \in cg : \A j \in rg : i >= j}
  BY <1>1 DEF Counted
<1>6. Counted(h) \subseteq 1 .. l /\ n \notin Counted(h)
  BY <1>3, <1>4
<1>7. /\ RetryState(r) = "" => cg = ch
      /\ RetryState(r) # "" => cg = ch \cup {n}
  BY <1>1, <1>2
<1>8. /\ RetryState(r) = "" \/ r.hash = 0 => rg = rh
      /\ RetryState(r) # "" /\ r.hash # 0 => rg = rh \cup {n}
  BY <1>1, <1>3, <1>7
<1>9. ch \subseteq 1 .. l /\ rh \subseteq 1 .. l
  OBVIOUS
<1> HIDE DEF ch, rh, cg, rg
<1>10. RetryState(r) = "" => Counted(g) = Counted(h)
  BY <1>4, <1>5, <1>7, <1>8
<1>11. RetryState(r) # "" /\ r.hash # 0 => Counted(g) = {n}
  BY <1>3, <1>5, <1>7, <1>8, <1>9
<1>12. RetryState(r) # "" /\ r.hash = 0 => Counted(g) = Counted(h) \cup {n}
  BY <1>3, <1>4, <1>5, <1>7, <1>8, <1>9
<1> QED
  BY <1>6, <1>10, <1>11, <1>12 DEF g, l, n

\* The facts are those after the last record, and count the retries.
FactsAnswer ==
  asked.about = "facts" =>
    /\ asked.in \in Seq(IssueRecords) /\ asked.in # <<>>
    /\ \E f : asked.out = FactsAfter(f, asked.in[Len(asked.in)])
    /\ asked.out.retries = Cardinality(Counted(asked.in))

\* One more record on top of any.
LEMMA OneMoreRecord ==
  ASSUME NEW h \in Seq(IssueRecords), NEW r \in IssueRecords, NEW f,
         f.retries = Cardinality(Counted(h)), Ask("facts", Append(h, r), FactsAfter(f, r))
  PROVE  FactsAnswer'
<1> DEFINE g == Append(h, r)
           n == Len(h) + 1
<1>1. asked'.in = g /\ asked'.out = FactsAfter(f, r)
  BY Asked, Zenon
<1>2. g \in Seq(IssueRecords) /\ g # <<>> /\ g[Len(g)] = r /\ Len(h) \in Nat
  OBVIOUS
<1>3. /\ RetryState(r) = "" => Counted(g) = Counted(h)
      /\ RetryState(r) # "" /\ r.hash # 0 => Counted(g) = {n}
      /\ RetryState(r) # "" /\ r.hash = 0 => Counted(g) = Counted(h) \cup {n}
      /\ n \notin Counted(h) /\ Counted(h) \subseteq 1 .. Len(h)
  BY CountedGrows
<1> HIDE DEF g, n
<1>4. IsFiniteSet(Counted(h))
  <2>1. IsFiniteSet(1 .. Len(h))
    BY <1>2, FS_Interval
  <2> QED
    BY <1>3, <2>1, FS_Subset
<1>5. FactsAfter(f, r).retries =
        IF RetryState(r) = "" THEN f.retries ELSE IF r.hash # 0 THEN 1 ELSE f.retries + 1
  BY DEF FactsAfter
<1>6. FactsAfter(f, r).retries = Cardinality(Counted(g))
  <2>1. CASE RetryState(r) = ""
    BY <1>3, <1>5, <2>1
  <2>2. CASE RetryState(r) # "" /\ r.hash # 0
    <3>1. Cardinality({n}) = 1
      BY FS_Singleton
    <3> QED
      BY <1>3, <1>5, <2>2, <3>1
  <2>3. CASE RetryState(r) # "" /\ r.hash = 0
    <3>1. Cardinality(Counted(h) \cup {n}) = Cardinality(Counted(h)) + 1
      BY <1>3, <1>4, FS_AddElement
    <3> QED
      BY <1>3, <1>5, <2>3, <3>1
  <2> QED
    BY <2>1, <2>2, <2>3
<1> QED
  BY <1>1, <1>2, <1>6 DEF FactsAnswer

\* The invariant FactsAnswer of the questions about the store's facts holds always.
LEMMA FactsAnswered == Spec => []FactsAnswer
<1>1. Init => FactsAnswer
  BY DEF Init, FactsAnswer
<1>2. FactsAnswer /\ [Next]_asked => FactsAnswer'
  <2>1. FactsAnswer /\ UNCHANGED asked => FactsAnswer'
    BY DEF FactsAnswer
  <2>2. ASSUME FactsAnswer, AskFacts PROVE FactsAnswer'
    <3>1. CASE \E r \in IssueRecords : Ask("facts", <<r>>, FactsAfter(NoFacts, r))
      <4>1. PICK r \in IssueRecords : Ask("facts", <<r>>, FactsAfter(NoFacts, r))
        BY <3>1
      <4> DEFINE h == <<>>
      <4>2. h \in Seq(IssueRecords) /\ Append(h, r) = <<r>>
        OBVIOUS
      <4>3. Counted(h) = {}
        BY DEF Counted
      <4>4. NoFacts.retries = Cardinality(Counted(h))
        BY <4>3, FS_EmptySet DEF NoFacts
      <4> HIDE DEF h
      <4> QED
        BY <4>1, <4>2, <4>4, OneMoreRecord
    <3>2. CASE \E r \in IssueRecords :
                 asked.about = "facts" /\ Ask("facts", Append(asked.in, r), FactsAfter(asked.out, r))
      <4>1. PICK r \in IssueRecords :
              asked.about = "facts" /\ Ask("facts", Append(asked.in, r), FactsAfter(asked.out, r))
        BY <3>2
      <4>2. asked.in \in Seq(IssueRecords) /\ asked.out.retries = Cardinality(Counted(asked.in))
        BY <2>2, <4>1 DEF FactsAnswer
      <4> QED
        BY <4>1, <4>2, OneMoreRecord
    <3> QED
      BY <2>2, <3>1, <3>2, Zenon DEF AskFacts
  <2>3. ASSUME Next PROVE AskFacts \/ asked'.about # "facts"
    BY <2>3, WhoAsks
  <2> QED
    BY <2>1, <2>2, <2>3 DEF FactsAnswer
<1> QED
  BY <1>1, <1>2, PTL DEF Spec

\* The retry count is the number of records to retry since the last one that
\* had PR feedback.
THEOREM RetriesCounted == Spec => []RetriesCountTheRecords
<1>1. FactsAnswer => RetriesCountTheRecords
  BY DEF FactsAnswer, RetriesCountTheRecords, Counted
<1> QED
  BY <1>1, FactsAnswered, PTL
----------------------------------------------------------------------------
(* What any number of openings make of the store.                          *)

\* The releases of those who got through; 0 stands for nobody.
Through(in) == {0} \cup {by.release : by \in {b \in Range(in) : ~b.dies}}

\* A set has one largest number.
LEMMA MaxIs ==
  ASSUME NEW S \in SUBSET Int, NEW n \in S, \A m \in S : m <= n
  PROVE  Max(S) = n
<1>1. \E x \in S : \A y \in S : x >= y
  <2>1. \A y \in S : n >= y
    OBVIOUS
  <2> QED
    BY <2>1
<1>2. Max(S) \in S /\ \A y \in S : Max(S) >= y
  BY <1>1 DEF Max
<1>3. Max(S) \in Int /\ n \in Int /\ Max(S) >= n /\ Max(S) <= n
  BY <1>2
<1> QED
  BY <1>3

\* The store is as the newest release of those that got through left it.
WholeAfter(in, db, n) ==
  /\ n \in Nat /\ n \in Through(in) /\ \A m \in Through(in) : m <= n
  /\ db.applied = 1 .. n
  /\ n = LastMigration => db.column

StoreAnswer ==
  asked.about = "store" =>
    /\ asked.in \in Seq(Openings)
    /\ \E n \in Nat : WholeAfter(asked.in, asked.out, n)

\* One more opening of any store.
LEMMA OneMoreOpening ==
  ASSUME NEW h \in Seq(Openings), NEW by \in Openings, NEW db, NEW n \in Nat,
         WholeAfter(h, db, n), Ask("store", Append(h, by), Opened(db, by))
  PROVE  StoreAnswer'
<1> DEFINE g == Append(h, by)
           new == Opened(db, by)
           rel == by.release
<1>1. asked'.in = g /\ asked'.out = new
  BY Asked, Zenon
<1>2. rel \in Nat /\ rel <= LastMigration /\ rel # 0
  BY DEF Openings, LastMigration
<1>3. Range(g) = Range(h) \cup {by}
  <2>1. /\ Len(h) \in Nat /\ DOMAIN h = 1 .. Len(h) /\ DOMAIN g = 1 .. Len(h) + 1
        /\ g[Len(h) + 1] = by /\ \A i \in 1 .. Len(h) : g[i] = h[i]
    OBVIOUS
  <2> HIDE DEF g
  <2>2. \A i : i \in 1 .. Len(h) + 1 <=> i \in 1 .. Len(h) \/ i = Len(h) + 1
    BY <2>1
  <2> QED
    BY <2>1, <2>2 DEF Range
<1>4. /\ by.dies => Through(g) = Through(h)
      /\ ~by.dies => Through(g) = Through(h) \cup {rel}
  BY <1>3 DEF Through
<1>5. Schema(db) = n
  <2>1. db.applied \cup {0} = 0 .. n
    BY DEF WholeAfter
  <2>2. 0 .. n \in SUBSET Int /\ n \in 0 .. n /\ \A m \in 0 .. n : m <= n
    OBVIOUS
  <2> QED
    BY <2>1, <2>2, MaxIs DEF Schema
<1>6. CASE ~CanOpen(db, rel) \/ by.dies
  <2>1. new = db
    BY <1>6 DEF Opened
  <2>2. ~by.dies => rel <= n
    BY <1>2, <1>5, <1>6 DEF CanOpen
  <2>3. WholeAfter(g, new, n)
    BY <1>2, <1>4, <2>1, <2>2 DEF WholeAfter
  <2> QED
    BY <1>1, <2>3 DEF StoreAnswer
<1>7. CASE CanOpen(db, rel) /\ ~by.dies
  <2>1. n <= rel
    BY <1>5, <1>7 DEF CanOpen
  <2>2. /\ new.applied = db.applied \cup (n + 1 .. rel)
        /\ rel = LastMigration /\ (n < LastMigration \/ db.column) => new.column
    BY <1>5, <1>7 DEF Opened
  <2>3. new.applied = 1 .. rel
    <3>1. db.applied = 1 .. n
      BY DEF WholeAfter
    <3>2. (1 .. n) \cup (n + 1 .. rel) = 1 .. rel
      BY <1>2, <2>1
    <3> QED
      BY <2>2, <3>1, <3>2
  <2>4. rel = LastMigration => new.column
    <3>1. n = LastMigration => db.column
      BY DEF WholeAfter
    <3>2. rel = LastMigration => n < LastMigration \/ n = LastMigration
      BY <1>2, <2>1
    <3> QED
      BY <2>2, <3>1, <3>2
  <2>5. rel \in Through(g) /\ \A m \in Through(g) : m <= rel
    <3>1. \A m \in Through(h) : m \in Nat /\ m <= n
      BY DEF WholeAfter, Through, Openings, Range, LastMigration
    <3> QED
      BY <1>2, <1>4, <1>7, <2>1, <3>1
  <2>6. WholeAfter(g, new, rel)
    BY <1>2, <2>3, <2>4, <2>5 DEF WholeAfter
  <2> QED
    BY <1>1, <1>2, <2>6 DEF StoreAnswer
<1> QED
  BY <1>6, <1>7

\* The invariant StoreAnswer of the questions about opening a store holds always.
LEMMA StoreAnswered == Spec => []StoreAnswer
<1>1. Init => StoreAnswer
  BY DEF Init, StoreAnswer
<1>2. StoreAnswer /\ [Next]_asked => StoreAnswer'
  <2>1. StoreAnswer /\ UNCHANGED asked => StoreAnswer'
    BY DEF StoreAnswer
  <2>2. ASSUME StoreAnswer, AskStore PROVE StoreAnswer'
    <3>1. CASE \E by \in Openings : Ask("store", <<by>>, Opened(NewDatabase, by))
      <4>1. PICK by \in Openings : Ask("store", <<by>>, Opened(NewDatabase, by))
        BY <3>1
      <4> DEFINE h == <<>>
      <4>2. h \in Seq(Openings) /\ Append(h, by) = <<by>>
        OBVIOUS
      <4>3. Through(h) = {0}
        BY DEF Through, Range
      <4>4. NewDatabase.applied = 1 .. 0
        BY DEF NewDatabase
      <4>5. WholeAfter(h, NewDatabase, 0)
        BY <4>3, <4>4 DEF WholeAfter, LastMigration
      <4> HIDE DEF h
      <4>6. \E n \in Nat : WholeAfter(h, NewDatabase, n)
        BY <4>5
      <4> QED
        BY <4>1, <4>2, <4>6, OneMoreOpening
    <3>2. CASE \E by \in Openings :
                 asked.about = "store" /\ Ask("store", Append(asked.in, by), Opened(asked.out, by))
      <4>1. PICK by \in Openings :
              asked.about = "store" /\ Ask("store", Append(asked.in, by), Opened(asked.out, by))
        BY <3>2
      <4>2. asked.in \in Seq(Openings) /\ \E n \in Nat : WholeAfter(asked.in, asked.out, n)
        BY <2>2, <4>1 DEF StoreAnswer
      <4> QED
        BY <4>1, <4>2, OneMoreOpening
    <3> QED
      BY <2>2, <3>1, <3>2, Zenon DEF AskStore
  <2>3. ASSUME Next PROVE AskStore \/ asked'.about # "store"
    BY <2>3, WhoAsks
  <2> QED
    BY <2>1, <2>2, <2>3 DEF StoreAnswer
<1> QED
  BY <1>1, <1>2, PTL DEF Spec

\* Whichever releases opened the store, in any order and number and killed
\* half-way or not, it is as the newest of those that got through left it.
THEOREM StoreKeptWhole == Spec => []StoreIsWhole
<1>1. StoreAnswer => StoreIsWhole
  <2> SUFFICES ASSUME StoreAnswer, asked.about = "store"
               PROVE  LET newest == Max(Through(asked.in))
                      IN /\ asked.out.applied = 1 .. newest
                         /\ newest = LastMigration => asked.out.column
    BY DEF StoreIsWhole, Through
  <2>1. PICK n \in Nat : WholeAfter(asked.in, asked.out, n)
    BY DEF StoreAnswer
  <2>2. Through(asked.in) \in SUBSET Int
    BY DEF StoreAnswer, Through, Openings, Range, LastMigration
  <2>3. Max(Through(asked.in)) = n
    BY <2>1, <2>2, MaxIs DEF WholeAfter
  <2> QED
    BY <2>1, <2>3 DEF WholeAfter
<1> QED
  BY <1>1, StoreAnswered, PTL----------------------------------------------------------------------------
(* Files of attempts and their repair.                                     *)

FileStatuses == Statuses \cup {"merged", "superseded"}
Notes == {"corrected_pr_url", "pr_manually_merged", "pr_closed_unmerged"}
FileRecords ==
  [status : FileStatuses, review : {"", "passed", "failed", "unknown", "error"},
   class : {""} \cup Classes, url : Nat, err : BOOLEAN, check : {FALSE}, drift : {FALSE},
   hash : Nat]
RunFiles ==
  [record : FileRecords, named : Nat, orig : {""} \cup FileStatuses, notes : SUBSET Notes]

\* What is written for an issue is a file of that kind.
LEMMA FilesOfRecords ==
  ASSUME NEW r \in IssueRecords, NEW named \in Nat
  PROVE  /\ File(r, named) \in RunFiles
         /\ File(r, named).record = r /\ File(r, named).orig = "" /\ File(r, named).named = named
<1>1. r \in RunRecords
  BY RecordsOfIssues
<1>2. r \in FileRecords
  BY <1>1 DEF RunRecords, FileRecords, FileStatuses
<1> QED
  BY <1>2 DEF File, RunFiles

\* A mark changes the status and nothing else of the record, and keeps the
\* first status it replaced.
LEMMA MarkKeeps ==
  ASSUME NEW f \in RunFiles, NEW st \in FileStatuses, NEW note \in Notes
  PROVE  LET m == Marked(f, st, note)
         IN /\ m.record = [f.record EXCEPT !.status = st] /\ m.record.status = st
            /\ m.record.url = f.record.url /\ m.record.review = f.record.review
            /\ m.record.class = f.record.class /\ m.named = f.named
            /\ m.orig = IF f.orig = "" THEN f.record.status ELSE f.orig
<1>1. f.record \in FileRecords
  BY DEF RunFiles
<1>2. [f.record EXCEPT !.status = st] \in FileRecords
  BY <1>1 DEF FileRecords
<1>3. /\ [f.record EXCEPT !.status = st].status = st
      /\ [f.record EXCEPT !.status = st].url = f.record.url
      /\ [f.record EXCEPT !.status = st].review = f.record.review
      /\ [f.record EXCEPT !.status = st].class = f.record.class
  BY <1>1 DEF FileRecords
<1>4. Marked(f, st, note).record = [f.record EXCEPT !.status = st]
  BY DEF Marked, RunFiles
<1>5. /\ Marked(f, st, note).named = f.named
      /\ Marked(f, st, note).orig = IF f.orig = "" THEN f.record.status ELSE f.orig
  BY DEF Marked, RunFiles
<1> QED
  BY <1>3, <1>4, <1>5

\* The findings correct the pull request once and for all, and nothing else.
LEMMA CorrectionKeeps ==
  ASSUME NEW f \in RunFiles
  PROVE  LET c == Corrected(f)
         IN /\ c \in RunFiles /\ Corrected(c) = c
            /\ c.record.status = f.record.status /\ c.record.review = f.record.review
            /\ c.record.class = f.record.class /\ c.orig = f.orig /\ c.named = f.named
            /\ c.record.url = CorrectedURL(f)
<1> DEFINE c == Corrected(f)
<1>1. f.record \in FileRecords /\ f.record.url \in Nat /\ f.named \in Nat
  BY DEF RunFiles, FileRecords
<1>2. CorrectedURL(f) \in Nat
  BY <1>1 DEF CorrectedURL
<1>3. CASE CorrectedURL(f) = f.record.url
  BY <1>3 DEF Corrected
<1>4. CASE CorrectedURL(f) # f.record.url
  <2>1. c = [f EXCEPT !.record.url = CorrectedURL(f), !.notes = @ \cup {"corrected_pr_url"}]
    BY <1>4 DEF Corrected
  <2>2. c.record = [f.record EXCEPT !.url = CorrectedURL(f)]
    BY <2>1 DEF RunFiles
  <2>3. c.orig = f.orig /\ c.named = f.named /\ c.notes = f.notes \cup {"corrected_pr_url"}
    BY <2>1 DEF RunFiles
  <2>4. /\ c.record \in FileRecords /\ c.record.url = CorrectedURL(f)
        /\ c.record.status = f.record.status /\ c.record.review = f.record.review
        /\ c.record.class = f.record.class
    BY <1>1, <1>2, <2>2 DEF FileRecords
  <2>5. c \in RunFiles
    <3>1. c = [record |-> c.record, named |-> c.named, orig |-> c.orig, notes |-> c.notes]
      BY <2>1 DEF RunFiles
    <3>2. c.named \in Nat /\ c.orig \in {""} \cup FileStatuses /\ c.notes \in SUBSET Notes
      BY <2>3 DEF RunFiles, Notes
    <3> HIDE DEF c
    <3> QED
      BY <2>4, <3>1, <3>2 DEF RunFiles
  <2>6. CorrectedURL(c) = c.record.url
    BY <1>1, <2>3, <2>4 DEF CorrectedURL
  <2>7. Corrected(c) = c
    BY <2>6 DEF Corrected
  <2> HIDE DEF c
  <2> QED
    BY <2>3, <2>4, <2>5, <2>7 DEF c
<1> QED
  BY <1>3, <1>4

\* What a repair makes of a file: nothing, a correction, or a corrected file
\* with the host's word.
LEMMA RepairOutcomes ==
  ASSUME NEW f \in RunFiles, NEW host
  PROVE  LET c == Corrected(f)
         IN \/ Repair(f, host) = f
            \/ Repair(f, host) = c /\ SettledByHost(c, host) = c
            \/ /\ Repair(f, host) = Marked(c, "merged", "pr_manually_merged")
               /\ host[c.record.url] = "merged"
            \/ /\ Repair(f, host) = Marked(c, "superseded", "pr_closed_unmerged")
               /\ host[c.record.url] = "closed"
BY DEF Repair, SettledByHost

\* A repair says merged or superseded only of the pull request the file then
\* names and only if the host does, keeps the status it replaced and the
\* review, and done again it changes nothing.
LEMMA RepairSettles ==
  ASSUME NEW f \in RunFiles, NEW host
  PROVE  LET after == Repair(f, host)
         IN /\ Repair(after, host) = after
            /\ after.record.review = f.record.review /\ after.record.class = f.record.class
            /\ after.record.url \in {f.record.url, CorrectedURL(f)}
            /\ after.record.status # f.record.status =>
                 /\ after.record.status \in {"merged", "superseded"}
                 /\ after.orig = IF f.orig = "" THEN f.record.status ELSE f.orig
                 /\ host[after.record.url] =
                      IF after.record.status = "merged" THEN "merged" ELSE "closed"
            /\ after.record.status = f.record.status \/ after.record.url = CorrectedURL(f)
<1> DEFINE c == Corrected(f)
           after == Repair(f, host)
<1>1. /\ c \in RunFiles /\ Corrected(c) = c
      /\ c.record.status = f.record.status /\ c.record.review = f.record.review
      /\ c.record.class = f.record.class /\ c.orig = f.orig /\ c.named = f.named
      /\ c.record.url = CorrectedURL(f)
  BY CorrectionKeeps
<1>2. CASE after = f
  BY <1>2
<1>3. CASE after = c /\ SettledByHost(c, host) = c
  <2>1. Repair(c, host) = c
    BY <1>1, <1>3 DEF Repair
  <2> QED
    BY <1>1, <1>3, <2>1
<1>4. ASSUME NEW st \in {"merged", "superseded"}, NEW note \in Notes,
             after = Marked(c, st, note),
             host[c.record.url] = IF st = "merged" THEN "merged" ELSE "closed"
      PROVE  /\ Repair(after, host) = after
             /\ after.record.review = f.record.review /\ after.record.class = f.record.class
             /\ after.record.url = CorrectedURL(f) /\ after.record.status = st
             /\ after.orig = IF f.orig = "" THEN f.record.status ELSE f.orig
  <2> HIDE DEF c, after
  <2>1. /\ after.record.status = st /\ after.record.url = c.record.url
        /\ after.record.review = c.record.review /\ after.record.class = c.record.class
        /\ after.named = c.named
        /\ after.orig = IF c.orig = "" THEN c.record.status ELSE c.orig
    <3>1. st \in FileStatuses
      BY DEF FileStatuses
    <3> QED
      BY <1>1, <1>4, <3>1, MarkKeeps
  <2>2. CorrectedURL(c) = c.record.url
    <3>1. c.record.url \in Nat /\ c.named \in Nat /\ f.record.url \in Nat /\ f.named \in Nat
      BY <1>1 DEF RunFiles, FileRecords
    <3> QED
      BY <1>1, <3>1 DEF CorrectedURL
  <2>3. Corrected(after) = after
    BY <2>1, <2>2 DEF Corrected, CorrectedURL
  <2>4. Repair(after, host) = after
    BY <2>1, <2>3 DEF Repair, SettledByHost
  <2> QED
    BY <1>1, <2>1, <2>4
<1>5. CASE after = Marked(c, "merged", "pr_manually_merged") /\ host[c.record.url] = "merged"
  <2> HIDE DEF c, after
  <2> DEFINE st == "merged"
             note == "pr_manually_merged"
  <2>1. st \in {"merged", "superseded"} /\ note \in Notes /\ after = Marked(c, st, note)
        /\ host[c.record.url] = IF st = "merged" THEN "merged" ELSE "closed"
    BY <1>5 DEF Notes
  <2>2. st = "merged"
    OBVIOUS
  <2> HIDE DEF st, note
  <2> QED
    BY <1>1, <1>4, <1>5, <2>1, <2>2 DEF after
<1>6. CASE after = Marked(c, "superseded", "pr_closed_unmerged") /\ host[c.record.url] = "closed"
  <2> HIDE DEF c, after
  <2> DEFINE st == "superseded"
             note == "pr_closed_unmerged"
  <2>1. st \in {"merged", "superseded"} /\ note \in Notes /\ after = Marked(c, st, note)
        /\ host[c.record.url] = IF st = "merged" THEN "merged" ELSE "closed"
    BY <1>6 DEF Notes
  <2>2. st = "superseded"
    OBVIOUS
  <2> HIDE DEF st, note
  <2> QED
    BY <1>1, <1>4, <1>6, <2>1, <2>2 DEF after
<1> QED
  BY <1>2, <1>3, <1>5, <1>6, RepairOutcomes, Zenon

\* What a repair of a file does to it holds, however often it is repaired.
THEOREM RepairsSettle == Spec => []RepairsHold
<1>1. Init => RepairsHold
  BY DEF Init, RepairsHold
<1>2. RepairsHold /\ [Next]_asked => RepairsHold'
  <2>1. RepairsHold /\ UNCHANGED asked => RepairsHold'
    BY DEF RepairsHold
  <2>2. ASSUME AskRepair PROVE RepairsHold'
    <3>1. PICK r \in IssueRecords, named \in 0 .. 2, host \in Hosts :
            Ask("repair", [file |-> File(r, named), host |-> host], Repair(File(r, named), host))
      BY <2>2, Zenon DEF AskRepair
    <3> DEFINE f == File(r, named)
               after == Repair(f, host)
               in == [file |-> f, host |-> host]
    <3>2. f \in RunFiles /\ f.orig = ""
      <4>1. named \in Nat
        OBVIOUS
      <4> QED
        BY <4>1, FilesOfRecords
    <3>3. in.file = f /\ in.host = host
      OBVIOUS
    <3> HIDE DEF f, after, in
    <3>4. asked'.in = in /\ asked'.out = after
      BY <3>1, Asked, Zenon DEF f, after, in
    <3>5. /\ Repair(after, host) = after
          /\ after.record.review = f.record.review /\ after.record.class = f.record.class
          /\ after.record.status # f.record.status =>
               /\ after.orig = f.record.status
               /\ host[after.record.url] =
                    IF after.record.status = "merged" THEN "merged" ELSE "closed"
      BY <3>2, RepairSettles DEF after
    <3> QED
      BY <3>3, <3>4, <3>5 DEF RepairsHold
  <2>3. ASSUME Next PROVE AskRepair \/ asked'.about # "repair"
    BY <2>3, WhoAsks
  <2> QED
    BY <2>1, <2>2, <2>3 DEF RepairsHold
<1> QED
  BY <1>1, <1>2, PTL DEF Spec----------------------------------------------------------------------------
(* For which attempts the store vouches.                                   *)

\* A reviewed success with this pull request.
Vouching(r, url) ==
  /\ r.status = "success" /\ r.url # 0 /\ r.url = url
  /\ r.review = "passed" \/ r.class = "missing_evidence_only"

\* A repaired file of an issue that is still a success was one that counts.
LEMMA RepairedSuccess ==
  ASSUME NEW r \in IssueRecords, NEW host,
         Repair(File(r, 0), host).record.status = "success"
  PROVE  LET q == Repair(File(r, 0), host).record IN Vouching(q, q.url)
<1> DEFINE none == 0
           f == File(r, none)
           q == Repair(f, host).record
<1>1. /\ f \in RunFiles /\ f.record = r /\ f.orig = "" /\ f.named = none
  <2>1. none \in Nat
    OBVIOUS
  <2> HIDE DEF none
  <2> QED
    BY <2>1, FilesOfRecords
<1>2. CorrectedURL(f) = r.url
  BY <1>1 DEF CorrectedURL
<1>3. q.status = "success"
  OBVIOUS
<1> HIDE DEF f
<1>4. /\ q.review = r.review /\ q.class = r.class /\ q.url = r.url
      /\ q.status # r.status => q.status \in {"merged", "superseded"}
  BY <1>1, <1>2, RepairSettles
<1> HIDE DEF q
<1>5. r.status = "success"
  BY <1>3, <1>4
<1>6. SuccessIsVouched(r)
  BY RecordsOfIssues
<1>7. Vouching(q, q.url)
  BY <1>3, <1>4, <1>5, <1>6 DEF SuccessIsVouched, Vouching
<1> QED
  BY <1>7 DEF q, f

\* A record's status and pull request become the store's.
LEMMA RecordIsTaken ==
  ASSUME NEW f, NEW r
  PROVE  /\ FactsAfter(f, r).status = r.status
         /\ FactsAfter(f, r).url = IF r.url # 0 THEN r.url ELSE f.url
BY DEF FactsAfter

\* What seeding the store from two repaired files vouches for, both vouch for.
LEMMA SeedingVouches ==
  ASSUME NEW r \in IssueRecords, NEW q \in IssueRecords, NEW host, NEW f,
         LET files == <<Repair(File(r, 0), host), Repair(File(q, 0), host)>>
         IN Seeded(f, files).status = "success"
  PROVE  LET files == <<Repair(File(r, 0), host), Repair(File(q, 0), host)>>
         IN \A i \in 1 .. 2 : Vouching(files[i].record, Seeded(f, files).url)
<1> DEFINE a == Repair(File(r, 0), host)
           b == Repair(File(q, 0), host)
           files == <<a, b>>
           out == Seeded(f, files)
<1>1. a.record.status = "success" => Vouching(a.record, a.record.url)
  BY RepairedSuccess
<1>2. b.record.status = "success" => Vouching(b.record, b.record.url)
  BY RepairedSuccess
<1>3. files[1] = a /\ files[2] = b /\ DOMAIN files = 1 .. 2
  OBVIOUS
<1>4. out.status = "success"
  OBVIOUS
<1> HIDE DEF a, b, files
<1>5. ~Conflicting(files) /\ out = FactsAfter(f, a.record)
  <2>1. CASE Conflicting(files)
    <3> DEFINE seeded == Imported(f, files[1])
    <3>1. out = [seeded EXCEPT !.status = "reconciliation-needed",
                               !.outcome = "reconciliation-needed"]
      BY <2>1 DEF Seeded
    <3>2. "status" \in DOMAIN seeded
      BY DEF Imported, FactsAfter
    <3>3. out.status = "reconciliation-needed"
      BY <3>1, <3>2
    <3> QED
      BY <1>4, <3>3
  <2>2. CASE ~Conflicting(files)
    BY <1>3, <2>2 DEF Seeded, Imported
  <2> QED
    BY <2>1, <2>2
<1>6. /\ out.status = a.record.status
      /\ out.url = IF a.record.url # 0 THEN a.record.url ELSE f.url
  BY <1>5, RecordIsTaken
<1>7. Fingerprint(b) = Fingerprint(a)
  BY <1>3, <1>5 DEF Conflicting
<1>8. b.record.status = a.record.status /\ b.record.url = a.record.url
  BY <1>7 DEF Fingerprint
<1> HIDE DEF out
<1>9. Vouching(a.record, out.url) /\ Vouching(b.record, out.url)
  BY <1>1, <1>2, <1>4, <1>6, <1>8 DEF Vouching
<1>10. \A i \in 1 .. 2 : Vouching(files[i].record, out.url)
  BY <1>3, <1>9
<1> QED
  BY <1>10 DEF a, b, files, out

\* After any number of records the store lets a merge through only if the last
\* one is itself a reviewed success, and after a backfill only if every file of
\* the issue is one.
THEOREM MergesNeedTheLastRecord == Spec => []StoreVouches
<1> DEFINE AfterFacts == asked.about = "facts" => StoreVouches
           AfterBackfill == asked.about = "backfill" => StoreVouches
<1>1. FactsAnswer => AfterFacts
  <2> SUFFICES ASSUME FactsAnswer, asked.about = "facts",
                      ~MergeBlockedByFacts(asked.out, asked.out.url)
               PROVE  StoreVouches
    BY DEF StoreVouches
  <2> DEFINE r == asked.in[Len(asked.in)]
  <2>1. asked.in \in Seq(IssueRecords) /\ asked.in # <<>>
    BY DEF FactsAnswer
  <2>2. r \in IssueRecords
    BY <2>1
  <2>3. PICK f : asked.out = FactsAfter(f, r)
    BY DEF FactsAnswer
  <2>4. asked.out.status = "success"
    BY DEF MergeBlockedByFacts
  <2>5. SuccessIsVouched(r)
    BY <2>2, RecordsOfIssues
  <2>6. /\ asked.out.status = r.status
        /\ asked.out.url = IF r.url # 0 THEN r.url ELSE f.url
    BY <2>3, RecordIsTaken
  <2>7. Vouching(r, asked.out.url)
    BY <2>4, <2>5, <2>6 DEF Vouching, SuccessIsVouched
  <2> QED
    BY <2>7 DEF StoreVouches, Vouching
<1>2. Init => AfterBackfill
  BY DEF Init
<1>3. AfterBackfill /\ [Next]_asked => AfterBackfill'
  <2>1. AfterBackfill /\ UNCHANGED asked => AfterBackfill'
    BY DEF StoreVouches
  <2>2. ASSUME AskBackfill PROVE StoreVouches'
    <3>1. PICK r \in IssueRecords, q \in IssueRecords, st \in {"open", "closed", "merged"} :
            \E f \in {g \in KnownFacts : g.retry = ""} :
              LET host == [i \in 1 .. 2 |-> st]
                  files == <<Repair(File(r, 0), host), Repair(File(q, 0), host)>>
              IN Ask("backfill", [files |-> files, facts |-> f], Seeded(f, files))
      BY <2>2, Zenon DEF AskBackfill
    <3>2. PICK f :
            LET host == [i \in 1 .. 2 |-> st]
                files == <<Repair(File(r, 0), host), Repair(File(q, 0), host)>>
            IN Ask("backfill", [files |-> files, facts |-> f], Seeded(f, files))
      BY <3>1, Zenon
    <3> DEFINE host == [i \in 1 .. 2 |-> st]
               files == <<Repair(File(r, 0), host), Repair(File(q, 0), host)>>
               in == [files |-> files, facts |-> f]
               out == Seeded(f, files)
    <3>3. asked'.about = "backfill" /\ asked'.in = in /\ asked'.out = out
      BY <3>2, Asked, Zenon
    <3>4. in.files = files
      OBVIOUS
    <3>5. Range(files) = {files[1], files[2]}
      <4>1. DOMAIN files = {1, 2}
        OBVIOUS
      <4> HIDE DEF files
      <4> QED
        BY <4>1 DEF Range
    <3>6. out.status = "success" => \A i \in 1 .. 2 : Vouching(files[i].record, out.url)
      <4> HIDE DEF host
      <4> QED
        BY SeedingVouches, Zenon
    <3> HIDE DEF host, files, in, out
    <3>7. ~MergeBlockedByFacts(out, out.url) => out.status = "success"
      BY DEF MergeBlockedByFacts
    <3>8. ~MergeBlockedByFacts(out, out.url) =>
            Vouching(files[1].record, out.url) /\ Vouching(files[2].record, out.url)
      BY <3>6, <3>7
    <3> QED
      BY <3>3, <3>4, <3>5, <3>8 DEF StoreVouches, Vouching
  <2>3. ASSUME Next PROVE AskBackfill \/ asked'.about # "backfill"
    BY <2>3, WhoAsks
  <2> QED
    BY <2>1, <2>2, <2>3
<1>4. AfterFacts /\ AfterBackfill => StoreVouches
  BY DEF StoreVouches
<1> QED
  BY <1>1, <1>2, <1>3, <1>4, FactsAnswered, PTL DEF Spec----------------------------------------------------------------------------
(* What is handed over.                                                    *)

\* The pull requests that are looked at.
LEMMA PRsLookedAt ==
  ASSUME NEW pr \in AsFound
  PROVE  /\ pr.base \in {"main", "dev"}
         /\ pr.commits \in {{"app"}, {"app", "agent"}}
<1>1. ASSUME NEW p \in AsCreated PROVE p.base = "main" /\ p.commits \in {{"app"}, {"app", "agent"}}
  BY DEF AsCreated, Good
<1>2. CASE pr \in AsCreated
  BY <1>1, <1>2
<1>3. CASE pr = [Good EXCEPT !.base = "dev"]
  BY <1>3 DEF Good
<1>4. CASE pr = [Good EXCEPT !.branch = "other"]
  BY <1>4 DEF Good
<1>5. CASE pr = [Good EXCEPT !.author = "ann"]
  BY <1>5 DEF Good
<1>6. CASE pr = [Good EXCEPT !.open = FALSE]
  BY <1>6 DEF Good
<1> QED
  BY <1>2, <1>3, <1>4, <1>5, <1>6, Zenon DEF AsFound

\* A pull request nothing is held against is one of ours.
LEMMA UnblockedIsOurs ==
  ASSUME NEW who \in Owners, NEW pr \in AsFound, ~HandoffBlocked(who, "main", pr)
  PROVE  /\ pr.base = "main" /\ pr.branch = "ours" /\ pr.small
         /\ pr.author \in {"ann", "app"} /\ (pr.author = "ann" => who.override = {"ann"})
         /\ who.provider = "github" => pr.commits = {"app"}
<1>1. /\ pr.base \in {"", "main"} /\ pr.branch = "ours" /\ pr.small
      /\ AllowsPRAuthor(who, pr.author) /\ CommitsAreOurs(who, pr.commits)
  BY DEF HandoffBlocked, Valid
<1>2. /\ pr.base \in {"main", "dev"}
      /\ pr.commits \in {{"app"}, {"app", "agent"}}
  BY PRsLookedAt
<1>3. who.override \in {{}, {"ann"}} /\ who.app \in {"", "app"}
  BY DEF Owners
<1>4. pr.author \in {"ann", "app"} /\ (pr.author = "ann" => who.override = {"ann"})
  <2>1. CASE who.override = {"ann"}
    BY <1>1, <2>1 DEF AllowsPRAuthor, ExpectedAuthors
  <2>2. CASE who.override = {}
    BY <1>1, <1>3, <2>2 DEF AllowsPRAuthor, ExpectedAuthors
  <2> QED
    BY <1>3, <2>1, <2>2
<1>5. who.provider = "github" => pr.commits = {"app"}
  BY <1>1, <1>2, <1>3 DEF CommitsAreOurs
<1> QED
  BY <1>1, <1>2, <1>4, <1>5

\* Which pull request is handed over, among any number on the host.
LEMMA HandoffChecks ==
  ASSUME NEW who \in Owners, NEW n \in Nat, NEW prs \in [1 .. n -> AsFound], NEW new \in AsCreated,
         NEW advised, NEW s, s.prs = prs, s.advised = advised, s.new = new,
         PRForHandoff(who, "main", s).handed
  PROVE  LET out == PRForHandoff(who, "main", s)
         IN /\ out.pr \in AsFound /\ ~HandoffBlocked(who, "main", out.pr)
            /\ advised.is # "found" =>
                 Cardinality(OpenOnBranch(s)) = (IF out.created THEN 0 ELSE 1)
<1> DEFINE chosen == Chosen(s)
           pr == IF chosen = {} THEN s.new ELSE s.prs[CHOOSE i \in chosen : TRUE]
           out == PRForHandoff(who, "main", s)
<1>1. /\ ~(Cardinality(chosen) > 1)
      /\ ~HandoffBlocked(who, "main", pr)
      /\ (out.created <=> chosen = {}) /\ out.pr = pr
  <2>1. ~(s.advised.is \in {"foreign", "failing"} \/ Cardinality(chosen) > 1)
    BY DEF PRForHandoff, Refused
  <2>2. ~HandoffBlocked(who, "main", pr)
    BY <2>1 DEF PRForHandoff, Refused
  <2>3. out = [handed |-> TRUE, created |-> chosen = {}, pr |-> pr]
    BY <2>1, <2>2 DEF PRForHandoff
  <2> HIDE DEF chosen, pr, out
  <2> QED
    BY <2>1, <2>2, <2>3
<1>2. OpenOnBranch(s) \subseteq 1 .. n /\ Advised(s) \subseteq 1 .. n
  BY DEF OpenOnBranch, Advised
<1>3. chosen \subseteq 1 .. n
  BY <1>2 DEF Chosen
<1>4. pr \in AsFound
  <2>1. AsCreated \subseteq AsFound
    BY DEF AsFound
  <2>2. CASE chosen = {}
    BY <2>1, <2>2
  <2>3. CASE chosen # {}
    <3>1. (CHOOSE i \in chosen : TRUE) \in chosen
      BY <2>3
    <3> HIDE DEF chosen
    <3> QED
      BY <1>3, <2>3, <3>1
  <2> QED
    BY <2>2, <2>3
<1>5. ASSUME advised.is # "found"
      PROVE  Cardinality(OpenOnBranch(s)) = (IF out.created THEN 0 ELSE 1)
  <2>1. chosen = OpenOnBranch(s)
    <3>1. CASE advised.is = "missing"
      BY <3>1 DEF Chosen, Advised
    <3>2. CASE advised.is # "missing"
      <4>1. \A i : advised # [is |-> "found", at |-> i]
        BY <1>5
      <4>2. Advised(s) = {}
        BY <3>2, <4>1 DEF Advised
      <4> QED
        BY <4>2 DEF Chosen
    <3> QED
      BY <3>1, <3>2
  <2>2. IsFiniteSet(chosen)
    <3>1. IsFiniteSet(1 .. n)
      <4>1. 1 \in Int /\ n \in Int
        OBVIOUS
      <4> QED
        BY <4>1, FS_Interval
    <3> QED
      BY <1>3, <3>1, FS_Subset
  <2> HIDE DEF chosen, pr, out
  <2>3. Cardinality(chosen) \in Nat /\ (Cardinality(chosen) = 0 <=> chosen = {})
    BY <2>2, FS_CardinalityType, FS_EmptySet
  <2> QED
    BY <1>1, <2>1, <2>3
<1> QED
  BY <1>1, <1>4, <1>5

\* A pull request that is handed over is one of ours, written by the app and
\* the only open one of the branch unless the agent named it.
THEOREM HandoffsAreOurs == Spec => []HandedOffIsOurs
<1>1. Init => HandedOffIsOurs
  BY DEF Init, HandedOffIsOurs
<1>2. HandedOffIsOurs /\ [Next]_asked => HandedOffIsOurs'
  <2>1. HandedOffIsOurs /\ UNCHANGED asked => HandedOffIsOurs'
    BY DEF HandedOffIsOurs
  <2>2. ASSUME AskHandoff PROVE HandedOffIsOurs'
    <3>1. PICK who \in Owners, prs \in UpTo(AsFound, 2), new \in AsCreated :
            \E advised \in {[is |-> w, at |-> 0] : w \in {"none", "foreign", "failing", "missing"}}
                           \cup {[is |-> "found", at |-> i] : i \in DOMAIN prs} :
              LET s == [prs |-> prs, advised |-> advised, new |-> new]
              IN Ask("handoff", [who |-> who, host |-> s], PRForHandoff(who, "main", s))
      BY <2>2, Zenon DEF AskHandoff
    <3>2. PICK advised :
            LET s == [prs |-> prs, advised |-> advised, new |-> new]
            IN Ask("handoff", [who |-> who, host |-> s], PRForHandoff(who, "main", s))
      BY <3>1, Zenon
    <3> DEFINE s == [prs |-> prs, advised |-> advised, new |-> new]
               in == [who |-> who, host |-> s]
               out == PRForHandoff(who, "main", s)
    <3>3. asked'.in = in /\ asked'.out = out
      BY <3>2, Asked, Zenon
    <3>4. in.who = who /\ in.host = s
      OBVIOUS
    <3>5. s.prs = prs /\ s.advised = advised /\ s.new = new
      OBVIOUS
    <3>6. PICK n \in Nat : prs \in [1 .. n -> AsFound]
      <4>1. \E k \in 0 .. 2 : prs \in [1 .. k -> AsFound]
        BY Zenon DEF UpTo
      <4> QED
        BY <4>1
    <3> HIDE DEF s, in, out
    <3>7. ASSUME out.handed
          PROVE  /\ out.pr \in AsFound /\ ~HandoffBlocked(who, "main", out.pr)
                 /\ advised.is # "found" =>
                      Cardinality(OpenOnBranch(s)) = (IF out.created THEN 0 ELSE 1)
      BY <3>5, <3>6, <3>7, HandoffChecks, Zenon DEF out
    <3>8. ASSUME out.handed
          PROVE  LET pr == out.pr
                 IN /\ pr.base = "main" /\ pr.branch = "ours" /\ pr.small
                    /\ pr.author \in {"ann", "app"} /\ (pr.author = "ann" => who.override = {"ann"})
                    /\ who.provider = "github" => pr.commits = {"app"}
      BY <3>7, <3>8, UnblockedIsOurs
    <3> QED
      BY <3>3, <3>4, <3>5, <3>7, <3>8 DEF HandedOffIsOurs, OpenOnBranch
  <2>3. ASSUME Next PROVE AskHandoff \/ asked'.about # "handoff"
    BY <2>3, WhoAsks
  <2> QED
    BY <2>1, <2>2, <2>3 DEF HandedOffIsOurs
<1> QED
  BY <1>1, <1>2, PTL DEF Spec
----------------------------------------------------------------------------
(* The scope guard.                                                        *)

\* The files the guard objects to, for any contract and any files.
LEMMA ViolationsAreExact ==
  ASSUME NEW c, NEW files
  PROVE  {v.file : v \in ScopeViolations(c, files)} =
           {f \in files : \/ \E p \in c.out : Matches(p, f)
                          \/ ~(c.allowed = {} \/ \E p \in c.allowed : Matches(p, f))}
<1> DEFINE Out == {f \in files : \E p \in c.out : Matches(p, f)}
           Not == {f \in files : c.allowed # {} /\ ~\E p \in c.allowed : Matches(p, f)}
           A == {[file |-> f, rule |-> "out of scope"] : f \in Out}
           B == {[file |-> f, rule |-> "allowed"] : f \in Not}
<1>1. ScopeViolations(c, files) = A \cup B
  BY DEF ScopeViolations
<1>2. \A f : f \in Out => \E v \in A : v.file = f
  <2> TAKE f
  <2> DEFINE v == [file |-> f, rule |-> "out of scope"]
  <2>1. v.file = f
    OBVIOUS
  <2>2. f \in Out => v \in A
    BY Zenon
  <2> QED
    BY <2>1, <2>2, Zenon
<1>3. \A f : f \in Not => \E v \in B : v.file = f
  <2> TAKE f
  <2> DEFINE v == [file |-> f, rule |-> "allowed"]
  <2>1. v.file = f
    OBVIOUS
  <2>2. f \in Not => v \in B
    BY Zenon
  <2> QED
    BY <2>1, <2>2, Zenon
<1>4. \A v \in A : v.file \in Out
  <2> TAKE v \in A
  <2>1. PICK f \in Out : v = [file |-> f, rule |-> "out of scope"]
    BY Zenon
  <2>2. v.file = f
    BY <2>1
  <2> QED
    BY <2>2, Zenon
<1>5. \A v \in B : v.file \in Not
  <2> TAKE v \in B
  <2>1. PICK f \in Not : v = [file |-> f, rule |-> "allowed"]
    BY Zenon
  <2>2. v.file = f
    BY <2>1
  <2> QED
    BY <2>2, Zenon
<1> HIDE DEF A, B
<1>6. {v.file : v \in A \cup B} = Out \cup Not
  <2> HIDE DEF Out, Not
  <2> QED
    BY <1>2, <1>3, <1>4, <1>5
<1>7. Out \cup Not =
        {f \in files : \/ \E p \in c.out : Matches(p, f)
                       \/ ~(c.allowed = {} \/ \E p \in c.allowed : Matches(p, f))}
  OBVIOUS
<1> QED
  BY <1>1, <1>6, <1>7

\* The guard objects to a diff exactly if one of its files is out of scope, or
\* not among the paths allowed when there are any, and names every such file.
THEOREM GuardIsExact == Spec => []ScopeIsExact
<1>1. Init => ScopeIsExact
  BY DEF Init, ScopeIsExact
<1>2. ScopeIsExact /\ [Next]_asked => ScopeIsExact'
  <2>1. ScopeIsExact /\ UNCHANGED asked => ScopeIsExact'
    BY DEF ScopeIsExact
  <2>2. ASSUME AskScope PROVE ScopeIsExact'
    <3>1. PICK c, files :
            Ask("scope", [contract |-> c, files |-> files], ScopeViolations(c, files))
      <4>1. PICK allowed \in PatternSets, out \in PatternSets, files \in SUBSET Paths :
              /\ Cardinality(files) <= MaxFiles /\ Cardinality(allowed \cup out) \in 1 .. 2
              /\ LET in == [allowed |-> allowed, out |-> out]
                 IN Ask("scope", [contract |-> in, files |-> files], ScopeViolations(in, files))
        BY <2>2, Zenon DEF AskScope
      <4> QED
        BY <4>1, Zenon
    <3> DEFINE in == [contract |-> c, files |-> files]
               out == ScopeViolations(c, files)
    <3>2. asked'.in = in /\ asked'.out = out
      BY <3>1, Asked, Zenon
    <3>3. in.contract = c /\ in.files = files
      OBVIOUS
    <3>4. {v.file : v \in out} =
            {f \in files : \/ \E p \in c.out : Matches(p, f)
                           \/ ~(c.allowed = {} \/ \E p \in c.allowed : Matches(p, f))}
      BY ViolationsAreExact
    <3> HIDE DEF in, out
    <3> QED
      BY <3>2, <3>3, <3>4, Zenon DEF ScopeIsExact
  <2>3. ASSUME Next PROVE AskScope \/ asked'.about # "scope"
    BY <2>3, WhoAsks
  <2> QED
    BY <2>1, <2>2, <2>3 DEF ScopeIsExact
<1> QED
  BY <1>1, <1>2, PTL DEF Spec----------------------------------------------------------------------------
(* The order of candidates.                                                *)

Key(list, i, n) == SortKey(list[i])[n]

\* Who comes first: by the first part of the key that differs.
Earlier(list, i, j) ==
  \/ Key(list, i, 1) < Key(list, j, 1)
  \/ /\ Key(list, i, 1) = Key(list, j, 1)
     /\ \/ Key(list, i, 2) < Key(list, j, 2)
        \/ /\ Key(list, i, 2) = Key(list, j, 2)
           /\ \/ Key(list, i, 3) < Key(list, j, 3)
              \/ /\ Key(list, i, 3) = Key(list, j, 3)
                 /\ \/ Key(list, i, 4) < Key(list, j, 4)
                    \/ Key(list, i, 4) = Key(list, j, 4) /\ i < j

\* The parts of a key.
LEMMA KeyOfCandidate ==
  ASSUME NEW c \in Candidates
  PROVE  LET k == SortKey(c)
         IN /\ k[1] = IF c.ready THEN 0 ELSE 1
            /\ k[2] = IF c.label = "runner-safety" THEN 0 ELSE IF c.label = "docs-only" THEN 1 ELSE 2
            /\ k[3] = IF c.priority = 0 THEN 99 ELSE c.priority
            /\ k[4] = c.created
            /\ \A n \in 1 .. 4 : k[n] \in Nat
<1> DEFINE rank == [l \in {"runner-safety", "docs-only", "none"} |->
                      IF l = "runner-safety" THEN 0 ELSE IF l = "docs-only" THEN 1 ELSE 2]
           a == IF c.ready THEN 0 ELSE 1
           b == rank[c.label]
           p == IF c.priority = 0 THEN 99 ELSE c.priority
<1>1. SortKey(c) = <<a, b, p, c.created>>
  BY DEF SortKey
<1>2. /\ c.ready \in BOOLEAN /\ c.label \in {"runner-safety", "docs-only", "none"}
      /\ c.priority \in {0, 1, 4} /\ c.created \in {1, 2, 9999}
  BY DEF Candidates
<1>3. b = IF c.label = "runner-safety" THEN 0 ELSE IF c.label = "docs-only" THEN 1 ELSE 2
  BY <1>2
<1>4. a \in Nat /\ b \in Nat /\ p \in Nat /\ c.created \in Nat
  BY <1>2, <1>3
<1> HIDE DEF b, p
<1>5. /\ SortKey(c)[1] = a /\ SortKey(c)[2] = b /\ SortKey(c)[3] = p
      /\ SortKey(c)[4] = c.created
  BY <1>1
<1> QED
  BY <1>3, <1>4, <1>5 DEF p

\* What decides between two candidates.
LEMMA FirstDifference ==
  ASSUME NEW n \in Nat, NEW list \in [1 .. n -> Candidates], NEW i \in 1 .. n, NEW j \in 1 .. n
  PROVE  Before(list, i, j) <=> Earlier(list, i, j)
<1> DEFINE k == SortKey(list[i])
           l == SortKey(list[j])
           differ == {m \in 1 .. 4 : k[m] # l[m]}
<1>1. \A m \in 1 .. 4 : k[m] \in Nat /\ l[m] \in Nat
  BY KeyOfCandidate
<1>2. Before(list, i, j) <=> IF differ = {} THEN i < j ELSE k[Min(differ)] < l[Min(differ)]
  BY DEF Before
<1>3. /\ Key(list, i, 1) = k[1] /\ Key(list, i, 2) = k[2]
      /\ Key(list, i, 3) = k[3] /\ Key(list, i, 4) = k[4]
      /\ Key(list, j, 1) = l[1] /\ Key(list, j, 2) = l[2]
      /\ Key(list, j, 3) = l[3] /\ Key(list, j, 4) = l[4]
  BY DEF Key
<1> HIDE DEF k, l
<1>4. CASE differ = {}
  <2>1. k[1] = l[1] /\ k[2] = l[2] /\ k[3] = l[3] /\ k[4] = l[4]
    BY <1>4
  <2> QED
    BY <1>1, <1>2, <1>3, <1>4, <2>1 DEF Earlier
<1>5. CASE differ # {}
  <2> DEFINE m == Min(differ)
  <2>1. m \in differ /\ \A x \in differ : m <= x
    <3>1. differ \in SUBSET Nat
      OBVIOUS
    <3> HIDE DEF differ
    <3> QED
      BY <1>5, <3>1, LeastOfSome
  <2> HIDE DEF m
  <2>2. m \in 1 .. 4 /\ k[m] # l[m] /\ \A x \in 1 .. m - 1 : k[x] = l[x]
    BY <2>1
  <2>3. Before(list, i, j) <=> k[m] < l[m]
    BY <1>2, <1>5 DEF m
  <2> HIDE DEF differ
  <2>4. CASE m = 1
    BY <1>1, <1>3, <2>2, <2>3, <2>4 DEF Earlier
  <2>5. CASE m = 2
    <3>1. k[1] = l[1]
      BY <2>2, <2>5
    <3> QED
      BY <1>1, <1>3, <2>2, <2>3, <2>5, <3>1 DEF Earlier
  <2>6. CASE m = 3
    <3>1. k[1] = l[1] /\ k[2] = l[2]
      BY <2>2, <2>6
    <3> QED
      BY <1>1, <1>3, <2>2, <2>3, <2>6, <3>1 DEF Earlier
  <2>7. CASE m = 4
    <3>1. k[1] = l[1] /\ k[2] = l[2] /\ k[3] = l[3]
      BY <2>2, <2>7
    <3> QED
      BY <1>1, <1>3, <2>2, <2>3, <2>7, <3>1 DEF Earlier
  <2> QED
    BY <2>2, <2>4, <2>5, <2>6, <2>7
<1> QED
  BY <1>4, <1>5

\* Those of a set whose part of the key is least.
Least(list, S, n) == {i \in S : \A j \in S : Key(list, i, n) <= Key(list, j, n)}

\* There is always one.
LEMMA SomeLeast ==
  ASSUME NEW list, NEW S, S # {}, NEW n, \A i \in S : Key(list, i, n) \in Nat
  PROVE  Least(list, S, n) # {} /\ Least(list, S, n) \subseteq S
<1> DEFINE parts == {Key(list, i, n) : i \in S}
<1>1. parts \in SUBSET Nat /\ parts # {}
  OBVIOUS
<1> HIDE DEF parts
<1>2. Min(parts) \in parts /\ \A x \in parts : Min(parts) <= x
  BY <1>1, LeastOfSome
<1>3. PICK i \in S : Key(list, i, n) = Min(parts)
  BY <1>2 DEF parts
<1>4. \A j \in S : Key(list, i, n) <= Key(list, j, n)
  BY <1>2, <1>3 DEF parts
<1>5. i \in Least(list, S, n)
  BY <1>4 DEF Least
<1> QED
  BY <1>5 DEF Least

\* One whose part is least has a smaller one than those that are not, and the
\* same as those that are.
LEMMA LeastIsLess ==
  ASSUME NEW list, NEW S, NEW n, \A i \in S : Key(list, i, n) \in Nat,
         NEW i \in Least(list, S, n), NEW j \in S
  PROVE  /\ j \notin Least(list, S, n) => Key(list, i, n) < Key(list, j, n)
         /\ j \in Least(list, S, n) => Key(list, i, n) = Key(list, j, n)
<1>1. i \in S /\ Key(list, i, n) \in Nat /\ Key(list, j, n) \in Nat
  BY DEF Least
<1>2. Key(list, i, n) <= Key(list, j, n)
  BY DEF Least
<1>3. CASE j \in Least(list, S, n)
  <2>1. Key(list, j, n) <= Key(list, i, n)
    BY <1>1, <1>3 DEF Least
  <2> QED
    BY <1>1, <1>2, <1>3, <2>1
<1>4. CASE j \notin Least(list, S, n)
  <2>1. PICK m \in S : ~(Key(list, j, n) <= Key(list, m, n))
    BY <1>4 DEF Least
  <2>2. Key(list, i, n) <= Key(list, m, n) /\ Key(list, m, n) \in Nat
    BY <2>1 DEF Least
  <2> QED
    BY <1>1, <1>4, <2>1, <2>2
<1> QED
  BY <1>3, <1>4

\* One of any candidates comes before all others of them.
LEMMA SomebodyIsFirst ==
  ASSUME NEW n \in Nat, NEW list \in [1 .. n -> Candidates], NEW S, S \subseteq 1 .. n, S # {}
  PROVE  \E i \in S : \A j \in S \ {i} : Before(list, i, j)
<1> DEFINE A == Least(list, S, 1)
           B == Least(list, A, 2)
           C == Least(list, B, 3)
           D == Least(list, C, 4)
<1>1. \A i \in S : /\ i \in Nat /\ i \in 1 .. n
                   /\ Key(list, i, 1) \in Nat /\ Key(list, i, 2) \in Nat
                   /\ Key(list, i, 3) \in Nat /\ Key(list, i, 4) \in Nat
  <2> TAKE i \in S
  <2>1. list[i] \in Candidates
    OBVIOUS
  <2>2. \A m \in 1 .. 4 : SortKey(list[i])[m] \in Nat
    BY <2>1, KeyOfCandidate
  <2> QED
    BY <2>2 DEF Key
<1>2. A # {} /\ A \subseteq S
  BY <1>1, SomeLeast
<1> HIDE DEF A
<1>3. B # {} /\ B \subseteq A
  BY <1>1, <1>2, SomeLeast
<1> HIDE DEF B
<1>4. C # {} /\ C \subseteq B
  BY <1>1, <1>2, <1>3, SomeLeast
<1> HIDE DEF C
<1>5. D # {} /\ D \subseteq C
  BY <1>1, <1>2, <1>3, <1>4, SomeLeast
<1> HIDE DEF D
<1>6. Min(D) \in D /\ \A j \in D : Min(D) <= j
  <2>1. D \in SUBSET Nat
    BY <1>1, <1>2, <1>3, <1>4, <1>5
  <2> QED
    BY <1>5, <2>1, LeastOfSome
<1> DEFINE i == Min(D)
<1> HIDE DEF i
<1>7. i \in D /\ i \in C /\ i \in B /\ i \in A /\ i \in S
  BY <1>2, <1>3, <1>4, <1>5, <1>6 DEF i
<1>8. \A j \in S \ {i} : Earlier(list, i, j)
  <2> TAKE j \in S \ {i}
  <2>1. CASE j \notin A
    <3>1. Key(list, i, 1) < Key(list, j, 1)
      BY <1>1, <1>7, <2>1, LeastIsLess DEF A
    <3> QED
      BY <3>1 DEF Earlier
  <2>2. CASE j \in A /\ j \notin B
    <3>1. Key(list, i, 1) = Key(list, j, 1)
      BY <1>1, <1>7, <2>2, LeastIsLess DEF A
    <3>2. Key(list, i, 2) < Key(list, j, 2)
      BY <1>1, <1>2, <1>7, <2>2, LeastIsLess DEF B
    <3> QED
      BY <3>1, <3>2 DEF Earlier
  <2>3. CASE j \in A /\ j \in B /\ j \notin C
    <3>1. Key(list, i, 1) = Key(list, j, 1)
      BY <1>1, <1>7, <2>3, LeastIsLess DEF A
    <3>2. Key(list, i, 2) = Key(list, j, 2)
      BY <1>1, <1>2, <1>7, <2>3, LeastIsLess DEF B
    <3>3. Key(list, i, 3) < Key(list, j, 3)
      BY <1>1, <1>2, <1>3, <1>7, <2>3, LeastIsLess DEF C
    <3> QED
      BY <3>1, <3>2, <3>3 DEF Earlier
  <2>4. CASE j \in A /\ j \in B /\ j \in C
    <3>1. Key(list, i, 1) = Key(list, j, 1)
      BY <1>1, <1>7, <2>4, LeastIsLess DEF A
    <3>2. Key(list, i, 2) = Key(list, j, 2)
      BY <1>1, <1>2, <1>7, <2>4, LeastIsLess DEF B
    <3>3. Key(list, i, 3) = Key(list, j, 3)
      BY <1>1, <1>2, <1>3, <1>7, <2>4, LeastIsLess DEF C
    <3>4. CASE j \notin D
      <4>1. Key(list, i, 4) < Key(list, j, 4)
        BY <1>1, <1>2, <1>3, <1>4, <1>7, <2>4, <3>4, LeastIsLess DEF D
      <4> QED
        BY <3>1, <3>2, <3>3, <4>1 DEF Earlier
    <3>5. CASE j \in D
      <4>1. Key(list, i, 4) = Key(list, j, 4)
        BY <1>1, <1>2, <1>3, <1>4, <1>7, <3>5, LeastIsLess DEF D
      <4>2. i < j
        <5>1. i <= j
          BY <1>6, <3>5 DEF i
        <5>2. i \in Nat /\ j \in Nat /\ i # j
          BY <1>1, <1>7
        <5> QED
          BY <5>1, <5>2
      <4> QED
        BY <3>1, <3>2, <3>3, <4>1, <4>2 DEF Earlier
    <3> QED
      BY <3>4, <3>5
  <2> QED
    BY <2>1, <2>2, <2>3, <2>4
<1>9. \A j \in S \ {i} : Before(list, i, j)
  BY <1>1, <1>7, <1>8, FirstDifference
<1> QED
  BY <1>7, <1>9

\* The order is no weaker than what selection is to prefer: of two candidates
\* the earlier one is at least as good, and equals keep their places.
LEMMA EarlierIsPreferred ==
  ASSUME NEW n \in Nat, NEW list \in [1 .. n -> Candidates], NEW i \in 1 .. n, NEW j \in 1 .. n,
         Earlier(list, i, j)
  PROVE  ~Preferred(list[j], list[i]) /\ (list[i] = list[j] => i < j)
<1> DEFINE c == list[i]
           d == list[j]
           k == SortKey(c)
           l == SortKey(d)
<1>1. /\ c.ready \in BOOLEAN /\ c.label \in {"runner-safety", "docs-only", "none"}
      /\ c.priority \in {0, 1, 4} /\ c.created \in {1, 2, 9999}
      /\ d.ready \in BOOLEAN /\ d.label \in {"runner-safety", "docs-only", "none"}
      /\ d.priority \in {0, 1, 4} /\ d.created \in {1, 2, 9999}
  BY DEF Candidates
<1>2. /\ k[1] = IF c.ready THEN 0 ELSE 1
      /\ k[2] = IF c.label = "runner-safety" THEN 0 ELSE IF c.label = "docs-only" THEN 1 ELSE 2
      /\ k[3] = IF c.priority = 0 THEN 99 ELSE c.priority
      /\ k[4] = c.created
  BY KeyOfCandidate
<1>3. /\ l[1] = IF d.ready THEN 0 ELSE 1
      /\ l[2] = IF d.label = "runner-safety" THEN 0 ELSE IF d.label = "docs-only" THEN 1 ELSE 2
      /\ l[3] = IF d.priority = 0 THEN 99 ELSE d.priority
      /\ l[4] = d.created
  BY KeyOfCandidate
<1>4. \/ k[1] < l[1]
      \/ k[1] = l[1] /\ k[2] < l[2]
      \/ k[1] = l[1] /\ k[2] = l[2] /\ k[3] < l[3]
      \/ k[1] = l[1] /\ k[2] = l[2] /\ k[3] = l[3] /\ k[4] < l[4]
      \/ k[1] = l[1] /\ k[2] = l[2] /\ k[3] = l[3] /\ k[4] = l[4] /\ i < j
  <2>1. /\ Key(list, i, 1) = k[1] /\ Key(list, j, 1) = l[1]
        /\ Key(list, i, 2) = k[2] /\ Key(list, j, 2) = l[2]
        /\ Key(list, i, 3) = k[3] /\ Key(list, j, 3) = l[3]
        /\ Key(list, i, 4) = k[4] /\ Key(list, j, 4) = l[4]
    BY DEF Key
  <2> HIDE DEF k, l
  <2> QED
    BY <2>1 DEF Earlier
<1> HIDE DEF k, l, c, d
<1>5. ~Preferred(d, c)
  <2>1. ~(d.ready /\ ~c.ready)
    BY <1>1, <1>2, <1>3, <1>4
  <2>2. ~(d.ready = c.ready /\ Safer(d, c))
    BY <1>1, <1>2, <1>3, <1>4 DEF Safer
  <2>3. ~(d.ready = c.ready /\ d.label = c.label /\ MoreUrgent(d, c))
    BY <1>1, <1>2, <1>3, <1>4 DEF MoreUrgent
  <2>4. ~(/\ d.ready = c.ready /\ d.label = c.label /\ d.priority = c.priority
          /\ d.created < c.created)
    BY <1>1, <1>2, <1>3, <1>4
  <2> QED
    BY <2>1, <2>2, <2>3, <2>4 DEF Preferred
<1>6. c = d => i < j
  BY <1>1, <1>2, <1>3, <1>4
<1> QED
  BY <1>5, <1>6 DEF c, d

\* Nobody is preferred to what selection picks, and of equals it is the first.
LEMMA PickIsBest ==
  ASSUME NEW n \in Nat, NEW list \in [1 .. n -> Candidates], NEW may \in SUBSET (1 .. n),
         may # {}
  PROVE  /\ Pick(list, may) \in may
         /\ \A i \in may : ~Preferred(list[i], list[Pick(list, may)])
         /\ \A i \in may : list[i] = list[Pick(list, may)] => Pick(list, may) <= i
<1> DEFINE ready == {i \in may : list[i].ready}
           from == IF ready # {} THEN ready ELSE may
           first == Pick(list, may)
<1>1. from # {} /\ from \subseteq 1 .. n /\ from \subseteq may
  OBVIOUS
<1>2. \E i \in from : \A j \in from \ {i} : Before(list, i, j)
  <2> HIDE DEF from
  <2> QED
    BY <1>1, SomebodyIsFirst
<1>3. first = CHOOSE i \in from : \A j \in from \ {i} : Before(list, i, j)
  BY DEF Pick
<1>4. first \in from /\ \A j \in from \ {first} : Before(list, first, j)
  <2> HIDE DEF from, first
  <2> QED
    BY <1>2, <1>3
<1> HIDE DEF first
<1>5. first \in 1 .. n /\ first \in may
  BY <1>1, <1>4
<1>6. \A i \in may : i \in from \/ (list[first].ready /\ ~list[i].ready)
  BY <1>4
<1> HIDE DEF from
<1>7. ASSUME NEW i \in may
      PROVE  /\ ~Preferred(list[i], list[first])
             /\ list[i] = list[first] => first <= i
  <2>1. CASE i = first
    <3>1. list[first].created \in Nat /\ list[first].priority \in Nat
      BY <1>5 DEF Candidates
    <3>2. first <= first
      BY <1>5
    <3> QED
      BY <2>1, <3>1, <3>2 DEF Preferred, Safer, MoreUrgent
  <2>2. CASE i # first /\ i \in from
    <3>1. Before(list, first, i) /\ i \in 1 .. n
      BY <1>4, <2>2
    <3>2. Earlier(list, first, i)
      BY <1>5, <3>1, FirstDifference
    <3>3. ~Preferred(list[i], list[first]) /\ (list[first] = list[i] => first < i)
      BY <1>5, <3>1, <3>2, EarlierIsPreferred
    <3>4. first < i => first <= i
      BY <1>5, <3>1
    <3> QED
      BY <3>3, <3>4
  <2>3. CASE list[first].ready /\ ~list[i].ready
    <3>1. list[first].ready = TRUE /\ list[i].ready = FALSE
      BY <1>5, <2>3 DEF Candidates
    <3> QED
      BY <3>1 DEF Preferred
  <2> QED
    BY <1>6, <2>1, <2>2, <2>3
<1> QED
  BY <1>5, <1>7, Zenon DEF first

\* An answer about a selection is what it picks from any number of candidates.
PickAnswer ==
  asked.about = "pick" =>
    /\ \E n \in Nat : asked.in.list \in [1 .. n -> Candidates] /\ asked.in.may \in SUBSET (1 .. n)
    /\ asked.out = Pick(asked.in.list, asked.in.may)

\* Every answer is one of those.
LEMMA PickAnswered == Spec => []PickAnswer
<1>1. Init => PickAnswer
  BY DEF Init, PickAnswer
<1>2. PickAnswer /\ [Next]_asked => PickAnswer'
  <2>1. PickAnswer /\ UNCHANGED asked => PickAnswer'
    BY DEF PickAnswer
  <2>2. ASSUME AskPick PROVE PickAnswer'
    <3>1. PICK list \in UpTo(Candidates, MaxCandidates) :
            \E may \in SUBSET DOMAIN list :
              Ask("pick", [list |-> list, may |-> may], Pick(list, may))
      BY <2>2, Zenon DEF AskPick
    <3> PICK may \in SUBSET DOMAIN list :
            Ask("pick", [list |-> list, may |-> may], Pick(list, may))
      BY <3>1
    <3> DEFINE in == [list |-> list, may |-> may]
    <3>2. asked'.in = in /\ asked'.out = Pick(list, may)
      BY Asked, Zenon
    <3>3. in.list = list /\ in.may = may
      OBVIOUS
    <3>4. PICK n \in Nat : list \in [1 .. n -> Candidates]
      <4>1. \E n \in 0 .. MaxCandidates : list \in [1 .. n -> Candidates]
        BY Zenon DEF UpTo
      <4> QED
        BY <4>1
    <3>5. may \in SUBSET (1 .. n)
      BY <3>4
    <3> HIDE DEF in
    <3> QED
      BY <3>2, <3>3, <3>4, <3>5 DEF PickAnswer
  <2>3. ASSUME Next PROVE AskPick \/ asked'.about # "pick"
    BY <2>3, WhoAsks
  <2> QED
    BY <2>1, <2>2, <2>3 DEF PickAnswer
<1> QED
  BY <1>1, <1>2, PTL DEF Spec

\* What selection picks is eligible, nobody eligible is preferred to it, and it
\* picks somebody if it can, whatever the number of candidates
\* (candidate_selection.go:31, :301).
THEOREM SelectionIsBest == Spec => []BestIsPicked
<1>1. PickAnswer => BestIsPicked
  <2> SUFFICES ASSUME PickAnswer, asked.about = "pick"
               PROVE  BestIsPicked
    BY DEF BestIsPicked
  <2> DEFINE list == asked.in.list
             may == asked.in.may
  <2>1. PICK n \in Nat : list \in [1 .. n -> Candidates] /\ may \in SUBSET (1 .. n)
    BY DEF PickAnswer
  <2>2. asked.out = Pick(list, may)
    BY DEF PickAnswer
  <2>3. IF may = {} THEN asked.out = 0
        ELSE /\ asked.out \in may
             /\ \A i \in may : ~Preferred(list[i], list[asked.out])
             /\ \A i \in may : list[i] = list[asked.out] => asked.out <= i
    <3>1. CASE may = {}
      BY <2>2, <3>1 DEF Pick
    <3>2. CASE may # {}
      <4> HIDE DEF list, may
      <4>1. /\ Pick(list, may) \in may
            /\ \A i \in may : ~Preferred(list[i], list[Pick(list, may)])
            /\ \A i \in may : list[i] = list[Pick(list, may)] => Pick(list, may) <= i
        BY <2>1, <3>2, PickIsBest, Zenon
      <4> QED
        BY <2>2, <3>2, <4>1, Zenon
    <3> QED
      BY <3>1, <3>2
  <2> QED
    BY <2>3, Zenon DEF BestIsPicked
<1> QED
  BY <1>1, PickAnswered, PTL
----------------------------------------------------------------------------
(* The gate and the code hosts.                                            *)

\* Some numbers up to a bound have a largest one.
LEMMA GreatestOfSome ==
  ASSUME NEW n \in Nat, NEW S \in SUBSET (1 .. n), S # {}
  PROVE  Max(S) \in S /\ \A i \in S : i <= Max(S)
<1> DEFINE T == {n - i : i \in S}
<1>1. T \in SUBSET Nat /\ T # {}
  OBVIOUS
<1>2. Min(T) \in T /\ \A x \in T : Min(T) <= x
  <2> HIDE DEF T
  <2> QED
    BY <1>1, LeastOfSome
<1>3. PICK i \in S : Min(T) = n - i
  BY <1>2
<1>4. \A j \in S : j <= i
  <2> TAKE j \in S
  <2>1. n - j \in T
    OBVIOUS
  <2>2. n - i <= n - j
    BY <1>2, <1>3, <2>1
  <2>3. i \in Nat /\ j \in Nat
    OBVIOUS
  <2> QED
    BY <2>2, <2>3
<1>5. S \in SUBSET Int /\ i \in S
  OBVIOUS
<1>6. Max(S) = i
  BY <1>4, <1>5, MaxIs
<1> QED
  BY <1>4, <1>6

\* Checks that are green as a whole are green one by one, and they have failed
\* only if none can still change that.
LEMMA ChecksTell ==
  ASSUME NEW n \in Nat, NEW checks \in [1 .. n -> CheckStates]
  PROVE  /\ ChecksStatus(checks) = "success" => \A i \in 1 .. n : checks[i] = "success"
         /\ ChecksStatus(checks) = "failed" => \A i \in 1 .. n : checks[i] \in {"success", "failed"}
<1> DEFINE open == {i \in DOMAIN checks : checks[i] \in {"unknown", "pending"}}
<1>1. ChecksStatus(checks) =
        IF checks = <<>> THEN "unavailable"
        ELSE IF \A i \in DOMAIN checks : checks[i] = "success" THEN "success"
        ELSE IF open = {} THEN "failed"
        ELSE IF checks[Min(open)] = "unknown" THEN "unavailable" ELSE "pending"
  BY DEF ChecksStatus
<1>2. DOMAIN checks = 1 .. n
  OBVIOUS
<1>3. ChecksStatus(checks) = "success" => \A i \in DOMAIN checks : checks[i] = "success"
  <2> HIDE DEF open
  <2> QED
    BY <1>1
<1>4. ChecksStatus(checks) = "failed" => open = {}
  <2> HIDE DEF open
  <2> QED
    BY <1>1
<1> QED
  BY <1>2, <1>3, <1>4 DEF CheckStates

\* The word of one reviewer: what the last review of theirs says.
By(reviews, who) == {i \in DOMAIN reviews : reviews[i].by = who}
Says(reviews, who) ==
  IF By(reviews, who) = {} THEN "" ELSE reviews[Max(By(reviews, who))].says

\* The last words are those of the reviewers, however many reviews there are.
LEMMA LastWordsAreTheirs ==
  ASSUME NEW n \in Nat, NEW reviews \in [1 .. n -> Reviews]
  PROVE  /\ \A who : Says(reviews, who) # "" => Says(reviews, who) \in LastWords(reviews)
         /\ \A word \in LastWords(reviews) :
              word \in {Says(reviews, "ann"), Says(reviews, "bob")}
<1>1. DOMAIN reviews = 1 .. n
  OBVIOUS
<1>2. ASSUME NEW who, By(reviews, who) # {}
      PROVE  LET i == Max(By(reviews, who))
             IN /\ i \in 1 .. n /\ reviews[i].by = who
                /\ \A k \in 1 .. n : reviews[k].by = who => k <= i
  <2>1. By(reviews, who) \in SUBSET (1 .. n)
    BY <1>1 DEF By
  <2>2. LET i == Max(By(reviews, who))
        IN i \in By(reviews, who) /\ \A k \in By(reviews, who) : k <= i
    BY <1>2, <2>1, GreatestOfSome
  <2> QED
    BY <1>1, <2>2 DEF By
<1>3. ASSUME NEW who, Says(reviews, who) # "" PROVE Says(reviews, who) \in LastWords(reviews)
  <2> DEFINE i == Max(By(reviews, who))
  <2>1. By(reviews, who) # {} /\ Says(reviews, who) = reviews[i].says
    BY <1>3 DEF Says
  <2>2. i \in 1 .. n /\ reviews[i].by = who /\ \A k \in 1 .. n : reviews[k].by = who => k <= i
    BY <1>2, <2>1
  <2> HIDE DEF i
  <2> QED
    BY <1>1, <2>1, <2>2 DEF LastWords
<1>4. ASSUME NEW word \in LastWords(reviews)
      PROVE  word \in {Says(reviews, "ann"), Says(reviews, "bob")}
  <2>1. PICK j \in 1 .. n : /\ word = reviews[j].says
                            /\ \A k \in 1 .. n : reviews[k].by = reviews[j].by => k <= j
    BY <1>1, <1>4 DEF LastWords
  <2> DEFINE who == reviews[j].by
             i == Max(By(reviews, who))
  <2>2. who \in {"ann", "bob"}
    BY DEF Reviews
  <2>3. j \in By(reviews, who)
    BY <1>1 DEF By
  <2> HIDE DEF who
  <2>4. i \in 1 .. n /\ reviews[i].by = who /\ \A k \in 1 .. n : reviews[k].by = who => k <= i
    BY <1>2, <2>3
  <2>5. i <= j /\ j <= i
    BY <2>1, <2>4 DEF who
  <2>6. i = j
    <3> HIDE DEF i
    <3> QED
      BY <2>4, <2>5
  <2>7. Says(reviews, who) = word
    BY <2>1, <2>3, <2>6 DEF Says
  <2> QED
    BY <2>2, <2>7
<1> QED
  BY <1>3, <1>4

\* Green as a whole, a list of checks after another is green part by part.
LEMMA GreenParts ==
  ASSUME NEW a \in Seq(CheckStates), NEW b \in Seq(CheckStates),
         ChecksStatus(a \o b) = "success"
  PROVE  /\ \A i \in DOMAIN a : a[i] = "success"
         /\ \A i \in DOMAIN b : b[i] = "success"
<1> DEFINE c == a \o b
           l == Len(a)
           m == Len(b)
<1>1. /\ c \in Seq(CheckStates) /\ l \in Nat /\ m \in Nat
      /\ DOMAIN a = 1 .. l /\ DOMAIN b = 1 .. m /\ DOMAIN c = 1 .. l + m
      /\ \A i \in 1 .. l : c[i] = a[i]
      /\ \A i \in 1 .. m : c[l + i] = b[i]
  OBVIOUS
<1> HIDE DEF c, l, m
<1>2. c \in [1 .. l + m -> CheckStates] /\ l + m \in Nat
  BY <1>1
<1>3. ChecksStatus(c) = "success"
  BY DEF c
<1>4. \A i \in 1 .. l + m : c[i] = "success"
  BY <1>2, <1>3, ChecksTell
<1> QED
  BY <1>1, <1>4

\* Lists that are empty together are empty.
LEMMA NothingTogether ==
  ASSUME NEW S, NEW a \in Seq(S), NEW b \in Seq(S), a \o b = <<>>
  PROVE  a = <<>> /\ b = <<>>
<1>1. Len(a \o b) = Len(a) + Len(b) /\ Len(a) \in Nat /\ Len(b) \in Nat
  OBVIOUS
<1>2. Len(a) = 0 /\ Len(b) = 0
  BY <1>1
<1> QED
  BY <1>2

\* The answers of GitHub and of GitLab.
GitHubAnswers ==
  [host : {"github"}, reviews : UNION {[1 .. n -> Reviews] : n \in Nat},
   mergeable : {"yes", "no", "unset"}, state : {"clean", "dirty", "blocked"},
   statuses : Seq(CheckStates), runs : Seq(CheckStates)]
GitLabAnswers ==
  [host : {"gitlab"}, status : {"mergeable", "conflict", "checking"}, conflicts : BOOLEAN,
   head : PipelineStates, pipeline : PipelineStates, latest : PipelineStates,
   required : Nat, given : Nat]

\* A client's view of a pull request.
View(review, merge, checks) ==
  [NoPR EXCEPT !.url = 1, !.review = review, !.merge = merge, !.checks = checks]

\* The gate holds nothing against it.
GateOpens(pr) == MergeGate(pr) = ""

\* What the gate reads of it.
LEMMA GateReads ==
  ASSUME NEW review, NEW merge, NEW checks
  PROVE  LET pr == View(review, merge, checks)
         IN /\ pr.review = review
            /\ GateOpens(pr) => merge = "mergeable" /\ ChecksStatus(checks) = "success"
BY DEF NoPR, MergeGate, View, GateOpens

\* What an approved pull request that passes the gate says on GitHub.
LEMMA GitHubVouches ==
  ASSUME NEW h \in GitHubAnswers, GitHubPR(h).review = "APPROVED", GateOpens(GitHubPR(h))
  PROVE  /\ {Says(h.reviews, "ann"), Says(h.reviews, "bob")} \cap {"APPROVED", "CHANGES_REQUESTED"}
              = {"APPROVED"}
         /\ h.mergeable = "yes" /\ h.state # "dirty"
         /\ \A i \in DOMAIN h.statuses : h.statuses[i] = "success"
         /\ \/ \A i \in DOMAIN h.runs : h.runs[i] = "success"
            \/ h.runs = Unread /\ h.state = "clean"
<1>1. /\ ReviewDecision(h.reviews) = "APPROVED"
      /\ GitHubMerge(h) = "mergeable" /\ ChecksStatus(GitHubChecks(h)) = "success"
  <2>1. GitHubPR(h) = View(ReviewDecision(h.reviews), GitHubMerge(h), GitHubChecks(h))
    BY Zenon DEF GitHubPR, View
  <2> QED
    BY <2>1, GateReads
<1>2. h.mergeable = "yes" /\ h.state # "dirty"
  BY <1>1 DEF GitHubMerge
<1>3. "APPROVED" \in LastWords(h.reviews) /\ "CHANGES_REQUESTED" \notin LastWords(h.reviews)
  BY <1>1 DEF ReviewDecision
<1>4. PICK n \in Nat : h.reviews \in [1 .. n -> Reviews]
  BY DEF GitHubAnswers
<1>5. /\ \A who : Says(h.reviews, who) # "" => Says(h.reviews, who) \in LastWords(h.reviews)
      /\ \A word \in LastWords(h.reviews) :
           word \in {Says(h.reviews, "ann"), Says(h.reviews, "bob")}
  BY <1>4, LastWordsAreTheirs
<1>6. {Says(h.reviews, "ann"), Says(h.reviews, "bob")} \cap {"APPROVED", "CHANGES_REQUESTED"}
        = {"APPROVED"}
  BY <1>3, <1>5
<1>7. h.statuses \in Seq(CheckStates) /\ h.runs \in Seq(CheckStates)
  BY DEF GitHubAnswers
<1>8. CASE /\ h.state = "clean" /\ h.runs = Unread
           /\ \A i \in DOMAIN h.statuses : h.statuses[i] = "success"
  BY <1>2, <1>6, <1>8
<1>9. CASE ~(/\ h.state = "clean" /\ h.runs = Unread
             /\ \A i \in DOMAIN h.statuses : h.statuses[i] = "success")
  <2>1. ChecksStatus(h.statuses \o h.runs) = "success"
    BY <1>1, <1>9 DEF GitHubChecks
  <2> QED
    BY <1>2, <1>6, <1>7, <2>1, GreenParts
<1> QED
  BY <1>8, <1>9

\* What an approved merge request that passes the gate says on GitLab.
LEMMA GitLabVouches ==
  ASSUME NEW h \in GitLabAnswers, GitLabPR(h).review = "APPROVED", GateOpens(GitLabPR(h))
  PROVE  /\ h.given >= h.required /\ h.given >= 1
         /\ h.status = "conflict" \/ h.conflicts => h.status = "mergeable"
         /\ {h.head, h.pipeline} \subseteq {"none", "success"}
<1>1. /\ GitLabReview(h) = "APPROVED"
      /\ GitLabMerge(h) = "mergeable" /\ ChecksStatus(GitLabChecks(h)) = "success"
  <2>1. GitLabPR(h) = View(GitLabReview(h), GitLabMerge(h), GitLabChecks(h))
    BY Zenon DEF GitLabPR, View
  <2> QED
    BY <2>1, GateReads
<1>2. /\ h.head \in PipelineStates /\ h.pipeline \in PipelineStates
      /\ h.required \in Nat /\ h.given \in Nat
  BY DEF GitLabAnswers
<1>3. h.given >= h.required /\ h.given >= 1
  <2>1. ApprovalsLeft(h) = 0 /\ ~(h.required = 0 /\ h.given = 0)
    BY <1>1 DEF GitLabReview
  <2>2. CASE h.given < h.required
    BY <1>2, <2>1, <2>2 DEF ApprovalsLeft
  <2>3. CASE ~(h.given < h.required)
    BY <1>2, <2>1, <2>3
  <2> QED
    BY <2>2, <2>3
<1>4. h.status = "conflict" \/ h.conflicts => h.status = "mergeable"
  BY <1>1 DEF GitLabMerge, GitLabConflict
<1> DEFINE word == IF h.status = "mergeable" THEN <<"success">>
                   ELSE IF GitLabConflict(h) THEN <<"failed">> ELSE <<>>
           a == PipelineChecks(h.head)
           b == PipelineChecks(h.pipeline)
<1>5. ASSUME NEW p \in PipelineStates
      PROVE  /\ PipelineChecks(p) \in Seq(CheckStates)
             /\ p # "none" => /\ 1 \in DOMAIN PipelineChecks(p)
                              /\ PipelineChecks(p)[1] = PipelineCheck(p)
             /\ PipelineCheck(p) = "success" => p = "success"
  <2> DEFINE q == PipelineCheck(p)
  <2>1. p # "none" => q \in CheckStates
    BY DEF PipelineStates, PipelineCheck, CheckStates
  <2>2. q = "success" => p = "success"
    BY DEF PipelineStates, PipelineCheck
  <2> HIDE DEF q
  <2>3. PipelineChecks(p) = IF p = "none" THEN <<>> ELSE <<q>>
    BY DEF PipelineChecks, q
  <2>4. CASE p = "none"
    BY <2>2, <2>3, <2>4 DEF q
  <2>5. CASE p # "none"
    <3>1. <<q>> \in Seq(CheckStates) /\ 1 \in DOMAIN <<q>> /\ <<q>>[1] = q
      BY <2>1, <2>5
    <3> QED
      BY <2>2, <2>3, <2>5, <3>1 DEF q
  <2> QED
    BY <2>4, <2>5
<1>6. word \in Seq(CheckStates) /\ a \in Seq(CheckStates) /\ b \in Seq(CheckStates)
  <2>1. /\ <<"success">> \in Seq(CheckStates) /\ <<"failed">> \in Seq(CheckStates)
        /\ <<>> \in Seq(CheckStates)
    BY DEF CheckStates
  <2>2. word \in Seq(CheckStates)
    BY <2>1, Zenon
  <2> QED
    BY <1>2, <1>5, <2>2
<1>7. \/ ChecksStatus(word \o a \o b) = "success"
      \/ word \o a \o b = <<>>
  <2> HIDE DEF word, a, b
  <2> QED
    BY <1>1 DEF GitLabChecks, word, a, b
<1> HIDE DEF word, a, b
<1>8. CASE word \o a \o b = <<>>
  <2>1. a = <<>> /\ b = <<>>
    <3>1. word \o a \in Seq(CheckStates)
      BY <1>6
    <3>2. word \o a = <<>> /\ b = <<>>
      BY <1>6, <1>8, <3>1, NothingTogether
    <3> QED
      BY <1>6, <3>2, NothingTogether
  <2>2. h.head = "none" /\ h.pipeline = "none"
    BY <1>2, <1>5, <2>1 DEF a, b
  <2> QED
    BY <1>3, <1>4, <2>2
<1>9. CASE ChecksStatus(word \o a \o b) = "success"
  <2>1. word \o a \in Seq(CheckStates)
    BY <1>6
  <2>2. /\ \A i \in DOMAIN (word \o a) : (word \o a)[i] = "success"
        /\ \A i \in DOMAIN b : b[i] = "success"
    BY <1>6, <1>9, <2>1, GreenParts
  <2>3. \A i \in DOMAIN a : a[i] = "success"
    <3> TAKE i \in DOMAIN a
    <3>1. Len(word) \in Nat /\ Len(a) \in Nat /\ i \in 1 .. Len(a)
      BY <1>6
    <3>2. Len(word) + i \in DOMAIN (word \o a) /\ (word \o a)[Len(word) + i] = a[i]
      BY <1>6, <3>1
    <3> QED
      BY <2>2, <3>2
  <2>4. h.head \in {"none", "success"} /\ h.pipeline \in {"none", "success"}
    BY <1>2, <1>5, <2>2, <2>3 DEF a, b
  <2> QED
    BY <1>3, <1>4, <2>4
<1> QED
  BY <1>7, <1>8, <1>9

\* An answer about checks or a host is what the gate and the clients make of it.
GateAnswer ==
  /\ asked.about = "checks" =>
       /\ \E n \in Nat : asked.in \in [1 .. n -> CheckStates]
       /\ asked.out = ChecksStatus(asked.in)
  /\ asked.about = "host" =>
       \/ asked.in \in GitHubAnswers /\ asked.out = GitHubPR(asked.in)
       \/ asked.in \in GitLabAnswers /\ asked.out = GitLabPR(asked.in)

\* Every answer is one of those.
LEMMA GateAnswered == Spec => []GateAnswer
<1>1. Init => GateAnswer
  BY DEF Init, GateAnswer
<1>2. GateAnswer /\ [Next]_asked => GateAnswer'
  <2>1. GateAnswer /\ UNCHANGED asked => GateAnswer'
    BY DEF GateAnswer
  <2>2. ASSUME AskChecks PROVE GateAnswer'
    <3>1. PICK checks \in UpTo(CheckStates, MaxChecks) :
            Ask("checks", checks, ChecksStatus(checks))
      BY <2>2, Zenon DEF AskChecks
    <3>2. /\ asked'.about = "checks" /\ asked'.in = checks
          /\ asked'.out = ChecksStatus(checks)
      BY <3>1, Asked, Zenon
    <3>3. \E n \in Nat : checks \in [1 .. n -> CheckStates]
      <4>1. \E n \in 0 .. MaxChecks : checks \in [1 .. n -> CheckStates]
        BY Zenon DEF UpTo
      <4> QED
        BY <4>1
    <3> QED
      BY <3>2, <3>3 DEF GateAnswer
  <2>3. ASSUME AskHost PROVE GateAnswer'
    <3>1. CASE \E reviews \in UpTo(Reviews, MaxReviews), statuses, runs \in ReadChecks :
               \E mg \in {"yes", "no", "unset"}, st \in {"clean", "dirty", "blocked"} :
                 LET gh == [host |-> "github", reviews |-> reviews, mergeable |-> mg, state |-> st,
                            statuses |-> statuses, runs |-> runs]
                 IN Ask("host", gh, GitHubPR(gh))
      <4>1. PICK reviews \in UpTo(Reviews, MaxReviews), statuses \in ReadChecks,
                 runs \in ReadChecks :
              \E mg \in {"yes", "no", "unset"}, st \in {"clean", "dirty", "blocked"} :
                LET gh == [host |-> "github", reviews |-> reviews, mergeable |-> mg, state |-> st,
                           statuses |-> statuses, runs |-> runs]
                IN Ask("host", gh, GitHubPR(gh))
        BY <3>1, Zenon
      <4>2. PICK mg \in {"yes", "no", "unset"}, st \in {"clean", "dirty", "blocked"} :
              LET gh == [host |-> "github", reviews |-> reviews, mergeable |-> mg, state |-> st,
                         statuses |-> statuses, runs |-> runs]
              IN Ask("host", gh, GitHubPR(gh))
        BY <4>1, Zenon
      <4> DEFINE gh == [host |-> "github", reviews |-> reviews, mergeable |-> mg, state |-> st,
                        statuses |-> statuses, runs |-> runs]
      <4>3. asked'.about = "host" /\ asked'.in = gh /\ asked'.out = GitHubPR(gh)
        BY <4>2, Asked, Zenon
      <4>4. reviews \in UNION {[1 .. n -> Reviews] : n \in Nat}
        <5>1. \E n \in 0 .. MaxReviews : reviews \in [1 .. n -> Reviews]
          BY Zenon DEF UpTo
        <5>2. \E n \in Nat : reviews \in [1 .. n -> Reviews]
          BY <5>1
        <5> QED
          BY <5>2, Zenon
      <4>5. ASSUME NEW cs \in ReadChecks PROVE cs \in Seq(CheckStates)
        <5>1. CASE cs = Unread
          BY <5>1 DEF Unread, CheckStates
        <5>2. CASE cs # Unread
          <6>1. \E n \in 0 .. 1 : cs \in [1 .. n -> CheckStates \ {"unknown"}]
            BY <5>2, Zenon DEF ReadChecks, UpTo
          <6>2. PICK n \in Nat : cs \in [1 .. n -> CheckStates]
            BY <6>1
          <6> QED
            BY <6>2
        <5> QED
          BY <5>1, <5>2
      <4>6. gh \in GitHubAnswers
        <5> HIDE <4>2, <4>3
        <5>1. statuses \in Seq(CheckStates) /\ runs \in Seq(CheckStates)
          BY <4>5
        <5> QED
          BY <4>4, <5>1, Zenon DEF GitHubAnswers
      <4> HIDE DEF gh
      <4> QED
        BY <4>3, <4>6 DEF GateAnswer
    <3>2. CASE \E st \in {"mergeable", "conflict", "checking"}, conflicts \in BOOLEAN :
               \E head, pipeline, latest \in PipelineStates, required, given \in 0 .. 2 :
                 LET gl == [host |-> "gitlab", status |-> st, conflicts |-> conflicts, head |-> head,
                            pipeline |-> pipeline, latest |-> latest, required |-> required,
                            given |-> given]
                 IN Ask("host", gl, GitLabPR(gl))
      <4>1. PICK st \in {"mergeable", "conflict", "checking"}, conflicts \in BOOLEAN :
              \E head, pipeline, latest \in PipelineStates, required, given \in 0 .. 2 :
                LET gl == [host |-> "gitlab", status |-> st, conflicts |-> conflicts, head |-> head,
                           pipeline |-> pipeline, latest |-> latest, required |-> required,
                           given |-> given]
                IN Ask("host", gl, GitLabPR(gl))
        BY <3>2, Zenon
      <4>2. PICK head \in PipelineStates, pipeline \in PipelineStates, latest \in PipelineStates,
                 required \in 0 .. 2, given \in 0 .. 2 :
              LET gl == [host |-> "gitlab", status |-> st, conflicts |-> conflicts, head |-> head,
                         pipeline |-> pipeline, latest |-> latest, required |-> required,
                         given |-> given]
              IN Ask("host", gl, GitLabPR(gl))
        BY <4>1, Zenon
      <4> DEFINE gl == [host |-> "gitlab", status |-> st, conflicts |-> conflicts, head |-> head,
                        pipeline |-> pipeline, latest |-> latest, required |-> required,
                        given |-> given]
      <4>3. asked'.about = "host" /\ asked'.in = gl /\ asked'.out = GitLabPR(gl)
        BY <4>2, Asked, Zenon
      <4>4. gl \in GitLabAnswers
        <5>1. required \in Nat /\ given \in Nat
          OBVIOUS
        <5> QED
          BY <5>1 DEF GitLabAnswers
      <4> HIDE DEF gl
      <4> QED
        BY <4>3, <4>4 DEF GateAnswer
    <3> QED
      BY <2>3, <3>1, <3>2, Zenon DEF AskHost
  <2>4. ASSUME Next
        PROVE  AskChecks \/ AskHost \/ asked'.about \notin {"checks", "host"}
    BY <2>4, WhoAsks
  <2> QED
    BY <2>1, <2>2, <2>3, <2>4 DEF GateAnswer
<1> QED
  BY <1>1, <1>2, PTL DEF Spec

\* The gate reports checks as failed only when none can still change that, and
\* an approved pull request passes it only if the host says so itself.
THEOREM GateTrusts == Spec => []GateTrustsHost
<1>1. GateAnswer => GateTrustsHost
  <2> SUFFICES ASSUME GateAnswer PROVE GateTrustsHost
    OBVIOUS
  <2> DEFINE h == asked.in
  <2>1. asked.about = "checks" /\ asked.out = "failed" => Range(h) \subseteq {"success", "failed"}
    <3> SUFFICES ASSUME asked.about = "checks", asked.out = "failed"
                 PROVE  Range(h) \subseteq {"success", "failed"}
      OBVIOUS
    <3>1. PICK n \in Nat : h \in [1 .. n -> CheckStates]
      BY DEF GateAnswer
    <3>2. ChecksStatus(h) = "failed"
      BY DEF GateAnswer
    <3>3. \A i \in 1 .. n : h[i] \in {"success", "failed"}
      BY <3>1, <3>2, ChecksTell
    <3> QED
      BY <3>1, <3>3 DEF Range
  <2>2. ASSUME asked.about = "host", asked.out.review = "APPROVED", GateOpens(asked.out),
               h.host = "github"
        PROVE  /\ {Says(h.reviews, "ann"), Says(h.reviews, "bob")}
                    \cap {"APPROVED", "CHANGES_REQUESTED"} = {"APPROVED"}
               /\ h.mergeable = "yes" /\ h.state # "dirty"
               /\ Range(h.statuses) \subseteq {"success"}
               /\ Range(h.runs) \subseteq {"success"} \/ (h.runs = Unread /\ h.state = "clean")
    <3>1. h \in GitHubAnswers /\ asked.out = GitHubPR(h)
      BY <2>2 DEF GateAnswer, GitLabAnswers
    <3> HIDE DEF h
    <3> QED
      BY <2>2, <3>1, GitHubVouches DEF Range
  <2>3. ASSUME asked.about = "host", asked.out.review = "APPROVED", GateOpens(asked.out),
               h.host # "github"
        PROVE  /\ h.given >= Max({h.required, 1})
               /\ h.status = "conflict" \/ h.conflicts => h.status = "mergeable"
               /\ {h.head, h.pipeline} \subseteq {"none", "success"}
    <3>1. h \in GitLabAnswers /\ asked.out = GitLabPR(h)
      BY <2>3 DEF GateAnswer, GitHubAnswers
    <3> HIDE DEF h
    <3>2. /\ h.given >= h.required /\ h.given >= 1
          /\ h.status = "conflict" \/ h.conflicts => h.status = "mergeable"
          /\ {h.head, h.pipeline} \subseteq {"none", "success"}
      BY <2>3, <3>1, GitLabVouches
    <3>3. h.required \in Nat /\ h.given \in Nat
      BY <3>1 DEF GitLabAnswers
    <3>4. Max({h.required, 1}) \in {h.required, 1}
      <4> DEFINE S == {h.required, 1}
                 n == IF h.required >= 1 THEN h.required ELSE 1
      <4>1. S \in SUBSET Int /\ n \in S /\ \A m \in S : m <= n
        BY <3>3
      <4> HIDE DEF S, n
      <4>2. Max(S) = n
        BY <4>1, MaxIs
      <4> QED
        BY <4>1, <4>2 DEF S
    <3> QED
      BY <3>2, <3>3, <3>4
  <2> QED
    BY <2>1, <2>2, <2>3, Zenon DEF GateTrustsHost, Says, By, GateOpens
<1> QED
  BY <1>1, GateAnswered, PTL----------------------------------------------------------------------------
(* The retry delay.                                                        *)

\* How the delay grows from one retry to the next.
Grows(g, i, max) ==
  IF i <= 1 THEN 1 ELSE IF 2 * g[i - 1] >= max THEN max ELSE 2 * g[i - 1]

\* The delays of the first n retries.
FirstDelays(n, max) == {g \in [0 .. n -> Nat] : \A i \in 0 .. n : g[i] = Grows(g, i, max)}

\* There are such delays, and only one of each.
LEMMA FirstDelaysExist ==
  ASSUME NEW max \in Nat
  PROVE  \A n \in Nat : FirstDelays(n, max) # {}
<1> DEFINE Without == {n \in Nat : FirstDelays(n, max) = {}}
<1> SUFFICES ASSUME Without # {} PROVE FALSE
  OBVIOUS
<1> DEFINE m == Min(Without)
<1>1. m \in Without /\ \A n \in Without : m <= n
  <2>1. Without \in SUBSET Nat
    OBVIOUS
  <2> HIDE DEF Without
  <2> QED
    BY <2>1, LeastOfSome
<1> HIDE DEF m
<1>2. m \in Nat /\ FirstDelays(m, max) = {}
  BY <1>1
<1>3. CASE m = 0
  <2> DEFINE g == [i \in 0 .. 0 |-> 1]
  <2>1. g \in [0 .. m -> Nat] /\ \A i \in 0 .. m : g[i] = Grows(g, i, max)
    BY <1>3 DEF Grows
  <2> HIDE DEF g
  <2> QED
    BY <1>2, <2>1 DEF FirstDelays
<1>4. CASE m # 0
  <2> DEFINE l == m - 1
  <2>1. l \in Nat /\ m = l + 1
    BY <1>2, <1>4
  <2>2. l \notin Without
    BY <1>1, <2>1
  <2>3. PICK g : g \in FirstDelays(l, max)
    BY <2>1, <2>2
  <2>4. g \in [0 .. l -> Nat] /\ \A i \in 0 .. l : g[i] = Grows(g, i, max)
    BY <2>3 DEF FirstDelays
  <2> HIDE DEF l
  <2> DEFINE h == [i \in 0 .. m |-> IF i = m THEN Grows(g, m, max) ELSE g[i]]
  <2>5. Grows(g, m, max) \in Nat
    BY <2>1, <2>4 DEF Grows
  <2>6. \A i \in 0 .. m : i = m \/ i \in 0 .. l
    BY <2>1
  <2>7. h \in [0 .. m -> Nat]
    BY <2>4, <2>5, <2>6
  <2>8. \A i \in 0 .. l : h[i] = g[i]
    BY <2>1
  <2>9. h[m] = Grows(g, m, max)
    BY <1>2
  <2> HIDE DEF h
  <2>10. \A i \in 0 .. m : Grows(h, i, max) = Grows(g, i, max)
    BY <2>1, <2>8 DEF Grows
  <2>11. \A i \in 0 .. m : h[i] = Grows(h, i, max)
    BY <2>4, <2>6, <2>8, <2>9, <2>10
  <2> QED
    BY <1>2, <2>7, <2>11 DEF FirstDelays
<1> QED
  BY <1>3, <1>4

\* Delays that grow the same way are the same, as far as both go.
LEMMA FirstDelaysAgree ==
  ASSUME NEW max \in Nat, NEW n \in Nat, NEW m \in Nat,
         NEW g \in FirstDelays(n, max), NEW h \in FirstDelays(m, max)
  PROVE  \A i \in 0 .. n : i <= m => g[i] = h[i]
<1> DEFINE Differ == {i \in 0 .. n : i <= m /\ g[i] # h[i]}
<1> SUFFICES ASSUME Differ # {} PROVE FALSE
  OBVIOUS
<1> DEFINE i == Min(Differ)
<1>1. i \in Differ /\ \A j \in Differ : i <= j
  <2>1. Differ \in SUBSET Nat
    OBVIOUS
  <2> HIDE DEF Differ
  <2> QED
    BY <2>1, LeastOfSome
<1> HIDE DEF i
<1>2. i \in 0 .. n /\ i \in 0 .. m /\ g[i] # h[i]
  BY <1>1
<1>3. g[i] = Grows(g, i, max) /\ h[i] = Grows(h, i, max)
  BY <1>2 DEF FirstDelays
<1>4. CASE i <= 1
  BY <1>2, <1>3, <1>4 DEF Grows
<1>5. CASE ~(i <= 1)
  <2>1. i - 1 \in 0 .. n /\ i - 1 <= m /\ ~(i <= i - 1)
    BY <1>2, <1>5
  <2>2. g[i - 1] = h[i - 1]
    BY <1>1, <2>1
  <2> QED
    BY <1>2, <1>3, <2>2 DEF Grows
<1> QED
  BY <1>4, <1>5

\* The delays of all retries, as the recursion defines them.
Delays(max) ==
  CHOOSE grown : grown = [n \in Nat |->
    IF n <= 1 THEN 1 ELSE IF 2 * grown[n - 1] >= max THEN max ELSE 2 * grown[n - 1]]

\* The recursion defines them.
LEMMA DelaysAreDefined ==
  ASSUME NEW max \in Nat
  PROVE  \A n \in Nat : Delays(max)[n] = Grows(Delays(max), n, max)
<1> DEFINE First(n) == CHOOSE g : g \in FirstDelays(n, max)
           f == [n \in Nat |-> First(n)[n]]
<1>1. \A n \in Nat : First(n) \in FirstDelays(n, max)
  BY FirstDelaysExist
<1> HIDE DEF First
<1>2. \A n \in Nat : f[n] = Grows(f, n, max)
  <2> TAKE n \in Nat
  <2>1. f[n] = First(n)[n]
    OBVIOUS
  <2>2. First(n)[n] = Grows(First(n), n, max)
    <3>1. n \in 0 .. n /\ First(n) \in FirstDelays(n, max)
      BY <1>1
    <3> QED
      BY <3>1 DEF FirstDelays
  <2>3. CASE n <= 1
    BY <2>1, <2>2, <2>3 DEF Grows
  <2>4. CASE ~(n <= 1)
    <3> DEFINE m == n - 1
    <3>1. m \in Nat /\ m \in 0 .. n /\ m <= m
      BY <2>4
    <3>2. First(m) \in FirstDelays(m, max) /\ First(n) \in FirstDelays(n, max)
      BY <1>1, <3>1
    <3>3. f[m] = First(m)[m]
      BY <3>1
    <3> HIDE DEF m, f
    <3>4. First(n)[m] = First(m)[m]
      BY <3>1, <3>2, FirstDelaysAgree
    <3> QED
      BY <2>1, <2>2, <3>3, <3>4 DEF Grows, m
  <2> QED
    BY <2>3, <2>4
<1>3. f = [n \in Nat |-> IF n <= 1 THEN 1 ELSE IF 2 * f[n - 1] >= max THEN max ELSE 2 * f[n - 1]]
  <2> DEFINE g == [n \in Nat |-> IF n <= 1 THEN 1
                                 ELSE IF 2 * f[n - 1] >= max THEN max ELSE 2 * f[n - 1]]
  <2>1. f = [n \in Nat |-> f[n]]
    OBVIOUS
  <2>2. \A n \in Nat : f[n] = IF n <= 1 THEN 1
                              ELSE IF 2 * f[n - 1] >= max THEN max ELSE 2 * f[n - 1]
    BY <1>2 DEF Grows
  <2> HIDE DEF f
  <2> QED
    BY <2>1, <2>2
<1> HIDE DEF f
<1>4. Delays(max) = [n \in Nat |->
        IF n <= 1 THEN 1
        ELSE IF 2 * Delays(max)[n - 1] >= max THEN max ELSE 2 * Delays(max)[n - 1]]
  BY <1>3, Zenon DEF Delays
<1> QED
  BY <1>4 DEF Grows

\* A delay is at least a second, at most the maximum, and at most doubles.
LEMMA DelaysGrow ==
  ASSUME NEW max \in Nat, max # 0
  PROVE  \A n \in Nat : LET d == Delays(max)[n] IN d \in Nat /\ 1 <= d /\ d <= max
<1> DEFINE d == Delays(max)
           Wrong == {n \in Nat : ~(d[n] \in Nat /\ 1 <= d[n] /\ d[n] <= max)}
<1> SUFFICES ASSUME Wrong # {} PROVE FALSE
  OBVIOUS
<1>1. \A n \in Nat : d[n] = Grows(d, n, max)
  BY DelaysAreDefined
<1> HIDE DEF d
<1> DEFINE i == Min(Wrong)
<1>2. i \in Wrong /\ \A j \in Wrong : i <= j
  <2>1. Wrong \in SUBSET Nat
    OBVIOUS
  <2> HIDE DEF Wrong
  <2> QED
    BY <2>1, LeastOfSome
<1> HIDE DEF i
<1>3. i \in Nat /\ d[i] = Grows(d, i, max)
  BY <1>1, <1>2
<1>4. CASE i <= 1
  <2>1. d[i] = 1
    BY <1>3, <1>4 DEF Grows
  <2> QED
    BY <1>2, <2>1
<1>5. CASE ~(i <= 1)
  <2> DEFINE j == i - 1
  <2>1. j \in Nat /\ ~(i <= j)
    BY <1>3, <1>5
  <2>2. d[j] \in Nat /\ 1 <= d[j] /\ d[j] <= max
    BY <1>2, <2>1
  <2>3. d[i] = IF 2 * d[j] >= max THEN max ELSE 2 * d[j]
    BY <1>3, <1>5 DEF Grows
  <2> HIDE DEF j
  <2>4. d[i] \in Nat /\ 1 <= d[i] /\ d[i] <= max
    BY <2>2, <2>3
  <2> QED
    BY <1>2, <2>4
<1> QED
  BY <1>4, <1>5

\* The delay before a retry, for any count and any maximum.
LEMMA DelayIs ==
  ASSUME NEW count \in Nat, NEW max \in Int
  PROVE  RetryDelay(count, max) = IF max <= 0 THEN 0 ELSE Delays(max)[count]
<1>1. RetryDelay(count, max) = IF max <= 0 THEN 0 ELSE Min({Delays(max)[count], max})
  BY Zenon DEF RetryDelay, Delays
<1>2. CASE max <= 0
  BY <1>1, <1>2
<1>3. CASE ~(max <= 0)
  <2> DEFINE d == Delays(max)[count]
             S == {d, max}
  <2>1. max \in Nat /\ max # 0
    BY <1>3
  <2>2. d \in Nat /\ d <= max
    BY <2>1, DelaysGrow
  <2> HIDE DEF d
  <2>3. S \in SUBSET Nat /\ S # {} /\ d \in S
    BY <2>1, <2>2
  <2> HIDE DEF S
  <2>4. Min(S) \in S /\ Min(S) <= d
    BY <2>3, LeastOfSome
  <2>5. Min(S) = d
    BY <2>1, <2>2, <2>4 DEF S
  <2> QED
    BY <1>1, <1>3, <2>5 DEF d, S
<1> QED
  BY <1>2, <1>3

\* An answer about a delay.
DelayAnswer ==
  asked.about = "delay" =>
    /\ asked.in.count \in Nat /\ asked.in.max \in Int
    /\ asked.out = RetryDelay(asked.in.count, asked.in.max)

\* Every answer is one of those.
LEMMA DelayAnswered == Spec => []DelayAnswer
<1>1. Init => DelayAnswer
  BY DEF Init, DelayAnswer
<1>2. DelayAnswer /\ [Next]_asked => DelayAnswer'
  <2>1. DelayAnswer /\ UNCHANGED asked => DelayAnswer'
    BY DEF DelayAnswer
  <2>2. ASSUME AskDelay PROVE DelayAnswer'
    <3>1. PICK count \in 0 .. MaxRetries, max \in -1 .. 20 :
            Ask("delay", [count |-> count, max |-> max], RetryDelay(count, max))
      BY <2>2, Zenon DEF AskDelay
    <3> DEFINE in == [count |-> count, max |-> max]
    <3>2. asked'.in = in /\ asked'.out = RetryDelay(count, max)
      BY <3>1, Asked, Zenon
    <3>3. in.count = count /\ in.max = max /\ count \in Nat /\ max \in Int
      OBVIOUS
    <3> HIDE DEF in
    <3> QED
      BY <3>2, <3>3 DEF DelayAnswer
  <2>3. ASSUME Next PROVE AskDelay \/ asked'.about # "delay"
    BY <2>3, WhoAsks
  <2> QED
    BY <2>1, <2>2, <2>3 DEF DelayAnswer
<1> QED
  BY <1>1, <1>2, PTL DEF Spec

\* The delay never passes the maximum, never shrinks with one more retry, and
\* the first retry waits a second.
THEOREM DelaysGrowToTheMaximum == Spec => []DelayGrows
<1>1. DelayAnswer => DelayGrows
  <2> SUFFICES ASSUME DelayAnswer, asked.about = "delay" PROVE DelayGrows
    BY DEF DelayGrows
  <2> DEFINE count == asked.in.count
             max == asked.in.max
             next == count + 1
             more == RetryDelay(next, max)
             d == Delays(max)
  <2>1. count \in Nat /\ max \in Int /\ asked.out = RetryDelay(count, max)
    BY DEF DelayAnswer
  <2> HIDE DEF count, max
  <2>2. next \in Nat /\ next # 0
    BY <2>1
  <2>3. /\ asked.out = IF max <= 0 THEN 0 ELSE d[count]
        /\ more = IF max <= 0 THEN 0 ELSE d[next]
    <3> HIDE DEF next
    <3> QED
      BY <2>1, <2>2, DelayIs
  <2>4. Max({max, 0}) = IF max <= 0 THEN 0 ELSE max
    <3> DEFINE S == {max, 0}
               n == IF max <= 0 THEN 0 ELSE max
    <3>1. S \in SUBSET Int /\ n \in S /\ \A m \in S : m <= n
      BY <2>1
    <3> HIDE DEF S, n
    <3>2. Max(S) = n
      BY <3>1, MaxIs
    <3> QED
      BY <3>2 DEF S, n
  <2> HIDE DEF more
  <2>5. CASE max <= 0
    BY <2>1, <2>3, <2>4, <2>5 DEF DelayGrows, count, max, more
  <2>6. CASE ~(max <= 0)
    <3>1. max \in Nat /\ max # 0
      BY <2>1, <2>6
    <3>2. /\ d[count] \in Nat /\ 1 <= d[count] /\ d[count] <= max
          /\ d[next] \in Nat /\ 1 <= d[next] /\ d[next] <= max
      BY <2>1, <2>2, <3>1, DelaysGrow
    <3>3. d[count] = Grows(d, count, max) /\ d[next] = Grows(d, next, max)
      BY <2>1, <2>2, <3>1, DelaysAreDefined
    <3>4. next - 1 = count
      BY <2>1
    <3> HIDE DEF d, next
    <3>5. d[next] = IF next <= 1 THEN 1 ELSE IF 2 * d[count] >= max THEN max ELSE 2 * d[count]
      BY <3>3, <3>4 DEF Grows
    <3>6. count <= 1 => d[count] = 1
      BY <3>3 DEF Grows
    <3>7. next <= 1 => count = 0
      BY <2>1 DEF next
    <3>8. count # 0 => ~(next <= 1)
      BY <2>1 DEF next
    <3>9. /\ d[count] <= max /\ d[count] <= d[next]
          /\ d[next] < max /\ count > 0 => d[next] = 2 * d[count]
          /\ count <= 1 => d[count] = 1
      BY <2>1, <3>1, <3>2, <3>5, <3>6, <3>7, <3>8
    <3>10. asked.out = d[count] /\ more = d[next] /\ Max({max, 0}) = max
      BY <2>3, <2>4, <2>6
    <3>11. /\ asked.out <= Max({max, 0}) /\ asked.out <= more
           /\ more < max /\ count > 0 => more = 2 * asked.out
           /\ count <= 1 /\ max > 0 => asked.out = 1
      BY <3>9, <3>10
    <3> QED
      BY <3>11, Zenon DEF DelayGrows, count, max, more, next
  <2> QED
    BY <2>5, <2>6
<1> QED
  BY <1>1, DelayAnswered, PTL

----------------------------------------------------------------------------
(* The limits of a run.                                                    *)

\* What the first and the second command used, of those that are counted.
Used(used, counted) ==
  (IF 1 \in counted THEN used[1] ELSE 0) + (IF 2 \in counted THEN used[2] ELSE 0)

\* The two ways to add up what the commands used.
Folded(used) ==
  CHOOSE iter : iter = [s \in SUBSET DOMAIN used |->
    IF s = {} THEN 0
    ELSE used[CHOOSE i \in s : TRUE] + iter[s \ {CHOOSE i \in s : TRUE}]]
Totals(used) ==
  CHOOSE total : total = [i \in 0 .. Len(used) |->
    IF i = 0 THEN 0 ELSE total[i - 1] + used[i]]

\* At most two commands were counted.
LEMMA CommandsUsed ==
  ASSUME NEW used \in UpTo({0, 2}, 2)
  PROVE  /\ DOMAIN used \in SUBSET {1, 2} /\ \A i \in DOMAIN used : used[i] \in Nat
         /\ Len(used) \in {0, 1, 2} /\ DOMAIN used = 1 .. Len(used)
         /\ DOMAIN used \in {{}, {1}, {1, 2}}
<1>1. PICK k \in 0 .. 2 : used \in [1 .. k -> {0, 2}]
  BY Zenon DEF UpTo
<1>2. used \in Seq({0, 2}) /\ Len(used) = k
  BY <1>1
<1> QED
  BY <1>1, <1>2

\* One more command counts for what it used.
LEMMA OneMoreUsed ==
  ASSUME NEW used, DOMAIN used \in SUBSET {1, 2}, \A i \in DOMAIN used : used[i] \in Nat,
         NEW s \in SUBSET DOMAIN used, NEW i \in s
  PROVE  /\ Used(used, s) = used[i] + Used(used, s \ {i})
         /\ Used(used, s) \in Nat
BY DEF Used

\* What no command, one and two used.
LEMMA UsedByFew ==
  ASSUME NEW used
  PROVE  /\ Used(used, {}) = 0
         /\ used[1] \in Nat => Used(used, {1}) = used[1]
         /\ Used(used, {1, 2}) = used[1] + used[2]
BY DEF Used

\* A fold adds up what the commands used, in whatever order it takes them.
LEMMA FoldOfUsed ==
  ASSUME NEW used \in UpTo({0, 2}, 2)
  PROVE  FoldFunction(+, 0, used) = Used(used, DOMAIN used)
<1> DEFINE f == [s \in SUBSET DOMAIN used |-> Used(used, s)]
           Some(s) == CHOOSE i \in s : TRUE
           More(g, s) == IF s = {} THEN 0 ELSE used[Some(s)] + g[s \ {Some(s)}]
<1>1. \A s \in SUBSET DOMAIN used : s # {} => Some(s) \in s
  OBVIOUS
<1> HIDE DEF Some
<1>2. \A s \in SUBSET DOMAIN used : f[s] = More(f, s)
  <2> TAKE s \in SUBSET DOMAIN used
  <2>1. CASE s = {}
    BY <2>1 DEF Used
  <2>2. CASE s # {}
    <3>1. Some(s) \in s /\ s \ {Some(s)} \in SUBSET DOMAIN used
      BY <1>1, <2>2
    <3>2. Used(used, s) = used[Some(s)] + Used(used, s \ {Some(s)})
      BY <3>1, CommandsUsed, OneMoreUsed
    <3> QED
      BY <2>2, <3>1, <3>2
  <2> QED
    BY <2>1, <2>2
<1>3. f = [s \in SUBSET DOMAIN used |-> More(f, s)]
  <2>1. f = [s \in SUBSET DOMAIN used |-> f[s]]
    OBVIOUS
  <2> HIDE DEF f
  <2> QED
    BY <1>2, <2>1, Zenon
<1> HIDE DEF f
<1>4. Folded(used) = [s \in SUBSET DOMAIN used |-> More(Folded(used), s)]
  BY <1>3, Zenon DEF Folded, Some
<1> DEFINE g == Folded(used)
<1>5. \A s \in SUBSET DOMAIN used : g[s] = More(g, s)
  BY <1>4, Zenon
<1> HIDE DEF g
<1>6. g[{}] = 0
  BY <1>5
<1>7. \A i \in DOMAIN used : g[{i}] = used[i]
  <2> TAKE i \in DOMAIN used
  <2>1. Some({i}) = i
    BY <1>1
  <2>2. used[i] \in Nat /\ {i} \ {i} = {}
    BY CommandsUsed
  <2>3. g[{i}] = used[i] + g[{}]
    BY <1>5, <2>1, <2>2
  <2> QED
    BY <1>6, <2>2, <2>3
<1>8. DOMAIN used = {1, 2} => g[{1, 2}] = used[1] + used[2]
  <2> SUFFICES ASSUME DOMAIN used = {1, 2} PROVE g[{1, 2}] = used[1] + used[2]
    OBVIOUS
  <2>1. used[1] \in Nat /\ used[2] \in Nat
    BY CommandsUsed
  <2>2. Some({1, 2}) \in {1, 2}
    BY <1>1
  <2>3. g[{1, 2}] = used[Some({1, 2})] + g[{1, 2} \ {Some({1, 2})}]
    BY <1>5
  <2>4. {1, 2} \ {1} = {2} /\ {1, 2} \ {2} = {1}
    OBVIOUS
  <2>5. g[{1}] = used[1] /\ g[{2}] = used[2]
    BY <1>7
  <2>6. CASE Some({1, 2}) = 1
    BY <2>1, <2>3, <2>4, <2>5, <2>6
  <2>7. CASE Some({1, 2}) = 2
    <3>1. g[{1, 2}] = used[2] + used[1]
      BY <2>3, <2>4, <2>5, <2>7
    <3> QED
      BY <2>1, <3>1
  <2> QED
    BY <2>2, <2>6, <2>7
<1>9. FoldFunction(+, 0, used) = g[DOMAIN used]
  BY Zenon DEF FoldFunction, FoldFunctionOnSet, MapThenFoldSet, Folded, g
<1>10. CASE DOMAIN used = {}
  BY <1>6, <1>9, <1>10, UsedByFew
<1>11. CASE DOMAIN used = {1}
  <2>1. g[{1}] = used[1] /\ used[1] \in Nat
    BY <1>7, <1>11, CommandsUsed
  <2> QED
    BY <1>9, <1>11, <2>1, UsedByFew
<1>12. CASE DOMAIN used = {1, 2}
  BY <1>8, <1>9, <1>12, UsedByFew
<1> QED
  BY <1>10, <1>11, <1>12, CommandsUsed

\* So does the sum that the limit is held against.
LEMMA TotalOfUsed ==
  ASSUME NEW used \in UpTo({0, 2}, 2)
  PROVE  Totals(used)[Len(used)] = Used(used, DOMAIN used)
<1> DEFINE f == [i \in 0 .. Len(used) |-> Used(used, 1 .. i)]
<1>1. \A i \in 0 .. Len(used) : f[i] = IF i = 0 THEN 0 ELSE f[i - 1] + used[i]
  BY CommandsUsed DEF Used
<1>2. f = [i \in 0 .. Len(used) |-> IF i = 0 THEN 0 ELSE f[i - 1] + used[i]]
  <2>1. f = [i \in 0 .. Len(used) |-> f[i]]
    OBVIOUS
  <2> HIDE DEF f
  <2> QED
    BY <1>1, <2>1, Zenon
<1> HIDE DEF f
<1>3. Totals(used) = [i \in 0 .. Len(used) |->
                        IF i = 0 THEN 0 ELSE Totals(used)[i - 1] + used[i]]
  BY <1>2, Zenon DEF Totals
<1> DEFINE g == Totals(used)
<1>4. \A i \in 0 .. Len(used) : g[i] = IF i = 0 THEN 0 ELSE g[i - 1] + used[i]
  BY <1>3, Zenon
<1> HIDE DEF g
<1>5. Len(used) \in {0, 1, 2} /\ 0 .. 0 = {0} /\ 0 .. 1 = {0, 1} /\ 0 .. 2 = {0, 1, 2}
      /\ 1 .. 0 = {} /\ 1 .. 1 = {1} /\ 1 .. 2 = {1, 2}
  BY CommandsUsed
<1>6. g[0] = 0
  BY <1>4, <1>5
<1>7. CASE Len(used) = 0
  BY <1>5, <1>6, <1>7, CommandsUsed, UsedByFew DEF g
<1>8. CASE Len(used) \in {1, 2}
  <2>1. g[1] = g[0] + used[1] /\ used[1] \in Nat
    BY <1>4, <1>5, <1>8, CommandsUsed
  <2>2. Len(used) = 2 => g[2] = g[1] + used[2] /\ used[2] \in Nat
    BY <1>4, <1>5, CommandsUsed
  <2>3. CASE Len(used) = 1
    <3>1. DOMAIN used = {1} /\ g[1] = used[1]
      BY <1>5, <1>6, <2>1, <2>3, CommandsUsed
    <3> QED
      BY <2>1, <2>3, <3>1, UsedByFew DEF g
  <2>4. CASE Len(used) = 2
    <3>1. DOMAIN used = {1, 2} /\ g[2] = used[1] + used[2]
      BY <1>5, <1>6, <2>1, <2>2, <2>4, CommandsUsed
    <3> QED
      BY <2>4, <3>1, UsedByFew DEF g
  <2> QED
    BY <1>8, <2>3, <2>4
<1> QED
  BY <1>5, <1>7, <1>8

\* A run is stopped by its time or by what all its commands used.
LEMMA ExceededIs ==
  ASSUME NEW limits, NEW wall, NEW used \in UpTo({0, 2}, 2)
  PROVE  Exceeded(limits, wall, used) <=>
           \/ Passes(wall, limits.wall)
           \/ Passes(FoldFunction(+, 0, used), limits.tokens)
<1>1. Exceeded(limits, wall, used) <=>
        Passes(wall, limits.wall) \/ Passes(Totals(used)[Len(used)], limits.tokens)
  BY Zenon DEF Exceeded, Totals
<1>2. Totals(used)[Len(used)] = FoldFunction(+, 0, used)
  BY FoldOfUsed, TotalOfUsed, Zenon
<1> QED
  BY <1>1, <1>2, Zenon

\* What a question about the limits was, and its answer.
Projects == [wall : Settings, pi : Settings, runtime : Settings, tokens : Settings]
LimitsAnswer ==
  asked.about = "limits" =>
    /\ asked.in.yaml \in Projects /\ asked.in.wall \in {0, 2, 9}
    /\ asked.in.used \in UpTo({0, 2}, 2)
    /\ asked.out.refused = Invalid(asked.in.yaml)
    /\ asked.out.runtime = Limits(asked.in.yaml).runtime
    /\ asked.out.stops = Exceeded(Limits(asked.in.yaml), asked.in.wall, asked.in.used)

\* Every answer about the limits is that of the code.
LEMMA LimitsAnswered == Spec => []LimitsAnswer
<1>1. Init => LimitsAnswer
  BY DEF Init, LimitsAnswer
<1>2. LimitsAnswer /\ [Next]_asked => LimitsAnswer'
  <2> SUFFICES ASSUME LimitsAnswer, [Next]_asked PROVE LimitsAnswer'
    OBVIOUS
  <2>1. CASE UNCHANGED asked
    BY <2>1, Zenon DEF LimitsAnswer
  <2>2. ASSUME AskLimits PROVE LimitsAnswer'
    <3>1. PICK yaml \in Projects, wall \in {0, 2, 9}, used \in UpTo({0, 2}, 2) :
            Ask("limits", [yaml |-> yaml, wall |-> wall, used |-> used],
                [refused |-> Invalid(yaml), runtime |-> Limits(yaml).runtime,
                 stops |-> Exceeded(Limits(yaml), wall, used)])
      BY <2>2, Zenon DEF AskLimits, Projects
    <3> DEFINE refused == Invalid(yaml)
               runtime == Limits(yaml).runtime
               stops == Exceeded(Limits(yaml), wall, used)
    <3>2. /\ asked'.in = [yaml |-> yaml, wall |-> wall, used |-> used]
          /\ asked'.out = [refused |-> refused, runtime |-> runtime, stops |-> stops]
      BY <3>1, Asked, Zenon
    <3> HIDE DEF refused, runtime, stops
    <3>3. /\ asked'.in.yaml = yaml /\ asked'.in.wall = wall /\ asked'.in.used = used
          /\ asked'.out.refused = refused /\ asked'.out.runtime = runtime
          /\ asked'.out.stops = stops
      BY <3>2
    <3> QED
      BY <3>3, Zenon DEF LimitsAnswer, refused, runtime, stops
  <2>3. ASSUME Next PROVE AskLimits \/ asked'.about # "limits"
    BY <2>3, WhoAsks
  <2> QED
    BY <2>1, <2>2, <2>3, Zenon DEF LimitsAnswer
<1> QED
  BY <1>1, <1>2, PTL DEF Spec

\* The limits of a project file that was not refused: the wall clock and the
\* tokens stop a run, and only a file that says so takes its timeout away.
LEMMA LimitsOfProject ==
  ASSUME NEW y \in Projects, ~Invalid(y), NEW wall \in {0, 2, 9}, NEW sum \in Nat
  PROVE  /\ Passes(wall, Limits(y).wall) <=>
              wall > (IF y.wall = Absent THEN 8 ELSE IF y.wall.n > 0 THEN y.wall.n ELSE 9)
         /\ Passes(sum, Limits(y).tokens) <=> y.tokens.n > 0 /\ sum > y.tokens.n
         /\ Limits(y).runtime <= 0 =>
              LET named == IF y.runtime # Absent THEN y.runtime ELSE y.pi
              IN named = Off \/ named.n < 0
<1>1. \A s \in Settings : s.n \in -1 .. 2 /\ (s # Off /\ s # Nonsense /\ s # Absent => s.n # 0)
  BY DEF Settings, Off, Nonsense, Absent, Number
<1>2. y.wall \in Settings /\ y.pi \in Settings /\ y.runtime \in Settings
      /\ y.tokens \in Settings
  BY DEF Projects
<1>3. Absent.n = 0
  BY DEF Absent
<1>4. y.runtime # Nonsense /\ y.pi # Nonsense
  BY DEF Invalid
<1>5. /\ Limits(y).wall = IF y.wall = Absent THEN 8 ELSE y.wall.n
      /\ Limits(y).tokens = IF y.tokens = Absent THEN 0 ELSE y.tokens.n
      /\ Limits(y).runtime = IF y.runtime = Absent
                             THEN IF y.pi = Absent THEN 6 ELSE y.pi.n ELSE y.runtime.n
  BY DEF Limits, Setting
<1>6. Passes(wall, Limits(y).wall) <=>
        wall > (IF y.wall = Absent THEN 8 ELSE IF y.wall.n > 0 THEN y.wall.n ELSE 9)
  BY <1>1, <1>2, <1>5 DEF Passes
<1>7. Passes(sum, Limits(y).tokens) <=> y.tokens.n > 0 /\ sum > y.tokens.n
  BY <1>1, <1>2, <1>3, <1>5 DEF Passes
<1>8. Limits(y).runtime <= 0 =>
        LET named == IF y.runtime # Absent THEN y.runtime ELSE y.pi
        IN named = Off \/ named.n < 0
  BY <1>1, <1>2, <1>4, <1>5
<1> QED
  BY <1>6, <1>7, <1>8

\* An attempt is stopped by exactly the positive limits its project file
\* sets, or by the eight units of time it has without one; it runs without a
\* timeout only if the file says so (budget.go:126, runbudget/budget.go:11).
THEOREM LimitsStopRuns == Spec => []LimitsHold
<1>1. LimitsAnswer => LimitsHold
  <2> SUFFICES ASSUME LimitsAnswer, asked.about = "limits", ~asked.out.refused
               PROVE  LimitsHold
    BY DEF LimitsHold
  <2> DEFINE y == asked.in.yaml
             wall == asked.in.wall
             used == asked.in.used
             sum == FoldFunction(+, 0, used)
  <2>1. /\ y \in Projects /\ ~Invalid(y) /\ wall \in {0, 2, 9} /\ used \in UpTo({0, 2}, 2)
        /\ asked.out.runtime = Limits(y).runtime
        /\ asked.out.stops = Exceeded(Limits(y), wall, used)
    BY Zenon DEF LimitsAnswer
  <2> HIDE DEF y, wall, used
  <2>2. sum \in Nat
    <3>1. sum = Used(used, DOMAIN used)
      BY <2>1, FoldOfUsed, Zenon
    <3>2. Used(used, DOMAIN used) \in Nat
      BY <2>1, CommandsUsed DEF Used
    <3> QED
      BY <3>1, <3>2, Zenon
  <2>3. asked.out.stops <=> Passes(wall, Limits(y).wall) \/ Passes(sum, Limits(y).tokens)
    BY <2>1, ExceededIs, Zenon
  <2> HIDE DEF sum
  <2>4. /\ Passes(wall, Limits(y).wall) <=>
             wall > (IF y.wall = Absent THEN 8 ELSE IF y.wall.n > 0 THEN y.wall.n ELSE 9)
        /\ Passes(sum, Limits(y).tokens) <=> y.tokens.n > 0 /\ sum > y.tokens.n
        /\ Limits(y).runtime <= 0 =>
             LET named == IF y.runtime # Absent THEN y.runtime ELSE y.pi
             IN named = Off \/ named.n < 0
    BY <2>1, <2>2, LimitsOfProject, Zenon
  <2>5. /\ asked.out.stops <=>
             \/ wall > (IF y.wall = Absent THEN 8 ELSE IF y.wall.n > 0 THEN y.wall.n ELSE 9)
             \/ y.tokens.n > 0 /\ sum > y.tokens.n
        /\ asked.out.runtime <= 0 =>
             LET named == IF y.runtime # Absent THEN y.runtime ELSE y.pi
             IN named = Off \/ named.n < 0
    BY <2>1, <2>3, <2>4, Zenon
  <2> QED
    BY <2>5, Zenon DEF LimitsHold, y, wall, used, sum
<1> QED
  BY <1>1, LimitsAnswered, PTL
=============================================================================
