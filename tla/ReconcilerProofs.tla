-------------------------- MODULE ReconcilerProofs --------------------------
(* What the rule lists of the Reconciler come to, for any view whatever:    *)
(* any record, pull request, number of checks and state.                    *)
EXTENDS Reconciler, TLAPS, WellFoundedInduction

----------------------------------------------------------------------------
(* Lists of rules.                                                         *)

\* Some natural numbers have a least one.
LEMMA LeastOfSome ==
  ASSUME NEW S \in SUBSET Nat, S # {}
  PROVE  Min(S) \in S /\ \A n \in S : Min(S) <= n
<1>1. PICK m \in S : \A n \in S : ~(<<n, m>> \in OpToRel(<, Nat))
  BY NatLessThanWellFounded, WFMin
<1>2. \A n \in S : m <= n
  <2> TAKE n \in S
  <2>1. n \in Nat /\ m \in Nat
    OBVIOUS
  <2>2. <<n, m>> \in Nat \X Nat
    BY <2>1
  <2>3. ~(n < m)
    BY <1>1, <2>2 DEF OpToRel
  <2> QED
    BY <2>1, <2>3
<1> QED
  BY <1>2 DEF Min

\* The first rule that applies decides, and none before it applies.
LEMMA FirstRuleDecides ==
  ASSUME NEW rules, NEW otherwise, NEW n \in Nat, DOMAIN rules = 1 .. n
  PROVE  \/ /\ \A i \in 1 .. n : ~rules[i][1]
            /\ FirstRule(rules, otherwise) = otherwise
         \/ \E i \in 1 .. n : /\ rules[i][1]
                              /\ \A j \in 1 .. n : j < i => ~rules[j][1]
                              /\ FirstRule(rules, otherwise) = rules[i][2]
<1> DEFINE hits == {i \in DOMAIN rules : rules[i][1]}
<1>1. CASE hits = {}
  BY <1>1 DEF FirstRule
<1>2. CASE hits # {}
  <2>1. hits \in SUBSET Nat
    OBVIOUS
  <2>2. Min(hits) \in hits /\ \A i \in hits : Min(hits) <= i
    BY <1>2, <2>1, LeastOfSome
  <2>3. FirstRule(rules, otherwise) = rules[Min(hits)][2]
    BY <1>2 DEF FirstRule
  <2>4. Min(hits) \in 1 .. n /\ rules[Min(hits)][1]
    BY <2>2
  <2>5. ASSUME NEW j \in 1 .. n, j < Min(hits) PROVE ~rules[j][1]
    <3>1. j \notin hits
      <4> DEFINE m == Min(hits)
      <4>1. m \in Nat /\ j < m /\ (j \in hits => m <= j)
        BY <2>1, <2>2, <2>5
      <4> HIDE DEF m, hits
      <4> QED
        BY <4>1
    <3> QED
      BY <3>1
  <2> QED
    BY <2>3, <2>4, <2>5
<1> QED
  BY <1>1, <1>2

----------------------------------------------------------------------------
(* The reconciler.                                                         *)

\* A decision has its fields.
LEMMA DecisionFields ==
  ASSUME NEW life, NEW next
  PROVE  /\ LET d == Blocked(life, next)
            IN /\ DOMAIN d = {"life", "next", "run", "merge", "retry", "quarantine", "repair"}
               /\ d.next = next /\ ~d.run /\ ~d.merge /\ ~d.retry
         /\ LET d == Admitted(life, next)
            IN /\ DOMAIN d = {"life", "next", "run", "merge", "retry", "quarantine", "repair"}
               /\ d.next = next /\ d.run /\ ~d.merge /\ d.retry
         /\ \A run \in BOOLEAN :
              LET d == [Admitted(life, next) EXCEPT !.run = run]
              IN /\ DOMAIN d = {"life", "next", "run", "merge", "retry", "quarantine", "repair"}
                 /\ d.next = next /\ d.run = run /\ ~d.merge /\ d.retry
         /\ LET d == Quarantined(next)
            IN /\ DOMAIN d = {"life", "next", "run", "merge", "retry", "quarantine", "repair"}
               /\ d.next = next /\ ~d.run /\ ~d.merge /\ ~d.retry
         /\ /\ DOMAIN RunAgent = {"life", "next", "run", "merge", "retry", "quarantine", "repair"}
            /\ RunAgent.next = "run_agent" /\ RunAgent.run /\ ~RunAgent.merge /\ ~RunAgent.retry
         /\ /\ DOMAIN MergeApproved = {"life", "next", "run", "merge", "retry", "quarantine", "repair"}
            /\ MergeApproved.next = "merge_approved_pr"
            /\ ~MergeApproved.run /\ MergeApproved.merge /\ ~MergeApproved.retry
  BY DEF Blocked, Admitted, Quarantined, RunAgent, MergeApproved

\* Nobody has the issue, nothing is in doubt, and its state is one to act in.
Quiet(v) ==
  /\ ~v.blocked /\ ~v.lock /\ ~v.broken /\ ~Unmapped(v) /\ ~v.lease
  /\ ~ArtifactOnly(v) /\ ~ArtifactConflict(v)
  /\ v.state \notin {"NeedsInfo", "Done"}

\* What a decision says is next where a lane does something about it.
Acted == {"run_agent", "capture_feedback_and_retry", "run_semantic_review_after_checks_ready",
          "retry_with_unresolved_pr_feedback", "reconcile_linear_state", "merge_approved_pr",
          "operator_repair_or_clear_artifact", "repair_review_findings_before_handoff"}

Decision(d) == DOMAIN d = {"life", "next", "run", "merge", "retry", "quarantine", "repair"}

\* Nothing is to be done.
Idle(d) == ~d.run /\ ~d.merge /\ ~d.retry /\ d.next \notin Acted

Waits(d) == Decision(d) /\ Idle(d)

\* The early rules hold back every issue that is not quiet.
LEMMA EarlyRulesHoldBack ==
  ASSUME NEW v
  PROVE  LET e == FirstRule(EarlyRules(v), RunAgent)
         IN \/ e = RunAgent /\ Quiet(v)
            \/ e # RunAgent /\ ~Quiet(v) /\ Waits(e)
<1> DEFINE r1 == <<v.blocked, Blocked("blocked", "operator_unblock_issue")>>
           r2 == <<v.lock, Blocked("running", "wait_for_or_clear_run_lock")>>
           r3 == <<v.broken \/ Unmapped(v), Blocked("blocked", "repair_sqlite_state_store")>>
           r4 == <<v.lease, Blocked("running", "wait_for_or_release_run_lease")>>
           r5 == <<ArtifactOnly(v), Blocked("blocked", "repair_sqlite_state_store")>>
           r6 == <<ArtifactConflict(v), Blocked("blocked", "repair_artifact_or_sqlite_state")>>
           r7 == <<v.state = "NeedsInfo", Blocked("needs_info", "answer_questions_then_move_ready")>>
           r8 == <<v.state = "Done", Blocked("done", "cleanup_workspace")>>
           rules == <<r1, r2, r3, r4, r5, r6, r7, r8>>
           e == FirstRule(rules, RunAgent)
<1>1. EarlyRules(v) = rules
  BY DEF EarlyRules
<1>2. Quiet(v) <=> ~r1[1] /\ ~r2[1] /\ ~r3[1] /\ ~r4[1] /\ ~r5[1] /\ ~r6[1] /\ ~r7[1] /\ ~r8[1]
  BY DEF Quiet
<1>3. /\ Waits(r1[2])
      /\ Waits(r2[2])
      /\ Waits(r3[2])
      /\ Waits(r4[2])
      /\ Waits(r5[2])
      /\ Waits(r6[2])
      /\ Waits(r7[2])
      /\ Waits(r8[2])
  BY DecisionFields DEF Waits, Idle, Decision, Acted
<1> HIDE DEF r1, r2, r3, r4, r5, r6, r7, r8
<1>4. /\ DOMAIN rules = 1 .. 8
      /\ rules[1] = r1
      /\ rules[2] = r2
      /\ rules[3] = r3
      /\ rules[4] = r4
      /\ rules[5] = r5
      /\ rules[6] = r6
      /\ rules[7] = r7
      /\ rules[8] = r8
  OBVIOUS
<1> HIDE DEF rules
<1>5. \/ e = RunAgent /\ \A i \in 1 .. 8 : ~rules[i][1]
      \/ \E i \in 1 .. 8 : rules[i][1] /\ e = rules[i][2]
  BY <1>4, FirstRuleDecides
<1> HIDE DEF e
<1>6. CASE e = RunAgent /\ \A i \in 1 .. 8 : ~rules[i][1]
  BY <1>1, <1>2, <1>4, <1>6 DEF e
<1>7. CASE \E i \in 1 .. 8 : rules[i][1] /\ e = rules[i][2]
  <2>1. Waits(e) /\ ~Quiet(v)
    BY <1>2, <1>3, <1>4, <1>7
  <2>2. e # RunAgent
    BY <2>1, DecisionFields DEF Waits, Idle
  <2> QED
    BY <1>1, <2>1, <2>2 DEF e
<1> QED
  BY <1>5, <1>6, <1>7

\* What becomes of an issue with an open pull request.
PRDecision(v, d) ==
  \/ Idle(d)
  \/ /\ v.facts.status # "" /\ v.pr.valid
     /\ \/ /\ v.pr.review = "CHANGES_REQUESTED"
           /\ d.next = "capture_feedback_and_retry"
           /\ d.run = Runnable(v.state) /\ ~d.merge /\ d.retry
        \/ /\ ReviewReady(v)
           /\ d.next = "run_semantic_review_after_checks_ready"
           /\ d.run /\ ~d.merge /\ d.retry
        \/ /\ FeedbackRetry(v)
           /\ d.next = "retry_with_unresolved_pr_feedback"
           /\ d.run /\ ~d.merge /\ d.retry
        \/ /\ v.state # "Handoff"
           /\ d.next = "reconcile_linear_state"
           /\ ~d.run /\ ~d.merge /\ ~d.retry
        \/ /\ v.state = "Handoff" /\ v.pr.review = "APPROVED" /\ MergeGate(v.pr) = ""
           /\ ~MergeBlockedByFacts(v.facts, v.pr.url) /\ ~v.inUse
           /\ d.next = "merge_approved_pr"
           /\ ~d.run /\ d.merge /\ ~d.retry

\* With a pull request and no earlier rule, the decision is the one of the rules
\* about pull requests.
LEMMA PRRulesDecide ==
  ASSUME NEW v
  PROVE  LET d == FirstRule(PRRules(v), MergeApproved) IN Decision(d) /\ PRDecision(v, d)
<1> DEFINE r1 == <<v.facts.status = "", Blocked("blocked", "repair_sqlite_state_store")>>
           r2 == <<~v.pr.valid, Quarantined("close_or_repair_invalid_pr")>>
           r3 == <<v.pr.review = "CHANGES_REQUESTED",
                   [Admitted("feedback_retry", "capture_feedback_and_retry") EXCEPT !.run = Runnable(v.state)]>>
           r4 == <<ReviewReady(v), Admitted("running", "run_semantic_review_after_checks_ready")>>
           r5 == <<FeedbackRetry(v), Admitted("feedback_retry", "retry_with_unresolved_pr_feedback")>>
           r6 == <<v.state # "Handoff", Blocked("blocked", "reconcile_linear_state")>>
           r7 == <<v.pr.review # "APPROVED", Blocked("handoff_ready", "await_human_approval")>>
           r8 == <<MergeGate(v.pr) # "", Blocked("handoff_ready", "wait_for_green_mergeable_pr")>>
           r9 == <<MergeBlockedByFacts(v.facts, v.pr.url), Quarantined("repair_run_artifact_before_merge")>>
           r10 == <<v.inUse, Blocked("blocked", "clear_workspace_lock_or_changes")>>
           rules == <<r1, r2, r3, r4, r5, r6, r7, r8, r9, r10>>
           d == FirstRule(rules, MergeApproved)
<1>1. PRRules(v) = rules
  BY DEF PRRules
<1>2. /\ r1[1] <=> v.facts.status = ""
      /\ r2[1] <=> ~v.pr.valid
      /\ r3[1] <=> v.pr.review = "CHANGES_REQUESTED"
      /\ r4[1] <=> ReviewReady(v)
      /\ r5[1] <=> FeedbackRetry(v)
      /\ r6[1] <=> v.state # "Handoff"
      /\ r7[1] <=> v.pr.review # "APPROVED"
      /\ r8[1] <=> MergeGate(v.pr) # ""
      /\ r9[1] <=> MergeBlockedByFacts(v.facts, v.pr.url)
      /\ r10[1] <=> v.inUse
  OBVIOUS
<1>3. /\ Waits(r1[2])
      /\ Waits(r2[2])
      /\ Waits(r7[2])
      /\ Waits(r8[2])
      /\ Waits(r9[2])
      /\ Waits(r10[2])
  BY DecisionFields DEF Waits, Idle, Decision, Acted
<1>4. Runnable(v.state) \in BOOLEAN
  BY DEF Runnable
<1>5. /\ Decision(r3[2])
      /\ r3[2].next = "capture_feedback_and_retry"
      /\ r3[2].run = Runnable(v.state) /\ ~r3[2].merge /\ r3[2].retry
  BY <1>4, DecisionFields DEF Decision
<1>6. /\ Decision(r4[2])
      /\ r4[2].next = "run_semantic_review_after_checks_ready"
      /\ r4[2].run /\ ~r4[2].merge /\ r4[2].retry
  BY DecisionFields DEF Decision
<1>7. /\ Decision(r5[2])
      /\ r5[2].next = "retry_with_unresolved_pr_feedback"
      /\ r5[2].run /\ ~r5[2].merge /\ r5[2].retry
  BY DecisionFields DEF Decision
<1>8. /\ Decision(r6[2])
      /\ r6[2].next = "reconcile_linear_state"
      /\ ~r6[2].run /\ ~r6[2].merge /\ ~r6[2].retry
  BY DecisionFields DEF Decision
<1>9. /\ Decision(MergeApproved)
      /\ MergeApproved.next = "merge_approved_pr"
      /\ ~MergeApproved.run /\ MergeApproved.merge /\ ~MergeApproved.retry
  BY DecisionFields DEF Decision
<1> HIDE DEF r1, r2, r3, r4, r5, r6, r7, r8, r9, r10
<1>10. /\ DOMAIN rules = 1 .. 10
       /\ rules[1] = r1
       /\ rules[2] = r2
       /\ rules[3] = r3
       /\ rules[4] = r4
       /\ rules[5] = r5
       /\ rules[6] = r6
       /\ rules[7] = r7
       /\ rules[8] = r8
       /\ rules[9] = r9
       /\ rules[10] = r10
  OBVIOUS
<1> HIDE DEF rules
<1>11. \/ d = MergeApproved /\ \A i \in 1 .. 10 : ~rules[i][1]
       \/ \E i \in 1 .. 10 : /\ rules[i][1]
                             /\ \A j \in 1 .. 10 : j < i => ~rules[j][1]
                             /\ d = rules[i][2]
  BY <1>10, FirstRuleDecides
<1> HIDE DEF d
<1>12. ASSUME d = MergeApproved, \A i \in 1 .. 10 : ~rules[i][1]
       PROVE  Decision(d) /\ PRDecision(v, d)
  <2>1. ~r1[1] /\ ~r2[1] /\ ~r3[1] /\ ~r4[1] /\ ~r5[1] /\ ~r6[1] /\ ~r7[1] /\ ~r8[1] /\ ~r9[1] /\ ~r10[1]
    BY <1>10, <1>12
  <2>2. /\ v.facts.status # "" /\ v.pr.valid
        /\ v.state = "Handoff" /\ v.pr.review = "APPROVED" /\ MergeGate(v.pr) = ""
        /\ ~MergeBlockedByFacts(v.facts, v.pr.url) /\ ~v.inUse
    BY <1>2, <2>1
  <2>3. /\ Decision(d) /\ d.next = "merge_approved_pr"
        /\ ~d.run /\ d.merge /\ ~d.retry
    BY <1>9, <1>12
  <2> QED
    BY <2>2, <2>3 DEF PRDecision
<1>13. ASSUME \E i \in 1 .. 10 : /\ rules[i][1]
                                 /\ \A j \in 1 .. 10 : j < i => ~rules[j][1]
                                 /\ d = rules[i][2]
       PROVE  Decision(d) /\ PRDecision(v, d)
  <2>1. PICK i \in 1 .. 10 : /\ rules[i][1]
                             /\ \A j \in 1 .. 10 : j < i => ~rules[j][1]
                             /\ d = rules[i][2]
    BY <1>13
  <2>2. CASE i \in {1, 2, 7, 8, 9, 10}
    BY <1>3, <1>10, <2>1, <2>2 DEF PRDecision, Waits
  <2>3. CASE i \in {3, 4, 5, 6}
    <3>1. ~r1[1] /\ ~r2[1]
      BY <1>10, <2>1, <2>3
    <3>2. \/ r3[1] /\ d = r3[2]
          \/ r4[1] /\ d = r4[2]
          \/ r5[1] /\ d = r5[2]
          \/ r6[1] /\ d = r6[2]
      BY <1>10, <2>1, <2>3
    <3> QED
      BY <1>2, <1>5, <1>6, <1>7, <1>8, <3>1, <3>2 DEF PRDecision
  <2> QED
    BY <2>2, <2>3
<1>14. Decision(d) /\ PRDecision(v, d)
  BY <1>11, <1>12, <1>13
<1> QED
  BY <1>1, <1>14 DEF d

\* What becomes of an issue without an open pull request.
RecordDecision(v, d) ==
  \/ Idle(d)
  \/ /\ ~Mapped(v) /\ v.facts.status # "review_failed"
     /\ \/ /\ TerminalStatus(v.facts.status)
           /\ d.next = "operator_repair_or_clear_artifact"
           /\ ~d.run /\ ~d.merge /\ ~d.retry
        \/ /\ ~TerminalStatus(v.facts.status)
           /\ d.next = "run_agent"
           /\ d.run = Runnable(v.state) /\ ~d.merge /\ ~d.retry

\* With no rule before them, the decision is the one of the rules about records.
LEMMA RecordRulesDecide ==
  ASSUME NEW v
  PROVE  LET d == FirstRule(RecordRules(v), IF Runnable(v.state) THEN RunAgent ELSE Settled)
         IN Decision(d) /\ RecordDecision(v, d)
<1> DEFINE r1 == <<Mapped(v), Blocked("blocked", "reconcile_missing_or_closed_pr_mapping")>>
           r2 == <<v.facts.status = "review_failed",
                   Blocked("review_failed", "repair_review_findings_before_retry")>>
           r3 == <<v.facts.status \in {"needs_info", "needs_info_failed"},
                   Blocked("needs_info", "answer_questions_then_retry")>>
           r4 == <<v.facts.status \in {"merged", "superseded"}, Blocked("done", "cleanup_workspace")>>
           r5 == <<TerminalStatus(v.facts.status), Blocked("blocked", "operator_repair_or_clear_artifact")>>
           rules == <<r1, r2, r3, r4, r5>>
           otherwise == IF Runnable(v.state) THEN RunAgent ELSE Settled
           d == FirstRule(rules, otherwise)
<1>1. RecordRules(v) = rules
  BY DEF RecordRules
<1>2. /\ r1[1] <=> Mapped(v)
      /\ r2[1] <=> v.facts.status = "review_failed"
      /\ r5[1] <=> TerminalStatus(v.facts.status)
  OBVIOUS
<1>3. /\ Waits(r1[2])
      /\ Waits(r2[2])
      /\ Waits(r3[2])
      /\ Waits(r4[2])
  BY DecisionFields DEF Waits, Idle, Decision, Acted
<1>4. /\ Decision(r5[2])
      /\ r5[2].next = "operator_repair_or_clear_artifact"
      /\ ~r5[2].run /\ ~r5[2].merge /\ ~r5[2].retry
  BY DecisionFields DEF Decision
<1>5. /\ Decision(otherwise)
      /\ otherwise.next = "run_agent"
      /\ otherwise.run = Runnable(v.state) /\ ~otherwise.merge /\ ~otherwise.retry
  <2>1. CASE Runnable(v.state)
    <3>1. Runnable(v.state) = TRUE /\ otherwise = RunAgent
      BY <2>1 DEF Runnable
    <3> QED
      BY <3>1 DEF RunAgent, Blocked, Decision
  <2>2. CASE ~Runnable(v.state)
    <3>1. Runnable(v.state) = FALSE /\ otherwise = Settled
      BY <2>2 DEF Runnable
    <3> QED
      BY <3>1 DEF Settled, Blocked, Decision
  <2> QED
    BY <2>1, <2>2
<1> HIDE DEF r1, r2, r3, r4, r5, otherwise
<1>6. /\ DOMAIN rules = 1 .. 5
      /\ rules[1] = r1
      /\ rules[2] = r2
      /\ rules[3] = r3
      /\ rules[4] = r4
      /\ rules[5] = r5
  OBVIOUS
<1> HIDE DEF rules
<1>7. \/ d = otherwise /\ \A i \in 1 .. 5 : ~rules[i][1]
      \/ \E i \in 1 .. 5 : /\ rules[i][1]
                           /\ \A j \in 1 .. 5 : j < i => ~rules[j][1]
                           /\ d = rules[i][2]
  BY <1>6, FirstRuleDecides
<1> HIDE DEF d
<1>8. CASE d = otherwise /\ \A i \in 1 .. 5 : ~rules[i][1]
  <2>1. ~r1[1] /\ ~r2[1] /\ ~r5[1]
    BY <1>6, <1>8
  <2> QED
    BY <1>1, <1>2, <1>5, <1>8, <2>1 DEF RecordDecision, d, otherwise
<1>9. ASSUME NEW i \in 1 .. 5, rules[i][1], \A j \in 1 .. 5 : j < i => ~rules[j][1],
             d = rules[i][2]
      PROVE  Decision(d) /\ RecordDecision(v, d)
  <2>1. CASE i \in {1, 2, 3, 4}
    BY <1>3, <1>6, <1>9, <2>1 DEF RecordDecision, Waits
  <2>2. CASE i = 5
    <3>1. ~r1[1] /\ ~r2[1] /\ r5[1] /\ d = r5[2]
      BY <1>6, <1>9, <2>2
    <3> QED
      BY <1>2, <1>4, <3>1 DEF RecordDecision
  <2> QED
    BY <2>1, <2>2
<1> QED
  BY <1>1, <1>7, <1>8, <1>9 DEF d, otherwise

\* The repair flag leaves the other fields alone.
LEMMA WithRepair ==
  ASSUME NEW d, Decision(d), NEW flag
  PROVE  LET e == [d EXCEPT !.repair = flag]
         IN /\ e.next = d.next /\ e.run = d.run /\ e.merge = d.merge /\ e.retry = d.retry
            /\ e.repair = flag
            /\ Decision(e)
BY DEF Decision

\* The decision for any view: nothing is done about an issue that is not quiet,
\* and the pull request if there is one, else the record, decides about the rest.
LEMMA Reconciled ==
  ASSUME NEW v
  PROVE  LET d == Reconcile(v)
         IN /\ Decision(d)
            /\ \/ Idle(d)
               \/ Quiet(v) /\ v.pr # NoPR /\ PRDecision(v, d)
               \/ Quiet(v) /\ v.pr = NoPR /\ RecordDecision(v, d)
<1> DEFINE early == FirstRule(EarlyRules(v), RunAgent)
           onPR == FirstRule(PRRules(v), MergeApproved)
           onRecord == FirstRule(RecordRules(v), IF Runnable(v.state) THEN RunAgent ELSE Settled)
           asked == early = RunAgent /\ v.pr # NoPR
           decision == IF asked THEN onPR ELSE IF early # RunAgent THEN early ELSE onRecord
           mismatch == v.facts.status = "" \/ v.facts.url \notin {0, v.pr.url}
           flag == NeedsRepair(v) \/ (asked /\ mismatch)
           d == [decision EXCEPT !.repair = flag]
<1>1. Reconcile(v) = d
  BY DEF Reconcile
<1>2. \/ early = RunAgent /\ Quiet(v)
      \/ early # RunAgent /\ Decision(early) /\ Idle(early)
  BY EarlyRulesHoldBack DEF Waits
<1>3. Decision(onPR) /\ PRDecision(v, onPR)
  BY PRRulesDecide
<1>4. Decision(onRecord) /\ RecordDecision(v, onRecord)
  BY RecordRulesDecide
<1> HIDE DEF early, onPR, onRecord
<1>5. /\ Decision(decision)
      /\ \/ Idle(decision)
         \/ Quiet(v) /\ v.pr # NoPR /\ PRDecision(v, decision)
         \/ Quiet(v) /\ v.pr = NoPR /\ RecordDecision(v, decision)
  BY <1>2, <1>3, <1>4
<1> HIDE DEF decision, flag
<1>6. /\ d.next = decision.next /\ d.run = decision.run /\ d.merge = decision.merge
      /\ d.retry = decision.retry /\ Decision(d)
  BY <1>5, WithRepair
<1> HIDE DEF d
<1>7. /\ Idle(decision) => Idle(d)
      /\ PRDecision(v, decision) => PRDecision(v, d)
      /\ RecordDecision(v, decision) => RecordDecision(v, d)
  BY <1>6 DEF Idle, PRDecision, RecordDecision
<1> QED
  BY <1>1, <1>5, <1>6, <1>7

\* A rejected pull request goes back to the agent from a decision that would
\* only have its Linear state reconciled.
LEMMA RepairedOrNot ==
  ASSUME NEW v
  PROVE  \/ /\ Repaired(v) = Reconcile(v)
            /\ ~Repairable(v, Reconcile(v))
         \/ /\ Repaired(v).run /\ ~Repaired(v).merge /\ Repaired(v).retry
            /\ Repaired(v).next = "repair_review_findings_before_handoff"
            /\ Quiet(v) /\ v.pr # NoPR /\ v.pr.valid /\ Runnable(v.state)
            /\ v.facts.status = "review_failed" /\ v.facts.class = "behavior_spec_blocker"
            /\ ~Reconcile(v).run /\ ~Reconcile(v).merge
<1> DEFINE d == Reconcile(v)
           repair == Admitted("review_failed", "repair_review_findings_before_handoff")
<1>1. CASE ~Repairable(v, d)
  BY <1>1 DEF Repaired
<1>2. CASE Repairable(v, d)
  <2>1. Repaired(v) = repair
    BY <1>2 DEF Repaired
  <2>2. /\ repair.next = "repair_review_findings_before_handoff"
        /\ repair.run /\ ~repair.merge /\ repair.retry
    BY DecisionFields
  <2> HIDE DEF repair
  <2>4. /\ v.pr # NoPR /\ v.pr.valid /\ Runnable(v.state)
        /\ d.next \in {"reconcile_linear_state", "repair_review_findings_before_handoff"}
        /\ v.facts.status = "review_failed" /\ v.facts.class = "behavior_spec_blocker"
    BY <1>2 DEF Repairable
  <2>5. Quiet(v) /\ PRDecision(v, d)
    BY <2>4, Reconciled DEF Idle, Acted
  <2>6. ~d.run /\ ~d.merge
    BY <2>4, <2>5 DEF PRDecision, Idle
  <2> QED
    BY <2>1, <2>2, <2>4, <2>5, <2>6
<1> QED
  BY <1>1, <1>2

\* Whatever is to run is quiet, and a run for an open pull request is a repair,
\* its feedback or a resumed review.
LEMMA RunsAreQuiet ==
  ASSUME NEW v, Repaired(v).run
  PROVE  /\ Quiet(v) /\ Runnable(v.state)
         /\ v.pr # NoPR =>
              /\ v.pr.valid
              /\ \/ Repaired(v).next = "run_semantic_review_after_checks_ready"
                 \/ v.pr.review = "CHANGES_REQUESTED"
                 \/ v.facts.status = "success" /\ v.feedback
                 \/ v.facts.status = "review_failed" /\ v.facts.class = "behavior_spec_blocker"
<1>1. CASE Repaired(v) = Reconcile(v)
  <2> DEFINE d == Reconcile(v)
  <2>1. \/ Quiet(v) /\ v.pr # NoPR /\ PRDecision(v, d)
        \/ Quiet(v) /\ v.pr = NoPR /\ RecordDecision(v, d)
    BY <1>1, Reconciled DEF Idle
  <2> HIDE DEF d
  <2> QED
    BY <1>1, <2>1 DEF d, PRDecision, RecordDecision, Idle, ReviewReady, FeedbackRetry, Runnable
<1> QED
  BY <1>1, RepairedOrNot

\* A merge is of an approved, valid pull request that passes the gate, that the
\* store vouches for, and that is not run for anything.
LEMMA MergesArePermitted ==
  ASSUME NEW v, Reconcile(v).merge
  PROVE  /\ Quiet(v) /\ v.state = "Handoff" /\ v.pr # NoPR
         /\ v.pr.valid /\ v.pr.review = "APPROVED" /\ MergeGate(v.pr) = ""
         /\ ~MergeBlockedByFacts(v.facts, v.pr.url) /\ ~v.inUse
         /\ Repaired(v) = Reconcile(v) /\ ~Reconcile(v).run
<1> DEFINE d == Reconcile(v)
<1>1. Quiet(v) /\ v.pr # NoPR /\ PRDecision(v, d)
  BY Reconciled DEF Idle, RecordDecision
<1>2. /\ v.state = "Handoff" /\ v.pr.valid /\ v.pr.review = "APPROVED"
      /\ MergeGate(v.pr) = "" /\ ~MergeBlockedByFacts(v.facts, v.pr.url) /\ ~v.inUse
      /\ ~d.run
  BY <1>1 DEF PRDecision, Idle
<1> QED
  BY <1>1, <1>2, RepairedOrNot
----------------------------------------------------------------------------
(* Cleanup.                                                                *)

\* What is deleted is clean and safe, its issue is done and the store knows it;
\* its attempt had ended, or its pull request is merged.
LEMMA DeletesAreOfTheDone ==
  ASSUME NEW w, CleanupDecision(w).delete
  PROVE  /\ ~w.unsafe /\ ~w.dirty /\ w.ours /\ w.done
         /\ w.facts.status # "none"
         /\ \/ TerminalStatus(IF w.facts.status = "" THEN w.facts.outcome ELSE w.facts.status)
            \/ w.facts.url # 0 /\ w.branch /\ w.pr = "merged"
<1> DEFINE status == IF w.facts.status = "" THEN w.facts.outcome ELSE w.facts.status
           r1 == <<w.unsafe, Keep("unsafe")>>
           r2 == <<w.dirty, Keep("dirty")>>
           r3 == <<w.facts.status = "none" \/ ~w.ours, Keep("reconciliation-needed")>>
           r4 == <<~w.done, Keep(IF TerminalStatus(status) THEN "not-done" ELSE "non-terminal")>>
           r5 == <<TerminalStatus(status), Delete("completed")>>
           r6 == <<w.facts.url # 0 /\ w.branch /\ w.pr = "merged", Delete("merged-pr")>>
           rules == <<r1, r2, r3, r4, r5, r6>>
           d == FirstRule(rules, Keep("reconciliation-needed"))
<1>1. d.delete
  BY DEF CleanupDecision
<1>2. /\ ~r1[2].delete /\ ~r2[2].delete /\ ~r3[2].delete /\ ~r4[2].delete
      /\ ~Keep("reconciliation-needed").delete
  BY DEF Keep
<1>3. /\ r1[1] <=> w.unsafe
      /\ r2[1] <=> w.dirty
      /\ r3[1] <=> w.facts.status = "none" \/ ~w.ours
      /\ r4[1] <=> ~w.done
      /\ r5[1] <=> TerminalStatus(status)
      /\ r6[1] <=> w.facts.url # 0 /\ w.branch /\ w.pr = "merged"
  OBVIOUS
<1> HIDE DEF r1, r2, r3, r4, r5, r6
<1>4. /\ DOMAIN rules = 1 .. 6
      /\ rules[1] = r1
      /\ rules[2] = r2
      /\ rules[3] = r3
      /\ rules[4] = r4
      /\ rules[5] = r5
      /\ rules[6] = r6
  OBVIOUS
<1> HIDE DEF rules
<1>5. \/ d = Keep("reconciliation-needed")
      \/ \E i \in 1 .. 6 : /\ rules[i][1]
                           /\ \A j \in 1 .. 6 : j < i => ~rules[j][1]
                           /\ d = rules[i][2]
  BY <1>4, FirstRuleDecides
<1> HIDE DEF d
<1>6. PICK i \in 1 .. 6 : /\ rules[i][1]
                          /\ \A j \in 1 .. 6 : j < i => ~rules[j][1]
                          /\ d = rules[i][2]
  BY <1>1, <1>2, <1>5
<1>7. i \in {5, 6}
  BY <1>1, <1>2, <1>4, <1>6
<1>8. ~r1[1] /\ ~r2[1] /\ ~r3[1] /\ ~r4[1]
  BY <1>4, <1>6, <1>7
<1>9. r5[1] \/ r6[1]
  BY <1>4, <1>6, <1>7
<1> QED
  BY <1>3, <1>8, <1>9
=============================================================================
