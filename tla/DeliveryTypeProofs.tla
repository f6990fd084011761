---------------------------- MODULE DeliveryTypeProofs -------------------------
(***************************************************************************)
(* Delivery's type invariant, for any set of lanes and any bounds.  It     *)
(* bounds numbers that several steps hand on: versions by the attempts     *)
(* there were, urls by the rounds of the humans.  What makes it inductive  *)
(* is said in four parts, each kept by every step: the pull requests that  *)
(* there were, the versions that there were, the copies that jobs,         *)
(* payloads and records have of their numbers, and the rows of the merge   *)
(* lane.                                                                   *)
(***************************************************************************)
EXTENDS DeliveryProofs, FiniteSetTheorems

-----------------------------------------------------------------------------
(* Pull requests.                                                          *)

\* What humans say of a pull request.
Decided == {"APPROVED", "CHANGES_REQUESTED"}
Reviews == {""} \cup Decided

\* What a pull request is described by.
PRFields == {"url", "valid", "review", "merge", "checks"}

\* How many pull requests there were, the open one included.
Opened == Cardinality(landed) + (IF pr = NoPR THEN 0 ELSE 1)

\* A human or the merge lane has to review or merge a pull request before
\* there can be another: every round has one pull request at most.
Rounds == Cardinality(landed) + (IF pr.review \in Decided THEN 1 ELSE 0)

\* Pull requests are numbered in the order they were opened, and the merge
\* lane merges none that no human looked at.
PRInv ==
  /\ DOMAIN pr = PRFields
  /\ pr.review \in Reviews
  /\ pr.merge \in {"unknown", "mergeable", "conflict"}
  /\ pr # NoPR => pr.url = Cardinality(landed) + 1
  /\ IsFiniteSet(landed)
  /\ \A l \in landed : l.url \in 1 .. Cardinality(landed) /\ l.by \in {"lane", "human"}
  /\ round \in 0 .. MaxRounds /\ Rounds <= round
  /\ {"step", "pr"} \subseteq DOMAIN merge /\ merge.pr.url \in 0 .. Opened
  /\ merge.step = "squash" => merge.pr.review = "APPROVED"
  /\ merge.pr.review \in Decided =>
       merge.pr.url # 0 /\ (merge.pr.url = pr.url => pr.review \in Decided)

-----------------------------------------------------------------------------
(* Versions.                                                               *)

\* Steps of an attempt whose agent has not changed anything yet.
Early == {"begin", "prepare", "agent"}

\* Every attempt makes one version at most, and only an attempt makes one.
VersionInv ==
  /\ attempts \in 0 .. MaxAttempts /\ made \in 0 .. attempts
  /\ tip \in 0 .. made /\ drifted \subseteq 1 .. made
  /\ {"where", "head", "work"} = DOMAIN tree
  /\ tree.work \in 0 .. made /\ tree.head \in 0 .. tree.work
  /\ "step" \in DOMAIN job /\ (job.step \in Early => made < attempts)
  /\ DOMAIN seen = Lanes /\ \A l \in Lanes : "step" \in DOMAIN seen[l]
  /\ seen["impl"] # NoJob => attempts < MaxAttempts
  /\ \A l \in Lanes \ {"impl"} : seen[l].step \notin Early

-----------------------------------------------------------------------------
(* Copies.                                                                 *)

\* A record has a status of an attempt, and a number that was given.
RecordFits(r, n) ==
  /\ {"status", "url"} \subseteq DOMAIN r
  /\ r.status \in Statuses \cup {"none"} /\ r.url \in 0 .. n

\* So has a job, of a lane.
JobFits(j, n) ==
  /\ {"lane", "step", "kind", "ref", "url", "rec"} \subseteq DOMAIN j
  /\ j.lane \in Lanes \cup {"none"} /\ j.url \in 0 .. n /\ RecordFits(j.rec, n)

\* The payloads' pull requests were given numbers too.
PayloadFits(p, n) ==
  /\ DOMAIN p = {"pr", "review", "handoff"}
  /\ p.pr \in 0 .. n /\ p.review \in 0 .. n /\ p.handoff.url \in 0 .. n

\* What the store has of the attempt.
StoreFits(n) ==
  /\ facts.status \in Statuses \cup {"none"} /\ facts.url \in 0 .. n
  /\ resume \in {"none", "queued", "claimed", "stale"}
  /\ pending \subseteq {"pr", "review", "handoff"} /\ PayloadFits(payload, n)

\* What the lanes have in hand.
LanesFit(n) ==
  /\ JobFits(job, n)
  /\ DOMAIN seen = Lanes
  /\ \A l \in Lanes : JobFits(seen[l], n) /\ seen[l].lane \in {l, "none"}

IssueStates == {"Ready", "Running", "NeedsInfo", "Handoff", "Done"}

\* Nobody holds the number of a pull request that was not opened.
CopiesFit(n) ==
  /\ state \in IssueStates /\ feedback \in 0 .. (MaxRounds + 1)
  /\ StoreFits(n) /\ LanesFit(n)

CopyInv == CopiesFit(Opened)

\* No row is about a pull request that was not opened.
RowsFit(n) ==
  /\ waiting \subseteq 0 .. n /\ stale \subseteq 0 .. n /\ blocked \subseteq {"impl", "clean"}
  /\ {"step", "url", "pr"} \subseteq DOMAIN merge /\ merge.url \in 0 .. n

RowInv == RowsFit(Opened)

TInv == PRInv /\ VersionInv /\ CopyInv /\ RowInv

-----------------------------------------------------------------------------
(* Pull requests: every step.                                              *)

\* No pull request has no number and no review.
LEMMA NoPRFields ==
  /\ DOMAIN NoPR = PRFields
  /\ NoPR.url = 0 /\ NoPR.review \in Reviews /\ NoPR.review \notin Decided
  /\ NoPR.merge = "unknown"
BY DEF NoPR, Decided, Reviews, PRFields

\* What the numbers are.
LEMMA OpenedIsBounded ==
  ASSUME PRInv
  PROVE  /\ Cardinality(landed) \in Nat /\ Opened \in Nat /\ Rounds \in Nat
         /\ Cardinality(landed) <= Opened /\ Opened <= MaxRounds + 1
         /\ pr.url \in 0 .. Opened /\ round \in Nat
         /\ \A l \in landed : l.url \in 0 .. Opened
<1>1. Cardinality(landed) \in Nat
  BY FS_CardinalityType DEF PRInv
<1>2. Opened \in Nat /\ Rounds \in Nat /\ Cardinality(landed) <= Opened
  BY <1>1 DEF Opened, Rounds
<1>3. Cardinality(landed) <= Rounds /\ Rounds <= round /\ round \in Nat /\ round <= MaxRounds
  BY <1>1, BoundsAssumption DEF PRInv, Rounds
<1>4. Opened <= MaxRounds + 1
  <2>1. MaxRounds \in Nat
    BY BoundsAssumption
  <2>2. Cardinality(landed) <= MaxRounds
    BY <1>1, <1>2, <1>3, <2>1
  <2> QED
    BY <1>1, <2>1, <2>2 DEF Opened
<1>5. pr.url \in 0 .. Opened
  <2>1. CASE pr = NoPR
    BY <1>2, <2>1, NoPRFields
  <2>2. CASE pr # NoPR
    BY <1>1, <2>2 DEF PRInv, Opened
  <2> QED
    BY <2>1, <2>2
<1>6. \A l \in landed : l.url \in 0 .. Opened
  BY <1>1, <1>2 DEF PRInv
<1> QED
  BY <1>1, <1>2, <1>3, <1>4, <1>5, <1>6

\* A step that leaves the pull requests and the merge lane alone.
LEMMA PRKept ==
  ASSUME PRInv, UNCHANGED <<pr, landed, round, merge>>
  PROVE  PRInv' /\ Opened' = Opened
BY DEF PRInv, Opened, Rounds

\* A step of the merge lane: what it remembers is what there is, what it
\* remembered, or nothing.
LEMMA MergeRemembers ==
  ASSUME PRInv, UNCHANGED <<pr, landed, round>>,
         {"step", "pr"} \subseteq DOMAIN merge', merge'.pr \in {NoPR, pr, merge.pr},
         merge'.step = "squash" => merge'.pr.review = "APPROVED"
  PROVE  PRInv' /\ Opened' = Opened
<1>1. Opened' = Opened /\ Rounds' = Rounds
  BY DEF Opened, Rounds
<1>2. merge'.pr.url \in 0 .. Opened
  BY OpenedIsBounded, NoPRFields DEF PRInv
<1>3. pr.review \in Decided => pr.url # 0
  <2>1. CASE pr = NoPR
    BY <2>1, NoPRFields
  <2>2. CASE pr # NoPR
    BY <2>2, OpenedIsBounded DEF PRInv
  <2> QED
    BY <2>1, <2>2
<1>4. merge'.pr.review \in Decided =>
        merge'.pr.url # 0 /\ (merge'.pr.url = pr.url => pr.review \in Decided)
  BY <1>3, NoPRFields DEF PRInv
<1> QED
  BY <1>1, <1>2, <1>4 DEF PRInv

\* A step that changes what is known of the open pull request.
LEMMA PRChanges ==
  ASSUME PRInv, pr # NoPR, UNCHANGED <<landed, merge>>,
         DOMAIN pr' = DOMAIN pr, pr'.url = pr.url,
         pr'.merge \in {"unknown", "mergeable", "conflict"},
         \/ pr'.review = pr.review /\ round' = round
         \/ pr'.review \in Decided /\ round' = round + 1 /\ round < MaxRounds
  PROVE  PRInv' /\ Opened' = Opened
<1>1. pr' # NoPR
  <2>1. pr'.url # 0
    BY OpenedIsBounded DEF PRInv
  <2> QED
    BY <2>1, NoPRFields
<1>2. Opened' = Opened
  BY <1>1 DEF Opened
<1>3. round' \in 0 .. MaxRounds
  BY BoundsAssumption DEF PRInv
<1>4. Rounds' <= round'
  BY OpenedIsBounded DEF PRInv, Rounds
<1>5. pr'.review \in Reviews
  BY DEF PRInv, Reviews
<1>6. pr.review \in Decided => pr'.review \in Decided
  OBVIOUS
<1> QED
  BY <1>1, <1>2, <1>3, <1>4, <1>5, <1>6 DEF PRInv

\* A merge: by a human, who takes a round for it, or by the lane, after the
\* round in which it was reviewed.
LEMMA PRLands ==
  ASSUME PRInv, pr # NoPR, NEW who \in {"lane", "human"}, Land(who),
         {"step", "pr"} \subseteq DOMAIN merge', merge'.pr = merge.pr,
         merge'.step = "squash" => merge.step = "squash",
         \/ pr.review \in Decided /\ round' = round
         \/ round' = round + 1 /\ round < MaxRounds
  PROVE  PRInv' /\ Opened' = Opened
<1> DEFINE new == [url |-> pr.url, by |-> who]
<1>1. /\ landed' = landed \cup {new} /\ pr' = NoPR
      /\ new.url = pr.url /\ new.by = who
  BY DEF Land
<1>2. pr.url = Cardinality(landed) + 1 /\ Cardinality(landed) \in Nat
  BY OpenedIsBounded DEF PRInv
<1>3. new \notin landed
  BY <1>1, <1>2 DEF PRInv
<1> HIDE DEF new
<1>4. IsFiniteSet(landed') /\ Cardinality(landed') = Cardinality(landed) + 1
  BY <1>1, <1>3, FS_AddElement DEF PRInv
<1>5. Opened' = Opened
  BY <1>1, <1>2, <1>4 DEF Opened
<1>6. \A l \in landed' : l.url \in 1 .. Cardinality(landed') /\ l.by \in {"lane", "human"}
  <2> TAKE l \in landed'
  <2>1. CASE l = new
    BY <1>1, <1>2, <1>4, <2>1
  <2>2. CASE l \in landed
    BY <1>2, <1>4, <2>2 DEF PRInv
  <2> QED
    BY <1>1, <2>1, <2>2
<1>7. round' \in 0 .. MaxRounds
  BY BoundsAssumption DEF PRInv
<1>8. Rounds' <= round'
  <2>1. Rounds' = Cardinality(landed) + 1
    BY <1>1, <1>2, <1>4, NoPRFields DEF Rounds
  <2> QED
    BY <1>2, <2>1, OpenedIsBounded DEF PRInv, Rounds
<1>9. merge'.pr.review \in Decided => merge'.pr.url # 0
  BY DEF PRInv
<1> QED
  BY <1>1, <1>4, <1>5, <1>6, <1>7, <1>8, <1>9, NoPRFields DEF PRInv

\* A pull request is opened, with the next number.
LEMMA PROpens ==
  ASSUME PRInv, pr = NoPR, pr' = NewPR, UNCHANGED <<landed, merge, round>>
  PROVE  PRInv' /\ Opened' = Opened + 1 /\ pr'.url = Opened'
<1>1. /\ DOMAIN pr' = PRFields
      /\ pr'.url = Cardinality(landed) + 1
      /\ pr'.review \in Reviews /\ pr'.review \notin Decided
      /\ pr'.merge = "mergeable"
  BY DEF NewPR, Decided, Reviews, PRFields
<1>2. Cardinality(landed) \in Nat
  BY OpenedIsBounded
<1>3. pr' # NoPR
  BY <1>1, <1>2, NoPRFields
<1>4. Opened = Cardinality(landed) /\ Opened' = Opened + 1
  BY <1>2, <1>3 DEF Opened
<1>5. Rounds' = Rounds
  BY <1>1, NoPRFields DEF Rounds
<1>6. merge'.pr.url \in 0 .. Opened' /\ merge'.pr.url # pr'.url
  BY <1>1, <1>2, <1>4 DEF PRInv
<1> QED
  BY <1>1, <1>3, <1>4, <1>5, <1>6 DEF PRInv

\* What the merge lane does with its memory.
LEMMA MergeMemory ==
  ASSUME {"step", "pr"} \subseteq DOMAIN merge
  PROVE  /\ EndsMerge => /\ {"step", "pr"} \subseteq DOMAIN merge'
                         /\ merge'.pr = NoPR /\ merge'.step = "none"
         /\ \A s : MergeGoes(s) => /\ {"step", "pr"} \subseteq DOMAIN merge'
                                   /\ merge'.pr = merge.pr /\ merge'.step = s
BY DEF EndsMerge, MergeGoes

\* The steps of the merge lane remember what there is, and merge what a human
\* reviewed.
LEMMA MergeStepsPR ==
  ASSUME PRInv, MergeSteps
  PROVE  PRInv' /\ Opened' = Opened
<1> USE DEF host, local, store, past, bounds, Works
<1>0. /\ {"step", "pr"} \subseteq DOMAIN merge
      /\ merge.step = "squash" => merge.pr.review = "APPROVED"
  BY DEF PRInv
<1>1. CASE MergeSchedule
  <2>1. UNCHANGED <<pr, landed, round, merge>>
    BY <1>1 DEF MergeSchedule
  <2> QED
    BY <2>1, PRKept
<1>2. CASE MergeClaim
  <2>1. UNCHANGED <<pr, landed, round>>
    BY <1>2 DEF MergeClaim, Fails
  <2>2. ASSUME NEW u, merge' = [step |-> "handle", url |-> u, pr |-> pr]
        PROVE  PRInv' /\ Opened' = Opened
    <3>1. {"step", "pr"} \subseteq DOMAIN merge' /\ merge'.pr = pr /\ merge'.step = "handle"
      BY <2>2
    <3> QED
      BY <2>1, <3>1, MergeRemembers
  <2>3. CASE UNCHANGED merge
    BY <2>1, <2>3, PRKept
  <2> QED
    BY <1>2, <2>2, <2>3 DEF MergeClaim
<1>3. CASE MergeHandle \/ MergeConverge \/ MergeToReady \/ MergeDeleteBranch
           \/ MergeToDone \/ MergeRemove
  <2>1. UNCHANGED <<pr, landed, round>>
    BY <1>3 DEF MergeHandle, MergeConverge, MergeToReady, MergeDeleteBranch, MergeToDone,
                MergeRemove, Fails
  <2>2. CASE EndsMerge
    BY <1>0, <2>1, <2>2, MergeMemory, MergeRemembers
  <2>3. CASE \E s \in {"toReady", "remove", "toDone"} : MergeGoes(s)
    <3>1. {"step", "pr"} \subseteq DOMAIN merge' /\ merge'.pr = merge.pr /\ merge'.step # "squash"
      BY <1>0, <2>3, MergeMemory
    <3> QED
      BY <2>1, <3>1, MergeRemembers
  <2>4. CASE MergeGoes("squash") /\ merge.pr.review = "APPROVED"
    BY <1>0, <2>1, <2>4, MergeMemory, MergeRemembers
  <2> QED
    BY <1>3, <2>2, <2>3, <2>4
       DEF MergeHandle, MergeConverge, MergeToReady, MergeDeleteBranch, MergeToDone, MergeRemove
<1>4. CASE MergeSquash
  <2>1. round' = round
    BY <1>4 DEF MergeSquash, Fails
  <2>2. CASE pr.url = merge.pr.url /\ Land("lane") /\ MergeGoes("branch")
    <3>1. merge.pr.review \in Decided
      BY <1>0, <1>4 DEF MergeSquash, Decided
    <3>2. pr.review \in Decided /\ pr.url # 0
      BY <2>2, <3>1 DEF PRInv
    <3>3. pr # NoPR
      BY <3>2, NoPRFields
    <3>4. {"step", "pr"} \subseteq DOMAIN merge' /\ merge'.pr = merge.pr /\ merge'.step # "squash"
      BY <1>0, <2>2, MergeMemory
    <3> QED
      BY <2>1, <2>2, <3>2, <3>3, <3>4, PRLands
  <2>3. CASE EndsMerge /\ UNCHANGED <<pr, landed>>
    BY <1>0, <2>1, <2>3, MergeMemory, MergeRemembers
  <2> QED
    BY <1>4, <2>2, <2>3 DEF MergeSquash
<1> QED
  BY <1>1, <1>2, <1>3, <1>4 DEF MergeSteps

\* Jobs push, and open pull requests.
LEMMA JobStepsPR ==
  ASSUME PRInv, JobSteps
  PROVE  PRInv' /\ Opened' \in {Opened, Opened + 1}
<1> USE DEF host, local, store, past, lanes, bounds, Works, Fails
<1>1. CASE AgentSteps \/ WriteRecord
  <2>1. UNCHANGED <<pr, landed, round, merge>>
    BY <1>1 DEF AgentSteps, Begin, Prepare, AgentChanges, AgentIsIdle, AgentFails, AgentAsks,
                ScopePasses, ScopeBlocks, ScopeUnknown, WriteRecord
  <2> QED
    BY <2>1, PRKept
<1>2. CASE QueuePR \/ CommitWork \/ HandoffFails \/ QueueReview \/ ReviewWaits \/ ReviewFails
           \/ ReviewRejects \/ ReviewAccepts \/ QueueFinal \/ FinalHandoff
  <2>1. UNCHANGED <<pr, landed, round, merge>>
    BY <1>2 DEF QueuePR, CommitWork, HandoffFails, QueueReview, ReviewWaits, ReviewFails,
                ReviewRejects, ReviewAccepts, QueueFinal, FinalHandoff
  <2> QED
    BY <2>1, PRKept
<1>3. CASE Push
  <2>1. UNCHANGED <<landed, round, merge>>
    BY <1>3 DEF Push
  <2>2. CASE pr = NoPR
    <3>1. pr' = pr
      BY <1>3, <2>2 DEF Push
    <3> QED
      BY <2>1, <3>1, PRKept
  <2>3. CASE pr # NoPR
    <3>1. pr' = [pr EXCEPT !.checks = <<"pending">>, !.merge = "mergeable"]
      BY <1>3, <2>3 DEF Push
    <3>2. /\ DOMAIN pr' = DOMAIN pr /\ pr'.url = pr.url /\ pr'.review = pr.review
          /\ pr'.merge = "mergeable"
      BY <3>1 DEF PRInv, PRFields
    <3> QED
      BY <2>1, <2>3, <3>2, PRChanges
  <2> QED
    BY <2>2, <2>3
<1>4. CASE OpenPR
  <2>1. UNCHANGED <<landed, round, merge>>
    BY <1>4 DEF OpenPR
  <2>2. CASE pr = NoPR
    BY <1>4, <2>1, <2>2, PROpens DEF OpenPR
  <2>3. CASE pr # NoPR
    BY <1>4, <2>1, <2>3, PRKept DEF OpenPR
  <2> QED
    BY <2>2, <2>3
<1> QED
  BY <1>1, <1>2, <1>3, <1>4 DEF JobSteps, HandoffSteps

\* Picking and cleaning do nothing to pull requests.
LEMMA OtherStepsPR ==
  ASSUME PRInv, Picking \/ CleanSteps
  PROVE  PRInv' /\ Opened' = Opened
<1> USE DEF host, local, store, past, lanes, bounds, Works, Fails
<1>1. CASE Picking
  <2>1. UNCHANGED <<pr, landed, round, merge>>
    BY <1>1 DEF Picking, ImplSelect, HandSeePR, HandSeeHandoff, RevSeePending, Picks,
                ResumeSchedule, RevSeeResume, TakeLock, FindLocked
  <2> QED
    BY <2>1, PRKept
<1>2. CASE CleanSteps
  <2>1. UNCHANGED <<pr, landed, round, merge>>
    BY <1>2 DEF CleanSteps, CleanDecide, CleanDelete
  <2> QED
    BY <2>1, PRKept
<1> QED
  BY <1>1, <1>2

\* Humans take a round for a review or a merge.
LEMMA EnvironmentPR ==
  ASSUME PRInv, Environment
  PROVE  PRInv' /\ Opened' = Opened
<1> USE DEF host, local, store, past, lanes, bounds
<1>0. {"step", "pr"} \subseteq DOMAIN merge
  BY DEF PRInv
<1>1. CASE HumanReviews
  <2> PICK decision \in Decided : pr' = [pr EXCEPT !.review = decision]
    BY <1>1 DEF HumanReviews, Decided
  <2>1. /\ DOMAIN pr' = DOMAIN pr /\ pr'.url = pr.url /\ pr'.review = decision
        /\ pr'.merge = pr.merge
    BY DEF PRInv, PRFields
  <2>2. pr.merge \in {"unknown", "mergeable", "conflict"}
    BY DEF PRInv
  <2>3. pr # NoPR /\ UNCHANGED <<landed, merge>> /\ round' = round + 1 /\ round < MaxRounds
    BY <1>1 DEF HumanReviews
  <2> QED
    BY <2>1, <2>2, <2>3, PRChanges
<1>2. CASE HumanMerges
  <2>1. pr # NoPR /\ Land("human") /\ UNCHANGED merge /\ round' = round + 1 /\ round < MaxRounds
    BY <1>2 DEF HumanMerges
  <2> QED
    BY <1>0, <2>1, PRLands
<1>3. CASE HumanAnswers \/ ResumeRepair \/ RowRepair
  <2>1. UNCHANGED <<pr, landed, round, merge>>
    BY <1>3 DEF HumanAnswers, ResumeRepair, RowRepair
  <2> QED
    BY <2>1, PRKept
<1>4. CASE ChecksFinish \/ Conflict
  <2>1. pr # NoPR /\ UNCHANGED <<landed, round, merge>>
    BY <1>4 DEF ChecksFinish, Conflict, Fails
  <2>2. pr' = [pr EXCEPT !.checks = <<"success">>] \/ pr' = [pr EXCEPT !.merge = "conflict"]
    BY <1>4 DEF ChecksFinish, Conflict
  <2>3. /\ DOMAIN pr' = DOMAIN pr /\ pr'.url = pr.url /\ pr'.review = pr.review
        /\ pr'.merge \in {"unknown", "mergeable", "conflict"}
    BY <2>2 DEF PRInv, PRFields
  <2> QED
    BY <2>1, <2>3, PRChanges
<1>5. CASE Crash
  <2>1. UNCHANGED <<pr, landed, round>>
    BY <1>5 DEF Crash
  <2>2. CASE UNCHANGED merge
    BY <2>1, <2>2, PRKept
  <2>3. CASE EndsMerge
    BY <1>0, <2>1, <2>3, MergeMemory, MergeRemembers
  <2> QED
    BY <1>5, <2>2, <2>3 DEF Crash
<1> QED
  BY <1>1, <1>2, <1>3, <1>4, <1>5 DEF Environment

\* The numbering of the pull requests is kept, and none is taken back.
LEMMA PRStep ==
  ASSUME PRInv, Next
  PROVE  PRInv' /\ Opened' \in Nat /\ Opened <= Opened'
<1>1. PRInv' /\ Opened' \in {Opened, Opened + 1}
  BY JobStepsPR, MergeStepsPR, OtherStepsPR, EnvironmentPR DEF Next
<1>2. Opened \in Nat
  BY OpenedIsBounded
<1> QED
  BY <1>1, <1>2

-----------------------------------------------------------------------------
(* Versions: every step.                                                   *)

\* A step that makes no version, and after which no agent is to be run.
LEMMA VersionsStay ==
  ASSUME VersionInv, UNCHANGED <<made, attempts, drifted, tip, tree, seen>>,
         "step" \in DOMAIN job', job'.step \in Early => job.step \in Early
  PROVE  VersionInv'
BY DEF VersionInv

\* The same, with the workspace or the branch changed.
LEMMA VersionsMove ==
  ASSUME VersionInv, UNCHANGED <<made, attempts, drifted, seen>>,
         "step" \in DOMAIN job', job'.step \in Early => job.step \in Early,
         tip' \in {0, tip, tree.head},
         DOMAIN tree' = DOMAIN tree,
         tree'.work \in {0, tree.work}, tree'.head \in {0, tree'.work}
  PROVE  VersionInv'
<1>1. made \in Nat /\ tree.work \in Nat /\ tree.work <= made
  BY BoundsAssumption DEF VersionInv
<1>2. tip' \in 0 .. made' /\ tree'.work \in 0 .. made'
  BY <1>1 DEF VersionInv
<1>3. tree'.head \in 0 .. tree'.work
  BY <1>1
<1> QED
  BY <1>2, <1>3 DEF VersionInv

\* A lane picks something, or forgets it.
LEMMA VersionsPicked ==
  ASSUME VersionInv, NEW l \in Lanes, NEW j,
         seen' = [seen EXCEPT ![l] = j], "step" \in DOMAIN j,
         IF l = "impl" THEN j # NoJob => attempts < MaxAttempts ELSE j.step \notin Early,
         UNCHANGED <<made, attempts, drifted, tip, tree, job>>
  PROVE  VersionInv'
BY DEF VersionInv

\* The workspaces of a step.
LEMMA TreeFields ==
  /\ \A t \in {NoTree, Clone, Deleted} :
       DOMAIN t = {"where", "head", "work"} /\ t.head = 0 /\ t.work = 0
BY DEF NoTree, Clone, Deleted

\* Only an agent makes a version, at most one in its attempt.
LEMMA AgentStepsVersions ==
  ASSUME VersionInv, AgentSteps
  PROVE  VersionInv'
<1> USE NoJobFields DEF host, local, store, lanes, bounds, Works
<1>0. "step" \in DOMAIN job
  BY DEF VersionInv
<1>1. CASE Begin
  <2>1. job' = NoJob \/ job' = [job EXCEPT !.step = "prepare", !.was = "Other"]
    BY <1>1 DEF Begin, Quits
  <2>2. "step" \in DOMAIN job' /\ job.step \in Early
    BY <2>1, <1>0, <1>1, GoesOn DEF Begin, At, Early
  <2>3. UNCHANGED <<made, attempts, drifted, tip, tree, seen>>
    BY <1>1 DEF Begin, Fails
  <2> QED
    BY <2>2, <2>3, VersionsStay
<1>2. CASE Prepare
  <2>1. "step" \in DOMAIN job' /\ job.step \in Early
    BY <1>0, <1>2, GoesOn, Stopped DEF Prepare, Quits, At, Early
  <2>2. UNCHANGED <<made, attempts, drifted, tip, seen>>
    BY <1>2 DEF Prepare, Fails
  <2>3. CASE tree' = tree
    BY <2>1, <2>2, <2>3, VersionsStay
  <2>4. CASE tree' = Clone
    <3>1. /\ DOMAIN tree' = DOMAIN tree /\ tree'.work = 0 /\ tree'.head = 0
      BY <2>4, TreeFields DEF VersionInv
    <3> QED
      BY <2>1, <2>2, <3>1, VersionsMove
  <2> QED
    BY <1>2, <2>3, <2>4 DEF Prepare, Cloned
<1>3. CASE AgentChanges
  <2>1. "step" \in DOMAIN job' /\ job'.step = "scope" /\ job.step \in Early
    BY <1>0, <1>3, GoesOn DEF AgentChanges, At, Early
  <2>2. made' = made + 1 /\ UNCHANGED <<attempts, tip, seen>>
    BY <1>3 DEF AgentChanges
  <2>3. made' \in 0 .. attempts /\ made \in Nat
    BY <2>1, <2>2, BoundsAssumption DEF VersionInv
  <2>4. /\ DOMAIN tree' = DOMAIN tree
        /\ tree'.work = made + 1 /\ tree'.head \in {made + 1, tree.head}
    BY <1>3 DEF AgentChanges, VersionInv
  <2>5. tree'.work \in 0 .. made' /\ tree'.head \in 0 .. tree'.work
    BY <2>2, <2>3, <2>4 DEF VersionInv
  <2>6. drifted' \subseteq 1 .. made'
    <3>1. drifted' \subseteq drifted \cup {made + 1}
      BY <1>3 DEF AgentChanges
    <3> QED
      BY <2>2, <2>3, <3>1 DEF VersionInv
  <2>7. tip' \in 0 .. made'
    BY <2>2, <2>3 DEF VersionInv
  <2>8. job'.step \notin Early
    BY <2>1 DEF Early
  <2> QED
    BY <2>1, <2>2, <2>3, <2>4, <2>5, <2>6, <2>7, <2>8 DEF VersionInv
<1>4. CASE AgentIsIdle \/ ScopePasses
  <2>1. "step" \in DOMAIN job' /\ job'.step \notin Early
    BY <1>0, <1>4, GoesOn DEF AgentIsIdle, ScopePasses, Goes, Early
  <2>2. UNCHANGED <<made, attempts, drifted, tip, tree, seen>>
    BY <1>4 DEF AgentIsIdle, ScopePasses
  <2> QED
    BY <2>1, <2>2, VersionsStay
<1>5. CASE AgentFails \/ AgentAsks \/ ScopeBlocks \/ ScopeUnknown
  <2>1. "step" \in DOMAIN job' /\ job'.step \notin Early
    BY <1>0, <1>5, Stopped DEF AgentFails, AgentAsks, ScopeBlocks, ScopeUnknown, Early
  <2>2. UNCHANGED <<made, attempts, drifted, tip, tree, seen>>
    BY <1>5 DEF AgentFails, AgentAsks, ScopeBlocks, ScopeUnknown, Fails
  <2> QED
    BY <2>1, <2>2, VersionsStay
<1> QED
  BY <1>1, <1>2, <1>3, <1>4, <1>5 DEF AgentSteps

\* A handover commits and pushes versions that were made.
LEMMA HandoffStepsVersions ==
  ASSUME VersionInv, HandoffSteps \/ WriteRecord
  PROVE  VersionInv'
<1> USE NoJobFields DEF host, local, store, lanes, bounds, Works
<1>0. "step" \in DOMAIN job
  BY DEF VersionInv
<1>1. CASE QueuePR \/ OpenPR \/ QueueReview \/ ReviewAccepts \/ QueueFinal \/ WriteRecord
  <2>1. "step" \in DOMAIN job' /\ job'.step \notin Early
    <3>1. CASE QueuePR \/ OpenPR
      BY <1>0, <3>1, GoesOn, Stopped DEF QueuePR, OpenPR, Goes, Early
    <3>4. CASE QueueReview
      BY <1>0, <3>4, GoesOn, GaveUp DEF QueueReview, Goes, Quits, Early
    <3>2. CASE ReviewAccepts
      BY <1>0, <3>2 DEF ReviewAccepts, Early
    <3>3. CASE QueueFinal \/ WriteRecord
      BY <1>0, <3>3, GoesOn, GaveUp DEF QueueFinal, WriteRecord, Goes, Quits, Early
    <3> QED
      BY <1>1, <3>1, <3>2, <3>3, <3>4
  <2>2. UNCHANGED <<made, attempts, drifted, tip, tree, seen>>
    BY <1>1 DEF QueuePR, OpenPR, QueueReview, ReviewAccepts, QueueFinal, WriteRecord, Fails
  <2> QED
    BY <2>1, <2>2, VersionsStay
<1>2. CASE HandoffFails \/ ReviewWaits \/ ReviewFails \/ ReviewRejects \/ FinalHandoff
  <2>1. "step" \in DOMAIN job' /\ job'.step \notin Early
    BY <1>0, <1>2, Stopped, GaveUp
       DEF HandoffFails, ReviewWaits, ReviewFails, ReviewRejects, FinalHandoff, Early
  <2>2. UNCHANGED <<made, attempts, drifted, tip, tree, seen>>
    BY <1>2 DEF HandoffFails, ReviewWaits, ReviewFails, ReviewRejects, FinalHandoff, Fails
  <2> QED
    BY <2>1, <2>2, VersionsStay
<1>3. CASE CommitWork
  <2>1. "step" \in DOMAIN job' /\ job'.step \notin Early
    BY <1>0, <1>3, GoesOn DEF CommitWork, Goes, Quits, Early
  <2>2. UNCHANGED <<made, attempts, drifted, tip, seen>>
    BY <1>3 DEF CommitWork
  <2>3. DOMAIN tree' = DOMAIN tree /\ tree'.work = tree.work /\ tree'.head = tree.work
    BY <1>3 DEF CommitWork, VersionInv
  <2> QED
    BY <2>1, <2>2, <2>3, VersionsMove
<1>4. CASE Push
  <2>1. "step" \in DOMAIN job' /\ job'.step \notin Early
    BY <1>0, <1>4, GoesOn DEF Push, Goes, Early
  <2>2. UNCHANGED <<made, attempts, drifted, tree, seen>> /\ tip' = tree.head
    BY <1>4 DEF Push
  <2>3. tip' \in 0 .. made'
    BY <2>2, BoundsAssumption DEF VersionInv
  <2> QED
    BY <2>1, <2>2, <2>3 DEF VersionInv
<1> QED
  BY <1>1, <1>2, <1>3, <1>4 DEF HandoffSteps

\* The merge lane deletes branch and workspace, the cleanup lane the latter.
LEMMA LanesVersions ==
  ASSUME VersionInv, MergeSteps \/ CleanSteps
  PROVE  VersionInv'
<1> USE DEF host, local, store, lanes
<1>0. "step" \in DOMAIN job
  BY DEF VersionInv
<1>1. CASE MergeSchedule \/ MergeClaim \/ MergeHandle \/ MergeConverge \/ MergeToReady
           \/ MergeSquash \/ MergeToDone \/ CleanDecide
  <2>1. UNCHANGED <<made, attempts, drifted, tip, tree, seen, job>>
    BY <1>1 DEF MergeSchedule, MergeClaim, MergeHandle, MergeConverge, MergeToReady,
                MergeSquash, MergeToDone, CleanDecide, Works, Fails, bounds
  <2> QED
    BY <1>0, <2>1, VersionsStay
<1>2. CASE MergeDeleteBranch
  <2>1. UNCHANGED <<made, attempts, drifted, tree, seen, job>> /\ tip' \in {0, tip}
    BY <1>2 DEF MergeDeleteBranch, Works, Fails, bounds
  <2>2. tip' \in 0 .. made
    BY <2>1, BoundsAssumption DEF VersionInv
  <2> QED
    BY <2>1, <2>2 DEF VersionInv
<1>3. CASE MergeRemove \/ CleanDelete
  <2>1. UNCHANGED <<made, attempts, drifted, tip, seen, job>> /\ tree' \in {tree, Deleted}
    BY <1>3 DEF MergeRemove, CleanDelete, RemoveTree, Works, Fails, bounds
  <2>2. CASE tree' = tree
    BY <1>0, <2>1, <2>2, VersionsStay
  <2>3. CASE tree' = Deleted
    <3>1. DOMAIN tree' = DOMAIN tree /\ tree'.work = 0 /\ tree'.head = 0
      BY <2>3, TreeFields DEF VersionInv
    <3> QED
      BY <1>0, <2>1, <3>1, VersionsMove
  <2> QED
    BY <2>1, <2>2, <2>3
<1> QED
  BY <1>1, <1>2, <1>3 DEF MergeSteps, CleanSteps

\* An attempt is counted when it takes the lock, and is picked only if there
\* may be another.
LEMMA PickingVersions ==
  ASSUME VersionInv, Picking
  PROVE  VersionInv'
<1> USE DEF host, local, store, lanes, past, bounds, Works, Fails
<1>0. "step" \in DOMAIN job
  BY DEF VersionInv
<1>1. CASE ImplSelect
  <2> DEFINE j == [Job("impl", "begin") EXCEPT !.was = state, !.asked = pr.review]
  <2>1. "step" \in DOMAIN j
    BY PickedFields
  <2>2. "impl" \in Lanes
    BY DEF Lanes
  <2> HIDE DEF j
  <2>3. /\ seen' = [seen EXCEPT !["impl"] = j] /\ attempts < MaxAttempts
        /\ UNCHANGED <<made, attempts, drifted, tip, tree, job>>
    BY <1>1 DEF ImplSelect, Picks, j
  <2> QED
    BY <2>1, <2>2, <2>3, VersionsPicked
<1>2. CASE HandSeePR \/ HandSeeHandoff
  <2> DEFINE p == [Job("hand", "commit") EXCEPT !.kind = "pr", !.ref = "pr", !.url = payload.pr]
             h == [Job("hand", "final") EXCEPT !.kind = "handoff", !.ref = "handoff",
                     !.url = payload.handoff.url, !.verdict = payload.handoff.verdict]
  <2>1. "step" \in DOMAIN p /\ p.step = "commit"
    BY PickedFields
  <2>2. "step" \in DOMAIN h /\ h.step = "final"
    BY JobFields
  <2> HIDE DEF p, h
  <2>3. /\ seen' = [seen EXCEPT !["hand"] = p] \/ seen' = [seen EXCEPT !["hand"] = h]
        /\ UNCHANGED <<made, attempts, drifted, tip, tree, job>>
    BY <1>2 DEF HandSeePR, HandSeeHandoff, Picks, p, h
  <2>4. p.step \notin Early /\ h.step \notin Early /\ "hand" \in Lanes
    BY <2>1, <2>2 DEF Early, Lanes
  <2> QED
    BY <2>1, <2>2, <2>3, <2>4, VersionsPicked
<1>3. CASE RevSeePending
  <2> DEFINE j == [Job("rev", "review") EXCEPT !.kind = "pending", !.ref = "review",
                     !.url = payload.review]
  <2>1. "step" \in DOMAIN j /\ j.step \notin Early
    BY PickedFields DEF Early
  <2>2. "rev" \in Lanes
    BY DEF Lanes
  <2> HIDE DEF j
  <2>3. /\ seen' = [seen EXCEPT !["rev"] = j]
        /\ UNCHANGED <<made, attempts, drifted, tip, tree, job>>
    BY <1>3 DEF RevSeePending, Picks, j
  <2> QED
    BY <2>1, <2>2, <2>3, VersionsPicked
<1>4. CASE ResumeSchedule \/ (RevSeeResume /\ UNCHANGED seen)
  <2>1. UNCHANGED <<made, attempts, drifted, tip, tree, job, seen>>
    BY <1>4 DEF ResumeSchedule, RevSeeResume
  <2> QED
    BY <1>0, <2>1, VersionsStay
<1>5. CASE RevSeeResume /\ seen' = [seen EXCEPT !["rev"] = ResumeJob]
  <2>1. UNCHANGED <<made, attempts, drifted, tip, tree, job>>
    BY <1>5 DEF RevSeeResume
  <2>2. "step" \in DOMAIN ResumeJob /\ ResumeJob.step \notin Early /\ "rev" \in Lanes
    BY PickedFields DEF Early, Lanes
  <2> QED
    BY <1>5, <2>1, <2>2, VersionsPicked
<1>6. ASSUME NEW l \in Lanes, TakeLock(l)
      PROVE  VersionInv'
  <2>1. /\ job' = seen[l] /\ seen' = [seen EXCEPT ![l] = NoJob] /\ seen[l] # NoJob
        /\ attempts' = IF l = "impl" THEN attempts + 1 ELSE attempts
        /\ UNCHANGED <<made, drifted, tip, tree>>
    BY <1>6 DEF TakeLock
  <2>2. "step" \in DOMAIN job' /\ (job'.step \in Early => l = "impl")
    BY <2>1 DEF VersionInv
  <2>3. attempts' \in 0 .. MaxAttempts /\ attempts <= attempts'
    BY <2>1, BoundsAssumption DEF VersionInv
  <2>4. made' \in 0 .. attempts' /\ (job'.step \in Early => made' < attempts')
    BY <2>1, <2>2, <2>3, BoundsAssumption DEF VersionInv
  <2>5. /\ DOMAIN seen' = Lanes /\ \A m \in Lanes : "step" \in DOMAIN seen'[m]
        /\ \A m \in Lanes \ {"impl"} : seen'[m].step \notin Early
    BY <2>1, NoJobFields DEF VersionInv, Early
  <2>6. seen'["impl"] # NoJob => attempts' < MaxAttempts
    BY <2>1 DEF VersionInv
  <2> QED
    BY <2>1, <2>2, <2>3, <2>4, <2>5, <2>6 DEF VersionInv
<1>7. ASSUME NEW l \in Lanes, FindLocked(l)
      PROVE  VersionInv'
  <2>1. /\ seen' = [seen EXCEPT ![l] = NoJob]
        /\ UNCHANGED <<made, attempts, drifted, tip, tree, job>>
    BY <1>7 DEF FindLocked
  <2>2. "step" \in DOMAIN NoJob /\ NoJob.step \notin Early
    BY NoJobFields DEF Early
  <2> QED
    BY <2>1, <2>2, VersionsPicked
<1> QED
  BY <1>1, <1>2, <1>3, <1>4, <1>5, <1>6, <1>7 DEF Picking, RevSeeResume

\* Nobody outside makes a version.
LEMMA EnvironmentVersions ==
  ASSUME VersionInv, Environment
  PROVE  VersionInv'
<1> USE DEF host, local, store, lanes, past, bounds, Fails
<1>0. "step" \in DOMAIN job
  BY DEF VersionInv
<1>1. CASE HumanReviews \/ HumanMerges \/ HumanAnswers \/ ResumeRepair \/ RowRepair
           \/ ChecksFinish \/ Conflict
  <2>1. UNCHANGED <<made, attempts, drifted, tip, tree, seen, job>>
    BY <1>1 DEF HumanReviews, HumanMerges, HumanAnswers, ResumeRepair, RowRepair,
                ChecksFinish, Conflict
  <2> QED
    BY <1>0, <2>1, VersionsStay
<1>2. CASE Crash
  <2>1. UNCHANGED <<made, attempts, drifted, tip, tree>>
    BY <1>2 DEF Crash
  <2>2. job' = NoJob /\ DOMAIN seen' = Lanes /\ \A l \in Lanes : seen'[l] = NoJob
    BY <1>2 DEF Crash
  <2>3. "impl" \in Lanes /\ "step" \in DOMAIN NoJob /\ NoJob.step \notin Early
    BY NoJobFields DEF Early, Lanes
  <2> QED
    BY <2>1, <2>2, <2>3 DEF VersionInv
<1> QED
  BY <1>1, <1>2 DEF Environment

\* The numbering of the versions is kept.
LEMMA VersionStep ==
  ASSUME VersionInv, Next
  PROVE  VersionInv'
BY AgentStepsVersions, HandoffStepsVersions, LanesVersions, PickingVersions, EnvironmentVersions
   DEF Next, JobSteps

-----------------------------------------------------------------------------
(* Copies: what fits, and what a step makes of it.                         *)

\* What fits still does when there are more pull requests.
LEMMA FitsMore ==
  ASSUME NEW n \in Nat, NEW m \in Nat, n <= m
  PROVE  /\ \A r : RecordFits(r, n) => RecordFits(r, m)
         /\ \A j : JobFits(j, n) => JobFits(j, m)
         /\ \A p : PayloadFits(p, n) => PayloadFits(p, m)
         /\ StoreFits(n) => StoreFits(m)
         /\ LanesFit(n) => LanesFit(m)
<1>1. \A i : i \in 0 .. n => i \in 0 .. m
  OBVIOUS
<1>2. \A r : RecordFits(r, n) => RecordFits(r, m)
  BY <1>1 DEF RecordFits
<1>3. \A j : JobFits(j, n) => JobFits(j, m)
  BY <1>1, <1>2 DEF JobFits
<1>4. \A p : PayloadFits(p, n) => PayloadFits(p, m)
  BY <1>1 DEF PayloadFits
<1>5. StoreFits(n) => StoreFits(m)
  BY <1>1, <1>4 DEF StoreFits
<1>6. LanesFit(n) => LanesFit(m)
  BY <1>3 DEF LanesFit
<1> QED
  BY <1>2, <1>3, <1>4, <1>5, <1>6

\* A new record fits, with a status of an attempt.
LEMMA NewRecordFits ==
  ASSUME NEW n, NEW url \in 0 .. n, NEW status \in Statuses, NEW review, NEW err
  PROVE  RecordFits(Record(status, review, url, err), n)
BY DEF RecordFits, Record

\* However an attempt stops, it has a status.
LEMMA LifecycleHasStatus ==
  ASSUME NEW in
  PROVE  LifecycleStatus(in) \in Statuses
BY DEF LifecycleStatus, Statuses

\* The record of a stop fits if the stop's pull request does.
LEMMA StopFits ==
  ASSUME NEW n \in Nat, NEW in, in.url \in 0 .. n
  PROVE  RecordFits(RecordOfStop(in), n)
<1> DEFINE status == LifecycleStatus(in)
           url == IF status = "needs_info" THEN 0 ELSE in.url
           review == IF in.outOfScope THEN ScopeReview ELSE in.review
<1>1. status \in Statuses
  BY LifecycleHasStatus
<1>2. url \in 0 .. n
  OBVIOUS
<1>3. RecordOfStop(in) = Record(status, review, url, TRUE)
  BY DEF RecordOfStop
<1> HIDE DEF status, url, review
<1> QED
  BY <1>1, <1>2, <1>3, NewRecordFits

\* A stop has the pull request it is given.
LEMMA StopUrls ==
  ASSUME NEW url
  PROVE  /\ \A ph : /\ Stop(ph, url).url = url
                    /\ [Stop(ph, url) EXCEPT !.runtime = "timeout"].url = url
                    /\ [Stop(ph, url) EXCEPT !.questions = TRUE].url = url
                    /\ [[Stop(ph, url) EXCEPT !.questions = TRUE]
                          EXCEPT !.runtime = "needs_info_failed"].url = url
                    /\ [Stop(ph, url) EXCEPT !.outOfScope = TRUE].url = url
                    /\ [Stop(ph, url) EXCEPT !.scopeError = TRUE].url = url
         /\ \A s \in StopsBeforePR(url) : s.url = url
         /\ \A s \in StopsInReview(url) : s.url = url
<1>1. \A ph : /\ Stop(ph, url).url = url
              /\ [Stop(ph, url) EXCEPT !.runtime = "timeout"].url = url
              /\ [Stop(ph, url) EXCEPT !.questions = TRUE].url = url
              /\ [[Stop(ph, url) EXCEPT !.questions = TRUE]
                    EXCEPT !.runtime = "needs_info_failed"].url = url
              /\ [Stop(ph, url) EXCEPT !.outOfScope = TRUE].url = url
              /\ [Stop(ph, url) EXCEPT !.scopeError = TRUE].url = url
  BY DEF Stop
<1> DEFINE Run(ph, rt) == [Stop(ph, url) EXCEPT !.runtime = rt]
           Asks(rt) == [Stop("needs_info", url) EXCEPT !.questions = TRUE, !.runtime = rt]
           Over == [Stop("implementation", url) EXCEPT !.budget = TRUE]
           Odd == [Stop("scope_guard", url) EXCEPT !.scopeError = TRUE]
           Out == [Stop("scope_guard", url) EXCEPT !.outOfScope = TRUE]
<1>2. \A s \in StopsBeforePR(url) : s.url = url
  <2>1. /\ \A ph, rt : Run(ph, rt).url = url
        /\ \A rt : Asks(rt).url = url
        /\ Over.url = url /\ Odd.url = url /\ Out.url = url
    BY DEF Stop
  <2> DEFINE S1 == {Run(ph, rt) : ph \in {"implementation", "validation"},
                                  rt \in {"failed", "timeout"}}
             S2 == {Asks(rt) : rt \in {"", "needs_info_failed"}}
             S3 == {Over, Odd, Out, Stop("handoff", url)}
  <2>2. StopsBeforePR(url) = S1 \cup S2 \cup S3
    BY DEF StopsBeforePR
  <2> HIDE DEF Run, Asks, Over, Odd, Out
  <2>3. \A s \in S1 : s.url = url
    <3>1. \A s \in S1 : \E ph \in {"implementation", "validation"}, rt \in {"failed", "timeout"} :
            s = Run(ph, rt)
      BY SMT
    <3> HIDE DEF S1
    <3> QED
      BY <2>1, <3>1
  <2>4. \A s \in S2 : s.url = url
    BY <2>1, Zenon
  <2>5. \A s \in S3 : s.url = url
    BY <1>1, <2>1
  <2> HIDE DEF S1, S2, S3
  <2> QED
    BY <2>2, <2>3, <2>4, <2>5
<1>3. \A s \in StopsInReview(url) : s.url = url
  BY DEF StopsInReview, Stop
<1> QED
  BY <1>1, <1>2, <1>3

\* The store remembers a record as one that fits.
LEMMA RememberFits ==
  ASSUME NEW n \in Nat, NEW r, RecordFits(r, n), facts.url \in 0 .. n
  PROVE  /\ Remember(r).status \in Statuses \cup {"none"}
         /\ Remember(r).url \in 0 .. n
<1> DEFINE h == [r EXCEPT !.hash = feedback]
           f == FactsAfter(facts, h)
<1>1. h.status = r.status /\ h.url = r.url
  BY DEF RecordFits
<1> HIDE DEF h
<1>2. f.status = h.status /\ f.url = IF h.url # 0 THEN h.url ELSE facts.url
  BY DEF FactsAfter
<1>3. {"status", "url"} \subseteq DOMAIN f
  BY DEF FactsAfter
<1>4. Remember(r) = [f EXCEPT !.retries = 0, !.outcome = ""]
  BY DEF Remember, h
<1> HIDE DEF f
<1>5. Remember(r).status = f.status /\ Remember(r).url = f.url
  BY <1>3, <1>4
<1> QED
  BY <1>1, <1>2, <1>5 DEF RecordFits

\* A job goes on, stops or ends.
LEMMA JobGoesFit ==
  ASSUME NEW n \in Nat, JobFits(job, n), NEW s, NEW x, NEW y, NEW url \in 0 .. n
  PROVE  /\ JobFits([job EXCEPT !.step = s], n)
         /\ JobFits([job EXCEPT !.step = s, !.was = x], n)
         /\ JobFits([job EXCEPT !.step = s, !.asked = x], n)
         /\ JobFits([job EXCEPT !.step = s, !.url = url], n)
         /\ JobFits([job EXCEPT !.step = s, !.ref = x], n)
         /\ JobFits([job EXCEPT !.step = s, !.verdict = x, !.ref = y], n)
BY DEF JobFits

\* A job stops with a record that fits.
LEMMA StopsFit ==
  ASSUME NEW n \in Nat, JobFits(job, n), NEW r, RecordFits(r, n), Stops(r)
  PROVE  JobFits(job', n)
BY DEF JobFits, Stops

\* Nobody's job fits, and a new one does.
LEMMA NewJobFits ==
  ASSUME NEW n \in Nat, NEW l \in Lanes \cup {"none"}, NEW s
  PROVE  JobFits(Job(l, s), n) /\ Job(l, s).lane = l
<1>1. RecordFits(NoRecord, n)
  <2>1. NoRecord.status = "none" /\ NoRecord.url = 0 /\ {"status", "url"} \subseteq DOMAIN NoRecord
    BY DEF NoRecord, Record
  <2> QED
    BY <2>1 DEF RecordFits
<1>2. /\ {"lane", "step", "kind", "ref", "url", "rec"} \subseteq DOMAIN Job(l, s)
      /\ Job(l, s).lane = l /\ Job(l, s).url = 0 /\ Job(l, s).rec = NoRecord
  BY DEF Job
<1> QED
  BY <1>1, <1>2 DEF JobFits

\* Nobody's job.
LEMMA NoJobFits ==
  ASSUME NEW n \in Nat
  PROVE  JobFits(NoJob, n) /\ NoJob.lane = "none"
BY NewJobFits DEF NoJob

\* Settling or queueing changes payloads for others that fit.
LEMMA PayloadsSettle ==
  ASSUME NEW n \in Nat, StoreFits(n), NEW queued, Settles(queued),
         DOMAIN queued \subseteq {"review", "handoff"},
         "review" \in DOMAIN queued => queued["review"] \in 0 .. n,
         "handoff" \in DOMAIN queued => queued["handoff"].url \in 0 .. n
  PROVE  pending' \subseteq {"pr", "review", "handoff"} /\ PayloadFits(payload', n)
<1>1. DOMAIN payload = {"pr", "review", "handoff"} /\ PayloadFits(payload, n)
  BY DEF StoreFits, PayloadFits
<1>2. /\ NoPayloads["pr"] = 0 /\ NoPayloads["review"] = 0 /\ NoPayloads["handoff"].url = 0
  BY DEF NoPayloads
<1>3. pending' \subseteq {"pr", "review", "handoff"}
  BY DEF Settles, StoreFits
<1>4. payload' = [p \in DOMAIN payload |->
                    IF p \in DOMAIN queued THEN queued[p]
                    ELSE IF p = job.ref THEN NoPayloads[p] ELSE payload[p]]
  BY DEF Settles
<1>5. DOMAIN payload' = {"pr", "review", "handoff"}
  BY <1>1, <1>4
<1>6. payload'["pr"] \in {0, payload["pr"]}
  BY <1>1, <1>2, <1>4
<1>7. payload'["review"] \in 0 .. n
  BY <1>1, <1>2, <1>4 DEF PayloadFits
<1>8. payload'["handoff"].url \in 0 .. n
  BY <1>1, <1>2, <1>4 DEF PayloadFits
<1> QED
  BY <1>1, <1>3, <1>5, <1>6, <1>7, <1>8 DEF PayloadFits

\* The same of queueing one alone.
LEMMA PayloadsQueue ==
  ASSUME NEW n \in Nat, StoreFits(n), NEW p \in {"pr", "review", "handoff"}, NEW data,
         Queues(p, data),
         IF p = "handoff" THEN data.url \in 0 .. n ELSE data \in 0 .. n
  PROVE  pending' \subseteq {"pr", "review", "handoff"} /\ PayloadFits(payload', n)
<1>1. PayloadFits(payload, n) /\ payload' = [payload EXCEPT ![p] = data]
  BY DEF StoreFits, Queues
<1>2. pending' \subseteq {"pr", "review", "handoff"}
  BY DEF StoreFits, Queues
<1>3. CASE p = "pr"
  BY <1>1, <1>2, <1>3 DEF PayloadFits
<1>4. CASE p = "review"
  BY <1>1, <1>2, <1>4 DEF PayloadFits
<1>5. CASE p = "handoff"
  BY <1>1, <1>2, <1>5 DEF PayloadFits
<1> QED
  BY <1>3, <1>4, <1>5

-----------------------------------------------------------------------------
(* Copies: every step, for n pull requests.                                *)

\* The parts of a job's step.
LEMMA StepFits ==
  ASSUME NEW n \in Nat, CopiesFit(n),
         state' \in {state, "Ready", "Running", "NeedsInfo", "Handoff", "Done"},
         feedback' \in 0 .. (MaxRounds + 1)
  PROVE  /\ UNCHANGED store => StoreFits(n)'
         /\ UNCHANGED <<facts, resume>> /\ pending' \subseteq {"pr", "review", "handoff"}
              /\ PayloadFits(payload', n) => StoreFits(n)'
         /\ UNCHANGED seen /\ JobFits(job', n) => LanesFit(n)'
         /\ StoreFits(n)' /\ LanesFit(n)' => CopiesFit(n)'
<1>1. UNCHANGED store => StoreFits(n)'
  BY DEF CopiesFit, store, StoreFits
<1>2. UNCHANGED <<facts, resume>> /\ pending' \subseteq {"pr", "review", "handoff"}
        /\ PayloadFits(payload', n) => StoreFits(n)'
  BY DEF CopiesFit, StoreFits
<1>3. UNCHANGED seen /\ JobFits(job', n) => LanesFit(n)'
  BY DEF CopiesFit, LanesFit
<1>4. state' \in IssueStates
  BY DEF CopiesFit, IssueStates
<1> QED
  BY <1>1, <1>2, <1>3, <1>4 DEF CopiesFit

\* A job that settles its reference alone, and ends its row.
LEMMA SettledFits ==
  ASSUME NEW n \in Nat, StoreFits(n), Settles(<<>>), EndsRow(job),
         facts'.status \in Statuses \cup {"none"}, facts'.url \in 0 .. n
  PROVE  StoreFits(n)'
<1>1. pending' \subseteq {"pr", "review", "handoff"} /\ PayloadFits(payload', n)
  <2> DEFINE q == <<>>
  <2>1. DOMAIN q = {} /\ Settles(q)
    OBVIOUS
  <2> HIDE DEF q
  <2> QED
    BY <2>1, PayloadsSettle
<1>2. resume' \in {"none", resume}
  BY DEF EndsRow
<1> QED
  BY <1>1, <1>2 DEF StoreFits

\* The agent may name a pull request, and stops with it.
LEMMA AgentStepsCopies ==
  ASSUME NEW n \in Nat, CopiesFit(n), pr.url \in 0 .. n, round \in 0 .. MaxRounds, AgentSteps
  PROVE  CopiesFit(n)'
<1> USE DEF host, local, lanes
<1>0. /\ JobFits(job, n) /\ job.url \in 0 .. n /\ JobFits(NoJob, n)
      /\ feedback \in 0 .. (MaxRounds + 1) /\ round \in 0 .. (MaxRounds + 1)
      /\ 0 \in 0 .. n /\ 0 \in 0 .. (MaxRounds + 1)
  <2>1. MaxRounds \in Nat
    BY BoundsAssumption
  <2> QED
    BY <2>1, NoJobFits DEF CopiesFit, LanesFit, JobFits
<1>1. CASE Begin
  <2>1. JobFits(job', n)
    <3>1. job' = NoJob \/ job' = [job EXCEPT !.step = "prepare", !.was = "Other"]
      BY <1>1 DEF Begin, Quits
    <3>2. JobFits([job EXCEPT !.step = "prepare", !.was = "Other"], n)
      BY <1>0, JobGoesFit
    <3> QED
      BY <1>0, <3>1, <3>2
  <2>2. state' \in {state, "Running"} /\ UNCHANGED <<store, seen, feedback>>
    BY <1>1 DEF Begin
  <2> QED
    BY <1>0, <2>1, <2>2, StepFits
<1>2. CASE Prepare
  <2>1. JobFits(job', n)
    <3>1. CASE job' = [job EXCEPT !.step = "agent", !.asked = ""]
      BY <1>0, <3>1, JobGoesFit
    <3>2. CASE Quits
      BY <1>0, <3>2 DEF Quits
    <3>3. CASE Stops(RecordOfStop([Stop("workspace", 0) EXCEPT !.runtime = "timeout"]))
      <4> DEFINE in == [Stop("workspace", 0) EXCEPT !.runtime = "timeout"]
      <4>1. in.url \in 0 .. n
        BY <1>0, StopUrls
      <4> HIDE DEF in
      <4>2. RecordFits(RecordOfStop(in), n)
        BY <4>1, StopFits
      <4>3. Stops(RecordOfStop(in))
        BY <3>3 DEF in
      <4> QED
        BY <1>0, <4>2, <4>3, StopsFit
    <3> QED
      BY <1>2, <3>1, <3>2, <3>3 DEF Prepare
  <2>2. feedback' \in {feedback, round} /\ UNCHANGED <<state, store, seen>>
    BY <1>2 DEF Prepare, Fetched
  <2> QED
    BY <1>0, <2>1, <2>2, StepFits
<1>3. CASE AgentChanges
  <2>1. JobFits(job', n)
    <3>1. PICK url \in {0, pr.url} : job' = [job EXCEPT !.step = "scope", !.url = url]
      BY <1>3 DEF AgentChanges
    <3>2. url \in 0 .. n
      BY <1>0
    <3>3. \A u \in 0 .. n : JobFits([job EXCEPT !.step = "scope", !.url = u], n)
      BY <1>0, JobGoesFit
    <3> QED
      BY <3>1, <3>2, <3>3
  <2>2. UNCHANGED <<state, store, seen, feedback>>
    BY <1>3 DEF AgentChanges
  <2> QED
    BY <1>0, <2>1, <2>2, StepFits
<1>4. CASE AgentIsIdle \/ ScopePasses
  <2>1. JobFits(job', n)
    BY <1>0, <1>4, JobGoesFit DEF AgentIsIdle, ScopePasses, Goes
  <2>2. UNCHANGED <<state, store, seen, feedback>>
    BY <1>4 DEF AgentIsIdle, ScopePasses
  <2> QED
    BY <1>0, <2>1, <2>2, StepFits
<1>5. CASE AgentFails
  <2>1. JobFits(job', n)
    <3>1. PICK url \in {0, pr.url} : \E s \in StopsBeforePR(url) : Stops(RecordOfStop(s))
      BY <1>5 DEF AgentFails
    <3>2. PICK s \in StopsBeforePR(url) : Stops(RecordOfStop(s))
      BY <3>1
    <3>3. s.url \in 0 .. n
      BY <1>0, StopUrls
    <3> QED
      BY <1>0, <3>2, <3>3, StopFits, StopsFit
  <2>2. UNCHANGED <<state, store, seen, feedback>>
    BY <1>5 DEF AgentFails
  <2> QED
    BY <1>0, <2>1, <2>2, StepFits
<1>6. CASE AgentAsks
  <2>1. JobFits(job', n)
    <3> DEFINE stop == [Stop("needs_info", 0) EXCEPT !.questions = TRUE]
               failed == [stop EXCEPT !.runtime = "needs_info_failed"]
    <3>1. stop.url \in 0 .. n /\ failed.url \in 0 .. n
      BY <1>0, StopUrls
    <3>2. Stops(RecordOfStop(stop)) \/ Stops(RecordOfStop(failed))
      BY <1>6 DEF AgentAsks
    <3> HIDE DEF stop, failed
    <3> QED
      BY <1>0, <3>1, <3>2, StopFits, StopsFit
  <2>2. state' \in {state, "NeedsInfo"} /\ UNCHANGED <<store, seen, feedback>>
    BY <1>6 DEF AgentAsks
  <2> QED
    BY <1>0, <2>1, <2>2, StepFits
<1>7. CASE ScopeBlocks \/ ScopeUnknown
  <2>1. JobFits(job', n)
    <3> DEFINE out == [Stop("scope_guard", job.url) EXCEPT !.outOfScope = TRUE]
               odd == [Stop("scope_guard", job.url) EXCEPT !.scopeError = TRUE]
    <3>1. out.url \in 0 .. n /\ odd.url \in 0 .. n
      BY <1>0, StopUrls
    <3>2. Stops(RecordOfStop(out)) \/ Stops(RecordOfStop(odd))
      BY <1>7 DEF ScopeBlocks, ScopeUnknown
    <3> HIDE DEF out, odd
    <3> QED
      BY <1>0, <3>1, <3>2, StopFits, StopsFit
  <2>2. state' \in {state, "Ready"} /\ UNCHANGED <<store, seen, feedback>>
    BY <1>7 DEF ScopeBlocks, ScopeUnknown
  <2> QED
    BY <1>0, <2>1, <2>2, StepFits
<1> QED
  BY <1>1, <1>2, <1>3, <1>4, <1>5, <1>6, <1>7 DEF AgentSteps

\* The handover writes the number of the pull request it has, or of the one
\* it opens, into payloads and records.
LEMMA HandoffStepsCopies ==
  ASSUME NEW n \in Nat, CopiesFit(n), pr'.url \in 0 .. n, HandoffSteps
  PROVE  CopiesFit(n)'
<1> USE DEF host, local, lanes
<1>0. /\ JobFits(job, n) /\ job.url \in 0 .. n /\ JobFits(NoJob, n) /\ StoreFits(n)
      /\ feedback \in 0 .. (MaxRounds + 1) /\ 0 \in 0 .. n
  BY NoJobFits DEF CopiesFit, LanesFit, JobFits
<1>1. CASE QueuePR
  <2>1. JobFits(job', n)
    <3> DEFINE in == Stop("handoff", 0)
    <3>1. in.url \in 0 .. n
      BY <1>0, StopUrls
    <3>2. Goes("commit") \/ Stops(RecordOfStop(in))
      BY <1>1 DEF QueuePR
    <3> HIDE DEF in
    <3> QED
      BY <1>0, <3>1, <3>2, JobGoesFit, StopFits, StopsFit DEF Goes
  <2>2. pending' \subseteq {"pr", "review", "handoff"} /\ PayloadFits(payload', n)
    <3>1. CASE Queues("pr", job.url)
      BY <1>0, <3>1, PayloadsQueue
    <3>2. CASE UNCHANGED <<pending, payload>>
      BY <1>0, <3>2 DEF StoreFits
    <3> QED
      BY <1>1, <3>1, <3>2 DEF QueuePR
  <2>3. UNCHANGED <<state, facts, resume, seen, feedback>>
    BY <1>1 DEF QueuePR
  <2> QED
    BY <1>0, <2>1, <2>2, <2>3, StepFits
<1>2. CASE CommitWork
  <2>1. JobFits(job', n)
    BY <1>0, <1>2, JobGoesFit DEF CommitWork, Goes, Quits
  <2>2. pending' \subseteq {"pr", "review", "handoff"} /\ PayloadFits(payload', n)
    <3>1. CASE Settles(<<>>)
      <4> DEFINE q == <<>>
      <4>1. DOMAIN q = {} /\ Settles(q)
        BY <3>1
      <4> HIDE DEF q
      <4> QED
        BY <1>0, <4>1, PayloadsSettle
    <3>2. CASE UNCHANGED <<pending, payload>>
      BY <1>0, <3>2 DEF StoreFits
    <3> QED
      BY <1>2, <3>1, <3>2 DEF CommitWork
  <2>3. UNCHANGED <<state, facts, resume, seen, feedback>>
    BY <1>2 DEF CommitWork
  <2> QED
    BY <1>0, <2>1, <2>2, <2>3, StepFits
<1>3. CASE HandoffFails
  <2>1. JobFits(job', n)
    <3> DEFINE in == Stop("handoff", IF job.kind = "pr" THEN job.url ELSE 0)
    <3>1. in.url \in 0 .. n
      <4>1. in.url = IF job.kind = "pr" THEN job.url ELSE 0
        BY StopUrls
      <4> QED
        BY <1>0, <4>1
    <3>2. Stops(RecordOfStop(in))
      BY <1>3 DEF HandoffFails
    <3> HIDE DEF in
    <3> QED
      BY <1>0, <3>1, <3>2, StopFits, StopsFit
  <2>2. UNCHANGED <<state, store, seen, feedback>>
    BY <1>3 DEF HandoffFails
  <2> QED
    BY <1>0, <2>1, <2>2, StepFits
<1>4. CASE Push
  <2>1. JobFits(job', n)
    BY <1>0, <1>4, JobGoesFit DEF Push, Goes
  <2>2. UNCHANGED <<state, store, seen, feedback>>
    BY <1>4 DEF Push
  <2> QED
    BY <1>0, <2>1, <2>2, StepFits
<1>5. CASE OpenPR
  <2>1. JobFits(job', n)
    <3>1. job' = [job EXCEPT !.step = "queueReview", !.url = pr'.url]
      BY <1>5 DEF OpenPR
    <3>2. \A url \in 0 .. n : JobFits([job EXCEPT !.step = "queueReview", !.url = url], n)
      BY <1>0, JobGoesFit
    <3> QED
      BY <3>1, <3>2
  <2>2. UNCHANGED <<state, store, seen, feedback>>
    BY <1>5 DEF OpenPR
  <2> QED
    BY <1>0, <2>1, <2>2, StepFits
<1>6. CASE QueueReview
  <2> DEFINE rq == [review |-> job.url]
             hq == [handoff |-> [url |-> job.url, verdict |-> NoReview]]
  <2>0. /\ UNCHANGED <<state, facts, seen, feedback>>
        /\ resume' \in {"none", resume}
    BY <1>6 DEF QueueReview, GivesUp, EndsRow
  <2>1. /\ DOMAIN rq = {"review"} /\ rq["review"] = job.url
        /\ DOMAIN hq = {"handoff"} /\ hq["handoff"].url = job.url
    OBVIOUS
  <2>2. \/ Settles(rq) /\ job' = NoJob
        \/ Settles(hq) /\ job' = NoJob
        \/ Settles(<<>>) /\ job' = NoJob
        \/ Queues("review", job.url) /\ job' = [job EXCEPT !.step = "review", !.ref = "review"]
        \/ UNCHANGED <<pending, payload>> /\ job' = [job EXCEPT !.step = "queueFinal"]
    BY <1>6 DEF QueueReview, GivesUp, Quits, Goes
  <2> HIDE DEF rq, hq
  <2>3. JobFits(job', n)
    <3>1. /\ JobFits([job EXCEPT !.step = "review", !.ref = "review"], n)
          /\ JobFits([job EXCEPT !.step = "queueFinal"], n)
      BY <1>0, JobGoesFit
    <3> QED
      BY <1>0, <2>2, <3>1
  <2>4. pending' \subseteq {"pr", "review", "handoff"} /\ PayloadFits(payload', n)
    <3>1. CASE Settles(rq) \/ Settles(hq)
      BY <1>0, <2>1, <3>1, PayloadsSettle
    <3>2. CASE Settles(<<>>)
      <4> DEFINE q == <<>>
      <4>1. DOMAIN q = {} /\ Settles(q)
        BY <3>2
      <4> HIDE DEF q
      <4> QED
        BY <1>0, <4>1, PayloadsSettle
    <3>3. CASE Queues("review", job.url)
      BY <1>0, <3>3, PayloadsQueue
    <3>4. CASE UNCHANGED <<pending, payload>>
      BY <1>0, <3>4 DEF StoreFits
    <3> QED
      BY <2>2, <3>1, <3>2, <3>3, <3>4
  <2>5. StoreFits(n)'
    BY <1>0, <2>0, <2>4 DEF StoreFits
  <2> QED
    BY <1>0, <2>0, <2>3, <2>5, StepFits
<1>7. CASE ReviewWaits \/ ReviewFails \/ ReviewRejects \/ FinalHandoff
  <2>1. CASE GivesUp
    <3>1. /\ state' \in {state, "Handoff"} /\ UNCHANGED <<facts, seen, feedback>>
          /\ job' = NoJob
      BY <1>7, <2>1 DEF ReviewWaits, ReviewFails, ReviewRejects, FinalHandoff, GivesUp, Quits,
                        Stops, NoJob, Job
    <3>2. StoreFits(n)'
      BY <1>0, <2>1, <3>1, SettledFits DEF GivesUp, StoreFits
    <3> QED
      BY <1>0, <3>1, <3>2, StepFits
  <2>2. CASE ~GivesUp
    <3>1. \/ \E status \in Statuses : \E v, err : Stops(Record(status, v, job.url, err))
          \/ \E s \in StopsInReview(job.url) : Stops(RecordOfStop(s))
      <4>1. {"review_not_ready", "review_failed", "success", "failed"} \subseteq Statuses
        BY DEF Statuses
      <4> QED
        BY <1>7, <2>2, <4>1 DEF ReviewWaits, ReviewFails, ReviewRejects, FinalHandoff
    <3>2. JobFits(job', n)
      <4>1. CASE \E status \in Statuses : \E v, err : Stops(Record(status, v, job.url, err))
        BY <1>0, <4>1, NewRecordFits, StopsFit
      <4>2. CASE \E s \in StopsInReview(job.url) : Stops(RecordOfStop(s))
        <5>1. PICK s \in StopsInReview(job.url) : Stops(RecordOfStop(s))
          BY <4>2
        <5>2. s.url \in 0 .. n
          BY <1>0, StopUrls
        <5> QED
          BY <1>0, <5>1, <5>2, StopFits, StopsFit
      <4> QED
        BY <3>1, <4>1, <4>2
    <3>3. state' \in {state, "Ready", "Handoff"} /\ UNCHANGED <<store, seen, feedback>>
      BY <1>7, <2>2 DEF ReviewWaits, ReviewFails, ReviewRejects, FinalHandoff, store
    <3> QED
      BY <1>0, <3>2, <3>3, StepFits
  <2> QED
    BY <2>1, <2>2
<1>8. CASE ReviewAccepts
  <2>1. JobFits(job', n)
    <3>1. PICK v \in Verdicts :
            job' = [job EXCEPT !.step = "queueFinal", !.verdict = v,
                               !.ref = IF Inline(job) THEN "none" ELSE @]
      BY <1>8 DEF ReviewAccepts
    <3> DEFINE ref == IF Inline(job) THEN "none" ELSE job.ref
    <3>2. job' = [job EXCEPT !.step = "queueFinal", !.verdict = v, !.ref = ref]
      BY <3>1
    <3> HIDE DEF ref
    <3> QED
      BY <1>0, <3>2, JobGoesFit
  <2>2. pending' \subseteq {"pr", "review", "handoff"} /\ PayloadFits(payload', n)
    <3>1. CASE Settles(<<>>)
      <4> DEFINE q == <<>>
      <4>1. DOMAIN q = {} /\ Settles(q)
        BY <3>1
      <4> HIDE DEF q
      <4> QED
        BY <1>0, <4>1, PayloadsSettle
    <3>2. CASE UNCHANGED <<pending, payload>>
      BY <1>0, <3>2 DEF StoreFits
    <3> QED
      BY <1>8, <3>1, <3>2 DEF ReviewAccepts
  <2>3. UNCHANGED <<state, facts, resume, seen, feedback>>
    BY <1>8 DEF ReviewAccepts
  <2> QED
    BY <1>0, <2>1, <2>2, <2>3, StepFits
<1>9. CASE QueueFinal
  <2> DEFINE data == [url |-> job.url, verdict |-> job.verdict]
             q == [handoff |-> data]
  <2>1. /\ data.url = job.url /\ DOMAIN q = {"handoff"} /\ q["handoff"] = data
        /\ \/ Queues("handoff", data) /\ Goes("final")
           \/ Settles(q) /\ Quits
    BY <1>9 DEF QueueFinal
  <2> HIDE DEF data, q
  <2>2. pending' \subseteq {"pr", "review", "handoff"} /\ PayloadFits(payload', n)
    BY <1>0, <2>1, PayloadsQueue, PayloadsSettle
  <2>3. JobFits(job', n)
    BY <1>0, <2>1, JobGoesFit DEF Goes, Quits
  <2>4. UNCHANGED <<state, facts, resume, seen, feedback>>
    BY <1>9 DEF QueueFinal
  <2> QED
    BY <1>0, <2>2, <2>3, <2>4, StepFits
<1> QED
  BY <1>1, <1>2, <1>3, <1>4, <1>5, <1>6, <1>7, <1>8, <1>9 DEF HandoffSteps

\* What the job had in hand is what the store remembers.
LEMMA WriteRecordCopies ==
  ASSUME NEW n \in Nat, CopiesFit(n), WriteRecord
  PROVE  CopiesFit(n)'
<1>0. /\ RecordFits(job.rec, n) /\ facts.url \in 0 .. n /\ StoreFits(n)
      /\ feedback \in 0 .. (MaxRounds + 1)
  BY DEF CopiesFit, LanesFit, JobFits, StoreFits
<1>1. facts'.status \in Statuses \cup {"none"} /\ facts'.url \in 0 .. n
  BY <1>0, RememberFits DEF WriteRecord
<1>2. StoreFits(n)'
  BY <1>0, <1>1, SettledFits DEF WriteRecord, GivesUp
<1>3. UNCHANGED <<state, seen, feedback>> /\ JobFits(job', n)
  BY NoJobFits, GaveUp DEF WriteRecord, local
<1> QED
  BY <1>0, <1>2, <1>3, StepFits

\* A picked job has the numbers of the payload or of the open pull request.
LEMMA PicksFit ==
  ASSUME NEW n \in Nat, CopiesFit(n), NEW l \in Lanes, NEW j,
         JobFits(j, n), j.lane \in {l, "none"}, seen' = [seen EXCEPT ![l] = j]
  PROVE  UNCHANGED job => LanesFit(n)'
BY DEF CopiesFit, LanesFit

\* The jobs of the lanes fit.
LEMMA PickedFit ==
  ASSUME NEW n \in Nat, NEW url \in 0 .. n
  PROVE  /\ LET j == [Job("hand", "commit") EXCEPT !.kind = "pr", !.ref = "pr", !.url = url]
            IN JobFits(j, n) /\ j.lane = "hand"
         /\ LET j == [Job("rev", "review") EXCEPT !.kind = "pending", !.ref = "review",
                        !.url = url]
            IN JobFits(j, n) /\ j.lane = "rev"
         /\ LET j == [Job("rev", "queueReview") EXCEPT !.kind = "resume", !.url = url]
            IN JobFits(j, n) /\ j.lane = "rev"
<1>1. \A l \in Lanes : \A s : JobFits(Job(l, s), n) /\ Job(l, s).lane = l
  BY NewJobFits
<1>2. {"impl", "hand", "rev"} \subseteq Lanes
  BY DEF Lanes
<1> QED
  BY <1>1, <1>2 DEF JobFits

\* Picking and locking hand numbers on.
LEMMA PickingCopies ==
  ASSUME NEW n \in Nat, CopiesFit(n), pr.url \in 0 .. n, Picking
  PROVE  CopiesFit(n)'
<1> USE DEF host, local, store, lanes, past
<1>0. /\ PayloadFits(payload, n) /\ JobFits(NoJob, n) /\ NoJob.lane = "none"
      /\ StoreFits(n) /\ LanesFit(n) /\ JobFits(job, n)
      /\ feedback \in 0 .. (MaxRounds + 1) /\ 0 \in 0 .. n
      /\ "impl" \in Lanes /\ "hand" \in Lanes /\ "rev" \in Lanes
  BY NoJobFits DEF CopiesFit, StoreFits, LanesFit, Lanes
<1>1. CASE ImplSelect
  <2> DEFINE j == [Job("impl", "begin") EXCEPT !.was = state, !.asked = pr.review]
  <2>0. JobFits(Job("impl", "begin"), n) /\ Job("impl", "begin").lane = "impl"
    BY <1>0, NewJobFits
  <2>1. JobFits(j, n) /\ j.lane = "impl"
    BY <2>0 DEF JobFits
  <2> HIDE DEF j
  <2>2. seen' = [seen EXCEPT !["impl"] = j] /\ UNCHANGED <<state, feedback, store, job>>
    BY <1>1 DEF ImplSelect, Picks, j
  <2> QED
    BY <1>0, <2>1, <2>2, PicksFit, StepFits
<1>2. CASE HandSeePR
  <2> DEFINE j == [Job("hand", "commit") EXCEPT !.kind = "pr", !.ref = "pr", !.url = payload.pr]
  <2>0. payload.pr \in 0 .. n
    BY <1>0 DEF PayloadFits
  <2>1. JobFits(j, n) /\ j.lane = "hand"
    BY <2>0, PickedFit
  <2> HIDE DEF j
  <2>2. seen' = [seen EXCEPT !["hand"] = j] /\ UNCHANGED <<state, feedback, store, job>>
    BY <1>2 DEF HandSeePR, Picks, j
  <2> QED
    BY <1>0, <2>1, <2>2, PicksFit, StepFits
<1>3. CASE HandSeeHandoff
  <2> DEFINE j == [Job("hand", "final") EXCEPT !.kind = "handoff", !.ref = "handoff",
                     !.url = payload.handoff.url, !.verdict = payload.handoff.verdict]
  <2>0. /\ payload.handoff.url \in 0 .. n
        /\ JobFits(Job("hand", "final"), n) /\ Job("hand", "final").lane = "hand"
    BY <1>0, NewJobFits DEF PayloadFits
  <2>1. JobFits(j, n) /\ j.lane = "hand"
    BY <2>0 DEF JobFits
  <2> HIDE DEF j
  <2>2. seen' = [seen EXCEPT !["hand"] = j] /\ UNCHANGED <<state, feedback, store, job>>
    BY <1>3 DEF HandSeeHandoff, Picks, j
  <2> QED
    BY <1>0, <2>1, <2>2, PicksFit, StepFits
<1>4. CASE RevSeePending
  <2> DEFINE j == [Job("rev", "review") EXCEPT !.kind = "pending", !.ref = "review",
                     !.url = payload.review]
  <2>0. payload.review \in 0 .. n
    BY <1>0 DEF PayloadFits
  <2>1. JobFits(j, n) /\ j.lane = "rev"
    BY <2>0, PickedFit
  <2> HIDE DEF j
  <2>2. seen' = [seen EXCEPT !["rev"] = j] /\ UNCHANGED <<state, feedback, store, job>>
    BY <1>4 DEF RevSeePending, Picks, j
  <2> QED
    BY <1>0, <2>1, <2>2, PicksFit, StepFits
<1>5. CASE ResumeSchedule \/ RevSeeResume
  <2>1. /\ UNCHANGED <<state, feedback, facts, pending, payload, job>>
        /\ resume' \in {"queued", "claimed", "none"}
        /\ seen' = seen \/ seen' = [seen EXCEPT !["rev"] = ResumeJob]
    BY <1>5 DEF ResumeSchedule, RevSeeResume
  <2>2. JobFits(ResumeJob, n) /\ ResumeJob.lane = "rev"
    BY <1>0, PickedFit DEF ResumeJob
  <2>3. LanesFit(n)'
    <3>1. CASE seen' = seen
      BY <1>0, <2>1, <3>1 DEF LanesFit
    <3>2. CASE seen' = [seen EXCEPT !["rev"] = ResumeJob]
      BY <1>0, <2>1, <2>2, <3>2, PicksFit
    <3> QED
      BY <2>1, <3>1, <3>2
  <2>4. StoreFits(n)'
    BY <1>0, <2>1 DEF StoreFits
  <2> QED
    BY <1>0, <2>1, <2>3, <2>4, StepFits
<1>6. ASSUME NEW l \in Lanes, TakeLock(l)
      PROVE  CopiesFit(n)'
  <2>1. /\ JobFits(seen[l], n) /\ seen[l].url \in 0 .. n
    BY <1>0 DEF LanesFit, JobFits
  <2>2. /\ job' = seen[l] /\ seen' = [seen EXCEPT ![l] = NoJob]
        /\ UNCHANGED <<state, feedback, facts, resume>>
    BY <1>6 DEF TakeLock
  <2>3. LanesFit(n)'
    BY <1>0, <2>1, <2>2 DEF LanesFit
  <2>4. /\ pending' \in {pending, pending \cup {"pr"}}
        /\ payload' \in {payload, [payload EXCEPT !.pr = seen[l].url]}
    BY <1>6 DEF TakeLock
  <2>5. PayloadFits(payload', n)
    BY <1>0, <2>1, <2>4 DEF PayloadFits
  <2>6. StoreFits(n)'
    BY <1>0, <2>2, <2>4, <2>5 DEF StoreFits
  <2> QED
    BY <1>0, <2>2, <2>3, <2>6, StepFits
<1>7. ASSUME NEW l \in Lanes, FindLocked(l)
      PROVE  CopiesFit(n)'
  <2>1. /\ seen' = [seen EXCEPT ![l] = NoJob] /\ resume' \in {"none", resume}
        /\ UNCHANGED <<state, feedback, facts, pending, payload, job>>
    BY <1>7 DEF FindLocked, EndsRow
  <2>2. LanesFit(n)'
    BY <1>0, <2>1, PicksFit
  <2>3. StoreFits(n)'
    BY <1>0, <2>1 DEF StoreFits
  <2> QED
    BY <1>0, <2>1, <2>2, <2>3, StepFits
<1> QED
  BY <1>1, <1>2, <1>3, <1>4, <1>5, <1>6, <1>7 DEF Picking

\* The merge and cleanup lanes move the issue and leave feedback.
LEMMA LanesCopies ==
  ASSUME NEW n \in Nat, CopiesFit(n), round \in 0 .. MaxRounds, MergeSteps \/ CleanSteps
  PROVE  CopiesFit(n)'
<1> USE DEF host, local, lanes
<1>0. /\ StoreFits(n) /\ LanesFit(n) /\ JobFits(job, n)
      /\ feedback \in 0 .. (MaxRounds + 1) /\ round \in 0 .. (MaxRounds + 1)
      /\ 0 \in 0 .. (MaxRounds + 1) /\ MaxRounds + 1 \in 0 .. (MaxRounds + 1)
  <2>1. MaxRounds \in Nat
    BY BoundsAssumption
  <2> QED
    BY <2>1 DEF CopiesFit, LanesFit
<1>1. /\ UNCHANGED <<store, seen, job>>
      /\ state' \in {state, "Ready", "Done"}
      /\ feedback' \in {feedback, 0, round, MaxRounds + 1}
  <2>1. CASE MergeSchedule \/ MergeClaim \/ MergeConverge \/ MergeToReady \/ MergeSquash
             \/ MergeDeleteBranch \/ MergeToDone \/ CleanDecide
    BY <2>1 DEF MergeSchedule, MergeClaim, MergeConverge, MergeToReady, MergeSquash,
                MergeDeleteBranch, MergeToDone, CleanDecide
  <2>2. CASE MergeHandle
    BY <2>2 DEF MergeHandle, ConflictFeedback
  <2>3. CASE MergeRemove \/ CleanDelete
    BY <2>3 DEF MergeRemove, CleanDelete, RemoveTree
  <2> QED
    BY <2>1, <2>2, <2>3 DEF MergeSteps, CleanSteps
<1> QED
  BY <1>0, <1>1, StepFits

\* Whatever happens outside hands on nothing.
LEMMA EnvironmentCopies ==
  ASSUME NEW n \in Nat, CopiesFit(n), Environment
  PROVE  CopiesFit(n)'
<1> USE DEF host, local, store, lanes
<1>0. /\ StoreFits(n) /\ LanesFit(n) /\ feedback \in 0 .. (MaxRounds + 1)
      /\ JobFits(NoJob, n) /\ NoJob.lane = "none"
  BY NoJobFits DEF CopiesFit
<1>1. /\ state' \in {state, "Ready"}
      /\ UNCHANGED <<feedback, facts, pending, payload>>
      /\ resume' \in {resume, "queued", "stale"}
      /\ \/ UNCHANGED <<job, seen>>
         \/ job' = NoJob /\ seen' = [l \in Lanes |-> NoJob]
  BY DEF Environment, HumanReviews, HumanMerges, HumanAnswers, ResumeRepair, ChecksFinish,
         Conflict, Crash, RowRepair
<1>2. StoreFits(n)'
  BY <1>0, <1>1 DEF StoreFits
<1>3. LanesFit(n)'
  BY <1>0, <1>1 DEF LanesFit
<1> QED
  BY <1>0, <1>1, <1>2, <1>3, StepFits

\* Nobody gets hold of a number before its pull request is opened.
LEMMA CopyStep ==
  ASSUME PRInv, CopyInv, Next
  PROVE  CopyInv'
<1>1. PRInv' /\ Opened' \in Nat /\ Opened <= Opened' /\ Opened \in Nat
  BY PRStep, OpenedIsBounded
<1> PICK n \in Nat : n = Opened'
  BY <1>1
<1>2. CopiesFit(n)
  BY <1>1, FitsMore DEF CopyInv, CopiesFit
<1>3. pr.url \in 0 .. n /\ round \in 0 .. MaxRounds
  <2>1. pr.url \in 0 .. Opened
    BY OpenedIsBounded
  <2> QED
    BY <1>1, <2>1 DEF PRInv
<1>4. pr'.url \in 0 .. n
  <2>1. CASE pr' = NoPR
    BY <2>1, NoPRFields
  <2>2. CASE pr' # NoPR
    <3>1. Cardinality(landed') \in Nat
      BY <1>1, FS_CardinalityType DEF PRInv
    <3> QED
      BY <1>1, <2>2, <3>1 DEF PRInv, Opened
  <2> QED
    BY <2>1, <2>2
<1>5. CopiesFit(n)'
  BY <1>2, <1>3, <1>4, AgentStepsCopies, HandoffStepsCopies, WriteRecordCopies, PickingCopies,
     LanesCopies, EnvironmentCopies DEF Next, JobSteps
<1> QED
  BY <1>5 DEF CopyInv

-----------------------------------------------------------------------------
(* Rows: every step, for n pull requests.                                  *)

\* A row that ends is about no pull request, one that goes on about its own.
LEMMA MergeUrls ==
  ASSUME NEW n \in Nat, RowsFit(n),
         EndsMerge \/ \E s : MergeGoes(s)
  PROVE  {"step", "url", "pr"} \subseteq DOMAIN merge' /\ merge'.url \in 0 .. n
<1>1. CASE EndsMerge
  BY <1>1 DEF EndsMerge
<1>2. CASE \E s : MergeGoes(s)
  BY <1>2 DEF MergeGoes, RowsFit
<1> QED
  BY <1>1, <1>2

\* The merge lane queues the pull request it sees open.
LEMMA MergeRows ==
  ASSUME NEW n \in Nat, RowsFit(n), pr.url \in 0 .. n, MergeSteps
  PROVE  RowsFit(n)'
<1> USE DEF rows
<1>1. CASE MergeSchedule
  BY <1>1 DEF MergeSchedule, RowsFit
<1>2. CASE MergeClaim
  <2>1. PICK u \in waiting :
          /\ waiting' = waiting \ {u}
          /\ merge' = [step |-> "handle", url |-> u, pr |-> pr] \/ UNCHANGED merge
    BY <1>2 DEF MergeClaim
  <2>2. u \in 0 .. n /\ UNCHANGED <<stale, blocked>>
    BY <1>2 DEF MergeClaim, RowsFit
  <2>3. {"step", "url", "pr"} \subseteq DOMAIN merge' /\ merge'.url \in 0 .. n
    <3>1. CASE merge' = [step |-> "handle", url |-> u, pr |-> pr]
      BY <2>2, <3>1
    <3>2. CASE UNCHANGED merge
      BY <3>2 DEF RowsFit
    <3> QED
      BY <2>1, <3>1, <3>2
  <2> QED
    BY <2>1, <2>2, <2>3 DEF RowsFit
<1>3. CASE MergeHandle \/ MergeConverge \/ MergeToReady \/ MergeSquash
           \/ MergeDeleteBranch \/ MergeToDone \/ MergeRemove
  <2>1. EndsMerge \/ \E s : MergeGoes(s)
    BY <1>3 DEF MergeHandle, MergeConverge, MergeToReady, MergeSquash, MergeDeleteBranch,
                MergeToDone, MergeRemove
  <2>2. UNCHANGED <<waiting, stale, blocked>>
    BY <1>3 DEF MergeHandle, MergeConverge, MergeToReady, MergeSquash, MergeDeleteBranch,
                MergeToDone, MergeRemove
  <2> QED
    BY <2>1, <2>2, MergeUrls DEF RowsFit
<1> QED
  BY <1>1, <1>2, <1>3 DEF MergeSteps

\* Nobody else queues one: a crash and the operator only move rows.
LEMMA OtherRows ==
  ASSUME NEW n \in Nat, RowsFit(n), Picking \/ JobSteps \/ CleanSteps \/ Environment
  PROVE  RowsFit(n)'
<1>1. CASE Crash
  <2>1. /\ waiting' = waiting /\ stale' \subseteq stale \cup {merge.url}
        /\ blocked' \subseteq blocked \cup {"impl", "clean"} /\ EndsMerge
    BY <1>1 DEF Crash
  <2> QED
    BY <2>1, MergeUrls DEF RowsFit
<1>2. CASE RowRepair
  BY <1>2 DEF RowRepair, RowsFit
<1>3. CASE UNCHANGED <<merge, rows>>
  BY <1>3 DEF RowsFit, rows
<1>4. CASE Picking \/ CleanSteps
  <2>1. UNCHANGED <<merge, rows>>
    BY <1>4
       DEF Picking, ImplSelect, HandSeePR, HandSeeHandoff, RevSeePending, ResumeSchedule,
           RevSeeResume, Picks, TakeLock, FindLocked, CleanSteps, CleanDecide, CleanDelete,
           lanes
  <2> QED
    BY <1>3, <2>1
<1>5. CASE JobSteps
  <2>1. CASE AgentSteps \/ WriteRecord
    BY <1>3, <2>1
       DEF AgentSteps, Begin, Prepare, AgentChanges, AgentIsIdle, AgentFails, AgentAsks,
           ScopePasses, ScopeBlocks, ScopeUnknown, WriteRecord, lanes
  <2>2. CASE HandoffSteps
    BY <1>3, <2>2
       DEF HandoffSteps, QueuePR, CommitWork, HandoffFails, Push, OpenPR, QueueReview,
           ReviewWaits, ReviewFails, ReviewRejects, ReviewAccepts, QueueFinal, FinalHandoff,
           lanes
  <2> QED
    BY <1>5, <2>1, <2>2 DEF JobSteps
<1>6. CASE HumanReviews \/ HumanMerges \/ HumanAnswers \/ ResumeRepair \/ ChecksFinish
           \/ Conflict
  BY <1>3, <1>6
     DEF HumanReviews, HumanMerges, HumanAnswers, ResumeRepair, ChecksFinish, Conflict, lanes
<1> QED
  BY <1>1, <1>2, <1>4, <1>5, <1>6 DEF Environment

\* Nobody queues a pull request before it is opened.
LEMMA RowStep ==
  ASSUME PRInv, RowInv, Next
  PROVE  RowInv'
<1>1. Opened' \in Nat /\ Opened <= Opened' /\ Opened \in Nat /\ pr.url \in 0 .. Opened
  BY PRStep, OpenedIsBounded
<1> PICK n \in Nat : n = Opened'
  BY <1>1
<1>2. \A i : i \in 0 .. Opened => i \in 0 .. n
  BY <1>1
<1>3. RowsFit(n) /\ pr.url \in 0 .. n
  BY <1>1, <1>2 DEF RowInv, RowsFit
<1>4. RowsFit(n)'
  BY <1>3, MergeRows, OtherRows DEF Next
<1> QED
  BY <1>4 DEF RowInv

-----------------------------------------------------------------------------
(* The theorem.                                                            *)

\* The invariant holds at first.
LEMMA TInvInit == Init => TInv
<1> SUFFICES ASSUME Init PROVE TInv
  OBVIOUS
<1>0. MaxRounds \in Nat /\ MaxAttempts \in Nat
  BY BoundsAssumption
<1>1. /\ pr = NoPR /\ landed = {} /\ round = 0 /\ merge.step = "none" /\ merge.pr = NoPR
      /\ {"step", "pr"} \subseteq DOMAIN merge
  BY DEF Init
<1>2. Cardinality(landed) = 0 /\ IsFiniteSet(landed) /\ Opened = 0 /\ Rounds = 0
  BY <1>1, FS_EmptySet, NoPRFields DEF Opened, Rounds
<1>3. PRInv
  BY <1>0, <1>1, <1>2, NoPRFields DEF PRInv
<1>4. /\ attempts = 0 /\ made = 0 /\ tip = 0 /\ drifted = {} /\ tree = NoTree
      /\ job = NoJob /\ DOMAIN seen = Lanes /\ \A l \in Lanes : seen[l] = NoJob
  BY DEF Init
<1>5. VersionInv
  <2>1. NoJob.step \notin Early /\ "impl" \in Lanes
    BY NoJobFields DEF Early, Lanes
  <2> QED
    BY <1>0, <1>4, <2>1, NoJobFields, TreeFields DEF VersionInv
<1>6. StoreFits(0)
  <2>1. facts = NoFacts /\ resume = "none" /\ pending = {} /\ payload = NoPayloads
    BY DEF Init
  <2>2. NoFacts.status = "none" /\ NoFacts.url = 0
    BY DEF NoFacts
  <2>3. PayloadFits(NoPayloads, 0)
    BY DEF PayloadFits, NoPayloads
  <2> QED
    BY <2>1, <2>2, <2>3 DEF StoreFits
<1>7. LanesFit(0)
  BY <1>4, NoJobFits DEF LanesFit
<1>8. CopyInv
  <2>1. state \in IssueStates /\ feedback = 0
    BY DEF Init, IssueStates
  <2>2. feedback \in 0 .. (MaxRounds + 1)
    BY <1>0, <2>1
  <2> QED
    BY <1>2, <1>6, <1>7, <2>1, <2>2 DEF CopyInv, CopiesFit
<1>9. RowInv
  <2>1. /\ waiting = {} /\ stale = {} /\ blocked = {}
        /\ {"step", "url", "pr"} \subseteq DOMAIN merge /\ merge.url = 0
    BY DEF Init
  <2> QED
    BY <1>2, <2>1 DEF RowInv, RowsFit
<1> QED
  BY <1>3, <1>5, <1>8, <1>9 DEF TInv

\* Every step keeps it.
LEMMA TInvStep == TInv /\ [Next]_vars => TInv'
<1> SUFFICES ASSUME TInv, [Next]_vars PROVE TInv'
  OBVIOUS
<1>1. CASE Next
  BY <1>1, PRStep, VersionStep, CopyStep, RowStep DEF TInv
<1>2. CASE UNCHANGED vars
  <2>1. PRInv' /\ Opened' = Opened
    BY <1>2, PRKept DEF TInv, vars, host, lanes, bounds
  <2>2. VersionInv'
    BY <1>2 DEF TInv, VersionInv, vars, host, local, bounds
  <2>3. CopyInv'
    BY <1>2, <2>1 DEF TInv, CopyInv, CopiesFit, StoreFits, LanesFit, vars, local, store
  <2>4. RowInv'
    BY <1>2, <2>1 DEF TInv, RowInv, RowsFit, vars, lanes, rows
  <2> QED
    BY <2>1, <2>2, <2>3, <2>4 DEF TInv
<1> QED
  BY <1>1, <1>2

\* It says what the type invariant says.
LEMMA TInvTypes == TInv /\ IInv => TypeOK
<1> SUFFICES ASSUME TInv, IInv PROVE TypeOK
  OBVIOUS
<1>1. PRInv /\ VersionInv /\ CopyInv /\ RowInv
  BY DEF TInv
<1>2. MaxRounds \in Nat /\ MaxAttempts \in Nat
  BY BoundsAssumption
<1>3. Opened \in Nat /\ Opened <= MaxRounds + 1
  BY <1>1, OpenedIsBounded
<1>4. \A i \in 0 .. Opened : i \in Urls
  BY <1>2, <1>3 DEF Urls
<1>5. pr.url \in Urls /\ \A l \in landed : l.url \in Urls /\ l.by \in {"lane", "human"}
  BY <1>1, <1>4, OpenedIsBounded DEF PRInv
<1>6. /\ pr.review \in {"", "APPROVED", "CHANGES_REQUESTED"}
      /\ pr.merge \in {"unknown", "mergeable", "conflict"}
  <2>1. pr.review \in Reviews /\ pr.merge \in {"unknown", "mergeable", "conflict"}
    BY <1>1 DEF PRInv
  <2> QED
    BY <2>1 DEF Reviews, Decided
<1>7. /\ tip \in 0 .. made /\ tree.head \in 0 .. tree.work /\ tree.work \in 0 .. made
      /\ made \in Versions /\ drifted \subseteq 1 .. made
  BY <1>1, <1>2 DEF VersionInv, Versions
<1>8. accepted \in BOOLEAN
  BY DEF IInv, Shape
<1>9. /\ state \in States \ {"Other"} /\ feedback \in 0 .. (MaxRounds + 1)
  BY <1>1 DEF CopyInv, CopiesFit, IssueStates, States
<1>10. /\ facts.status \in Statuses \cup {"none"} /\ facts.url \in Urls
       /\ resume \in {"none", "queued", "claimed", "stale"}
       /\ pending \subseteq {"pr", "review", "handoff"}
  BY <1>1, <1>4 DEF CopyInv, CopiesFit, StoreFits
<1>11. DOMAIN payload = DOMAIN NoPayloads
  <2>1. DOMAIN NoPayloads = {"pr", "review", "handoff"}
    BY DEF NoPayloads
  <2> QED
    BY <1>1, <2>1 DEF CopyInv, CopiesFit, StoreFits, PayloadFits
<1>12. job.lane \in Lanes \cup {"none"} /\ \A l \in Lanes : seen[l].lane \in {l, "none"}
  BY <1>1 DEF CopyInv, CopiesFit, LanesFit, JobFits
<1>13. waiting \cup stale \subseteq Urls /\ blocked \subseteq {"impl", "clean"}
  BY <1>1, <1>4 DEF RowInv, RowsFit
<1> QED
  BY <1>5, <1>6, <1>7, <1>8, <1>9, <1>10, <1>11, <1>12, <1>13 DEF TypeOK

\* Numbers keep to their bounds, for any set of lanes and any bounds: no
\* version is committed, pushed or judged that no attempt made (run_one.go,
\* handoff.go), and no payload, record or fact names a pull request that was
\* never opened (handoff.go, store.go), of which there is one more than humans
\* had rounds at most (merge.go).
THEOREM TypeCorrect == Spec => []TypeOK
<1>1. Spec => []TInv
  BY TInvInit, TInvStep, PTL DEF Spec
<1> QED
  BY <1>1, CopiesAreCovered, TInvTypes, PTL
=============================================================================
