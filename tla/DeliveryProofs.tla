--------------------------- MODULE DeliveryProofs ---------------------------
(***************************************************************************)
(* The lanes of Delivery keep DeliveryContract, for any set of lanes and   *)
(* any bounds.  The contract's guards speak of the past (was the work ever *)
(* accepted, was it approved, was anything merged); what a step relies on  *)
(* is a copy somebody made since: a payload, a picked job, a pull request  *)
(* as it was when the merge lane looked.  The invariant says that no copy  *)
(* outruns the past, wherever it waits and whatever is repeated.           *)
(***************************************************************************)
EXTENDS Delivery, TLAPS

\* Steps after an accepted review.
Late == {"queueFinal", "final"}

\* Whoever is to hand over, or will be once the lock is free, has an
\* accepted review behind it, in memory or in a payload.
HandoffsAreAccepted ==
  /\ job.step \in Late => accepted
  /\ \A l \in Lanes : seen[l].step \in Late => accepted
  /\ "handoff" \in pending => accepted
  /\ state = "Handoff" => accepted

\* An approval, also one the merge lane remembers, was given.
ApprovalsAreGiven ==
  /\ pr.review = "APPROVED" => approved
  /\ merge.pr.review = "APPROVED" => approved
  /\ merge.step = "squash" => accepted /\ approved

\* What follows a merge has one before it.
EndsAreMerged ==
  /\ merge.step \in {"branch", "toDone", "remove"} => landed # {}
  /\ state = "Done" => landed # {}
  /\ clean => landed # {}

\* The records have the fields the steps set.
Shape ==
  /\ "where" \in DOMAIN tree /\ "review" \in DOMAIN pr
  /\ "step" \in DOMAIN job
  /\ DOMAIN seen = Lanes /\ \A l \in Lanes : "step" \in DOMAIN seen[l]
  /\ {"step", "pr"} \subseteq DOMAIN merge
  /\ accepted \in BOOLEAN /\ approved \in BOOLEAN

IInv == Shape /\ HandoffsAreAccepted /\ ApprovalsAreGiven /\ EndsAreMerged

-----------------------------------------------------------------------------
(* Records and the operators the steps are built from.                     *)

\* A job has a step.
LEMMA JobFields ==
  ASSUME NEW l, NEW s
  PROVE  Job(l, s).step = s /\ "step" \in DOMAIN Job(l, s)
BY DEF Job

\* Nobody's job has the step none.
LEMMA NoJobFields == NoJob.step = "none" /\ "step" \in DOMAIN NoJob
BY DEF NoJob, Job

\* The picked jobs.
LEMMA PickedFields ==
  /\ \A was, asked : LET j == [Job("impl", "begin") EXCEPT !.was = was, !.asked = asked]
                     IN j.step = "begin" /\ "step" \in DOMAIN j
  /\ \A url : LET j == [Job("hand", "commit") EXCEPT !.kind = "pr", !.ref = "pr", !.url = url]
              IN j.step = "commit" /\ "step" \in DOMAIN j
  /\ \A url : LET j == [Job("rev", "review") EXCEPT !.kind = "pending", !.ref = "review",
                          !.url = url]
              IN j.step = "review" /\ "step" \in DOMAIN j
  /\ ResumeJob.step = "queueReview" /\ "step" \in DOMAIN ResumeJob
BY DEF Job, ResumeJob

\* A review is accepted only with a pass, or where only evidence is missing.
LEMMA AcceptedIsVouched ==
  ASSUME NEW v, Accepts(v)
  PROVE  v.status = "passed" \/ v.class = "missing_evidence_only"
BY DEF Accepts, RoutesToHuman

\* A set of small numbers with a 4 has a least member, which is not larger.
LEMMA LeastUpToFour ==
  ASSUME NEW S \in SUBSET (1..6), 4 \in S
  PROVE  Min(S) \in 1..4
<1>1. \E x \in S : \A y \in S : x <= y
  <2>1. CASE 1 \in S
    BY <2>1
  <2>2. CASE 1 \notin S /\ 2 \in S
    BY <2>2
  <2>3. CASE 1 \notin S /\ 2 \notin S /\ 3 \in S
    BY <2>3
  <2>4. CASE 1 \notin S /\ 2 \notin S /\ 3 \notin S
    BY <2>4
  <2> QED
    BY <2>1, <2>2, <2>3, <2>4
<1>2. Min(S) \in S /\ Min(S) <= 4
  BY <1>1 DEF Min
<1>3. Min(S) \in 1..6
  BY <1>2
<1> QED
  BY <1>2, <1>3

\* The cleanup lane deletes no workspace of an issue that is not done: a rule
\* that keeps it comes before those that delete.
LEMMA OnlyDoneIsDeleted ==
  ASSUME NEW w, CleanupDecision(w).delete
  PROVE  w.done
<1> SUFFICES ASSUME ~w.done PROVE FALSE
  OBVIOUS
<1> DEFINE status == IF w.facts.status = "" THEN w.facts.outcome ELSE w.facts.status
           r1 == <<w.unsafe, Keep("unsafe")>>
           r2 == <<w.dirty, Keep("dirty")>>
           r3 == <<w.facts.status = "none" \/ ~w.ours, Keep("reconciliation-needed")>>
           r4 == <<~w.done, Keep(IF TerminalStatus(status) THEN "not-done" ELSE "non-terminal")>>
           r5 == <<TerminalStatus(status), Delete("completed")>>
           r6 == <<w.facts.url # 0 /\ w.branch /\ w.pr = "merged", Delete("merged-pr")>>
           rules == <<r1, r2, r3, r4, r5, r6>>
           hits == {i \in DOMAIN rules : rules[i][1]}
<1>1. CleanupDecision(w) = FirstRule(rules, Keep("reconciliation-needed"))
  BY DEF CleanupDecision
<1>2. /\ r1[2].delete = FALSE /\ r2[2].delete = FALSE
      /\ r3[2].delete = FALSE /\ r4[2].delete = FALSE
  BY DEF Keep
<1>3. r4[1]
  OBVIOUS
<1> HIDE DEF r1, r2, r3, r4, r5, r6
<1>4. /\ DOMAIN rules = 1..6
      /\ rules[1] = r1 /\ rules[2] = r2 /\ rules[3] = r3 /\ rules[4] = r4
  OBVIOUS
<1> HIDE DEF rules
<1>5. hits \in SUBSET (1..6) /\ 4 \in hits
  BY <1>3, <1>4
<1>6. Min(hits) \in 1..4
  BY <1>5, LeastUpToFour
<1>7. rules[Min(hits)][2].delete = FALSE
  BY <1>2, <1>4, <1>6
<1>8. CleanupDecision(w) = rules[Min(hits)][2]
  BY <1>1, <1>5 DEF FirstRule
<1> QED
  BY <1>7, <1>8

-----------------------------------------------------------------------------
(* The invariant is preserved.                                             *)

\* What every step of a job comes to.
LEMMA JobMoves ==
  ASSUME IInv,
         "step" \in DOMAIN job', job'.step \in Late => accepted',
         "handoff" \in pending' => accepted',
         accepted' \in BOOLEAN, accepted => accepted',
         state' = "Handoff" => accepted', state' = "Done" => state = "Done",
         "where" \in DOMAIN tree', UNCHANGED <<pr, seen, merge, clean, landed, approved>>
  PROVE  IInv'
BY DEF IInv, Shape, HandoffsAreAccepted, ApprovalsAreGiven, EndsAreMerged

\* A step that leaves the past, the payloads and the workspace as they are.
LEMMA JobMovesOn ==
  ASSUME IInv,
         "step" \in DOMAIN job', job'.step \in Late => job.step \in Late,
         state' \in {state, "Ready", "Running", "NeedsInfo"},
         UNCHANGED <<tree, pending, past, pr, seen, merge, clean, landed>>
  PROVE  IInv'
<1>1. /\ job'.step \in Late => accepted'
      /\ "handoff" \in pending' => accepted'
      /\ accepted' \in BOOLEAN /\ (accepted => accepted')
      /\ state' = "Handoff" => accepted'
      /\ state' = "Done" => state = "Done"
      /\ "where" \in DOMAIN tree'
      /\ UNCHANGED <<pr, seen, merge, clean, landed, approved>>
  BY DEF IInv, Shape, HandoffsAreAccepted, past
<1> QED
  BY <1>1, JobMoves

\* The job's next step, with one other field or none.
LEMMA GoesOn ==
  ASSUME "step" \in DOMAIN job, NEW s, NEW x
  PROVE  /\ LET j == [job EXCEPT !.step = s] IN j.step = s /\ "step" \in DOMAIN j
         /\ LET j == [job EXCEPT !.step = s, !.was = x] IN j.step = s /\ "step" \in DOMAIN j
         /\ LET j == [job EXCEPT !.step = s, !.asked = x] IN j.step = s /\ "step" \in DOMAIN j
         /\ LET j == [job EXCEPT !.step = s, !.url = x] IN j.step = s /\ "step" \in DOMAIN j
         /\ LET j == [job EXCEPT !.step = s, !.ref = x] IN j.step = s /\ "step" \in DOMAIN j
         /\ LET j == [job EXCEPT !.step = s, !.rec = x] IN j.step = s /\ "step" \in DOMAIN j
OBVIOUS

\* A job that stops has its record left to write.
LEMMA Stopped ==
  ASSUME "step" \in DOMAIN job, NEW r, Stops(r)
  PROVE  "step" \in DOMAIN job' /\ job'.step = "record"
BY DEF Stops

\* The agent's part of an attempt copies no acceptance, approval or merge.
LEMMA AgentStepsInv ==
  ASSUME IInv, AgentSteps
  PROVE  IInv'
<1> USE NoJobFields DEF host, local, store, lanes
<1>0. "step" \in DOMAIN job /\ "where" \in DOMAIN tree
  BY DEF IInv, Shape
<1>1. CASE Begin
  <2>1. job' = NoJob \/ job' = [job EXCEPT !.step = "prepare", !.was = "Other"]
    BY <1>1 DEF Begin, Quits
  <2>2. "step" \in DOMAIN job' /\ job'.step \notin Late
    BY <2>1, <1>0, GoesOn DEF Late
  <2> QED
    BY <1>1, <2>2, JobMovesOn DEF Begin
<1>2. CASE Prepare
  <2>1. "step" \in DOMAIN job' /\ job'.step \notin Late
    BY <1>0, <1>2, GoesOn, Stopped DEF Prepare, Quits, Late
  <2>2. "where" \in DOMAIN tree'
    BY <1>0, <1>2 DEF Prepare, Cloned, Clone, NoTree
  <2> QED
    BY <1>2, <2>1, <2>2, JobMoves DEF Prepare, past, IInv, Shape, HandoffsAreAccepted
<1>3. CASE AgentChanges
  <2>1. "step" \in DOMAIN job' /\ job'.step \notin Late
    BY <1>0, <1>3, GoesOn DEF AgentChanges, Late
  <2>2. "where" \in DOMAIN tree'
    BY <1>0, <1>3 DEF AgentChanges
  <2> QED
    BY <1>3, <2>1, <2>2, JobMoves DEF AgentChanges, past, IInv, Shape, HandoffsAreAccepted
<1>4. CASE AgentIsIdle \/ ScopePasses
  <2>1. "step" \in DOMAIN job' /\ job'.step \notin Late
    BY <1>0, <1>4, GoesOn DEF AgentIsIdle, ScopePasses, Goes, Late
  <2> QED
    BY <1>4, <2>1, JobMovesOn DEF AgentIsIdle, ScopePasses
<1>5. CASE AgentFails \/ AgentAsks \/ ScopeBlocks \/ ScopeUnknown
  <2>1. "step" \in DOMAIN job' /\ job'.step \notin Late
    BY <1>0, <1>5, Stopped DEF AgentFails, AgentAsks, ScopeBlocks, ScopeUnknown, Late
  <2> QED
    BY <1>5, <2>1, JobMovesOn DEF AgentFails, AgentAsks, ScopeBlocks, ScopeUnknown
<1> QED
  BY <1>1, <1>2, <1>3, <1>4, <1>5 DEF AgentSteps

\* Settling a reference adds what it queues.
LEMMA SettlesOnly ==
  ASSUME NEW queued, Settles(queued), "handoff" \notin DOMAIN queued
  PROVE  "handoff" \in pending' => "handoff" \in pending
BY DEF Settles

\* A reference that is settled alone queues no handoff.
LEMMA NothingQueued == "handoff" \notin DOMAIN << >>
OBVIOUS

\* A job that gives up is over, and queues no handoff.
LEMMA GaveUp ==
  ASSUME GivesUp
  PROVE  job' = NoJob /\ ("handoff" \in pending' => "handoff" \in pending)
BY SettlesOnly, NothingQueued DEF GivesUp, Quits

\* A handoff is queued, and made, only behind an accepted review.
LEMMA HandoffStepsInv ==
  ASSUME IInv, HandoffSteps
  PROVE  IInv'
<1> USE NoJobFields, NothingQueued DEF host, local, store, lanes, past
<1>0. /\ "step" \in DOMAIN job /\ "where" \in DOMAIN tree /\ accepted \in BOOLEAN
      /\ "handoff" \in pending => accepted
      /\ job.step \in Late => accepted
      /\ state = "Handoff" => accepted
  BY DEF IInv, Shape, HandoffsAreAccepted
<1>1. CASE QueuePR
  <2>1. "step" \in DOMAIN job' /\ job'.step \notin Late
    BY <1>0, <1>1, GoesOn, Stopped DEF QueuePR, Goes, Late
  <2>2. "handoff" \in pending' => accepted
    BY <1>0, <1>1 DEF QueuePR, Queues
  <2> QED
    BY <1>0, <1>1, <2>1, <2>2, JobMoves DEF QueuePR
<1>2. CASE CommitWork
  <2>1. "step" \in DOMAIN job' /\ job'.step \notin Late
    BY <1>0, <1>2, GoesOn DEF CommitWork, Goes, Quits, Late
  <2>2. "handoff" \in pending' => accepted
    BY <1>0, <1>2, SettlesOnly DEF CommitWork
  <2>3. "where" \in DOMAIN tree'
    BY <1>0, <1>2 DEF CommitWork
  <2> QED
    BY <1>0, <1>2, <2>1, <2>2, <2>3, JobMoves DEF CommitWork
<1>3. CASE HandoffFails \/ ReviewWaits \/ ReviewRejects
  <2>1. "step" \in DOMAIN job' /\ job'.step \notin Late
    BY <1>0, <1>3, Stopped DEF HandoffFails, ReviewWaits, ReviewRejects, Late
  <2> QED
    BY <1>3, <2>1, JobMovesOn DEF HandoffFails, ReviewWaits, ReviewRejects
<1>10. CASE ReviewFails
  <2>1. "step" \in DOMAIN job' /\ job'.step \notin Late
    BY <1>0, <1>10, Stopped, GaveUp DEF ReviewFails, Late
  <2>2. "handoff" \in pending' => accepted
    BY <1>0, <1>10, GaveUp DEF ReviewFails
  <2> QED
    BY <1>0, <1>10, <2>1, <2>2, JobMoves DEF ReviewFails
<1>4. CASE Push
  <2>1. "step" \in DOMAIN job' /\ job'.step \notin Late
    BY <1>0, <1>4, GoesOn DEF Push, Goes, Late
  <2>2. "review" \in DOMAIN pr' /\ (pr'.review = "APPROVED" => pr.review = "APPROVED")
    BY <1>4 DEF Push, IInv, Shape, NoPR
  <2> QED
    BY <1>4, <2>1, <2>2
       DEF Push, IInv, Shape, HandoffsAreAccepted, ApprovalsAreGiven, EndsAreMerged
<1>5. CASE OpenPR
  <2>1. "step" \in DOMAIN job' /\ job'.step \notin Late
    BY <1>0, <1>5, GoesOn DEF OpenPR, Late
  <2>2. "review" \in DOMAIN pr' /\ (pr'.review = "APPROVED" => pr.review = "APPROVED")
    BY <1>5 DEF OpenPR, IInv, Shape, NewPR
  <2> QED
    BY <1>5, <2>1, <2>2
       DEF OpenPR, IInv, Shape, HandoffsAreAccepted, ApprovalsAreGiven, EndsAreMerged
<1>6. CASE QueueReview
  <2>1. CASE TRUE \in ReviewChoices /\ UNCHANGED accepted
             /\ IF job.kind = "pr"
                THEN Settles([review |-> job.url]) /\ Quits
                ELSE /\ Queues("review", job.url)
                     /\ job' = [job EXCEPT !.step = "review", !.ref = "review"]
    <3>1. "step" \in DOMAIN job' /\ job'.step \notin Late
      BY <1>0, <2>1, GoesOn DEF Quits, Late
    <3>2. "handoff" \in pending' => accepted
      BY <1>0, <2>1, SettlesOnly DEF Queues
    <3> QED
      BY <1>0, <1>6, <2>1, <3>1, <3>2, JobMoves DEF QueueReview
  <2>2. CASE /\ accepted' = TRUE
             /\ job' = NoJob \/ job' = [job EXCEPT !.step = "queueFinal"]
    <3>1. "step" \in DOMAIN job'
      BY <1>0, <2>2, GoesOn
    <3> QED
      BY <1>0, <1>6, <2>2, <3>1, JobMoves DEF QueueReview
  <2>3. CASE /\ UNCHANGED accepted
             /\ GivesUp \/ (Settles([review |-> job.url]) /\ EndsRow(job) /\ Quits)
    <3>1. "step" \in DOMAIN job' /\ job'.step \notin Late
      BY <2>3, GaveUp DEF Quits, Late
    <3>2. "handoff" \in pending' => accepted
      BY <1>0, <2>3, GaveUp, SettlesOnly
    <3> QED
      BY <1>0, <1>6, <2>3, <3>1, <3>2, JobMoves DEF QueueReview
  <2> QED
    BY <1>6, <2>1, <2>2, <2>3 DEF QueueReview, Goes, Quits
<1>7. CASE ReviewAccepts
  <2>1. accepted' = TRUE
    BY <1>0, <1>7, AcceptedIsVouched DEF ReviewAccepts
  <2>2. "step" \in DOMAIN job'
    BY <1>0, <1>7 DEF ReviewAccepts
  <2> QED
    BY <1>0, <1>7, <2>1, <2>2, JobMoves DEF ReviewAccepts
<1>8. CASE QueueFinal
  <2>1. accepted
    BY <1>0, <1>8 DEF QueueFinal, At, Late
  <2>2. "step" \in DOMAIN job'
    BY <1>0, <1>8, GoesOn DEF QueueFinal, Goes, Quits
  <2> QED
    BY <1>0, <1>8, <2>1, <2>2, JobMoves DEF QueueFinal
<1>9. CASE FinalHandoff
  <2>1. accepted
    BY <1>0, <1>9 DEF FinalHandoff, At, Late
  <2>2. "step" \in DOMAIN job'
    BY <1>0, <1>9, Stopped, GaveUp DEF FinalHandoff
  <2>3. state' \in {state, "Handoff"}
    BY <1>9 DEF FinalHandoff
  <2> QED
    BY <1>0, <1>9, <2>1, <2>2, <2>3, JobMoves DEF FinalHandoff
<1> QED
  BY <1>1, <1>2, <1>3, <1>4, <1>5, <1>6, <1>7, <1>8, <1>9, <1>10 DEF HandoffSteps

\* The record of an attempt queues nothing.
LEMMA WriteRecordInv ==
  ASSUME IInv, WriteRecord
  PROVE  IInv'
<1>1. "handoff" \in pending' => "handoff" \in pending
  BY GaveUp DEF WriteRecord
<1>2. "step" \in DOMAIN job' /\ job'.step \notin Late
  BY NoJobFields, GaveUp DEF WriteRecord, Late
<1> QED
  BY <1>1, <1>2, JobMoves
     DEF WriteRecord, host, local, lanes, past, IInv, Shape, HandoffsAreAccepted

\* What a lane's picking and locking come to.
LEMMA PickMoves ==
  ASSUME IInv, NEW l \in Lanes, NEW j,
         "step" \in DOMAIN j, j.step \in Late => accepted,
         seen' = [seen EXCEPT ![l] = j],
         UNCHANGED <<state, pr, landed, tree, pending, job, merge, clean, accepted, approved>>
  PROVE  IInv'
BY DEF IInv, Shape, HandoffsAreAccepted, ApprovalsAreGiven, EndsAreMerged

\* A picked handoff was queued behind an accepted review.
LEMMA PickingInv ==
  ASSUME IInv, Picking
  PROVE  IInv'
<1> USE NoJobFields DEF host, local, store, lanes, past
<1>1. CASE ImplSelect
  <2> DEFINE j == [Job("impl", "begin") EXCEPT !.was = state, !.asked = pr.review]
  <2>1. "step" \in DOMAIN j /\ j.step \notin Late
    BY PickedFields DEF Late
  <2>2. "impl" \in Lanes
    BY DEF Lanes
  <2> HIDE DEF j
  <2> QED
    BY <1>1, <2>1, <2>2, PickMoves DEF ImplSelect, Picks, j
<1>2. CASE HandSeePR
  <2> DEFINE j == [Job("hand", "commit") EXCEPT !.kind = "pr", !.ref = "pr", !.url = payload.pr]
  <2>1. "step" \in DOMAIN j /\ j.step \notin Late
    BY PickedFields DEF Late
  <2>2. "hand" \in Lanes
    BY DEF Lanes
  <2> QED
    BY <1>2, <2>1, <2>2, PickMoves DEF HandSeePR, Picks
<1>3. CASE HandSeeHandoff
  <2> DEFINE j == [Job("hand", "final") EXCEPT !.kind = "handoff", !.ref = "handoff",
                     !.url = payload.handoff.url, !.verdict = payload.handoff.verdict]
  <2>1. "step" \in DOMAIN j /\ accepted
    BY <1>3, JobFields DEF HandSeeHandoff, IInv, HandoffsAreAccepted
  <2>2. "hand" \in Lanes
    BY DEF Lanes
  <2> QED
    BY <1>3, <2>1, <2>2, PickMoves DEF HandSeeHandoff, Picks
<1>4. CASE RevSeePending
  <2> DEFINE j == [Job("rev", "review") EXCEPT !.kind = "pending", !.ref = "review",
                     !.url = payload.review]
  <2>1. "step" \in DOMAIN j /\ j.step \notin Late
    BY PickedFields DEF Late
  <2>2. "rev" \in Lanes
    BY DEF Lanes
  <2> QED
    BY <1>4, <2>1, <2>2, PickMoves DEF RevSeePending, Picks
<1>5. CASE RevSeeResume
  <2>1. "rev" \in Lanes
    BY DEF Lanes
  <2>2. CASE seen' = [seen EXCEPT !["rev"] = ResumeJob]
    <3>1. "step" \in DOMAIN ResumeJob /\ ResumeJob.step \notin Late
      BY PickedFields DEF Late
    <3> QED
      BY <1>5, <2>1, <2>2, <3>1, PickMoves DEF RevSeeResume
  <2>3. CASE UNCHANGED seen
    BY <1>5, <2>3
       DEF RevSeeResume, IInv, Shape, HandoffsAreAccepted, ApprovalsAreGiven, EndsAreMerged
  <2> QED
    BY <1>5, <2>2, <2>3 DEF RevSeeResume
<1>6. CASE ResumeSchedule
  BY <1>6 DEF ResumeSchedule, IInv, Shape, HandoffsAreAccepted, ApprovalsAreGiven, EndsAreMerged
<1>7. ASSUME NEW l \in Lanes, TakeLock(l) PROVE IInv'
  <2>1. /\ "step" \in DOMAIN job' /\ (job'.step \in Late => accepted)
        /\ "handoff" \in pending' => accepted
    BY <1>7 DEF TakeLock, IInv, Shape, HandoffsAreAccepted
  <2>2. /\ DOMAIN seen' = Lanes
        /\ \A m \in Lanes : "step" \in DOMAIN seen'[m] /\ (seen'[m].step \in Late => accepted)
    BY <1>7 DEF TakeLock, IInv, Shape, HandoffsAreAccepted, Late
  <2> QED
    BY <1>7, <2>1, <2>2
       DEF TakeLock, IInv, Shape, HandoffsAreAccepted, ApprovalsAreGiven, EndsAreMerged
<1>8. ASSUME NEW l \in Lanes, FindLocked(l) PROVE IInv'
  <2>1. "step" \in DOMAIN NoJob /\ NoJob.step \notin Late
    BY DEF Late
  <2> QED
    BY <1>8, <2>1, PickMoves DEF FindLocked
<1> QED
  BY <1>1, <1>2, <1>3, <1>4, <1>5, <1>6, <1>7, <1>8 DEF Picking

\* What a step of the merge lane comes to.
LEMMA MergeMoves ==
  ASSUME IInv,
         {"step", "pr"} \subseteq DOMAIN merge',
         merge'.pr.review = "APPROVED" => approved,
         merge'.step = "squash" => accepted /\ approved,
         merge'.step \in {"branch", "toDone", "remove"} => landed' # {},
         landed # {} => landed' # {},
         "review" \in DOMAIN pr', pr'.review = "APPROVED" => approved,
         state' = "Handoff" => accepted, state' = "Done" => landed' # {},
         "where" \in DOMAIN tree', UNCHANGED <<pending, seen, job, clean, accepted, approved>>
  PROVE  IInv'
BY DEF IInv, Shape, HandoffsAreAccepted, ApprovalsAreGiven, EndsAreMerged

\* A merge task that ends forgets its pull request.
LEMMA EndedMerge ==
  ASSUME EndsMerge
  PROVE  /\ {"step", "pr"} \subseteq DOMAIN merge' /\ merge'.step = "none"
         /\ merge'.pr.review = ""
BY DEF EndsMerge, NoPR

\* A merge task that goes on keeps its pull request as it saw it.
LEMMA MovedMerge ==
  ASSUME {"step", "pr"} \subseteq DOMAIN merge, NEW s, MergeGoes(s)
  PROVE  /\ {"step", "pr"} \subseteq DOMAIN merge' /\ merge'.step = s
         /\ merge'.pr = merge.pr
BY DEF MergeGoes

\* A workspace that is removed is deleted, or was not there.
LEMMA RemovedTree ==
  ASSUME "where" \in DOMAIN tree, RemoveTree
  PROVE  "where" \in DOMAIN tree' /\ tree'.where \in {tree.where, "deleted"}
BY DEF RemoveTree, Deleted, NoTree

\* After a merge something has landed, and no pull request is open.
LEMMA LandedPR ==
  ASSUME NEW who, Land(who)
  PROVE  landed' # {} /\ "review" \in DOMAIN pr' /\ pr'.review = ""
BY DEF Land, NoPR

\* The merge lane squashes on an approval it saw, in Handoff; the rest
\* of its steps follow a merge.
LEMMA MergeStepsInv ==
  ASSUME IInv, MergeSteps
  PROVE  IInv'
<1> USE DEF host, local, store, lanes, past
<1>0. /\ {"step", "pr"} \subseteq DOMAIN merge /\ "where" \in DOMAIN tree
      /\ "review" \in DOMAIN pr
      /\ pr.review = "APPROVED" => approved
      /\ merge.pr.review = "APPROVED" => approved
      /\ merge.step = "squash" => accepted /\ approved
      /\ merge.step \in {"branch", "toDone", "remove"} => landed # {}
      /\ state = "Handoff" => accepted
      /\ state = "Done" => landed # {}
  BY DEF IInv, Shape, HandoffsAreAccepted, ApprovalsAreGiven, EndsAreMerged
<1>1. CASE MergeSchedule
  BY <1>0, <1>1, MergeMoves DEF MergeSchedule, NoPR
<1>2. CASE MergeClaim
  <2>1. ASSUME NEW u, merge' = [step |-> "handle", url |-> u, pr |-> pr] PROVE IInv'
    BY <1>0, <1>2, <2>1, MergeMoves DEF MergeClaim
  <2>2. CASE UNCHANGED merge
    BY <1>0, <1>2, <2>2, MergeMoves DEF MergeClaim
  <2> QED
    BY <1>2, <2>1, <2>2 DEF MergeClaim
<1>3. CASE MergeHandle
  <2>1. \/ MergeGoes("toReady")
        \/ EndsMerge
        \/ MergeGoes("squash") /\ state = "Handoff" /\ merge.pr.review = "APPROVED"
    BY <1>3 DEF MergeHandle
  <2>2. /\ {"step", "pr"} \subseteq DOMAIN merge'
        /\ merge'.pr.review = "APPROVED" => approved
        /\ merge'.step = "squash" => accepted /\ approved
        /\ merge'.step \notin {"branch", "toDone", "remove"}
    <3>1. CASE MergeGoes("toReady")
      BY <1>0, <3>1, MovedMerge
    <3>2. CASE EndsMerge
      BY <3>2, EndedMerge
    <3>3. CASE MergeGoes("squash") /\ state = "Handoff" /\ merge.pr.review = "APPROVED"
      BY <1>0, <3>3, MovedMerge
    <3> QED
      BY <2>1, <3>1, <3>2, <3>3
  <2>3. UNCHANGED <<state, pr, landed, tree, pending, seen, job, clean, accepted, approved>>
    BY <1>3 DEF MergeHandle
  <2> QED
    BY <1>0, <2>2, <2>3, MergeMoves
<1>4. CASE MergeConverge
  <2>1. EndsMerge \/ ((MergeGoes("remove") \/ MergeGoes("toDone")) /\ landed # {})
    BY <1>4 DEF MergeConverge
  <2>2. /\ {"step", "pr"} \subseteq DOMAIN merge'
        /\ merge'.pr.review = "APPROVED" => approved
        /\ merge'.step # "squash"
        /\ merge'.step \in {"branch", "toDone", "remove"} => landed # {}
    <3>1. CASE EndsMerge
      BY <3>1, EndedMerge
    <3>2. CASE MergeGoes("remove") /\ landed # {}
      BY <1>0, <3>2, MovedMerge
    <3>3. CASE MergeGoes("toDone") /\ landed # {}
      BY <1>0, <3>3, MovedMerge
    <3> QED
      BY <2>1, <3>1, <3>2, <3>3
  <2>3. UNCHANGED <<state, pr, landed, tree, pending, seen, job, clean, accepted, approved>>
    BY <1>4 DEF MergeConverge
  <2> QED
    BY <1>0, <2>2, <2>3, MergeMoves
<1>5. CASE MergeToReady
  BY <1>0, <1>5, EndedMerge, MergeMoves DEF MergeToReady
<1>6. CASE MergeSquash
  <2>1. CASE Land("lane") /\ MergeGoes("branch")
    BY <1>0, <1>6, <2>1, LandedPR, MovedMerge, MergeMoves DEF MergeSquash
  <2>2. CASE EndsMerge /\ UNCHANGED <<pr, landed>>
    BY <1>0, <1>6, <2>2, EndedMerge, MergeMoves DEF MergeSquash
  <2> QED
    BY <1>6, <2>1, <2>2 DEF MergeSquash
<1>7. CASE MergeDeleteBranch
  <2>1. /\ {"step", "pr"} \subseteq DOMAIN merge'
        /\ merge'.pr.review = "APPROVED" => approved
        /\ merge'.step # "squash"
        /\ landed # {}
    <3>1. landed # {}
      BY <1>0, <1>7 DEF MergeDeleteBranch
    <3>2. CASE MergeGoes("toDone")
      BY <1>0, <3>1, <3>2, MovedMerge
    <3>3. CASE EndsMerge
      BY <3>1, <3>3, EndedMerge
    <3> QED
      BY <1>7, <3>2, <3>3 DEF MergeDeleteBranch
  <2>2. UNCHANGED <<state, pr, landed, tree, pending, seen, job, clean, accepted, approved>>
    BY <1>7 DEF MergeDeleteBranch
  <2> QED
    BY <1>0, <2>1, <2>2, MergeMoves
<1>8. CASE MergeToDone
  <2>1. /\ {"step", "pr"} \subseteq DOMAIN merge'
        /\ merge'.pr.review = "APPROVED" => approved
        /\ merge'.step # "squash"
        /\ landed # {}
    <3>1. landed # {}
      BY <1>0, <1>8 DEF MergeToDone
    <3>2. CASE MergeGoes("remove")
      BY <1>0, <3>1, <3>2, MovedMerge
    <3>3. CASE EndsMerge
      BY <3>1, <3>3, EndedMerge
    <3> QED
      BY <1>8, <3>2, <3>3 DEF MergeToDone
  <2>2. /\ state' \in {state, "Done"}
        /\ UNCHANGED <<pr, landed, tree, pending, seen, job, clean, accepted, approved>>
    BY <1>8 DEF MergeToDone
  <2> QED
    BY <1>0, <2>1, <2>2, MergeMoves
<1>9. CASE MergeRemove
  BY <1>0, <1>9, EndedMerge, RemovedTree, MergeMoves DEF MergeRemove
<1> QED
  BY <1>1, <1>2, <1>3, <1>4, <1>5, <1>6, <1>7, <1>8, <1>9 DEF MergeSteps

\* The cleanup lane decides on issues that are done.
LEMMA CleanStepsInv ==
  ASSUME IInv, CleanSteps
  PROVE  IInv'
<1> USE DEF host, local, store, past
<1>1. CASE CleanDecide
  <2>1. Cleanable.done = (state = "Done")
    BY DEF Cleanable
  <2>2. landed # {}
    BY <1>1, <2>1, OnlyDoneIsDeleted DEF CleanDecide, IInv, EndsAreMerged
  <2> QED
    BY <1>1, <2>2
       DEF CleanDecide, IInv, Shape, HandoffsAreAccepted, ApprovalsAreGiven, EndsAreMerged
<1>2. CASE CleanDelete
  BY <1>2, RemovedTree
     DEF CleanDelete, IInv, Shape, HandoffsAreAccepted, ApprovalsAreGiven, EndsAreMerged
<1> QED
  BY <1>1, <1>2 DEF CleanSteps

\* Humans, the code host and the death of the daemon: copies are lost, not
\* made.
LEMMA EnvironmentInv ==
  ASSUME IInv, Environment
  PROVE  IInv'
<1> USE NoJobFields DEF host, local, store, lanes, past
<1> USE DEF IInv, Shape, HandoffsAreAccepted, ApprovalsAreGiven, EndsAreMerged
<1>1. CASE HumanReviews
  BY <1>1 DEF HumanReviews
<1>2. CASE HumanMerges
  BY <1>2, LandedPR DEF HumanMerges
<1>3. CASE HumanAnswers \/ ResumeRepair \/ RowRepair
  BY <1>3 DEF HumanAnswers, ResumeRepair, RowRepair
<1>4. CASE ChecksFinish \/ Conflict
  BY <1>4 DEF ChecksFinish, Conflict
<1>5. CASE Crash
  <2>1. \/ UNCHANGED merge
        \/ /\ {"step", "pr"} \subseteq DOMAIN merge' /\ merge'.step = "none"
           /\ merge'.pr.review = ""
    BY <1>5, EndedMerge DEF Crash
  <2>2. DOMAIN seen' = Lanes /\ \A l \in Lanes : seen'[l] = NoJob
    BY <1>5 DEF Crash
  <2>3. job' = NoJob /\ clean' = FALSE
        /\ UNCHANGED <<state, pr, landed, tree, pending, accepted, approved>>
    BY <1>5 DEF Crash
  <2> QED
    BY <2>1, <2>2, <2>3 DEF Late
<1> QED
  BY <1>1, <1>2, <1>3, <1>4, <1>5 DEF Environment

\* The invariant is inductive.
LEMMA InvStep == IInv /\ [Next]_vars => IInv'
<1> SUFFICES ASSUME IInv, [Next]_vars PROVE IInv'
  OBVIOUS
<1>1. CASE Next
  BY <1>1, PickingInv, AgentStepsInv, HandoffStepsInv, WriteRecordInv, MergeStepsInv,
     CleanStepsInv, EnvironmentInv DEF Next, JobSteps
<1>2. CASE UNCHANGED vars
  BY <1>2 DEF vars, host, local, store, lanes, past,
              IInv, Shape, HandoffsAreAccepted, ApprovalsAreGiven, EndsAreMerged
<1> QED
  BY <1>1, <1>2

\* It holds at first.
LEMMA InvInit == Init => IInv
<1> SUFFICES ASSUME Init PROVE IInv
  OBVIOUS
<1>1. /\ "where" \in DOMAIN tree /\ "review" \in DOMAIN pr /\ pr.review = ""
      /\ {"step", "pr"} \subseteq DOMAIN merge /\ merge.step = "none" /\ merge.pr = pr
  BY DEF Init, NoTree, NoPR
<1>2. /\ DOMAIN seen = Lanes /\ \A l \in Lanes : seen[l] = NoJob
      /\ job = NoJob /\ pending = {} /\ state = "Ready"
      /\ accepted = FALSE /\ approved = FALSE /\ clean = FALSE
  BY DEF Init
<1> QED
  BY <1>1, <1>2, NoJobFields
     DEF IInv, Shape, HandoffsAreAccepted, ApprovalsAreGiven, EndsAreMerged, Late

-----------------------------------------------------------------------------
(* Every step is a step of the contract, or none.                          *)

\* A step that the contract does not see.
LEMMA NotSeen ==
  ASSUME UNCHANGED <<state, accepted, approved, landed>>, tree'.where = tree.where
  PROVE  UNCHANGED Contract!vars
BY DEF Contract!vars

\* A step that at most gives the issue back to the lanes or to a human.
LEMMA GivesBack ==
  ASSUME state' \in {state, "Ready", "Running", "NeedsInfo"},
         UNCHANGED <<accepted, approved, landed, tree>>
  PROVE  [Contract!Next]_(Contract!vars)
<1>1. CASE state' = state
  BY <1>1, NotSeen
<1>2. CASE state' \in {"Ready", "Running", "NeedsInfo"}
  BY <1>2 DEF Contract!Next, Contract!Returns
<1> QED
  BY <1>1, <1>2

\* A step that at most deletes the workspace.
LEMMA Removes ==
  ASSUME IInv, RemoveTree, landed # {},
         UNCHANGED <<state, accepted, approved, landed>>
  PROVE  [Contract!Next]_(Contract!vars)
<1>1. tree'.where \in {tree.where, "deleted"}
  BY RemovedTree DEF IInv, Shape
<1>2. CASE tree'.where = tree.where
  BY <1>2, NotSeen
<1>3. CASE tree'.where = "deleted"
  BY <1>3 DEF Contract!Next, Contract!Deletes
<1> QED
  BY <1>1, <1>2, <1>3

\* A merge is known with who did it.
LEMMA LandAddsWho ==
  ASSUME NEW who, Land(who)
  PROVE  {l.by : l \in landed'} = {l.by : l \in landed} \cup {who}
<1> DEFINE new == [url |-> pr.url, by |-> who]
<1>1. landed' = landed \cup {new} /\ new.by = who
  BY DEF Land
<1> HIDE DEF new
<1> QED
  BY <1>1

\* The agent's part prepares the workspace, or gives the issue back.
LEMMA AgentStepsRefine ==
  ASSUME IInv, AgentSteps
  PROVE  [Contract!Next]_(Contract!vars)
<1> USE DEF host, local, store, past
<1>1. CASE Begin \/ AgentAsks \/ ScopeBlocks
  BY <1>1, GivesBack DEF Begin, AgentAsks, ScopeBlocks
<1>2. CASE Prepare
  <2>1. CASE tree' = Clone
    <3>1. tree'.where = "here"
      BY <2>1 DEF Clone, NoTree
    <3> QED
      BY <1>2, <3>1 DEF Prepare, Contract!Next, Contract!Prepares
  <2>2. CASE UNCHANGED tree
    BY <1>2, <2>2, NotSeen DEF Prepare
  <2> QED
    BY <1>2, <2>1, <2>2 DEF Prepare, Cloned
<1>3. CASE AgentChanges
  <2>1. tree'.where = tree.where
    BY <1>3 DEF AgentChanges, IInv, Shape
  <2> QED
    BY <1>3, <2>1, NotSeen DEF AgentChanges
<1>4. CASE AgentIsIdle \/ AgentFails \/ ScopePasses \/ ScopeUnknown
  BY <1>4, NotSeen DEF AgentIsIdle, AgentFails, ScopePasses, ScopeUnknown
<1> QED
  BY <1>1, <1>2, <1>3, <1>4 DEF AgentSteps

\* The reviews and handoffs of the contract.
LEMMA HandoffStepsRefine ==
  ASSUME IInv, HandoffSteps
  PROVE  [Contract!Next]_(Contract!vars)
<1> USE DEF host, local, store, past
<1>1. CASE QueuePR \/ HandoffFails \/ Push \/ OpenPR \/ ReviewWaits
           \/ ReviewFails \/ QueueFinal
  BY <1>1, NotSeen
     DEF QueuePR, HandoffFails, Push, OpenPR, ReviewWaits, ReviewFails, QueueFinal
<1>2. CASE CommitWork
  <2>1. tree'.where = tree.where
    BY <1>2 DEF CommitWork, IInv, Shape
  <2> QED
    BY <1>2, <2>1, NotSeen DEF CommitWork
<1>3. CASE ReviewRejects
  BY <1>3, GivesBack DEF ReviewRejects
<1>4. CASE ReviewAccepts
  <2>1. accepted' = TRUE
    BY <1>4, AcceptedIsVouched DEF ReviewAccepts, IInv, Shape
  <2> QED
    BY <1>4, <2>1 DEF ReviewAccepts, Contract!Next, Contract!Reviews
<1>5. CASE FinalHandoff
  <2>1. accepted
    BY <1>5 DEF FinalHandoff, At, Late, IInv, HandoffsAreAccepted
  <2>2. CASE state' = "Handoff"
    BY <1>5, <2>1, <2>2 DEF FinalHandoff, Contract!Next, Contract!HandsOff
  <2>3. CASE UNCHANGED state
    BY <1>5, <2>3, NotSeen DEF FinalHandoff
  <2> QED
    BY <1>5, <2>2, <2>3 DEF FinalHandoff
<1>6. CASE QueueReview
  <2>1. CASE accepted' = TRUE
    BY <1>6, <2>1 DEF QueueReview, Contract!Next, Contract!Reviews
  <2>2. CASE UNCHANGED accepted
    BY <1>6, <2>2, NotSeen DEF QueueReview
  <2> QED
    BY <1>6, <2>1, <2>2 DEF QueueReview
<1> QED
  BY <1>1, <1>2, <1>3, <1>4, <1>5, <1>6 DEF HandoffSteps

\* The merges, ends and deletions of the contract.
LEMMA MergeStepsRefine ==
  ASSUME IInv, MergeSteps
  PROVE  [Contract!Next]_(Contract!vars)
<1> USE DEF host, local, store, past
<1>1. CASE MergeSchedule \/ MergeClaim \/ MergeConverge \/ MergeDeleteBranch
  BY <1>1, NotSeen DEF MergeSchedule, MergeClaim, MergeConverge, MergeDeleteBranch
<1>2. CASE MergeHandle
  BY <1>2, NotSeen DEF MergeHandle
<1>3. CASE MergeToReady
  BY <1>3, GivesBack DEF MergeToReady
<1>4. CASE MergeSquash
  <2>1. accepted /\ approved
    BY <1>4 DEF MergeSquash, IInv, ApprovalsAreGiven
  <2>2. CASE Land("lane")
    BY <1>4, <2>1, <2>2, LandAddsWho DEF MergeSquash, Contract!Next, Contract!LaneMerges
  <2>3. CASE UNCHANGED <<pr, landed>>
    BY <1>4, <2>3, NotSeen DEF MergeSquash
  <2> QED
    BY <1>4, <2>2, <2>3 DEF MergeSquash
<1>5. CASE MergeToDone
  <2>1. {l.by : l \in landed} # {}
    BY <1>5 DEF MergeToDone, IInv, EndsAreMerged
  <2>2. CASE state' = "Done"
    BY <1>5, <2>1, <2>2 DEF MergeToDone, Contract!Next, Contract!Finishes
  <2>3. CASE UNCHANGED state
    BY <1>5, <2>3, NotSeen DEF MergeToDone
  <2> QED
    BY <1>5, <2>2, <2>3 DEF MergeToDone
<1>6. CASE MergeRemove
  <2>1. CASE RemoveTree
    BY <1>6, <2>1, Removes DEF MergeRemove, IInv, EndsAreMerged
  <2>2. CASE UNCHANGED tree
    BY <1>6, <2>2, NotSeen DEF MergeRemove
  <2> QED
    BY <1>6, <2>1, <2>2 DEF MergeRemove
<1> QED
  BY <1>1, <1>2, <1>3, <1>4, <1>5, <1>6 DEF MergeSteps

\* Approvals, human merges and the cleanup lane's deletion; the rest is not
\* seen.
LEMMA OthersRefine ==
  ASSUME IInv, Picking \/ WriteRecord \/ CleanSteps \/ Environment
  PROVE  [Contract!Next]_(Contract!vars)
<1> USE DEF host, local, store, past
<1>1. CASE Picking
  BY <1>1, NotSeen
     DEF Picking, ImplSelect, HandSeePR, HandSeeHandoff, RevSeePending, ResumeSchedule,
         RevSeeResume, Picks, TakeLock, FindLocked
<1>2. CASE WriteRecord \/ CleanDecide
  BY <1>2, NotSeen DEF WriteRecord, CleanDecide
<1>3. CASE CleanDelete
  <2>1. CASE RemoveTree
    BY <1>3, <2>1, Removes DEF CleanDelete, IInv, EndsAreMerged
  <2>2. CASE UNCHANGED tree
    BY <1>3, <2>2, NotSeen DEF CleanDelete
  <2> QED
    BY <1>3, <2>1, <2>2 DEF CleanDelete
<1>4. CASE HumanReviews
  <2>1. approved' \in {approved, TRUE}
    BY <1>4 DEF HumanReviews, IInv, Shape
  <2>2. CASE approved' = TRUE
    BY <1>4, <2>2 DEF HumanReviews, Contract!Next, Contract!Approves
  <2>3. CASE UNCHANGED approved
    BY <1>4, <2>3, NotSeen DEF HumanReviews
  <2> QED
    BY <2>1, <2>2, <2>3
<1>5. CASE HumanMerges
  BY <1>5, LandAddsWho DEF HumanMerges, Contract!Next, Contract!HumanMerges
<1>6. CASE HumanAnswers
  BY <1>6, GivesBack DEF HumanAnswers
<1>7. CASE ResumeRepair \/ RowRepair \/ ChecksFinish \/ Conflict \/ Crash
  BY <1>7, NotSeen DEF ResumeRepair, RowRepair, ChecksFinish, Conflict, Crash
<1> QED
  BY <1>1, <1>2, <1>3, <1>4, <1>5, <1>6, <1>7 DEF CleanSteps, Environment

\* Every step of the lanes is a step of the contract or none.
LEMMA Refines == IInv /\ [Next]_vars => [Contract!Next]_(Contract!vars)
<1> SUFFICES ASSUME IInv, [Next]_vars PROVE [Contract!Next]_(Contract!vars)
  OBVIOUS
<1>1. CASE Next
  BY <1>1, AgentStepsRefine, HandoffStepsRefine, MergeStepsRefine, OthersRefine
     DEF Next, JobSteps
<1>2. CASE UNCHANGED vars
  BY <1>2, NotSeen DEF vars, host, local, past
<1> QED
  BY <1>1, <1>2

\* The contract's beginning.
LEMMA InitRefines == Init => Contract!Init
<1> SUFFICES ASSUME Init PROVE Contract!Init
  OBVIOUS
<1>1. {l.by : l \in landed} = {} /\ tree.where = "absent"
  BY DEF Init, NoTree
<1> QED
  BY <1>1 DEF Init, Contract!Init

\* No copy of an acceptance, of an approval or of a merge outruns the event it
\* tells of, for any set of lanes and any bounds: what a lane remembers, what
\* waits in a payload and what the merge lane saw of the pull request.
THEOREM CopiesAreCovered == Spec => []IInv
BY InvInit, InvStep, PTL DEF Spec

\* The lanes keep the contract, whichever of them run and whatever is
\* repeated, fails or dies: only accepted work is handed over (run_one.go,
\* handoff.go), a lane merges only work that was accepted and a pull request
\* that was approved (merge.go HandlePullRequest), an issue is done
\* (merge_worker.go) and its workspace deleted (cleanup.go) only after a merge.
THEOREM LanesKeepTheContract == Spec => ContractSpec
<1>1. Spec => [][Next]_vars /\ []IInv
  BY CopiesAreCovered DEF Spec
<1> QED
  BY <1>1, InitRefines, Refines, PTL DEF Spec, ContractSpec, Contract!Spec
=============================================================================
