----------------------------- MODULE Artifacts -----------------------------
(***************************************************************************)
(* The run records in the workspaces: how a scan repairs one after a human *)
(* acted on its pull request (internal/artifacts), and how the store is    *)
(* seeded from them (internal/backfill).                                   *)
(*                                                                         *)
(* A file holds a run record (AttemptPolicy), and                          *)
(*   named  the pull request the reviewer's findings say is the actual     *)
(*          one, 0 if they say nothing of the kind                         *)
(*   orig   the status before a repair, "" if there was none               *)
(*   notes  the notes repairs left                                         *)
(* and its evaluation, which is worked out from the record.                *)
(***************************************************************************)
EXTENDS AttemptPolicy

File(record, named) == [record |-> record, named |-> named, orig |-> "", notes |-> {}]

CorrectedURL(file) ==
  IF file.record.url # 0 /\ file.named # 0 THEN file.named ELSE file.record.url

\* MarkManualRepairStatus: the first status a repair replaced is kept.
Marked(file, status, note) ==
  [file EXCEPT !.record.status = status, !.notes = @ \cup {note},
               !.orig = IF @ = "" THEN file.record.status ELSE @]

\* What the host says of the pull request decides, if the record had ended.
SettledByHost(file, host) ==
  IF ~TerminalStatus(file.record.status) \/ file.record.url = 0
       \/ file.record.status \in {"merged", "superseded"}
  THEN file
  ELSE IF host[file.record.url] = "merged" THEN Marked(file, "merged", "pr_manually_merged")
  ELSE IF host[file.record.url] = "closed" THEN Marked(file, "superseded", "pr_closed_unmerged")
  ELSE file

\* The findings correct the pull request.
Corrected(file) ==
  IF CorrectedURL(file) = file.record.url THEN file
  ELSE [file EXCEPT !.record.url = CorrectedURL(file), !.notes = @ \cup {"corrected_pr_url"}]

\* Faulty: the host is asked before the pull request is corrected.
RepairUncorrected(file, host) == Corrected(SettledByHost(file, host))

\* Repair of one file; if the host cannot be asked nothing is written.
Repair(file, host) ==
  LET f == Corrected(file)
      asks == f.record.url # 0 /\ TerminalStatus(f.record.status)
              /\ f.record.status \notin {"merged", "superseded"}
  IN IF asks /\ host[f.record.url] = "error" THEN file ELSE SettledByHost(f, host)

----------------------------------------------------------------------------
(* Backfill.  The files of one issue, newest first.                        *)

\* What two files of an issue must agree on.
Fingerprint(file) ==
  LET r == file.record
  IN <<r.status, r.url, r.review, r.class, Outcome(r), NextAction(r)>>

Conflicting(files) ==
  \E i \in DOMAIN files : Fingerprint(files[i]) # Fingerprint(files[1])

\* UpsertRunArtifact: an imported record takes the path of a written one.
Imported(facts, file) == FactsAfter(facts, file.record)

\* Faulty: the newest file is believed.
SeededByNewest(facts, files) == Imported(facts, files[1])

\* StateFromArtifacts for one issue: the newest file becomes its facts, but
\* under a status of its own if another file disagrees.
Seeded(facts, files) ==
  LET seeded == Imported(facts, files[1])
  IN IF Conflicting(files)
     THEN [seeded EXCEPT !.status = "reconciliation-needed", !.outcome = "reconciliation-needed"]
     ELSE seeded
============================================================================
