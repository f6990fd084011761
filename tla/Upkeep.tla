------------------------------- MODULE Upkeep -------------------------------
(***************************************************************************)
(* What keeps the machine's own house in order: which paths may be deleted *)
(* (internal/workspace/paths.go), a sweep over the workspaces (am cleanup, *)
(* cleanup.go), the opening of the state store with its migrations         *)
(* (internal/state/store.go), and the limits a project sets on its runs    *)
(* (internal/config/budget.go, internal/runbudget).                        *)
(***************************************************************************)
EXTENDS Reconciler, Integers

----------------------------------------------------------------------------
(* Paths.  A root is what stands at its path; a path below it has a name   *)
(* ("nested" has a separator, or is ".." or ".") and what stands there.    *)

SafeRoot(root) == root = "directory"

\* AssertSafeDeletePath: an immediate child of the root, and no link.
SafeToDelete(root, e) == SafeRoot(root) /\ e.name # "nested" /\ e.kind # "link"

SafePath(root, e) == e.name \notin {"nested", "hidden"} /\ SafeToDelete(root, e)

\* HasChanges: whatever git reports, but for the machine's own files and
\* the scratch files of its reviewers.
Dirty(files) == files \ {"evidence", "scratch"} # {}

----------------------------------------------------------------------------
(* A sweep meets the entries of the root in their order; each is a path    *)
(* with the files git reports, a workspace for CleanupDecision (whether it *)
(* is dirty or unsafe is found out here), and what fails about it: "none", *)
(* "look" (its changes or the store cannot be read) or "remove".           *)

PassedOver(e) == e.kind # "directory" \/ e.name \in {"hidden", "state"}

Workspace(root, e) ==
  [e.w EXCEPT !.dirty = Dirty(e.files), !.unsafe = ~SafeToDelete(root, e)]

\* One round of cleanupWorker.Execute.
SweepsOne(root, e, apply) ==
  LET d == CleanupDecision(Workspace(root, e))
  IN IF PassedOver(e) THEN "passed over"
     ELSE IF ~SafePath(root, e) \/ e.fails = "look" THEN "error"
     ELSE IF ~d.delete
          THEN IF d.category = "reconciliation-needed" THEN "reconciliation_needed" ELSE "kept"
     ELSE IF ~apply THEN "dry_run"
     ELSE IF e.fails = "remove" THEN "failed" ELSE "deleted"

\* The first error ends the sweep.
Sweep(root, entries, apply) ==
  LET Ends(e) == SweepsOne(root, e, apply) \in {"error", "failed"}
      reached(i) == SafeRoot(root) /\ ~\E j \in 1 .. i - 1 : Ends(entries[j])
  IN [i \in DOMAIN entries |->
        IF reached(i) THEN SweepsOne(root, entries[i], apply) ELSE "untouched"]

----------------------------------------------------------------------------
(* The state store.  A database has the migrations recorded in it and may  *)
(* have the column the last one adds, which the first migration of some    *)
(* releases made already.  A release has all migrations up to its own, and *)
(* runs those it misses, with their records, in one transaction.           *)

NewDatabase == [applied |-> {}, column |-> FALSE]
Schema(db) == Max(db.applied \cup {0})
LastMigration == 8

\* A release refuses what a newer one has written.
CanOpen(db, release) == Schema(db) <= release

\* Faulty: the column is added unseen, which fails where it is already.
OpenedUnseen(db, by) ==
  IF ~CanOpen(db, by.release) \/ by.dies
       \/ (db.column /\ by.release = LastMigration /\ Schema(db) < LastMigration)
  THEN db
  ELSE [applied |-> db.applied \cup Schema(db) + 1 .. by.release,
        column |-> db.column \/ by.early \/ by.release = LastMigration]

\* Open by a process, which may die before it commits.
Opened(db, by) ==
  IF ~CanOpen(db, by.release) \/ by.dies THEN db
  ELSE [applied |-> db.applied \cup Schema(db) + 1 .. by.release,
        column |-> \/ db.column
                   \/ Schema(db) = 0 /\ by.early
                   \/ Schema(db) < LastMigration /\ by.release = LastMigration]

----------------------------------------------------------------------------
(* Limits.  A setting of the project file is absent, switched off, not a   *)
(* number, or a number; a limit that is not positive limits nothing.       *)

Absent == [is |-> "absent", n |-> 0]
Off == [is |-> "off", n |-> 0]
Nonsense == [is |-> "nonsense", n |-> 0]
Number(n) == [is |-> "number", n |-> n]

\* ParseBudgetValidated: durations may be negative, amounts may not.
Invalid(yaml) ==
  \/ Nonsense \in {yaml.wall, yaml.pi, yaml.runtime, yaml.tokens}
  \/ yaml.tokens = Off \/ yaml.tokens.n < 0

Setting(s, default) == IF s = Absent THEN default ELSE s.n

\* In quarters of an hour; a runtime timeout replaces a pi timeout.
Limits(yaml) ==
  [wall |-> Setting(yaml.wall, 8), runtime |-> Setting(yaml.runtime, Setting(yaml.pi, 6)),
   tokens |-> Setting(yaml.tokens, 0)]

Passes(used, limit) == limit > 0 /\ used > limit

\* Faulty: only what the last command used is counted.
ExceededByLast(limits, wall, used) ==
  Passes(wall, limits.wall) \/ (used # <<>> /\ Passes(used[Len(used)], limits.tokens))

\* Exceeded, for the tokens the commands of the attempt used; the cost is
\* counted the same way.
Exceeded(limits, wall, used) ==
  LET total[i \in 0 .. Len(used)] == IF i = 0 THEN 0 ELSE total[i - 1] + used[i]
  IN Passes(wall, limits.wall) \/ Passes(total[Len(used)], limits.tokens)
=============================================================================
