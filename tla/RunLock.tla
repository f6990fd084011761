------------------------------ MODULE RunLock ------------------------------
(***************************************************************************)
(* The run lock of one issue's workspace (internal/workspace/locks.go with *)
(* a state store): the SQLite lease "run:<issue>" and the JSON export      *)
(* beside the workspace, as taken by the implementation, review and        *)
(* handoff workers of one or more processes.                               *)
(*                                                                         *)
(* Acquire tries AcquireLease; refused, it reads the lease, asks the host  *)
(* whether the owner's process is alive and, if not, calls ReclaimLease.   *)
(* A run renews once, early; its deferred release removes the export and   *)
(* releases the lease.  Candidate selection sweeps exports of dead or      *)
(* stale owners.  Each database or file operation is one step.             *)
(***************************************************************************)
EXTENDS StateStore

CONSTANTS
  Workers,      \* goroutines that may want to run the issue
  ProcOf,       \* the process each worker belongs to
  HostOf,       \* the host each process runs on
  LockTTL,      \* RunLockStaleAfter
  MaxCrashes,   \* bound on crashes
  MayOverrun    \* whether a run may go on past the expiry of its lease

ASSUME RunLockAssumption ==
  /\ ProcOf \in [Workers -> Procs]
  /\ LockTTL \in Nat \ {0}
  /\ MaxCrashes \in Nat
  /\ MayOverrun \in BOOLEAN

VARIABLES
  lease,     \* the leases row run:<issue>
  export,    \* the lock file: its owner, NoProc if absent, and heartbeat age
  dead,      \* processes that were killed
  pc,        \* where each worker is
  saw,       \* the owner in the export a heartbeat has read
  crashes    \* crashes so far

vars == <<lease, export, dead, pc, saw, crashes>>

NoExport == [owner |-> NoProc, age |-> 0]

ExportOf(p) == [owner |-> p, age |-> 0]

Steps == {"idle", "judge", "reclaim", "export", "start", "renew", "rewrite",
          "work", "unexport", "release", "sweep"}

\* Steps at which a worker acts as the holder of the lock.
Holding == {"export", "start", "renew", "rewrite", "work", "unexport", "release"}

\* Steps at which it waits for something other than the database or a file.
Waiting == {"idle", "start", "work"}

TypeOK ==
  /\ lease \in LeaseRow
  /\ export \in [owner : Procs \cup {NoProc}, age : 0..(LockTTL + 1)]
  /\ dead \in SUBSET Procs
  /\ pc \in [Workers -> Steps]
  /\ saw \in [Workers -> Procs \cup {NoProc}]
  /\ crashes \in 0..MaxCrashes

Init ==
  /\ lease = NoLease
  /\ export = NoExport
  /\ dead = {}
  /\ pc = [w \in Workers |-> "idle"]
  /\ saw = [w \in Workers |-> NoProc]
  /\ crashes = 0

----------------------------------------------------------------------------
Goto(w, step) == pc' = [pc EXCEPT ![w] = step]

Live(w) == ProcOf[w] \notin dead

\* No live worker is between two operations.
Settled == \A w \in Workers : Live(w) => pc[w] \in Waiting

SameHost(w, owner) == HostOf[ProcOf[w]] = HostOf[owner]

\* The owner is a process of this host that kill(pid, 0) no longer finds.
OwnerIsDead(w, owner) == owner # NoProc /\ SameHost(w, owner) /\ owner \in dead

\* Faulty: takes over a released lease only, never an expired one.
TryReleasedLease(w) ==
  /\ pc[w] = "idle"
  /\ IF lease.owner # NoProc
       THEN Goto(w, "judge") /\ UNCHANGED lease
       ELSE lease' = AcquiredLease(ProcOf[w], LockTTL) /\ Goto(w, "export")
  /\ UNCHANGED <<export, dead, saw, crashes>>

TryLease(w) ==
  /\ pc[w] = "idle"
  /\ IF LeaseHeld(lease)
       THEN Goto(w, "judge") /\ UNCHANGED lease
       ELSE lease' = AcquiredLease(ProcOf[w], LockTTL) /\ Goto(w, "export")
  /\ UNCHANGED <<export, dead, saw, crashes>>

\* reclaimDeadOwnerSQLiteLease up to its verdict; ErrRunLocked otherwise.
JudgeOwner(w) ==
  /\ pc[w] = "judge"
  /\ Goto(w, IF OwnerIsDead(w, lease.owner) THEN "reclaim" ELSE "idle")
  /\ UNCHANGED <<lease, export, dead, saw, crashes>>

\* Faulty: records the worker, not its process, as the owner.
ReclaimForWorker(w) ==
  /\ pc[w] = "reclaim"
  /\ lease' = AcquiredLease(w, LockTTL)
  /\ Goto(w, "export")
  /\ UNCHANGED <<export, dead, saw, crashes>>

\* ReclaimLease takes any unreleased row: it reads the owner afresh, and does
\* not know whom JudgeOwner found dead.
Reclaim(w) ==
  /\ pc[w] = "reclaim"
  /\ IF LeaseRenewable(lease)
       THEN lease' = AcquiredLease(ProcOf[w], LockTTL) /\ Goto(w, "export")
       ELSE Goto(w, "idle") /\ UNCHANGED lease
  /\ UNCHANGED <<export, dead, saw, crashes>>

WriteExport(w) ==
  /\ pc[w] = "export"
  /\ export' = ExportOf(ProcOf[w])
  /\ Goto(w, "start")
  /\ UNCHANGED <<lease, dead, saw, crashes>>

\* Faulty: the lock is refused, and the lease kept.
WriteExportFailsKeeping(w) ==
  /\ pc[w] = "export"
  /\ Goto(w, "idle")
  /\ UNCHANGED <<lease, export, dead, saw, crashes>>

\* writeExportedLock fails: the lease is released, the lock refused.
WriteExportFails(w) ==
  /\ pc[w] = "export"
  /\ lease' = NoLease
  /\ Goto(w, "idle")
  /\ UNCHANGED <<export, dead, saw, crashes>>

----------------------------------------------------------------------------
(* The run: one heartbeat after its workspace is prepared.                 *)

\* HeartbeatContext reads the export to learn the lease's name; without one
\* it only logs.
HeartbeatReads(w) ==
  /\ pc[w] = "start"
  /\ saw' = [saw EXCEPT ![w] = export.owner]
  /\ Goto(w, IF export.owner = NoProc THEN "work" ELSE "renew")
  /\ UNCHANGED <<lease, export, dead, crashes>>

HeartbeatRenews(w) ==
  /\ pc[w] = "renew"
  /\ IF LeaseRenewable(lease)
       THEN lease' = RenewedLease(lease, LockTTL) /\ Goto(w, "rewrite") /\ UNCHANGED saw
       ELSE Goto(w, "work") /\ UNCHANGED lease /\ saw' = [saw EXCEPT ![w] = NoProc]
  /\ UNCHANGED <<export, dead, crashes>>

\* It writes back the lock it read, with a new heartbeat.
HeartbeatRewrites(w) ==
  /\ pc[w] = "rewrite"
  /\ export' = ExportOf(saw[w])
  /\ saw' = [saw EXCEPT ![w] = NoProc]
  /\ Goto(w, "work")
  /\ UNCHANGED <<lease, dead, crashes>>

\* The run ends, before or after its heartbeat, and its deferred release runs.
Finish(w) ==
  /\ pc[w] \in {"start", "work"}
  /\ Goto(w, "unexport")
  /\ UNCHANGED <<lease, export, dead, saw, crashes>>

RemoveExport(w) ==
  /\ pc[w] = "unexport"
  /\ export' = NoExport
  /\ Goto(w, "release")
  /\ UNCHANGED <<lease, dead, saw, crashes>>

Release(w) ==
  /\ pc[w] = "release"
  /\ lease' = NoLease
  /\ Goto(w, "idle")
  /\ UNCHANGED <<export, dead, saw, crashes>>

----------------------------------------------------------------------------
(* CleanupStale, called by candidate selection: the export alone goes.     *)

ExportIsStale(w) == OwnerIsDead(w, export.owner) \/ export.age > LockTTL

SweepReads(w) ==
  /\ pc[w] = "idle"
  /\ export.owner # NoProc /\ ExportIsStale(w)
  /\ Goto(w, "sweep")
  /\ UNCHANGED <<lease, export, dead, saw, crashes>>

\* It removes the path, whoever's file that is by now.
SweepRemoves(w) ==
  /\ pc[w] = "sweep"
  /\ export' = NoExport
  /\ Goto(w, "idle")
  /\ UNCHANGED <<lease, dead, saw, crashes>>

----------------------------------------------------------------------------
Crash(p) ==
  /\ p \notin dead
  /\ crashes < MaxCrashes
  /\ crashes' = crashes + 1
  /\ dead' = dead \cup {p}
  /\ pc' = [w \in Workers |-> IF ProcOf[w] = p THEN "idle" ELSE pc[w]]
  /\ saw' = [w \in Workers |-> IF ProcOf[w] = p THEN NoProc ELSE saw[w]]
  /\ UNCHANGED <<lease, export>>

\* Time passes between operations, and while a run lasts only as long as its
\* lease does, unless runs may overrun.
Tick ==
  /\ Settled
  /\ \/ MayOverrun
     \/ lease.left > 1
     \/ \A w \in Workers : pc[w] = "idle"
  /\ lease' = LeaseAfterTick(lease)
  /\ export' = IF export.owner = NoProc THEN export
               ELSE [export EXCEPT !.age = Min2(@ + 1, LockTTL + 1)]
  /\ UNCHANGED <<dead, pc, saw, crashes>>

Try(w) == Live(w) /\ TryLease(w)

Sweep(w) == Live(w) /\ SweepReads(w)

Work(w) ==
  /\ Live(w)
  /\ \/ JudgeOwner(w) \/ Reclaim(w)
     \/ WriteExport(w) \/ WriteExportFails(w)
     \/ HeartbeatReads(w) \/ HeartbeatRenews(w) \/ HeartbeatRewrites(w)
     \/ Finish(w) \/ RemoveExport(w) \/ Release(w)
     \/ SweepRemoves(w)

Next ==
  \/ \E w \in Workers : Try(w) \/ Sweep(w) \/ Work(w)
  \/ \E p \in Procs : Crash(p)
  \/ Tick

Spec == Init /\ [][Next]_vars

(***************************************************************************)
(* Fairness.  A live goroutine goes on with what it began and its run ends *)
(* (command timeouts); the issue stays a candidate, so live workers keep   *)
(* trying; time goes on, since attempts are an idle delay apart.           *)
(***************************************************************************)
FairSpec ==
  /\ Spec
  /\ \A w \in Workers : WF_vars(Work(w)) /\ WF_vars(Try(w))
  /\ []<>Settled
  /\ SF_vars(Tick)

----------------------------------------------------------------------------
(* Properties.                                                             *)

\* Two runs never work in the issue's workspace at the same time.
OneRunAtATime ==
  \A v, w \in Workers : pc[v] \in Holding /\ pc[w] \in Holding => v = w

\* While a worker runs, the database says so: the lease every other component
\* consults (candidate selection, merge and cleanup gates) is its own, live.
RunIsVisible ==
  \A w \in Workers : pc[w] \in Holding => lease.owner = ProcOf[w] /\ LeaseHeld(lease)

\* The lock as its users see it: who holds it, and for whom it is recorded.
Contract == INSTANCE LockContract WITH
  holders <- {w \in Workers : pc[w] \in Holding},
  record <- IF LeaseHeld(lease) THEN lease.owner ELSE NoProc

\* The operations on the lease and on the export together are a lock that is
\* taken and given back in one step, which is how IssueWorker and Delivery
\* use it: a refused export gives the lease back, and a lease runs out, or is
\* taken from a dead process, only when nobody works under it.
ImplementsContract == Contract!Spec

\* The lease of a killed process is taken over or released in the end: at once
\* by a worker of its host, after its expiry by one elsewhere.
DeadOwnerIsReplaced == (lease.owner \in dead) ~> (lease.owner \notin dead)
============================================================================
