--------------------------- MODULE RunLockProofs ---------------------------
(* Proofs about RunLock.  OneRunAtATime is not inductive: what keeps a new *)
(* holder out is the lease, so RunIsVisible goes with it; and a worker     *)
(* about to reclaim keeps its right to only while the owner it judged dead *)
(* is still the owner, which holds as long as no second worker reclaims.   *)
(* So the one thing that can go wrong within the lifetime of a lease is    *)
(* two verdicts at the same time, and the code does not rule them out: the *)
(* theorems are about the behaviours in which they do not happen.          *)
EXTENDS RunLock, TLAPS

\* At most one worker has found the owner dead and is to reclaim.
OneVerdict ==
  \A v, w \in Workers : pc[v] = "reclaim" /\ pc[w] = "reclaim" => v = w

\* A worker that is to reclaim found an owner that is dead, and the lease
\* cannot change hands under it.
ReclaimsFromDead ==
  \A w \in Workers : pc[w] = "reclaim" =>
    /\ lease.owner \in dead /\ SameHost(w, lease.owner)
    /\ LeaseHeld(lease)

\* No time passes between a refused AcquireLease and the verdict on the owner.
JudgedLeaseIsHeld ==
  \A w \in Workers : pc[w] = "judge" => lease.owner = NoProc \/ LeaseHeld(lease)

\* A killed process has no worker under way, and there are as many as crashes.
DeadAreIdle ==
  /\ \A w \in Workers : ~Live(w) => pc[w] = "idle"
  /\ crashes = 0 => dead = {}

IInv == TypeOK /\ OneRunAtATime /\ RunIsVisible /\ ReclaimsFromDead
          /\ JudgedLeaseIsHeld /\ DeadAreIdle

----------------------------------------------------------------------------
(* Leases.                                                                 *)

\* What AcquireLease and ReclaimLease write is a live lease of the caller.
LEMMA AcquiredIsHeld ==
  ASSUME NEW p \in Procs
  PROVE  /\ AcquiredLease(p, LockTTL) \in LeaseRow
         /\ LeaseHeld(AcquiredLease(p, LockTTL))
         /\ AcquiredLease(p, LockTTL).owner = p
BY StateStoreAssumption, RunLockAssumption DEF AcquiredLease, LeaseRow, LeaseHeld

\* A renewal gives a lease its whole time again, and no other owner.
LEMMA RenewedIsHeld ==
  ASSUME NEW row \in LeaseRow, LeaseRenewable(row)
  PROVE  /\ RenewedLease(row, LockTTL) \in LeaseRow
         /\ LeaseHeld(RenewedLease(row, LockTTL))
         /\ RenewedLease(row, LockTTL).owner = row.owner
BY RunLockAssumption DEF RenewedLease, LeaseRow, LeaseHeld, LeaseRenewable

\* A released row is one nobody holds.
LEMMA NoLeaseIsFree == NoLease \in LeaseRow /\ ~LeaseHeld(NoLease) /\ NoLease.owner = NoProc
BY DEF NoLease, LeaseRow, LeaseHeld

\* A minute changes no owner, and takes a lease away only at its last one.
LEMMA TickedLease ==
  ASSUME NEW row \in LeaseRow
  PROVE  /\ LeaseAfterTick(row) \in LeaseRow
         /\ LeaseAfterTick(row).owner = row.owner
         /\ LeaseHeld(row) /\ row.left > 1 => LeaseHeld(LeaseAfterTick(row))
BY DEF LeaseAfterTick, LeaseRow, LeaseHeld

\* The lock file a run writes carries its process and a fresh heartbeat.
LEMMA ExportType ==
  ASSUME NEW p \in Procs \cup {NoProc}
  PROVE  /\ ExportOf(p) \in [owner : Procs \cup {NoProc}, age : 0..(LockTTL + 1)]
         /\ NoExport \in [owner : Procs \cup {NoProc}, age : 0..(LockTTL + 1)]
BY RunLockAssumption DEF ExportOf, NoExport

----------------------------------------------------------------------------
(* Types.                                                                  *)

\* The rows, the lock file and the program counters keep their types in every
\* step, crashes and sweeps included.
LEMMA TypeStep == TypeOK /\ [Next]_vars => TypeOK'
<1> SUFFICES ASSUME TypeOK, [Next]_vars PROVE TypeOK'
  OBVIOUS
<1> USE DEF TypeOK, Goto
<1>1. ASSUME NEW w \in Workers, Try(w) PROVE TypeOK'
  <2>1. ProcOf[w] \in Procs
    BY RunLockAssumption
  <2> QED
    BY <1>1, <2>1, AcquiredIsHeld DEF Try, TryLease, Steps
<1>2. ASSUME NEW w \in Workers, Sweep(w) PROVE TypeOK'
  BY <1>2 DEF Sweep, SweepReads, Steps
<1>3. ASSUME NEW w \in Workers, Work(w) PROVE TypeOK'
  <2>0. ProcOf[w] \in Procs
    BY RunLockAssumption
  <2>1. CASE JudgeOwner(w)
    BY <2>1 DEF JudgeOwner, Steps
  <2>2. CASE Reclaim(w)
    BY <2>0, <2>2, AcquiredIsHeld DEF Reclaim, Steps
  <2>3. CASE WriteExport(w)
    BY <2>0, <2>3, ExportType DEF WriteExport, Steps
  <2>4. CASE WriteExportFails(w)
    BY <2>4, NoLeaseIsFree DEF WriteExportFails, Steps
  <2>5. CASE HeartbeatReads(w)
    BY <2>5 DEF HeartbeatReads, Steps
  <2>6. CASE HeartbeatRenews(w)
    BY <2>6, RenewedIsHeld DEF HeartbeatRenews, Steps
  <2>7. CASE HeartbeatRewrites(w)
    <3>1. export' \in [owner : Procs \cup {NoProc}, age : 0..(LockTTL + 1)]
      BY <2>7, ExportType DEF HeartbeatRewrites
    <3> QED
      BY <2>7, <3>1 DEF HeartbeatRewrites, Steps
  <2>8. CASE Finish(w)
    BY <2>8 DEF Finish, Steps
  <2>9. CASE RemoveExport(w)
    BY <2>9, ExportType DEF RemoveExport, Steps
  <2>10. CASE Release(w)
    BY <2>10, NoLeaseIsFree DEF Release, Steps
  <2>11. CASE SweepRemoves(w)
    BY <2>11, ExportType DEF SweepRemoves, Steps
  <2> QED
    BY <1>3, <2>1, <2>2, <2>3, <2>4, <2>5, <2>6, <2>7, <2>8, <2>9, <2>10, <2>11 DEF Work
<1>4. ASSUME NEW p \in Procs, Crash(p) PROVE TypeOK'
  <2>1. pc' \in [Workers -> Steps] /\ saw' \in [Workers -> Procs \cup {NoProc}]
    BY <1>4 DEF Crash, Steps
  <2>2. crashes' \in 0..MaxCrashes
    BY <1>4, RunLockAssumption DEF Crash
  <2> QED
    BY <1>4, <2>1, <2>2 DEF Crash
<1>5. CASE Tick
  <2>1. export' \in [owner : Procs \cup {NoProc}, age : 0..(LockTTL + 1)]
    BY <1>5, RunLockAssumption DEF Tick, Min2
  <2> QED
    BY <1>5, <2>1, TickedLease DEF Tick
<1>6. CASE UNCHANGED vars
  BY <1>6 DEF vars
<1> QED
  BY <1>1, <1>2, <1>3, <1>4, <1>5, <1>6 DEF Next

\* Every reachable state is well typed, whatever the workers, processes, hosts,
\* lock lifetime and number of crashes.
THEOREM TypeCorrect == Spec => []TypeOK
<1>1. Init => TypeOK
  BY RunLockAssumption, NoLeaseIsFree, ExportType DEF Init, TypeOK, Steps
<1> QED
  BY <1>1, TypeStep, PTL DEF Spec

----------------------------------------------------------------------------
(* Mutual exclusion.                                                       *)

\* While a run holds the lock nobody else may take it, so a step that gives
\* the lease to a worker finds no holder.
LEMMA FreeMeansIdle ==
  ASSUME RunIsVisible, ~LeaseHeld(lease), NEW w \in Workers
  PROVE  pc[w] \notin Holding
BY DEF RunIsVisible

\* A new holder keeps the invariant when nobody held the lock before and
\* nobody else is about to reclaim it.
LEMMA NewHolder ==
  ASSUME IInv, TypeOK', NEW w \in Workers, Live(w),
         lease' = AcquiredLease(ProcOf[w], LockTTL),
         pc' = [pc EXCEPT ![w] = "export"],
         UNCHANGED <<dead, crashes>>,
         \A v \in Workers : v # w => pc[v] \notin Holding \cup {"reclaim"}
  PROVE  IInv'
<1>1. ProcOf[w] \in Procs /\ ProcOf[w] # NoProc
  BY RunLockAssumption, StateStoreAssumption
<1>2. LeaseHeld(lease') /\ lease'.owner = ProcOf[w]
  BY <1>1, AcquiredIsHeld
<1>3. \A v \in Workers : pc'[v] = IF v = w THEN "export" ELSE pc[v]
  BY DEF IInv, TypeOK
<1>4. OneRunAtATime'
  BY <1>3 DEF OneRunAtATime
<1>5. RunIsVisible'
  BY <1>2, <1>3 DEF RunIsVisible, LeaseHeld
<1>6. ReclaimsFromDead'
  BY <1>3 DEF ReclaimsFromDead
<1>7. JudgedLeaseIsHeld'
  BY <1>2 DEF JudgedLeaseIsHeld, LeaseHeld
<1>8. DeadAreIdle'
  BY <1>3 DEF IInv, DeadAreIdle, Live
<1> QED
  BY <1>4, <1>5, <1>6, <1>7, <1>8 DEF IInv

\* A step of a worker that takes no part in handing over the lease: it moves
\* on among the steps of a holder, or among those of one who is not.
LEMMA QuietStep ==
  ASSUME IInv, TypeOK', NEW w \in Workers, NEW step \in Steps, Live(w),
         UNCHANGED <<lease, dead, crashes>>,
         pc' = [pc EXCEPT ![w] = step],
         step \in Holding => pc[w] \in Holding,
         step \notin {"judge", "reclaim"}
  PROVE  IInv'
<1>1. \A v \in Workers : pc'[v] = IF v = w THEN step ELSE pc[v]
  BY DEF IInv, TypeOK
<1>2. OneRunAtATime'
  BY <1>1 DEF IInv, OneRunAtATime
<1>3. RunIsVisible'
  BY <1>1 DEF IInv, RunIsVisible, LeaseHeld
<1>4. ReclaimsFromDead'
  BY <1>1 DEF IInv, ReclaimsFromDead, LeaseHeld, SameHost
<1>5. JudgedLeaseIsHeld'
  BY <1>1 DEF IInv, JudgedLeaseIsHeld, LeaseHeld
<1>6. DeadAreIdle'
  BY <1>1 DEF IInv, DeadAreIdle, Live
<1> QED
  BY <1>2, <1>3, <1>4, <1>5, <1>6 DEF IInv

\* The holder gives the lease up.
LEMMA GivingUp ==
  ASSUME IInv, TypeOK', NEW w \in Workers, Live(w),
         pc[w] \in Holding, lease' = NoLease,
         pc' = [pc EXCEPT ![w] = "idle"],
         UNCHANGED <<dead, crashes>>
  PROVE  IInv'
<1>1. \A v \in Workers : pc'[v] = IF v = w THEN "idle" ELSE pc[v]
  BY DEF IInv, TypeOK
<1>2. \A v \in Workers : pc'[v] \notin Holding
  BY <1>1 DEF IInv, OneRunAtATime, Holding
<1>3. ProcOf[w] \notin dead /\ lease.owner = ProcOf[w]
  BY DEF IInv, RunIsVisible, Live
<1>4. \A v \in Workers : pc'[v] # "reclaim"
  BY <1>1, <1>3 DEF IInv, ReclaimsFromDead
<1>5. JudgedLeaseIsHeld'
  BY NoLeaseIsFree DEF JudgedLeaseIsHeld
<1>6. DeadAreIdle'
  BY <1>1 DEF IInv, DeadAreIdle, Live
<1> QED
  BY <1>2, <1>4, <1>5, <1>6 DEF IInv, OneRunAtATime, RunIsVisible, ReclaimsFromDead

\* Every step keeps the invariant, when runs end within the lifetime of their
\* lease and no two workers are to reclaim.
LEMMA ExclusionStep ==
  ASSUME OneVerdict, ~MayOverrun, IInv, [Next]_vars
  PROVE  IInv'
<1>0. TypeOK'
  BY TypeStep DEF IInv
<1>1. ASSUME NEW w \in Workers, Try(w) PROVE IInv'
  <2>0. Live(w) /\ pc[w] = "idle" /\ UNCHANGED <<dead, crashes>>
    BY <1>1 DEF Try, TryLease
  <2>1. CASE LeaseHeld(lease)
    <3>1. pc' = [pc EXCEPT ![w] = "judge"] /\ UNCHANGED lease
      BY <1>1, <2>1 DEF Try, TryLease, Goto
    <3>2. \A v \in Workers : pc'[v] = IF v = w THEN "judge" ELSE pc[v]
      BY <3>1 DEF IInv, TypeOK
    <3>3. OneRunAtATime' /\ RunIsVisible' /\ ReclaimsFromDead'
      BY <2>0, <3>1, <3>2
      DEF IInv, OneRunAtATime, RunIsVisible, ReclaimsFromDead, Holding, LeaseHeld, SameHost
    <3>4. JudgedLeaseIsHeld' /\ DeadAreIdle'
      BY <2>0, <2>1, <3>1, <3>2 DEF IInv, JudgedLeaseIsHeld, DeadAreIdle, LeaseHeld, Live
    <3> QED
      BY <1>0, <3>3, <3>4 DEF IInv
  <2>2. CASE ~LeaseHeld(lease)
    <3>1. /\ lease' = AcquiredLease(ProcOf[w], LockTTL)
          /\ pc' = [pc EXCEPT ![w] = "export"]
      BY <1>1, <2>2 DEF Try, TryLease, Goto
    <3>2. \A v \in Workers : pc[v] \notin Holding \cup {"reclaim"}
      BY <2>2, FreeMeansIdle DEF IInv, ReclaimsFromDead
    <3> QED
      BY <1>0, <2>0, <3>1, <3>2, NewHolder
  <2> QED
    BY <2>1, <2>2
<1>2. ASSUME NEW w \in Workers, Sweep(w) PROVE IInv'
  BY <1>0, <1>2, QuietStep DEF Sweep, SweepReads, Goto, Steps, Holding
<1>3. ASSUME NEW w \in Workers, Work(w) PROVE IInv'
  <2>0. Live(w)
    BY <1>3 DEF Work
  <2>1. CASE JudgeOwner(w)
    <3>0. UNCHANGED <<lease, dead, crashes>> /\ pc[w] = "judge"
      BY <2>1 DEF JudgeOwner
    <3>1. CASE OwnerIsDead(w, lease.owner)
      <4>1. \A v \in Workers : pc'[v] = IF v = w THEN "reclaim" ELSE pc[v]
        BY <2>1, <3>1 DEF JudgeOwner, Goto, IInv, TypeOK
      <4>2. lease.owner \in dead /\ SameHost(w, lease.owner) /\ LeaseHeld(lease)
        BY <3>0, <3>1 DEF OwnerIsDead, IInv, JudgedLeaseIsHeld
      <4>3. OneRunAtATime' /\ RunIsVisible'
        BY <3>0, <4>1 DEF IInv, OneRunAtATime, RunIsVisible, Holding, LeaseHeld
      <4>4. ReclaimsFromDead' /\ JudgedLeaseIsHeld'
        BY <3>0, <4>1, <4>2
        DEF IInv, ReclaimsFromDead, JudgedLeaseIsHeld, LeaseHeld, SameHost
      <4>5. DeadAreIdle'
        BY <2>0, <3>0, <4>1 DEF IInv, DeadAreIdle, Live
      <4> QED
        BY <1>0, <4>3, <4>4, <4>5 DEF IInv
    <3>2. CASE ~OwnerIsDead(w, lease.owner)
      BY <1>0, <2>0, <2>1, <3>2, QuietStep DEF JudgeOwner, Goto, Steps, Holding
    <3> QED
      BY <3>1, <3>2
  <2>2. CASE Reclaim(w)
    <3>1. lease.owner \in dead /\ SameHost(w, lease.owner) /\ LeaseHeld(lease)
      BY <2>2 DEF Reclaim, IInv, ReclaimsFromDead
    <3>2. /\ lease' = AcquiredLease(ProcOf[w], LockTTL)
          /\ pc' = [pc EXCEPT ![w] = "export"]
          /\ UNCHANGED <<dead, crashes>>
      BY <2>2, <3>1 DEF Reclaim, Goto, LeaseRenewable, LeaseHeld
    <3>3. ASSUME NEW v \in Workers, v # w PROVE pc[v] \notin Holding
      <4>1. pc[v] # "idle" => ProcOf[v] # lease.owner
        BY <3>1 DEF IInv, DeadAreIdle, Live
      <4> QED
        BY <4>1 DEF IInv, RunIsVisible, Holding
    <3>4. ASSUME NEW v \in Workers, v # w PROVE pc[v] # "reclaim"
      BY <2>2, <3>4 DEF Reclaim, OneVerdict
    <3> QED
      BY <1>0, <2>0, <3>2, <3>3, <3>4, NewHolder
  <2>3. CASE WriteExport(w)
    BY <1>0, <2>0, <2>3, QuietStep DEF WriteExport, Goto, Steps, Holding
  <2>4. CASE WriteExportFails(w)
    BY <1>0, <2>0, <2>4, GivingUp DEF WriteExportFails, Goto, Holding
  <2>5. CASE HeartbeatReads(w)
    BY <1>0, <2>0, <2>5, QuietStep DEF HeartbeatReads, Goto, Steps, Holding
  <2>6. CASE HeartbeatRenews(w)
    <3>0. pc[w] = "renew" /\ UNCHANGED <<dead, crashes>>
      BY <2>6 DEF HeartbeatRenews
    <3>1. lease.owner = ProcOf[w] /\ LeaseHeld(lease) /\ LeaseRenewable(lease)
      BY <3>0 DEF IInv, RunIsVisible, Holding, LeaseHeld, LeaseRenewable
    <3>2. /\ lease' = RenewedLease(lease, LockTTL)
          /\ pc' = [pc EXCEPT ![w] = "rewrite"]
      BY <2>6, <3>1 DEF HeartbeatRenews, Goto
    <3>3. LeaseHeld(lease') /\ lease'.owner = lease.owner
      BY <3>1, <3>2, RenewedIsHeld DEF IInv, TypeOK
    <3>4. \A v \in Workers : pc'[v] = IF v = w THEN "rewrite" ELSE pc[v]
      BY <3>2 DEF IInv, TypeOK
    <3>5. OneRunAtATime' /\ DeadAreIdle'
      BY <2>0, <3>0, <3>4 DEF IInv, OneRunAtATime, DeadAreIdle, Live, Holding
    <3>6. RunIsVisible' /\ JudgedLeaseIsHeld'
      BY <3>0, <3>3, <3>4 DEF IInv, RunIsVisible, JudgedLeaseIsHeld, Holding, LeaseHeld
    <3>7. ReclaimsFromDead'
      BY <3>0, <3>3, <3>4 DEF IInv, ReclaimsFromDead, LeaseHeld, SameHost
    <3> QED
      BY <1>0, <3>5, <3>6, <3>7 DEF IInv
  <2>7. CASE HeartbeatRewrites(w)
    BY <1>0, <2>0, <2>7, QuietStep DEF HeartbeatRewrites, Goto, Steps, Holding
  <2>8. CASE Finish(w)
    BY <1>0, <2>0, <2>8, QuietStep DEF Finish, Goto, Steps, Holding
  <2>9. CASE RemoveExport(w)
    BY <1>0, <2>0, <2>9, QuietStep DEF RemoveExport, Goto, Steps, Holding
  <2>10. CASE Release(w)
    BY <1>0, <2>0, <2>10, GivingUp DEF Release, Goto, Holding
  <2>11. CASE SweepRemoves(w)
    BY <1>0, <2>0, <2>11, QuietStep DEF SweepRemoves, Goto, Steps, Holding
  <2> QED
    BY <1>3, <2>1, <2>2, <2>3, <2>4, <2>5, <2>6, <2>7, <2>8, <2>9, <2>10, <2>11 DEF Work
<1>4. ASSUME NEW p \in Procs, Crash(p) PROVE IInv'
  <2>1. \A v \in Workers : pc'[v] = IF ProcOf[v] = p THEN "idle" ELSE pc[v]
    BY <1>4 DEF Crash
  <2>2. UNCHANGED lease /\ dead' = dead \cup {p} /\ crashes' = crashes + 1
    BY <1>4 DEF Crash
  <2>3. OneRunAtATime' /\ RunIsVisible' /\ JudgedLeaseIsHeld'
    BY <2>1, <2>2
    DEF IInv, OneRunAtATime, RunIsVisible, JudgedLeaseIsHeld, Holding, LeaseHeld
  <2>4. ReclaimsFromDead'
    BY <2>1, <2>2 DEF IInv, ReclaimsFromDead, LeaseHeld, SameHost
  <2>5. crashes' # 0
    BY <2>2, RunLockAssumption DEF IInv, TypeOK
  <2>6. DeadAreIdle'
    BY <2>1, <2>2, <2>5 DEF IInv, DeadAreIdle, Live
  <2> QED
    BY <1>0, <2>3, <2>4, <2>6 DEF IInv
<1>5. CASE Tick
  <2>1. lease' = LeaseAfterTick(lease) /\ UNCHANGED <<dead, pc, crashes>> /\ Settled
    BY <1>5 DEF Tick
  <2>2. lease'.owner = lease.owner
        /\ (LeaseHeld(lease) /\ lease.left > 1 => LeaseHeld(lease'))
    BY <2>1, TickedLease DEF IInv, TypeOK
  <2>3. \A v \in Workers : pc[v] \in Waiting
    BY <2>1 DEF Settled, IInv, DeadAreIdle, Waiting
  <2>4. RunIsVisible'
    <3>1. CASE lease.left > 1
      BY <2>1, <2>2, <3>1 DEF IInv, RunIsVisible, LeaseHeld
    <3>2. CASE \A w \in Workers : pc[w] = "idle"
      BY <2>1, <3>2 DEF RunIsVisible, Holding
    <3> QED
      BY <1>5, <3>1, <3>2 DEF Tick
  <2>5. OneRunAtATime' /\ DeadAreIdle'
    BY <2>1 DEF IInv, OneRunAtATime, DeadAreIdle, Live
  <2>6. ReclaimsFromDead' /\ JudgedLeaseIsHeld'
    BY <2>1, <2>3 DEF ReclaimsFromDead, JudgedLeaseIsHeld, Waiting
  <2> QED
    BY <1>0, <2>4, <2>5, <2>6 DEF IInv
<1>6. CASE UNCHANGED vars
  BY <1>0, <1>6 DEF vars, IInv, OneRunAtATime, RunIsVisible, ReclaimsFromDead,
     JudgedLeaseIsHeld, DeadAreIdle, LeaseHeld, SameHost, Live
<1> QED
  BY <1>1, <1>2, <1>3, <1>4, <1>5, <1>6 DEF Next

\* The invariant holds at the start.
LEMMA ExclusionStarts == Init => IInv
<1>1. Init => TypeOK
  BY RunLockAssumption, NoLeaseIsFree, ExportType DEF Init, TypeOK, Steps
<1> QED
  BY <1>1 DEF Init, IInv, OneRunAtATime, RunIsVisible, ReclaimsFromDead,
     JudgedLeaseIsHeld, DeadAreIdle, Holding

\* The invariant holds for as long as there are no two verdicts at the same time.
LEMMA ExclusionLasts == ~MayOverrun => (Spec /\ []OneVerdict => []IInv)
<1> SUFFICES ASSUME ~MayOverrun PROVE Spec /\ []OneVerdict => []IInv
  OBVIOUS
<1>1. IInv /\ OneVerdict /\ [Next]_vars => IInv'
  BY ExclusionStep
<1> QED
  BY <1>1, ExclusionStarts, PTL DEF Spec

----------------------------------------------------------------------------
(* The lock as its users see it.                                           *)

\* What LockContract calls the holders and the record.
Holders == {w \in Workers : pc[w] \in Holding}
Record == IF LeaseHeld(lease) THEN lease.owner ELSE NoProc

\* A step that leaves lease and dead alone and moves one worker among the
\* steps of a holder, or among the others, is not seen.
LEMMA Unseen ==
  ASSUME TypeOK, NEW w \in Workers, NEW step,
         UNCHANGED <<lease, dead>>, pc' = [pc EXCEPT ![w] = step],
         step \in Holding <=> pc[w] \in Holding
  PROVE  UNCHANGED Contract!vars
<1>1. \A v \in Workers : pc'[v] = IF v = w THEN step ELSE pc[v]
  BY DEF TypeOK
<1>2. Holders' = Holders
  BY <1>1 DEF Holders
<1>3. Record' = Record
  BY DEF Record, LeaseHeld
<1> QED
  BY <1>2, <1>3 DEF Contract!vars, Holders, Record

\* A worker that gets the lease takes the lock, if it was free or recorded
\* for a process the worker knows is dead.
LEMMA Taken ==
  ASSUME TypeOK, NEW w \in Workers, Live(w), Holders = {},
         Record = NoProc \/ (Record \in dead /\ SameHost(w, Record)),
         lease' = AcquiredLease(ProcOf[w], LockTTL), UNCHANGED dead,
         pc' = [pc EXCEPT ![w] = "export"]
  PROVE  Contract!Take(w)
<1>1. ProcOf[w] \in Procs /\ LeaseHeld(lease') /\ lease'.owner = ProcOf[w]
  BY RunLockAssumption, AcquiredIsHeld
<1>2. Record' = ProcOf[w]
  BY <1>1 DEF Record, LeaseHeld
<1>3. \A v \in Workers : pc'[v] = IF v = w THEN "export" ELSE pc[v]
  BY DEF TypeOK
<1>4. Holders' = {w}
  BY <1>3 DEF Holders, Holding
<1> QED
  BY <1>2, <1>4 DEF Contract!Take, Contract!KnownDead, Holders, Record, Live, SameHost

\* The holder that gives up its lease gives the lock back.
LEMMA GivenBack ==
  ASSUME TypeOK, OneRunAtATime, NEW w \in Workers, Live(w), pc[w] \in Holding,
         lease' = NoLease, UNCHANGED dead,
         pc' = [pc EXCEPT ![w] = "idle"]
  PROVE  Contract!GiveBack(w)
<1>1. Record' = NoProc
  BY NoLeaseIsFree DEF Record
<1>2. \A v \in Workers : pc'[v] = IF v = w THEN "idle" ELSE pc[v]
  BY DEF TypeOK
<1>3. Holders = {w} /\ Holders' = {}
  BY <1>2 DEF Holders, Holding, OneRunAtATime
<1> QED
  BY <1>1, <1>3 DEF Contract!GiveBack, Holders, Record, Live

\* Every step of the lock's operations is one of the contract, or unseen.
LEMMA ContractStep ==
  ASSUME ~MayOverrun, OneVerdict, IInv, [Next]_vars
  PROVE  [Contract!Next]_(Contract!vars)
<1>0. TypeOK /\ OneRunAtATime /\ RunIsVisible
  BY DEF IInv
<1>1. ASSUME NEW w \in Workers, Try(w) PROVE [Contract!Next]_(Contract!vars)
  <2>0. Live(w) /\ pc[w] = "idle" /\ UNCHANGED dead
    BY <1>1 DEF Try, TryLease
  <2>1. CASE LeaseHeld(lease)
    BY <1>0, <1>1, <2>0, <2>1, Unseen DEF Try, TryLease, Goto, Holding
  <2>2. CASE ~LeaseHeld(lease)
    <3>1. Holders = {} /\ Record = NoProc
      BY <1>0, <2>2, FreeMeansIdle DEF Holders, Record
    <3>2. Contract!Take(w)
      BY <1>0, <1>1, <2>0, <2>2, <3>1, Taken DEF Try, TryLease, Goto
    <3> QED
      BY <3>2 DEF Contract!Next
  <2> QED
    BY <2>1, <2>2
<1>2. ASSUME NEW w \in Workers, Sweep(w) PROVE [Contract!Next]_(Contract!vars)
  BY <1>0, <1>2, Unseen DEF Sweep, SweepReads, Goto, Holding
<1>3. ASSUME NEW w \in Workers, Work(w) PROVE [Contract!Next]_(Contract!vars)
  <2>0. Live(w)
    BY <1>3 DEF Work
  <2>1. CASE JudgeOwner(w)
    BY <1>0, <2>1, Unseen DEF JudgeOwner, Goto, Holding
  <2>2. CASE Reclaim(w)
    <3>1. lease.owner \in dead /\ SameHost(w, lease.owner) /\ LeaseHeld(lease)
      BY <2>2 DEF Reclaim, IInv, ReclaimsFromDead
    <3>2. /\ lease' = AcquiredLease(ProcOf[w], LockTTL)
          /\ pc' = [pc EXCEPT ![w] = "export"]
          /\ UNCHANGED dead
      BY <2>2, <3>1 DEF Reclaim, Goto, LeaseRenewable, LeaseHeld
    <3>3. Holders = {}
      <4> SUFFICES ASSUME NEW v \in Workers, pc[v] \in Holding PROVE FALSE
        BY DEF Holders
      <4>1. Live(v) /\ lease.owner = ProcOf[v]
        BY DEF IInv, DeadAreIdle, RunIsVisible, Holding
      <4> QED
        BY <3>1, <4>1 DEF Live
    <3>4. Record = lease.owner
      BY <3>1 DEF Record
    <3>5. Contract!Take(w)
      BY <1>0, <2>0, <3>1, <3>2, <3>3, <3>4, Taken
    <3> QED
      BY <3>5 DEF Contract!Next
  <2>3. CASE WriteExport(w)
    BY <1>0, <2>3, Unseen DEF WriteExport, Goto, Holding
  <2>4. CASE WriteExportFails(w)
    <3>1. Contract!GiveBack(w)
      BY <1>0, <2>0, <2>4, GivenBack DEF WriteExportFails, Goto, Holding
    <3> QED
      BY <3>1 DEF Contract!Next
  <2>5. CASE HeartbeatReads(w)
    BY <1>0, <2>5, Unseen DEF HeartbeatReads, Goto, Holding
  <2>6. CASE HeartbeatRenews(w)
    <3>0. pc[w] = "renew" /\ UNCHANGED dead
      BY <2>6 DEF HeartbeatRenews
    <3>1. LeaseHeld(lease) /\ LeaseRenewable(lease)
      BY <1>0, <3>0 DEF RunIsVisible, Holding, LeaseHeld, LeaseRenewable
    <3>2. lease' = RenewedLease(lease, LockTTL) /\ pc' = [pc EXCEPT ![w] = "rewrite"]
      BY <2>6, <3>1 DEF HeartbeatRenews, Goto
    <3>3. LeaseHeld(lease') /\ lease'.owner = lease.owner
      BY <1>0, <3>1, <3>2, RenewedIsHeld DEF TypeOK
    <3>4. Record' = Record
      BY <3>1, <3>3 DEF Record, LeaseHeld
    <3>5. \A v \in Workers : pc'[v] = IF v = w THEN "rewrite" ELSE pc[v]
      BY <1>0, <3>2 DEF TypeOK
    <3>6. Holders' = Holders
      BY <3>0, <3>5 DEF Holders, Holding
    <3> QED
      BY <3>0, <3>4, <3>6 DEF Contract!vars, Holders, Record
  <2>7. CASE HeartbeatRewrites(w)
    BY <1>0, <2>7, Unseen DEF HeartbeatRewrites, Goto, Holding
  <2>8. CASE Finish(w)
    BY <1>0, <2>8, Unseen DEF Finish, Goto, Holding
  <2>9. CASE RemoveExport(w)
    BY <1>0, <2>9, Unseen DEF RemoveExport, Goto, Holding
  <2>10. CASE Release(w)
    <3>1. Contract!GiveBack(w)
      BY <1>0, <2>0, <2>10, GivenBack DEF Release, Goto, Holding
    <3> QED
      BY <3>1 DEF Contract!Next
  <2>11. CASE SweepRemoves(w)
    BY <1>0, <2>11, Unseen DEF SweepRemoves, Goto, Holding
  <2> QED
    BY <1>3, <2>1, <2>2, <2>3, <2>4, <2>5, <2>6, <2>7, <2>8, <2>9, <2>10, <2>11 DEF Work
<1>4. ASSUME NEW p \in Procs, Crash(p) PROVE [Contract!Next]_(Contract!vars)
  <2>1. \A v \in Workers : pc'[v] = IF ProcOf[v] = p THEN "idle" ELSE pc[v]
    BY <1>4 DEF Crash
  <2>2. Holders' = {w \in Holders : ProcOf[w] # p}
    BY <2>1 DEF Holders, Holding
  <2>3. Record' = Record
    BY <1>4 DEF Crash, Record, LeaseHeld
  <2>4. Contract!Die(p)
    BY <1>4, <2>2, <2>3 DEF Crash, Contract!Die, Holders, Record
  <2> QED
    BY <2>4 DEF Contract!Next
<1>5. CASE Tick
  <2>1. lease' = LeaseAfterTick(lease) /\ UNCHANGED <<dead, pc>>
    BY <1>5 DEF Tick
  <2>2. Holders' = Holders
    BY <2>1 DEF Holders
  <2>3. CASE LeaseHeld(lease') <=> LeaseHeld(lease)
    <3>1. Record' = Record
      BY <1>0, <2>1, <2>3, TickedLease DEF TypeOK, Record, LeaseHeld
    <3> QED
      BY <2>1, <2>2, <3>1 DEF Contract!vars, Holders, Record
  <2>4. CASE ~(LeaseHeld(lease') <=> LeaseHeld(lease))
    <3>1. LeaseHeld(lease) /\ ~LeaseHeld(lease')
      BY <1>0, <2>1, <2>4 DEF TypeOK, LeaseRow, LeaseAfterTick, LeaseHeld
    <3>2. \A w \in Workers : pc[w] = "idle"
      BY <1>0, <1>5, <2>1, <3>1, TickedLease DEF Tick, TypeOK
    <3>3. Holders = {} /\ Record' = NoProc
      BY <3>1, <3>2 DEF Holders, Holding, Record
    <3>4. Contract!Lapse
      BY <2>1, <2>2, <3>3 DEF Contract!Lapse, Holders, Record
    <3> QED
      BY <3>4 DEF Contract!Next
  <2> QED
    BY <2>3, <2>4
<1>6. CASE UNCHANGED vars
  <2>1. Holders' = Holders /\ Record' = Record /\ UNCHANGED dead
    BY <1>6 DEF vars, Holders, Record, LeaseHeld
  <2> QED
    BY <2>1 DEF Contract!vars, Holders, Record
<1> QED
  BY <1>1, <1>2, <1>3, <1>4, <1>5, <1>6 DEF Next

\* Nobody holds the lock at the start.
LEMMA ContractStarts == Init => Contract!Init
BY NoLeaseIsFree DEF Init, Contract!Init, Holding

\* Within the invariant, and without two verdicts, every step is a step of
\* the contract.
LEMMA ContractKept == ~MayOverrun => (Spec /\ []OneVerdict => ImplementsContract)
<1> SUFFICES ASSUME ~MayOverrun PROVE Spec /\ []OneVerdict => ImplementsContract
  OBVIOUS
<1>1. Spec /\ []OneVerdict => []IInv
  BY ExclusionLasts
<1>2. IInv /\ OneVerdict /\ [Next]_vars => [Contract!Next]_(Contract!vars)
  BY ContractStep
<1> QED
  BY <1>1, <1>2, ContractStarts, PTL DEF Spec, ImplementsContract, Contract!Spec

\* Two verdicts on one owner are the only way to two runs (locks.go:134): in
\* every behaviour that has no two workers between their verdict and their
\* ReclaimLease, whatever the hosts, processes and crashes, no two runs hold
\* the lock, every run is on record as the live lease of its process, and
\* lease, export, heartbeat, sweeps and expiry together are the lock of
\* LockContract, taken and given back in one step (locks.go:90-142).
THEOREM OnlyTwoVerdictsLetTwoRun ==
  ~MayOverrun =>
    (Spec /\ []OneVerdict => [](OneRunAtATime /\ RunIsVisible) /\ ImplementsContract)
<1> SUFFICES ASSUME ~MayOverrun
             PROVE  Spec /\ []OneVerdict =>
                      [](OneRunAtATime /\ RunIsVisible) /\ ImplementsContract
  OBVIOUS
<1>1. IInv => OneRunAtATime /\ RunIsVisible
  BY DEF IInv
<1>2. Spec /\ []OneVerdict => []IInv
  BY ExclusionLasts
<1>3. Spec /\ []OneVerdict => ImplementsContract
  BY ContractKept
<1> QED
  BY <1>1, <1>2, <1>3, PTL
============================================================================
