-------------------------- MODULE LaneWorkerProofs --------------------------
(* Proofs about LaneWorker: types; that the cycles of any number of        *)
(* processes keep the lane contract as long as no host is suspended and no *)
(* repair falls between two store calls of a cycle; and what one daemon    *)
(* keeps to in spite of both.                                              *)
EXTENDS LaneWorker, StateStoreProofs, FiniteSetTheorems, TLAPS

----------------------------------------------------------------------------
(* Workers.                                                                *)

\* A worker is its process and its lane.
LEMMA WorkerParts ==
  /\ \A w \in Workers : w[1] \in Procs /\ w[2] \in Lanes
  /\ \A p \in Procs, l \in Lanes :
       /\ <<p, l>> \in Workers
       /\ <<p, l>>[1] = p /\ <<p, l>>[2] = l
  /\ \A v, w \in Workers : v[1] = w[1] /\ v[2] = w[2] => v = w
BY DEF Workers

----------------------------------------------------------------------------
(* Types.                                                                  *)

\* Each step of a cycle keeps the types.
LEMMA TypeCycle ==
  ASSUME TypeOK, NEW w \in Workers, Begin(w) \/ Continue(w) \/ Body(w)
  PROVE  TypeOK'
<1> USE DEF TypeOK, Goto, Beat
<1>0. w[1] \in Procs /\ w[2] \in Lanes /\ 0 \in 0..StaleAfter
  BY WorkerParts, StateStoreAssumption
<1>1. ASSUME NEW failed \in BOOLEAN, Return(w, failed)
      PROVE  /\ pc' \in [Workers -> Steps] /\ beat' \in [Procs -> 0..StaleAfter]
             /\ proc' \in [Procs -> {"off", "up", "draining"}]
             /\ asleep' \in SUBSET Procs /\ crashes' \in 0..MaxCrashes
  BY <1>0, <1>1 DEF Return, Steps
<1>2. CASE BeginCycle(w)
  <2>1. Recoverables \in SUBSET Lanes
    BY DEF Recoverables
  <2> HIDE DEF Recoverables
  <2> QED
    BY <1>2, <2>1 DEF BeginCycle, store, world, Steps
<1>3. ASSUME NEW l \in Lanes, MarkStale(w, l) PROVE TypeOK'
  <2>1. ReconciliationNeededTask(tasks[l]) \in TaskRow
    BY TaskRows DEF TaskStatus
  <2>2. Result("reconciliation_needed", Backoff) \in ResultRow
    BY LaneWorkerAssumption, ResultRows DEF ResultStatus
  <2> QED
    BY <1>3, <2>1, <2>2 DEF MarkStale, world, Steps
<1>4. CASE AfterMarking(w)
  BY <1>4, <1>1 DEF AfterMarking, store, world, Steps
<1>5. CASE ReadTask(w)
  BY <1>5, <1>1 DEF ReadTask, store, world, Steps
<1>6. CASE ReadBackoff(w)
  <2>1. WaitAfterLatestFailure(results[w[2]]) \in Nat
    BY <1>0, LaneWorkerAssumption, ResultRows DEF ResultStatus
  <2> QED
    BY <1>6, <2>1 DEF ReadBackoff, store, world, Steps
<1>7. CASE Enqueue(w)
  <2>1. QueuedTask(avail[w]) \in TaskRow
    BY <1>0, TaskRows DEF TaskStatus
  <2> QED
    BY <1>0, <1>7, <2>1 DEF Enqueue, world, Steps
<1>8. CASE Claim(w)
  <2>1. ClaimedTask(tasks[w[2]]) \in TaskRow
    BY <1>0, TaskRows DEF TaskStatus
  <2> QED
    BY <1>0, <1>1, <1>8, <2>1 DEF Claim, world, Steps
<1>9. CASE Acquire(w)
  BY <1>0, <1>9, LaneWorkerAssumption, LeaseRows DEF Acquire, world, Steps
<1>10. CASE AcquireRefused(w)
  BY <1>10 DEF AcquireRefused, store, world, Steps
<1>11. CASE Renew(w)
  <2>1. leases[w[2]] \in LeaseRow /\ LeaseTTL \in Nat
    BY <1>0, LaneWorkerAssumption
  <2>2. RenewedLease(leases[w[2]], LeaseTTL) \in LeaseRow
    BY <1>0, <2>1, LeaseRows
  <2> QED
    BY <1>0, <1>11, <2>2 DEF Renew, world, Steps
<1>12. CASE Touch(w)
  <2>1. TouchedTask(tasks[w[2]]) \in TaskRow
    BY <1>0, TaskRows DEF TaskStatus
  <2> QED
    BY <1>0, <1>12, <2>1 DEF Touch, world, Steps
<1>13. ASSUME NEW outcome \in {"completed", "failed"}, BodyReturns(w, outcome) PROVE TypeOK'
  BY <1>0, <1>13 DEF BodyReturns, store, world, Steps
<1>14. CASE Complete(w)
  <2>1. CompletedTask(tasks[w[2]], fin[w]) \in TaskRow
    BY <1>0, TaskRows DEF TaskStatus
  <2> QED
    BY <1>0, <1>14, <2>1 DEF Complete, world, Steps
<1>15. CASE Report(w)
  <2>1. Result(fin[w], Backoff) \in ResultRow
    BY <1>0, LaneWorkerAssumption, ResultRows DEF ResultStatus
  <2> QED
    BY <1>0, <1>1, <1>15, <2>1 DEF Report, world, Steps
<1>16. CASE Release(w)
  BY <1>0, <1>1, <1>16, LaneWorkerAssumption, LeaseRows DEF Release, Steps
<1> QED
  BY <1>2, <1>3, <1>4, <1>5, <1>6, <1>7, <1>8, <1>9, <1>10, <1>11, <1>12, <1>13,
     <1>14, <1>15, <1>16
  DEF Begin, Continue, CycleStep, Body

\* So does each step of a process, the operator or time.
LEMMA TypeStep == TypeOK /\ [Next]_vars => TypeOK'
<1> SUFFICES ASSUME TypeOK, [Next]_vars PROVE TypeOK'
  OBVIOUS
<1>1. ASSUME NEW w \in Workers, Begin(w) \/ Continue(w) \/ Body(w) PROVE TypeOK'
  BY <1>1, TypeCycle
<1>2. ASSUME NEW p \in Procs, Start(p) \/ Exit(p) PROVE TypeOK'
  BY <1>2 DEF TypeOK, Start, Exit, store, local
<1>3. ASSUME NEW p \in Procs, Crash(p) PROVE TypeOK'
  <2>1. crashes' \in 0..MaxCrashes
    BY <1>3, LaneWorkerAssumption DEF TypeOK, Crash
  <2>2. pc' \in [Workers -> Steps] /\ fin' \in [Workers -> {"completed", "failed"}]
    BY <1>3 DEF TypeOK, Crash, Steps
  <2>3. /\ found' \in [Workers -> SUBSET Lanes] /\ avail' \in [Workers -> Nat]
        /\ due' \in [Workers -> BOOLEAN]
    BY <1>3 DEF TypeOK, Crash
  <2> QED
    BY <1>3, <2>1, <2>2, <2>3 DEF TypeOK, Crash, store
<1>4. ASSUME NEW p \in Procs, Suspend(p) \/ Resume(p) PROVE TypeOK'
  BY <1>4 DEF TypeOK, Suspend, Resume, store, local
<1>5. ASSUME NEW l \in Lanes, Repair(l) PROVE TypeOK'
  <2>1. RepairedTask \in TaskRow
    BY <1>5, TaskRows DEF RepairedTask, TaskStatus, TypeOK
  <2> QED
    BY <1>5, <2>1 DEF TypeOK, Repair, world, local
<1>6. CASE Minute
  <2>1. tasks' \in [Lanes -> TaskRow]
    BY <1>6, TaskTick DEF TypeOK, Minute
  <2>2. ASSUME NEW l \in Lanes PROVE LeaseAfterTick(leases[l]) \in LeaseRow
    BY DEF TypeOK, LeaseAfterTick, LeaseRow
  <2>3. ASSUME NEW l \in Lanes PROVE ResultAfterTick(results[l]) \in ResultRow
    BY DEF TypeOK, ResultAfterTick, ResultRow
  <2>4. beat' \in [Procs -> 0..StaleAfter]
    BY <1>6, StateStoreAssumption DEF TypeOK, Minute, Min2
  <2>5. due' \in [Workers -> BOOLEAN]
    BY <1>6 DEF Minute
  <2> QED
    BY <1>6, <2>1, <2>2, <2>3, <2>4, <2>5 DEF TypeOK, Minute, world
<1>7. CASE UNCHANGED vars
  BY <1>7 DEF TypeOK, vars, store, world, local
<1> QED
  BY <1>1, <1>2, <1>3, <1>4, <1>5, <1>6, <1>7 DEF Next

\* Every reachable state is well typed: no interleaving, crash or suspension
\* leaves a row, or a worker, in a status or step the code has no answer for.
THEOREM TypeCorrect == Spec => []TypeOK
<1>1. Init => TypeOK
  BY StateStoreAssumption, LaneWorkerAssumption
  DEF Init, TypeOK, NoTask, TaskRow, TaskStatus, NoLease, LeaseRow, NoResult, ResultRow,
      ResultStatus, Steps
<1> QED
  BY <1>1, TypeStep, PTL DEF Spec

----------------------------------------------------------------------------
(* The inductive invariant.  HolderOwnsLease needs that a renewal under way *)
(* has the whole lease ahead.  The contract needs more: a cycle that found a *)
(* stale claim still means that claim when it marks it, because whoever     *)
(* could have replaced it read the row earlier in the same minute, and in   *)
(* that minute the row was young.                                           *)

\* Steps from the read of the row to the claim's fate.
Early == {"backoff", "enqueue", "claim", "acquire", "refused"}

\* Steps at which a worker has no business with its lane's row.
AtRest == {"idle", "mark", "marked", "read", "refused_report"}

\* Only a queued row waits, and only a claim ages.
RowShape ==
  \A l \in Lanes :
    /\ tasks[l].wait > 0 => tasks[l].status = "queued"
    /\ tasks[l].age > 0 => tasks[l].status = "claimed"

\* HolderOwnsLease, and a renewed lease is whole until the claim is touched.
LeaseIsOwned ==
  \A w \in Workers : pc[w] \in Holding =>
    /\ leases[w[2]].owner = w[1]
    /\ leases[w[2]].left >= LeaseTTL - 1
    /\ pc[w] = "touch" \/ (pc[w] = "run" /\ ~due[w]) => leases[w[2]].left >= LeaseTTL

\* From the read of a row to the claim's fate the row is young and in service.
EarlyRow ==
  \A w \in Workers : pc[w] \in Early =>
    tasks[w[2]].status # "reconciliation_needed" /\ tasks[w[2]].age = 0

\* So it is while the lane's body runs or winds down.
HeldRow ==
  \A w \in Workers : pc[w] \in Holding => tasks[w[2]].status # "reconciliation_needed"

\* What a recovery found is still stale or has been marked by another one, and
\* nobody is about to change the row.
FoundRow ==
  \A w \in Workers, l \in Lanes : l \in found[w] =>
    /\ pc[w] \in {"mark", "marked"}
    /\ StaleClaim(tasks[l]) \/ tasks[l].status = "reconciliation_needed"
    /\ \A v \in Workers : v[2] = l => pc[v] \in AtRest

IInv ==
  TypeOK /\ asleep = {} /\ RowShape /\ LeaseIsOwned /\ EarlyRow /\ HeldRow /\ FoundRow

\* The lease of a worker that holds it keeps every other worker out.
LEMMA HolderExcludes ==
  ASSUME IInv, NEW w \in Workers, pc[w] \in Holding
  PROVE  /\ LeaseHeld(leases[w[2]])
         /\ \A v \in Workers : v[2] = w[2] /\ pc[v] \in Holding => v = w
<1>1. /\ leases[w[2]].owner = w[1] /\ leases[w[2]].left \in Nat
      /\ leases[w[2]].left >= LeaseTTL - 1
  BY WorkerParts DEF IInv, LeaseIsOwned, TypeOK, LeaseRow
<1>2. LeaseHeld(leases[w[2]])
  BY <1>1, WorkerParts, StateStoreAssumption, LaneWorkerAssumption DEF LeaseHeld
<1>3. ASSUME NEW v \in Workers, v[2] = w[2], pc[v] \in Holding PROVE v = w
  BY <1>1, <1>3, WorkerParts DEF IInv, LeaseIsOwned
<1> QED
  BY <1>2, <1>3

\* A recovery found nothing in a lane where a worker is past its first read.
LEMMA BusyIsNotFound ==
  ASSUME IInv, NEW w \in Workers, pc[w] \notin AtRest, NEW u \in Workers
  PROVE  w[2] \notin found[u]
BY WorkerParts DEF IInv, FoundRow

\* One worker goes to step and writes at most the row and the lease of its
\* lane, in a way that keeps the invariant.
Moves(w, step, row, lrow) ==
  /\ pc' = [pc EXCEPT ![w] = step]
  /\ tasks' = [tasks EXCEPT ![w[2]] = row]
  /\ leases' = [leases EXCEPT ![w[2]] = lrow]
  /\ UNCHANGED <<asleep, found>>
  /\ \A v \in Workers : v # w => due'[v] = due[v]
  /\ \/ row = tasks[w[2]]
     \/ /\ row.status # "reconciliation_needed" /\ row.age = 0
        /\ row.wait > 0 => row.status = "queued"
  /\ \/ \A u \in Workers : w[2] \notin found[u]
     \/ row = tasks[w[2]] /\ step \in AtRest
  /\ lrow = leases[w[2]] \/ pc[w] \in Holding \/ ~LeaseHeld(leases[w[2]])
  /\ step \in Holding => lrow.owner = w[1] /\ lrow.left >= LeaseTTL - 1
  /\ step = "touch" \/ (step = "run" /\ ~due'[w]) => lrow.left >= LeaseTTL
  /\ step \in Early \cup Holding => row.status # "reconciliation_needed"
  /\ step \in Early => row.age = 0
  /\ found[w] # {} => step \in {"mark", "marked"}

\* Such a step keeps the invariant.
LEMMA Move ==
  ASSUME IInv, TypeOK', NEW w \in Workers, NEW step \in Steps,
         NEW row \in TaskRow, NEW lrow \in LeaseRow, Moves(w, step, row, lrow)
  PROVE  IInv'
<1> USE DEF Moves
<1>0. w[2] \in Lanes
  BY WorkerParts
<1>1. \A v \in Workers : pc'[v] = IF v = w THEN step ELSE pc[v]
  BY DEF IInv, TypeOK
<1>2. \A l \in Lanes : tasks'[l] = IF l = w[2] THEN row ELSE tasks[l]
  BY DEF IInv, TypeOK
<1>3. \A l \in Lanes : leases'[l] = IF l = w[2] THEN lrow ELSE leases[l]
  BY DEF IInv, TypeOK
<1>4. RowShape'
  BY <1>0, <1>2 DEF IInv, RowShape
<1>5. LeaseIsOwned'
  <2> SUFFICES ASSUME NEW v \in Workers, pc'[v] \in Holding
               PROVE  /\ leases'[v[2]].owner = v[1]
                      /\ leases'[v[2]].left >= LeaseTTL - 1
                      /\ pc'[v] = "touch" \/ (pc'[v] = "run" /\ ~due'[v])
                           => leases'[v[2]].left >= LeaseTTL
    BY DEF LeaseIsOwned
  <2>0. v[2] \in Lanes
    BY WorkerParts
  <2>1. CASE v = w
    BY <1>0, <1>1, <1>3, <2>1
  <2>2. CASE v # w
    <3>1. pc[v] \in Holding /\ pc'[v] = pc[v] /\ due'[v] = due[v]
      BY <1>1, <2>2
    <3>2. leases'[v[2]] = leases[v[2]]
      BY <1>3, <2>0, <2>2, <3>1, HolderExcludes
    <3> QED
      BY <3>1, <3>2 DEF IInv, LeaseIsOwned
  <2> QED
    BY <2>1, <2>2
<1>6. EarlyRow'
  <2> SUFFICES ASSUME NEW v \in Workers, pc'[v] \in Early
               PROVE  tasks'[v[2]].status # "reconciliation_needed" /\ tasks'[v[2]].age = 0
    BY DEF EarlyRow
  <2>1. v[2] \in Lanes
    BY WorkerParts
  <2> QED
    BY <1>1, <1>2, <2>1 DEF IInv, EarlyRow
<1>7. HeldRow'
  <2> SUFFICES ASSUME NEW v \in Workers, pc'[v] \in Holding
               PROVE  tasks'[v[2]].status # "reconciliation_needed"
    BY DEF HeldRow
  <2>1. v[2] \in Lanes
    BY WorkerParts
  <2> QED
    BY <1>1, <1>2, <2>1 DEF IInv, HeldRow
<1>8. FoundRow'
  <2> SUFFICES ASSUME NEW u \in Workers, NEW l \in Lanes, l \in found[u]
               PROVE  /\ pc'[u] \in {"mark", "marked"}
                      /\ StaleClaim(tasks'[l]) \/ tasks'[l].status = "reconciliation_needed"
                      /\ \A v \in Workers : v[2] = l => pc'[v] \in AtRest
    BY DEF FoundRow, StaleClaim
  <2>1. /\ pc[u] \in {"mark", "marked"}
        /\ StaleClaim(tasks[l]) \/ tasks[l].status = "reconciliation_needed"
        /\ \A v \in Workers : v[2] = l => pc[v] \in AtRest
    BY DEF IInv, FoundRow
  <2>2. pc'[u] \in {"mark", "marked"}
    BY <1>1, <2>1
  <2>3. tasks'[l] = tasks[l]
    BY <1>2
  <2>4. \A v \in Workers : v[2] = l => pc'[v] \in AtRest
    BY <1>1, <2>1
  <2> QED
    BY <2>1, <2>2, <2>3, <2>4
<1> QED
  BY <1>4, <1>5, <1>6, <1>7, <1>8 DEF IInv

\* Steps that write neither row nor lease.
LEMMA MoveOnly ==
  ASSUME IInv, TypeOK', NEW w \in Workers, NEW step \in Steps,
         pc' = [pc EXCEPT ![w] = step],
         UNCHANGED <<tasks, leases, asleep, found>>,
         \A v \in Workers : v # w => due'[v] = due[v],
         step \in AtRest \/ \A u \in Workers : w[2] \notin found[u],
         step \in Holding => pc[w] \in Holding,
         (step = "touch" \/ (step = "run" /\ ~due'[w])) => leases[w[2]].left >= LeaseTTL,
         step \in Early => /\ tasks[w[2]].status # "reconciliation_needed"
                          /\ tasks[w[2]].age = 0,
         found[w] # {} => step \in {"mark", "marked"}
  PROVE  IInv'
<1>0. w[2] \in Lanes
  BY WorkerParts
<1>1. tasks[w[2]] \in TaskRow /\ leases[w[2]] \in LeaseRow
  BY <1>0 DEF IInv, TypeOK
<1>2. /\ tasks' = [tasks EXCEPT ![w[2]] = tasks[w[2]]]
      /\ leases' = [leases EXCEPT ![w[2]] = leases[w[2]]]
  BY <1>0 DEF IInv, TypeOK
<1>3. step \in Holding => leases[w[2]].owner = w[1] /\ leases[w[2]].left >= LeaseTTL - 1
  BY DEF IInv, LeaseIsOwned
<1>4. step \in Early \cup Holding => tasks[w[2]].status # "reconciliation_needed"
  BY DEF IInv, HeldRow
<1>m. Moves(w, step, tasks[w[2]], leases[w[2]])
  BY <1>1, <1>2, <1>3, <1>4 DEF Moves
<1> QED
  BY <1>1, <1>m, Move

\* Steps that write the task row but not the lease.
LEMMA MoveRow ==
  ASSUME IInv, TypeOK', NEW w \in Workers, NEW step \in Steps, NEW row \in TaskRow,
         pc' = [pc EXCEPT ![w] = step],
         tasks' = [tasks EXCEPT ![w[2]] = row],
         UNCHANGED <<leases, asleep, found>>,
         \A v \in Workers : v # w => due'[v] = due[v],
         row.status # "reconciliation_needed" /\ row.age = 0,
         row.wait > 0 => row.status = "queued",
         pc[w] \notin AtRest,
         step \in Holding => pc[w] \in Holding,
         (step = "touch" \/ (step = "run" /\ ~due'[w])) => leases[w[2]].left >= LeaseTTL
  PROVE  IInv'
<1>0. w[2] \in Lanes
  BY WorkerParts
<1>1. leases[w[2]] \in LeaseRow /\ leases' = [leases EXCEPT ![w[2]] = leases[w[2]]]
  BY <1>0 DEF IInv, TypeOK
<1>2. step \in Holding => leases[w[2]].owner = w[1] /\ leases[w[2]].left >= LeaseTTL - 1
  BY DEF IInv, LeaseIsOwned
<1>3. \A u \in Workers : w[2] \notin found[u]
  BY BusyIsNotFound
<1>4. found[w] = {}
  <2>1. \A l \in Lanes : l \notin found[w]
    BY DEF IInv, FoundRow, AtRest
  <2> QED
    BY <2>1 DEF IInv, TypeOK
<1>5. UNCHANGED <<asleep, found>>
  OBVIOUS
<1>m. Moves(w, step, row, leases[w[2]])
  BY <1>1, <1>2, <1>3, <1>4, <1>5 DEF Moves
<1> QED
  BY <1>1, <1>m, Move

\* Steps that write the lease but not the task row.
LEMMA MoveLease ==
  ASSUME IInv, TypeOK', NEW w \in Workers, NEW step \in Steps, NEW lrow \in LeaseRow,
         pc' = [pc EXCEPT ![w] = step],
         leases' = [leases EXCEPT ![w[2]] = lrow],
         UNCHANGED <<tasks, asleep, found>>,
         \A v \in Workers : v # w => due'[v] = due[v],
         pc[w] \notin AtRest,
         pc[w] \in Holding \/ ~LeaseHeld(leases[w[2]]),
         step \in Holding =>
           /\ lrow.owner = w[1] /\ lrow.left >= LeaseTTL
           /\ tasks[w[2]].status # "reconciliation_needed",
         step \notin Early
  PROVE  IInv'
<1>0. w[2] \in Lanes
  BY WorkerParts
<1>1. tasks[w[2]] \in TaskRow /\ tasks' = [tasks EXCEPT ![w[2]] = tasks[w[2]]]
  BY <1>0 DEF IInv, TypeOK
<1>2. step \in Holding => lrow.owner = w[1] /\ lrow.left >= LeaseTTL - 1
  BY LaneWorkerAssumption DEF LeaseRow
<1>3. \A u \in Workers : w[2] \notin found[u]
  BY BusyIsNotFound
<1>4. found[w] = {}
  <2>1. \A l \in Lanes : l \notin found[w]
    BY DEF IInv, FoundRow, AtRest
  <2> QED
    BY <2>1 DEF IInv, TypeOK
<1>5. UNCHANGED <<asleep, found>>
  OBVIOUS
<1>m. Moves(w, step, tasks[w[2]], lrow)
  BY <1>1, <1>2, <1>3, <1>4, <1>5 DEF Moves, Holding, Running
<1> QED
  BY <1>1, <1>m, Move

\* Steps of a cycle up to its claim.
LEMMA ClaimingStep ==
  ASSUME IInv, NEW w \in Workers,
         BeginCycle(w) \/ (\E l \in Lanes : MarkStale(w, l)) \/ AfterMarking(w)
           \/ ReadTask(w) \/ ReadBackoff(w) \/ Enqueue(w) \/ Claim(w),
         TypeOK'
  PROVE  IInv'
<1>0. w[2] \in Lanes /\ tasks[w[2]] \in TaskRow
  BY WorkerParts DEF IInv, TypeOK
<1>n. pc[w] \notin {"mark", "marked"} => found[w] = {}
  <2>1. pc[w] \notin {"mark", "marked"} => \A l \in Lanes : l \notin found[w]
    BY DEF IInv, FoundRow
  <2> QED
    BY <2>1 DEF IInv, TypeOK
<1>1. CASE BeginCycle(w)
  <2>1. /\ UNCHANGED <<tasks, leases, asleep, due>> /\ pc[w] = "idle"
        /\ found' = [found EXCEPT ![w] = Recoverables]
    BY <1>1 DEF BeginCycle, store, world
  <2>2. \A v \in Workers : pc'[v] = IF v = w THEN IF Recoverables = {} THEN "read" ELSE "mark"
                                   ELSE pc[v]
    BY <1>1 DEF BeginCycle, Goto, IInv, TypeOK
  <2>3. \A u \in Workers : found'[u] = IF u = w THEN Recoverables ELSE found[u]
    BY <2>1 DEF IInv, TypeOK
  <2>4. RowShape'
    BY <2>1 DEF IInv, RowShape
  <2>5. LeaseIsOwned' /\ EarlyRow' /\ HeldRow'
    BY <2>1, <2>2 DEF IInv, LeaseIsOwned, EarlyRow, HeldRow, Early, Holding, Running
  <2>6. FoundRow'
    <3> SUFFICES ASSUME NEW u \in Workers, NEW l \in Lanes, l \in found'[u]
                 PROVE  /\ pc'[u] \in {"mark", "marked"}
                        /\ StaleClaim(tasks[l]) \/ tasks[l].status = "reconciliation_needed"
                        /\ \A v \in Workers : v[2] = l => pc'[v] \in AtRest
      BY <2>1 DEF FoundRow, StaleClaim
    <3>1. CASE u = w
      <4>1. /\ pc'[u] = "mark" /\ StaleClaim(tasks[l])
            /\ ClaimRecoverable(leases[l], OwnerIsFresh(leases[l]))
        BY <2>2, <2>3, <3>1 DEF Recoverables
      <4>2. tasks[l].age > 0
        BY <4>1, StateStoreAssumption DEF StaleClaim, IInv, TypeOK, TaskRow
      <4>3. ASSUME NEW v \in Workers, v[2] = l PROVE pc[v] \in AtRest
        <5>1. pc[v] \notin Early
          BY <4>2, <4>3 DEF IInv, EarlyRow
        <5>2. ~LeaseHeld(leases[l]) \/ leases[l].owner = NoProc
          BY <4>1 DEF ClaimRecoverable
        <5>3. pc[v] \notin Holding
          BY <4>3, <5>2, HolderExcludes DEF LeaseHeld
        <5>4. pc[v] \in Steps
          BY DEF IInv, TypeOK
        <5> QED
          BY <5>1, <5>3, <5>4 DEF Steps, Early, Holding, Running, AtRest
      <4>4. \A v \in Workers : v[2] = l => pc'[v] \in AtRest
        BY <2>2, <4>3 DEF AtRest
      <4> QED
        BY <4>1, <4>4
    <3>2. CASE u # w
      <4>1. /\ pc[u] \in {"mark", "marked"}
            /\ StaleClaim(tasks[l]) \/ tasks[l].status = "reconciliation_needed"
            /\ \A v \in Workers : v[2] = l => pc[v] \in AtRest
        BY <2>3, <3>2 DEF IInv, FoundRow
      <4> QED
        BY <2>2, <3>2, <4>1 DEF AtRest
    <3> QED
      BY <3>1, <3>2
  <2> QED
    BY <2>1, <2>4, <2>5, <2>6 DEF IInv
<1>2. ASSUME NEW l \in Lanes, MarkStale(w, l) PROVE IInv'
  <2>0. /\ UNCHANGED <<leases, asleep, due>> /\ pc[w] \in {"mark", "marked"} /\ l \in found[w]
        /\ found' = [found EXCEPT ![w] = @ \ {l}]
    BY <1>2 DEF MarkStale, world
  <2>1. \A u \in Workers : found'[u] \subseteq found[u]
    BY <2>0 DEF IInv, TypeOK
  <2>2. \A v \in Workers : v[2] = l => pc[v] \in AtRest
    BY <2>0 DEF IInv, FoundRow
  <2>3. \A v \in Workers : pc'[v] = pc[v] \/ (v = w /\ pc'[v] = "marked")
    BY <1>2 DEF MarkStale, Goto, IInv, TypeOK
  <2>4. /\ \A k \in Lanes : k # l => tasks'[k] = tasks[k]
        /\ \/ tasks'[l] = tasks[l]
           \/ TaskClaimed(tasks[l]) /\ tasks'[l] = ReconciliationNeededTask(tasks[l])
    BY <1>2 DEF MarkStale, IInv, TypeOK
  <2>5. /\ ReconciliationNeededTask(tasks[l]).status = "reconciliation_needed"
        /\ ReconciliationNeededTask(tasks[l]).age = 0
        /\ ReconciliationNeededTask(tasks[l]).wait = tasks[l].wait
    BY TaskRows DEF IInv, TypeOK, TaskStatus
  <2>6. RowShape'
    <3>1. RowShape /\ \A k \in Lanes : tasks[k].wait \in Nat
      BY DEF IInv, TypeOK, TaskRow
    <3> QED
      BY <2>4, <2>5, <3>1 DEF RowShape, TaskClaimed
  <2>7. LeaseIsOwned'
    BY <2>0, <2>3 DEF IInv, LeaseIsOwned, Holding, Running
  <2>8. EarlyRow' /\ HeldRow'
    <3> SUFFICES ASSUME NEW v \in Workers, pc'[v] \in Early \cup Holding
                 PROVE  pc'[v] = pc[v] /\ tasks'[v[2]] = tasks[v[2]]
      BY DEF IInv, EarlyRow, HeldRow
    <3>1. pc'[v] = pc[v] /\ v[2] \in Lanes
      BY <2>3, WorkerParts DEF Early, Holding, Running
    <3>2. v[2] # l
      BY <2>2, <3>1 DEF Early, Holding, Running, AtRest
    <3> QED
      BY <2>4, <3>1, <3>2
  <2>9. FoundRow'
    <3> SUFFICES ASSUME NEW u \in Workers, NEW k \in Lanes, k \in found'[u]
                 PROVE  /\ pc'[u] \in {"mark", "marked"}
                        /\ StaleClaim(tasks'[k]) \/ tasks'[k].status = "reconciliation_needed"
                        /\ \A v \in Workers : v[2] = k => pc'[v] \in AtRest
      BY DEF FoundRow, StaleClaim
    <3>1. /\ pc[u] \in {"mark", "marked"}
          /\ StaleClaim(tasks[k]) \/ tasks[k].status = "reconciliation_needed"
          /\ \A v \in Workers : v[2] = k => pc[v] \in AtRest
      BY <2>1 DEF IInv, FoundRow
    <3>2. StaleClaim(tasks'[k]) \/ tasks'[k].status = "reconciliation_needed"
      BY <2>4, <2>5, <3>1
    <3> QED
      BY <2>3, <3>1, <3>2 DEF AtRest
  <2> QED
    BY <2>0, <2>6, <2>7, <2>8, <2>9 DEF IInv
<1>3. CASE AfterMarking(w)
  <2>1. /\ UNCHANGED <<tasks, leases, asleep, found, due>> /\ found[w] = {}
        /\ \E step \in {"read", "idle"} : pc' = [pc EXCEPT ![w] = step]
    BY <1>3 DEF AfterMarking, Return, Goto, store, world
  <2> QED
    BY <2>1, MoveOnly DEF Steps, AtRest, Holding, Running, Early
<1>4. CASE ReadTask(w)
  <2>1. /\ UNCHANGED <<tasks, leases, asleep, found, due>> /\ pc[w] = "read"
    BY <1>4 DEF ReadTask, Return, store, world
  <2>2. CASE LeaveAlone(tasks[w[2]].status)
    <3>1. pc' = [pc EXCEPT ![w] = "idle"]
      BY <1>4, <2>2 DEF ReadTask, Return, Goto
    <3> QED
      BY <1>n, <2>1, <3>1, MoveOnly DEF Steps, AtRest, Holding, Running, Early
  <2>3. CASE ~LeaveAlone(tasks[w[2]].status)
    <3>1. PICK step \in {"enqueue", "backoff"} : pc' = [pc EXCEPT ![w] = step]
      BY <1>4, <2>3 DEF ReadTask, Goto
    <3>2. tasks[w[2]].status \notin {"claimed", "reconciliation_needed"}
      BY <2>3 DEF LeaveAlone
    <3>3. tasks[w[2]].age = 0
      BY <1>0, <3>2, StateStoreAssumption DEF IInv, RowShape, TaskRow
    <3>4. \A u \in Workers : w[2] \notin found[u]
      BY <1>0, <3>2 DEF IInv, FoundRow, StaleClaim
    <3> QED
      BY <1>n, <2>1, <3>1, <3>2, <3>3, <3>4, MoveOnly DEF Steps, Holding, Running, Early
  <2> QED
    BY <2>2, <2>3
<1>5. CASE ReadBackoff(w)
  <2>1. /\ UNCHANGED <<tasks, leases, asleep, found, due>> /\ pc[w] = "backoff"
        /\ pc' = [pc EXCEPT ![w] = "enqueue"]
    BY <1>5 DEF ReadBackoff, Goto, store, world
  <2>2. \A u \in Workers : w[2] \notin found[u]
    BY <2>1, BusyIsNotFound DEF AtRest
  <2>3. tasks[w[2]].status # "reconciliation_needed" /\ tasks[w[2]].age = 0
    BY <2>1 DEF IInv, EarlyRow, Early
  <2> QED
    BY <1>n, <2>1, <2>2, <2>3, MoveOnly DEF Steps, Holding, Running, Early
<1>6. CASE Enqueue(w)
  <2>1. /\ UNCHANGED <<leases, asleep, found, due>> /\ pc[w] = "enqueue"
        /\ pc' = [pc EXCEPT ![w] = "claim"]
        /\ tasks' = [tasks EXCEPT ![w[2]] = QueuedTask(avail[w])]
    BY <1>6 DEF Enqueue, Goto, world
  <2>2. /\ QueuedTask(avail[w]) \in TaskRow /\ QueuedTask(avail[w]).status = "queued"
        /\ QueuedTask(avail[w]).age = 0
    <3>1. tasks[w[2]] \in TaskRow /\ avail[w] \in Nat /\ "queued" \in TaskStatus
      BY <1>0 DEF IInv, TypeOK, TaskStatus
    <3> QED
      BY <3>1, TaskRows
  <2> QED
    BY <2>1, <2>2, MoveRow DEF Steps, AtRest, Holding, Running
<1>7. CASE Claim(w)
  <2>1. UNCHANGED <<leases, asleep, found, due>> /\ pc[w] = "claim"
    BY <1>7 DEF Claim, Return, world
  <2>2. CASE TaskClaimable(tasks[w[2]])
    <3>1. /\ pc' = [pc EXCEPT ![w] = "acquire"]
          /\ tasks' = [tasks EXCEPT ![w[2]] = ClaimedTask(tasks[w[2]])]
      BY <1>7, <2>2 DEF Claim, Goto
    <3>2. /\ ClaimedTask(tasks[w[2]]) \in TaskRow
          /\ ClaimedTask(tasks[w[2]]).status = "claimed"
          /\ ~(ClaimedTask(tasks[w[2]]).wait > 0) /\ ClaimedTask(tasks[w[2]]).age = 0
      BY <1>0, <2>2, TaskRows DEF TaskClaimable, TaskStatus
    <3>3. "acquire" \in Steps /\ "acquire" \notin Holding /\ pc[w] \notin AtRest
      BY <2>1 DEF Steps, AtRest, Holding, Running
    <3> QED
      BY <2>1, <3>1, <3>2, <3>3, MoveRow
  <2>3. CASE ~TaskClaimable(tasks[w[2]])
    <3>1. pc' = [pc EXCEPT ![w] = "idle"] /\ UNCHANGED tasks
      BY <1>7, <2>3 DEF Claim, Return, Goto
    <3> QED
      BY <1>n, <2>1, <3>1, MoveOnly DEF Steps, AtRest, Holding, Running, Early
  <2> QED
    BY <2>2, <2>3
<1> QED
  BY <1>1, <1>2, <1>3, <1>4, <1>5, <1>6, <1>7

\* Steps of a cycle from its claim to its end.
LEMMA ClaimedStep ==
  ASSUME IInv, NEW w \in Workers,
         Acquire(w) \/ AcquireRefused(w) \/ Renew(w) \/ Touch(w)
           \/ (\E outcome \in {"completed", "failed"} : BodyReturns(w, outcome))
           \/ Complete(w) \/ Report(w) \/ Release(w),
         TypeOK'
  PROVE  IInv'
<1>0. /\ w[2] \in Lanes /\ w[1] \in Procs /\ tasks[w[2]] \in TaskRow
      /\ leases[w[2]] \in LeaseRow /\ LeaseTTL >= LeaseTTL
  BY WorkerParts, LaneWorkerAssumption DEF IInv, TypeOK
<1>1. pc[w] \notin {"mark", "marked"} => found[w] = {}
  <2>1. pc[w] \notin {"mark", "marked"} => \A l \in Lanes : l \notin found[w]
    BY DEF IInv, FoundRow
  <2> QED
    BY <2>1 DEF IInv, TypeOK
<1>2. pc[w] \notin AtRest => \A u \in Workers : w[2] \notin found[u]
  BY BusyIsNotFound
<1>3. CASE Acquire(w)
  <2>1. /\ UNCHANGED <<tasks, asleep, found, due>> /\ pc[w] = "acquire"
        /\ pc' = [pc EXCEPT ![w] = "run"]
        /\ leases' = [leases EXCEPT ![w[2]] = AcquiredLease(w[1], LeaseTTL)]
        /\ ~LeaseHeld(leases[w[2]])
    BY <1>3 DEF Acquire, Goto, world
  <2>2. /\ AcquiredLease(w[1], LeaseTTL) \in LeaseRow
        /\ AcquiredLease(w[1], LeaseTTL).owner = w[1]
        /\ AcquiredLease(w[1], LeaseTTL).left >= LeaseTTL
    BY <1>0, LaneWorkerAssumption, LeaseRows
  <2>3. tasks[w[2]].status # "reconciliation_needed"
    BY <2>1 DEF IInv, EarlyRow, Early
  <2>4. pc[w] \notin AtRest /\ "run" \in Steps /\ "run" \notin Early
    BY <2>1 DEF AtRest, Steps, Early
  <2> QED
    BY <2>1, <2>2, <2>3, <2>4, MoveLease
<1>4. CASE AcquireRefused(w)
  <2>1. /\ UNCHANGED <<tasks, leases, asleep, found, due>> /\ pc[w] = "acquire"
        /\ pc' = [pc EXCEPT ![w] = "refused"]
    BY <1>4 DEF AcquireRefused, Goto, store, world
  <2>2. tasks[w[2]].status # "reconciliation_needed" /\ tasks[w[2]].age = 0
    BY <2>1 DEF IInv, EarlyRow, Early
  <2> QED
    BY <1>1, <1>2, <2>1, <2>2, MoveOnly DEF Steps, AtRest, Holding, Running
<1>5. CASE Renew(w)
  <2>1. /\ UNCHANGED <<tasks, asleep, found>> /\ pc[w] = "run"
        /\ due' = [due EXCEPT ![w] = FALSE]
    BY <1>5 DEF Renew, world
  <2>2. \A v \in Workers : v # w => due'[v] = due[v]
    BY <2>1 DEF IInv, TypeOK
  <2>3. /\ leases[w[2]].owner = w[1] /\ pc[w] \in Holding /\ pc[w] \notin AtRest
        /\ tasks[w[2]].status # "reconciliation_needed"
    BY <2>1 DEF IInv, LeaseIsOwned, HeldRow, Holding, Running, AtRest
  <2>4. LeaseRenewable(leases[w[2]])
    BY <1>0, <2>3, StateStoreAssumption DEF LeaseRenewable
  <2>5. /\ pc' = [pc EXCEPT ![w] = "touch"]
        /\ leases' = [leases EXCEPT ![w[2]] = RenewedLease(leases[w[2]], LeaseTTL)]
    BY <1>5, <2>4 DEF Renew, Goto
  <2>6. /\ RenewedLease(leases[w[2]], LeaseTTL) \in LeaseRow
        /\ RenewedLease(leases[w[2]], LeaseTTL).owner = w[1]
        /\ RenewedLease(leases[w[2]], LeaseTTL).left >= LeaseTTL
    <3>1. leases[w[2]] \in LeaseRow /\ w[1] \in Procs /\ LeaseTTL \in Nat
      BY <1>0, LaneWorkerAssumption DEF IInv, TypeOK
    <3>2. /\ RenewedLease(leases[w[2]], LeaseTTL) \in LeaseRow
          /\ RenewedLease(leases[w[2]], LeaseTTL).owner = leases[w[2]].owner
          /\ RenewedLease(leases[w[2]], LeaseTTL).left = LeaseTTL
      BY <3>1, LeaseRows
    <3> QED
      BY <2>3, <3>1, <3>2
  <2>7. "touch" \in Steps /\ "touch" \notin Early
    BY DEF Steps, Early
  <2> QED
    BY <2>1, <2>2, <2>3, <2>5, <2>6, <2>7, MoveLease
<1>6. CASE Touch(w)
  <2>1. UNCHANGED <<leases, asleep, found, due>> /\ pc[w] = "touch"
    BY <1>6 DEF Touch, world
  <2>2. /\ pc[w] \in Holding /\ pc[w] \notin AtRest
        /\ tasks[w[2]].status # "reconciliation_needed"
        /\ leases[w[2]].left >= LeaseTTL
    BY <2>1 DEF IInv, LeaseIsOwned, HeldRow, Holding, Running, AtRest
  <2>3. CASE TaskClaimed(tasks[w[2]])
    <3>1. /\ pc' = [pc EXCEPT ![w] = "run"]
          /\ tasks' = [tasks EXCEPT ![w[2]] = TouchedTask(tasks[w[2]])]
      BY <1>6, <2>3 DEF Touch, Goto
    <3>2. /\ TouchedTask(tasks[w[2]]) \in TaskRow
          /\ TouchedTask(tasks[w[2]]).status = "claimed"
          /\ TouchedTask(tasks[w[2]]).wait = tasks[w[2]].wait
          /\ TouchedTask(tasks[w[2]]).age = 0
      BY <1>0, <2>3, TaskRows DEF TaskClaimed, TaskStatus
    <3>3. ~(tasks[w[2]].wait > 0)
      BY <1>0, <2>3 DEF IInv, RowShape, TaskClaimed
    <3>4. "run" \in Steps
      BY DEF Steps
    <3> QED
      BY <2>1, <2>2, <3>1, <3>2, <3>3, <3>4, MoveRow
  <2>4. CASE ~TaskClaimed(tasks[w[2]])
    <3>1. pc' = [pc EXCEPT ![w] = "cancelling"] /\ UNCHANGED tasks
      BY <1>6, <2>4 DEF Touch, Goto
    <3> QED
      BY <1>1, <1>2, <2>1, <2>2, <3>1, MoveOnly DEF Steps, Early
  <2> QED
    BY <2>3, <2>4
<1>7. ASSUME NEW outcome \in {"completed", "failed"}, BodyReturns(w, outcome) PROVE IInv'
  <2>1. /\ UNCHANGED <<tasks, leases, asleep, found>> /\ pc[w] \in {"run", "cancelling"}
        /\ pc' = [pc EXCEPT ![w] = "finish"]
        /\ due' = [due EXCEPT ![w] = FALSE]
    BY <1>7 DEF BodyReturns, Goto, store, world
  <2>2. \A v \in Workers : v # w => due'[v] = due[v]
    BY <2>1 DEF IInv, TypeOK
  <2>3. pc[w] \in Holding /\ pc[w] \notin AtRest /\ pc[w] \notin {"mark", "marked"}
    BY <2>1 DEF Holding, Running, AtRest
  <2> QED
    BY <1>1, <1>2, <2>1, <2>2, <2>3, MoveOnly DEF Steps, Early
<1>8. CASE Complete(w)
  <2>1. UNCHANGED <<leases, asleep, found, due>> /\ pc[w] \in {"finish", "refused"}
    BY <1>8 DEF Complete, world
  <2>2. PICK step \in {"report", "refused_report"} :
          /\ pc' = [pc EXCEPT ![w] = step]
          /\ step \in Holding => pc[w] \in Holding
    BY <1>8 DEF Complete, Goto, Holding, Running
  <2>3. /\ step \in Steps /\ step \notin Early /\ step # "touch" /\ step # "run"
        /\ pc[w] \notin AtRest /\ pc[w] \notin {"mark", "marked"}
    BY <2>1 DEF Steps, Early, AtRest
  <2>4. CASE TaskClaimed(tasks[w[2]])
    <3>1. /\ tasks' = [tasks EXCEPT ![w[2]] = CompletedTask(tasks[w[2]], fin[w])]
          /\ fin[w] \in {"completed", "failed"}
      BY <1>8, <2>4 DEF Complete, IInv, TypeOK
    <3>2. /\ CompletedTask(tasks[w[2]], fin[w]) \in TaskRow
          /\ CompletedTask(tasks[w[2]], fin[w]).status = fin[w]
          /\ CompletedTask(tasks[w[2]], fin[w]).wait = tasks[w[2]].wait
          /\ CompletedTask(tasks[w[2]], fin[w]).age = 0
      BY <1>0, <3>1, TaskRows DEF TaskStatus
    <3>3. ~(tasks[w[2]].wait > 0)
      BY <1>0, <2>4 DEF IInv, RowShape, TaskClaimed
    <3> QED
      BY <2>1, <2>2, <2>3, <3>1, <3>2, <3>3, MoveRow
  <2>5. CASE ~TaskClaimed(tasks[w[2]])
    <3>1. UNCHANGED tasks
      BY <1>8, <2>5 DEF Complete
    <3> QED
      BY <1>1, <1>2, <2>1, <2>2, <2>3, <3>1, MoveOnly
  <2> QED
    BY <2>4, <2>5
<1>9. CASE Report(w)
  <2>1. /\ UNCHANGED <<tasks, leases, asleep, found, due>>
        /\ pc[w] \in {"report", "refused_report"}
        /\ pc' = [pc EXCEPT ![w] = IF pc[w] = "report" THEN "release" ELSE "idle"]
    BY <1>9 DEF Report, Return, Goto, world
  <2>2. CASE pc[w] = "report"
    <3>1. pc[w] \in Holding /\ pc[w] \notin AtRest
      BY <2>2 DEF Holding, AtRest
    <3>2. pc' = [pc EXCEPT ![w] = "release"] /\ pc[w] \notin {"mark", "marked"}
      BY <2>1, <2>2
    <3> QED
      BY <1>1, <1>2, <2>1, <3>1, <3>2, MoveOnly DEF Steps, Early
  <2>3. CASE pc[w] = "refused_report"
    <3>1. pc' = [pc EXCEPT ![w] = "idle"] /\ pc[w] \notin {"mark", "marked"}
      BY <2>1, <2>3
    <3> QED
      BY <1>1, <2>1, <3>1, MoveOnly DEF Steps, AtRest, Early, Holding, Running
  <2> QED
    BY <2>1, <2>2, <2>3
<1>10. CASE Release(w)
  <2>1. /\ UNCHANGED <<tasks, asleep, found, due>> /\ pc[w] = "release"
        /\ pc' = [pc EXCEPT ![w] = "idle"]
        /\ leases' = [leases EXCEPT ![w[2]] = NoLease]
    BY <1>10 DEF Release, Return, Goto
  <2>2. /\ NoLease \in LeaseRow /\ pc[w] \in Holding /\ pc[w] \notin AtRest
        /\ "idle" \in Steps /\ "idle" \notin Holding /\ "idle" \notin Early
    BY <1>0, <2>1, LaneWorkerAssumption, LeaseRows DEF Holding, Running, AtRest, Steps, Early
  <2> QED
    BY <2>1, <2>2, MoveLease
<1> QED
  BY <1>3, <1>4, <1>5, <1>6, <1>7, <1>8, <1>9, <1>10

\* When no worker is between two store calls, each is idle or has renewed.
LEMMA SettledWorkers ==
  ASSUME IInv, Settled, NEW w \in Workers
  PROVE  pc[w] \in {"idle", "run"} /\ ~due[w] /\ found[w] = {}
<1>1. pc[w] \in {"idle", "run"} /\ ~due[w]
  BY WorkerParts DEF IInv, Settled, Waiting
<1>2. \A l \in Lanes : l \notin found[w]
  BY <1>1 DEF IInv, FoundRow
<1> QED
  BY <1>1, <1>2 DEF IInv, TypeOK

\* Every step keeps the invariant, when no host is suspended and repairs fall
\* between cycles' store calls, never inside a cycle.
LEMMA InvStep ==
  ASSUME ~MaySuspend, ~RepairAnytime, IInv, [Next]_vars
  PROVE  IInv'
<1>0. TypeOK'
  BY TypeStep DEF IInv
<1>1. ASSUME NEW w \in Workers, Begin(w) \/ Continue(w) \/ Body(w) PROVE IInv'
  BY <1>0, <1>1, ClaimingStep, ClaimedStep DEF Begin, Continue, CycleStep, Body
<1>2. ASSUME NEW p \in Procs, Start(p) \/ Exit(p) PROVE IInv'
  BY <1>0, <1>2
  DEF Start, Exit, store, local, IInv, RowShape, LeaseIsOwned, EarlyRow, HeldRow, FoundRow,
      StaleClaim
<1>3. ASSUME NEW p \in Procs, Crash(p) PROVE IInv'
  <2>1. /\ UNCHANGED <<tasks, leases>> /\ asleep' = {}
        /\ \A w \in Workers : pc'[w] = IF w[1] = p THEN "idle" ELSE pc[w]
        /\ \A w \in Workers : found'[w] = IF w[1] = p THEN {} ELSE found[w]
        /\ \A w \in Workers : due'[w] = IF w[1] = p THEN FALSE ELSE due[w]
    BY <1>3 DEF Crash, store, IInv
  <2>2. RowShape' /\ EarlyRow' /\ HeldRow'
    BY <2>1 DEF IInv, RowShape, EarlyRow, HeldRow, Early, Holding, Running
  <2>3. LeaseIsOwned'
    <3> SUFFICES ASSUME NEW w \in Workers, pc'[w] \in Holding
                 PROVE  pc'[w] = pc[w] /\ due'[w] = due[w]
      BY <2>1 DEF IInv, LeaseIsOwned
    <3> QED
      BY <2>1 DEF Holding, Running
  <2>4. FoundRow'
    <3> SUFFICES ASSUME NEW u \in Workers, NEW l \in Lanes, l \in found'[u]
                 PROVE  /\ pc'[u] \in {"mark", "marked"}
                        /\ StaleClaim(tasks[l]) \/ tasks[l].status = "reconciliation_needed"
                        /\ \A v \in Workers : v[2] = l => pc'[v] \in AtRest
      BY <2>1 DEF FoundRow, StaleClaim
    <3>1. l \in found[u] /\ pc'[u] = pc[u]
      BY <2>1
    <3> QED
      BY <2>1, <3>1 DEF IInv, FoundRow, AtRest
  <2> QED
    BY <1>0, <2>1, <2>2, <2>3, <2>4 DEF IInv
<1>4. ASSUME NEW p \in Procs, Suspend(p) \/ Resume(p) PROVE IInv'
  BY <1>4 DEF Suspend, Resume, IInv
<1>5. ASSUME NEW l \in Lanes, Repair(l) PROVE IInv'
  <2>1. /\ UNCHANGED <<leases, asleep, pc, found, due>> /\ Settled
        /\ tasks' = [tasks EXCEPT ![l] = RepairedTask]
    BY <1>5 DEF Repair, world, local
  <2>2. /\ RepairedTask.status = "queued" /\ RepairedTask.wait = 0
        /\ RepairedTask.age = 0
    BY DEF RepairedTask, QueuedTask
  <2>3. \A k \in Lanes : tasks'[k] = IF k = l THEN RepairedTask ELSE tasks[k]
    BY <2>1 DEF IInv, TypeOK
  <2>4. RowShape'
    BY <2>2, <2>3 DEF IInv, RowShape
  <2>5. EarlyRow' /\ HeldRow'
    BY <2>1, <2>2, <2>3, WorkerParts DEF IInv, EarlyRow, HeldRow
  <2>6. LeaseIsOwned'
    BY <2>1 DEF IInv, LeaseIsOwned
  <2>7. FoundRow'
    BY <2>1, SettledWorkers DEF FoundRow
  <2> QED
    BY <1>0, <2>1, <2>4, <2>5, <2>6, <2>7 DEF IInv
<1>6. CASE Minute
  <2>1. /\ UNCHANGED <<asleep, pc, found>> /\ Settled
        /\ \A l \in Lanes : tasks'[l] = TaskAfterTick(tasks[l])
        /\ \A l \in Lanes : leases'[l] = LeaseAfterTick(leases[l])
        /\ \A w \in Workers : due'[w] = (pc[w] = "run")
    BY <1>6 DEF Minute, world
  <2>2. \A w \in Workers : pc[w] \in {"idle", "run"} /\ ~due[w] /\ found[w] = {}
    BY <2>1, SettledWorkers
  <2>3. RowShape'
    <3> SUFFICES ASSUME NEW l \in Lanes
                 PROVE  /\ tasks'[l].wait > 0 => tasks'[l].status = "queued"
                        /\ tasks'[l].age > 0 => tasks'[l].status = "claimed"
      BY DEF RowShape
    <3>1. tasks[l] \in TaskRow /\ tasks[l].wait \in Nat
      BY DEF IInv, TypeOK, TaskRow
    <3>2. /\ tasks'[l].status = tasks[l].status
          /\ tasks'[l].wait = IF tasks[l].wait > 0 THEN tasks[l].wait - 1 ELSE 0
          /\ tasks[l].status # "claimed" => tasks'[l].age = 0
      BY <2>1, <3>1, TaskTick
    <3> QED
      BY <3>1, <3>2 DEF IInv, RowShape
  <2>4. HeldRow'
    BY <2>1, TaskTick, WorkerParts DEF IInv, HeldRow, TypeOK
  <2>5. EarlyRow' /\ FoundRow'
    BY <2>1, <2>2 DEF EarlyRow, FoundRow, Early
  <2>6. LeaseIsOwned'
    <3> SUFFICES ASSUME NEW w \in Workers, pc[w] \in Holding
                 PROVE  /\ leases'[w[2]].owner = w[1] /\ leases'[w[2]].left >= LeaseTTL - 1
                        /\ pc[w] = "run" /\ due'[w]
      BY <2>1 DEF LeaseIsOwned
    <3>1. pc[w] = "run" /\ due'[w]
      BY <2>1, <2>2 DEF Holding, Running
    <3>2. leases[w[2]] \in LeaseRow /\ leases[w[2]].left \in Nat /\ w[2] \in Lanes
      BY WorkerParts DEF IInv, TypeOK, LeaseRow
    <3>3. leases[w[2]].owner = w[1] /\ leases[w[2]].left >= LeaseTTL
      BY <2>2, <3>1 DEF IInv, LeaseIsOwned
    <3>4. /\ leases'[w[2]].owner = leases[w[2]].owner
          /\ leases'[w[2]].left = IF leases[w[2]].left > 0 THEN leases[w[2]].left - 1 ELSE 0
      BY <2>1, <3>2 DEF LeaseAfterTick, LeaseRow
    <3> QED
      BY <3>1, <3>2, <3>3, <3>4, LaneWorkerAssumption
  <2> QED
    BY <1>0, <2>1, <2>3, <2>4, <2>5, <2>6 DEF IInv
<1>7. CASE UNCHANGED vars
  BY <1>0, <1>7
  DEF vars, store, local, world, IInv, RowShape, LeaseIsOwned, EarlyRow, HeldRow, FoundRow,
      StaleClaim
<1> QED
  BY <1>1, <1>2, <1>3, <1>4, <1>5, <1>6, <1>7 DEF Next

\* The initial state has it.
LEMMA InvInit == Init => IInv
<1> SUFFICES ASSUME Init PROVE IInv
  OBVIOUS
<1>1. TypeOK
  BY StateStoreAssumption, LaneWorkerAssumption
  DEF Init, TypeOK, NoTask, TaskRow, TaskStatus, NoLease, LeaseRow, NoResult, ResultRow,
      ResultStatus, Steps
<1>2. RowShape
  BY DEF Init, RowShape, NoTask
<1>3. LeaseIsOwned /\ EarlyRow /\ HeldRow /\ FoundRow
  BY DEF Init, LeaseIsOwned, EarlyRow, HeldRow, FoundRow, Early, Holding, Running
<1> QED
  BY <1>1, <1>2, <1>3 DEF Init, IInv

\* So it holds throughout.
LEMMA InvHolds == ~MaySuspend /\ ~RepairAnytime => (Spec => []IInv)
<1> SUFFICES ASSUME ~MaySuspend, ~RepairAnytime PROVE Spec => []IInv
  OBVIOUS
<1>1. IInv /\ [Next]_vars => IInv'
  BY InvStep
<1> QED
  BY <1>1, InvInit, PTL DEF Spec

----------------------------------------------------------------------------
(* What a step does to a row, as far as the contract can tell.             *)

\* A worker leaves a row alone, or changes it between statuses in service, or
\* marks a claim that is stale.
LEMMA WorkerRow ==
  ASSUME IInv, NEW w \in Workers, Begin(w) \/ Continue(w) \/ Body(w), NEW l \in Lanes
  PROVE  \/ tasks'[l] = tasks[l]
         \/ /\ tasks[l].status # "reconciliation_needed"
            /\ tasks'[l].status # "reconciliation_needed"
         \/ MarkStale(w, l) /\ StaleClaim(tasks[l])
<1>1. ASSUME NEW k \in Lanes, MarkStale(w, k)
      PROVE  tasks'[l] = tasks[l] \/ (MarkStale(w, l) /\ StaleClaim(tasks[l]))
  <2>1. tasks'[l] = tasks[l] \/ (k = l /\ TaskClaimed(tasks[l]) /\ l \in found[w])
    BY <1>1 DEF MarkStale, IInv, TypeOK
  <2> QED
    BY <1>1, <2>1 DEF IInv, FoundRow, TaskClaimed
<1>2. CASE BeginCycle(w) \/ AfterMarking(w) \/ ReadTask(w) \/ ReadBackoff(w)
             \/ Acquire(w) \/ AcquireRefused(w) \/ Renew(w)
             \/ (\E outcome \in {"completed", "failed"} : BodyReturns(w, outcome))
             \/ Report(w) \/ Release(w)
  BY <1>2
  DEF BeginCycle, AfterMarking, ReadTask, ReadBackoff, Acquire, AcquireRefused, Renew,
      BodyReturns, Report, Release, store
<1>3. ASSUME NEW row, tasks' = [tasks EXCEPT ![w[2]] = row],
             tasks[w[2]].status # "reconciliation_needed",
             row.status # "reconciliation_needed"
      PROVE  \/ tasks'[l] = tasks[l]
             \/ /\ tasks[l].status # "reconciliation_needed"
                /\ tasks'[l].status # "reconciliation_needed"
  BY <1>3, WorkerParts DEF IInv, TypeOK
<1>4. tasks[w[2]] \in TaskRow
  BY WorkerParts DEF IInv, TypeOK
<1>5. CASE Enqueue(w)
  <2>1. QueuedTask(avail[w]).status # "reconciliation_needed"
    BY DEF QueuedTask
  <2>2. tasks[w[2]].status # "reconciliation_needed"
    BY <1>5 DEF Enqueue, IInv, EarlyRow, Early
  <2> QED
    BY <1>3, <1>5, <2>1, <2>2 DEF Enqueue
<1>6. CASE Claim(w)
  <2>1. ClaimedTask(tasks[w[2]]).status # "reconciliation_needed"
    BY <1>4, TaskRows DEF TaskStatus
  <2> QED
    BY <1>3, <1>6, <2>1 DEF Claim, TaskClaimable
<1>7. CASE Touch(w)
  <2>1. TaskClaimed(tasks[w[2]]) =>
          TouchedTask(tasks[w[2]]).status # "reconciliation_needed"
    BY <1>4, TaskRows DEF TaskStatus, TaskClaimed
  <2> QED
    BY <1>3, <1>7, <2>1 DEF Touch, TaskClaimed
<1>8. CASE Complete(w)
  <2>1. fin[w] \in {"completed", "failed"}
    BY DEF IInv, TypeOK
  <2>2. CompletedTask(tasks[w[2]], fin[w]).status # "reconciliation_needed"
    BY <1>4, <2>1, TaskRows DEF TaskStatus
  <2> QED
    BY <1>3, <1>8, <2>2 DEF Complete, TaskClaimed
<1> QED
  BY <1>1, <1>2, <1>5, <1>6, <1>7, <1>8 DEF Begin, Continue, CycleStep, Body

----------------------------------------------------------------------------
(* The theorems.                                                           *)

\* A worker that runs a body, or has ended one and not yet released, owns its
\* lane's live lease: for every number of processes, lanes and crashes.
THEOREM HoldersOwnTheirLease ==
  ~MaySuspend /\ ~RepairAnytime => (Spec => []HolderOwnsLease)
<1>1. IInv => HolderOwnsLease
  BY LaneWorkerAssumption DEF IInv, LeaseIsOwned, HolderOwnsLease
<1> QED
  BY <1>1, InvHolds, PTL

\* A recovery marks a claim only while it is stale, however many steps of other
\* processes lie between its read and its write.
THEOREM MarksOnlyStaleClaims ==
  ~MaySuspend /\ ~RepairAnytime => (Spec => OnlyStaleClaimsAreMarked)
<1> SUFFICES ASSUME ~MaySuspend, ~RepairAnytime PROVE Spec => OnlyStaleClaimsAreMarked
  OBVIOUS
<1>1. ASSUME IInv, [Next]_vars, NEW l \in Lanes,
             tasks[l].status # tasks'[l].status, tasks'[l].status = "reconciliation_needed"
      PROVE  StaleClaim(tasks[l])
  <2>1. ASSUME NEW w \in Workers, Begin(w) \/ Continue(w) \/ Body(w) PROVE StaleClaim(tasks[l])
    BY <1>1, <2>1, WorkerRow
  <2>2. ASSUME NEW p \in Procs, Start(p) \/ Exit(p) \/ Crash(p) \/ Suspend(p) \/ Resume(p)
        PROVE  FALSE
    BY <1>1, <2>2 DEF Start, Exit, Crash, Suspend, Resume, store
  <2>3. ASSUME NEW k \in Lanes, Repair(k) PROVE FALSE
    BY <1>1, <2>3 DEF Repair, RepairedTask, QueuedTask, IInv, TypeOK
  <2>4. CASE Minute
    BY <1>1, <2>4, TaskTick DEF Minute, IInv, TypeOK
  <2>5. CASE UNCHANGED vars
    BY <1>1, <2>5 DEF vars, store
  <2> QED
    BY <1>1, <2>1, <2>2, <2>3, <2>4, <2>5 DEF Next
<1>2. IInv /\ [Next]_vars =>
        [\A l \in Lanes :
           tasks[l].status # tasks'[l].status /\ tasks'[l].status = "reconciliation_needed"
             => StaleClaim(tasks[l])]_vars
  BY <1>1
<1> QED
  BY <1>2, InvHolds, PTL DEF Spec, OnlyStaleClaimsAreMarked

----------------------------------------------------------------------------
(* Refinement of LaneContract.                                             *)

\* A worker that stays inside, or outside, the steps of a body begins and ends
\* none.
LEMMA SameBodies ==
  ASSUME IInv, NEW w \in Workers, NEW step, pc' = [pc EXCEPT ![w] = step],
         step \in Running <=> pc[w] \in Running
  PROVE  Bodies' = Bodies
<1>1. ASSUME NEW p \in Procs, NEW l \in Lanes
      PROVE  pc'[<<p, l>>] \in Running <=> pc[<<p, l>>] \in Running
  <2>1. <<p, l>> \in Workers
    BY WorkerParts
  <2> QED
    BY <2>1 DEF IInv, TypeOK
<1> QED
  BY <1>1 DEF Bodies

\* Each step of a cycle is a step of the contract, or none.
LEMMA CycleRefines ==
  ASSUME IInv, NEW w \in Workers, Begin(w) \/ Continue(w) \/ Body(w)
  PROVE  [Contract!Next]_(Contract!vars)
<1>0. w[1] \in Procs /\ w[2] \in Lanes
  BY WorkerParts
<1>1. ASSUME NEW l \in Lanes, MarkStale(w, l) PROVE [Contract!Next]_(Contract!vars)
  <2>1. Bodies' = Bodies
    <3>1. pc[w] \in {"mark", "marked"}
      BY <1>1 DEF MarkStale
    <3>2. CASE UNCHANGED pc
      BY <3>2 DEF Bodies
    <3>3. CASE Goto(w, "marked")
      BY <3>1, <3>3, SameBodies DEF Goto, Running
    <3> QED
      BY <1>1, <3>2, <3>3 DEF MarkStale
  <2>2. CASE TaskClaimed(tasks[l])
    <3>1. tasks' = [tasks EXCEPT ![l] = ReconciliationNeededTask(tasks[l])]
      BY <1>1, <2>2 DEF MarkStale
    <3>2. ReconciliationNeededTask(tasks[l]).status = "reconciliation_needed"
      BY TaskRows DEF IInv, TypeOK, TaskStatus
    <3>3. Blocked' = Blocked \cup {l}
      BY <3>1, <3>2 DEF Blocked, IInv, TypeOK
    <3>4. \A v \in Workers : v[2] = l => pc[v] \notin Running
      BY <1>1 DEF MarkStale, IInv, FoundRow, AtRest, Running
    <3>5. Bodies[l] = {}
      BY <3>4, WorkerParts DEF Bodies
    <3>6. Contract!Surface(l)
      BY <2>1, <3>3, <3>5 DEF Contract!Surface
    <3> QED
      BY <3>6 DEF Contract!Next
  <2>3. CASE ~TaskClaimed(tasks[l])
    <3>1. UNCHANGED tasks
      BY <1>1, <2>3 DEF MarkStale
    <3> QED
      BY <2>1, <3>1 DEF Contract!vars, Blocked
  <2> QED
    BY <2>2, <2>3
<1>2. ASSUME \A l \in Lanes : ~MarkStale(w, l) PROVE Blocked' = Blocked
  BY <1>2, WorkerRow DEF Blocked
<1>3. CASE Acquire(w)
  <2>1. /\ pc[w] = "acquire" /\ pc' = [pc EXCEPT ![w] = "run"]
        /\ ~LeaseHeld(leases[w[2]]) /\ UNCHANGED tasks
    BY <1>3 DEF Acquire, Goto
  <2>2. \A v \in Workers : v[2] = w[2] => pc[v] \notin Running
    BY <2>1, HolderExcludes DEF Holding
  <2>3. Bodies[w[2]] = {}
    BY <1>0, <2>2, WorkerParts DEF Bodies
  <2>4. Bodies' = [Bodies EXCEPT ![w[2]] = {w[1]}]
    <3>1. ASSUME NEW p \in Procs, NEW l \in Lanes
          PROVE  pc'[<<p, l>>] \in Running
                   <=> IF l = w[2] THEN p = w[1] ELSE pc[<<p, l>>] \in Running
      <4>1. <<p, l>> \in Workers /\ <<p, l>>[1] = p /\ <<p, l>>[2] = l
        BY WorkerParts
      <4>2. <<p, l>> = w <=> p = w[1] /\ l = w[2]
        BY <4>1, WorkerParts
      <4>3. pc'[<<p, l>>] = IF <<p, l>> = w THEN "run" ELSE pc[<<p, l>>]
        BY <2>1, <4>1 DEF IInv, TypeOK
      <4> QED
        BY <2>2, <4>1, <4>2, <4>3 DEF Running
    <3> QED
      BY <1>0, <3>1 DEF Bodies
  <2>5. w[2] \notin Blocked
    BY <2>1 DEF Blocked, IInv, EarlyRow, Early
  <2>6. Blocked' = Blocked
    BY <2>1 DEF Blocked
  <2>7. Contract!Begin(w[1], w[2])
    BY <2>3, <2>4, <2>5, <2>6 DEF Contract!Begin
  <2> QED
    BY <1>0, <2>7 DEF Contract!Next
<1>4. ASSUME NEW outcome \in {"completed", "failed"}, BodyReturns(w, outcome)
      PROVE  [Contract!Next]_(Contract!vars)
  <2>1. pc' = [pc EXCEPT ![w] = "finish"] /\ UNCHANGED tasks
    BY <1>4 DEF BodyReturns, Goto, store
  <2>2. Bodies' = [l \in Lanes |-> IF l \in {w[2]} THEN Bodies[l] \ {w[1]} ELSE Bodies[l]]
    <3>1. ASSUME NEW p \in Procs, NEW l \in Lanes
          PROVE  pc'[<<p, l>>] \in Running
                   <=> pc[<<p, l>>] \in Running /\ ~(l = w[2] /\ p = w[1])
      <4>1. <<p, l>> \in Workers /\ <<p, l>>[1] = p /\ <<p, l>>[2] = l
        BY WorkerParts
      <4>2. <<p, l>> = w <=> p = w[1] /\ l = w[2]
        BY <4>1, WorkerParts
      <4>3. pc'[<<p, l>>] = IF <<p, l>> = w THEN "finish" ELSE pc[<<p, l>>]
        BY <2>1, <4>1 DEF IInv, TypeOK
      <4> QED
        BY <4>2, <4>3 DEF Running
    <3> QED
      BY <3>1 DEF Bodies
  <2>3. Blocked' = Blocked
    BY <2>1 DEF Blocked
  <2>4. Contract!End(w[1], {w[2]})
    BY <2>2, <2>3 DEF Contract!End
  <2> QED
    BY <1>0, <2>4 DEF Contract!Next
<1>5. ASSUME \A l \in Lanes : ~MarkStale(w, l), Bodies' = Bodies
      PROVE  [Contract!Next]_(Contract!vars)
  BY <1>2, <1>5 DEF Contract!vars
<1>6. CASE \/ BeginCycle(w) \/ AfterMarking(w) \/ ReadTask(w) \/ ReadBackoff(w)
           \/ Enqueue(w) \/ Claim(w) \/ AcquireRefused(w) \/ Renew(w) \/ Touch(w)
           \/ Complete(w) \/ Report(w) \/ Release(w)
  <2>1. PICK step : /\ pc' = [pc EXCEPT ![w] = step]
                    /\ step \in Running <=> pc[w] \in Running
    BY <1>6
    DEF BeginCycle, AfterMarking, ReadTask, ReadBackoff, Enqueue, Claim, AcquireRefused,
        Renew, Touch, Complete, Report, Release, Return, Goto, Running
  <2>2. Bodies' = Bodies
    BY <2>1, SameBodies
  <2> QED
    BY <1>1, <1>5, <2>2
<1> QED
  BY <1>1, <1>3, <1>4, <1>6 DEF Begin, Continue, CycleStep, Body

\* So is each step of a process, the operator or time.
LEMMA StepRefines ==
  ASSUME ~RepairAnytime, IInv, [Next]_vars
  PROVE  [Contract!Next]_(Contract!vars)
<1>1. ASSUME NEW w \in Workers, Begin(w) \/ Continue(w) \/ Body(w)
      PROVE  [Contract!Next]_(Contract!vars)
  BY <1>1, CycleRefines
<1>2. ASSUME UNCHANGED <<tasks, pc>> PROVE [Contract!Next]_(Contract!vars)
  BY <1>2 DEF Contract!vars, Bodies, Blocked
<1>3. ASSUME NEW p \in Procs, Crash(p) PROVE [Contract!Next]_(Contract!vars)
  <2>1. Bodies' = [l \in Lanes |-> IF l \in Lanes THEN Bodies[l] \ {p} ELSE Bodies[l]]
    <3>1. ASSUME NEW q \in Procs, NEW l \in Lanes
          PROVE  pc'[<<q, l>>] \in Running <=> pc[<<q, l>>] \in Running /\ q # p
      BY <1>3, WorkerParts DEF Crash, Running
    <3> QED
      BY <3>1 DEF Bodies
  <2>2. Blocked' = Blocked
    BY <1>3 DEF Crash, store, Blocked
  <2>3. Contract!End(p, Lanes)
    BY <2>1, <2>2 DEF Contract!End
  <2> QED
    BY <2>3 DEF Contract!Next
<1>4. ASSUME NEW l \in Lanes, Repair(l) PROVE [Contract!Next]_(Contract!vars)
  <2>1. Bodies' = Bodies
    BY <1>4 DEF Repair, local, Bodies
  <2>2. Blocked' = Blocked \ {l}
    BY <1>4 DEF Repair, RepairedTask, QueuedTask, Blocked, IInv, TypeOK
  <2>3. Contract!Repair(l)
    BY <2>1, <2>2 DEF Contract!Repair
  <2> QED
    BY <2>3 DEF Contract!Next
<1>5. CASE Minute
  <2>1. Blocked' = Blocked
    BY <1>5, TaskTick DEF Minute, Blocked, IInv, TypeOK
  <2>2. Bodies' = Bodies
    BY <1>5 DEF Minute, Bodies
  <2> QED
    BY <2>1, <2>2 DEF Contract!vars
<1> QED
  BY <1>1, <1>2, <1>3, <1>4, <1>5
  DEF Next, Start, Exit, Suspend, Resume, store, local, vars

\* The cycles of any number of processes, sharing any number of lanes and
\* killed at any time, keep the contract: one body per lane at a time, no body
\* in a lane that needs reconciliation, no lane marked while its body runs.
THEOREM LanesKeepTheContract ==
  ~MaySuspend /\ ~RepairAnytime => (Spec => ImplementsContract)
<1> SUFFICES ASSUME ~MaySuspend, ~RepairAnytime PROVE Spec => ImplementsContract
  OBVIOUS
<1>1. Init => Contract!Init
  <2> SUFFICES ASSUME Init PROVE Contract!Init
    OBVIOUS
  <2>1. Blocked = {}
    BY DEF Init, Blocked, NoTask
  <2>2. \A p \in Procs, l \in Lanes : pc[<<p, l>>] \notin Running
    BY WorkerParts DEF Init, Running
  <2>3. Bodies = [l \in Lanes |-> {}]
    BY <2>2 DEF Bodies
  <2> QED
    BY <2>1, <2>3 DEF Contract!Init
<1>2. IInv /\ [Next]_vars => [Contract!Next]_(Contract!vars)
  BY StepRefines
<1> QED
  BY <1>1, <1>2, InvHolds, PTL DEF Spec, ImplementsContract, Contract!Spec

\* In every state a lane's body runs in one process at most, and in none while
\* the lane needs reconciliation: what the contract comes to for a reader of
\* the store.
THEOREM OneBodyPerLane ==
  ~MaySuspend /\ ~RepairAnytime => (Spec => []Contract!Exclusive)
<1>1. IInv => Contract!Exclusive
  <2> SUFFICES ASSUME IInv, NEW l \in Lanes
               PROVE  /\ \A p, q \in Bodies[l] : p = q
                      /\ l \in Blocked => Bodies[l] = {}
    BY DEF Contract!Exclusive
  <2>1. Bodies[l] = {p \in Procs : pc[<<p, l>>] \in Running}
    BY DEF Bodies
  <2>2. ASSUME NEW p \in Bodies[l], NEW q \in Bodies[l] PROVE p = q
    <3>1. /\ <<p, l>> \in Workers /\ <<p, l>>[1] = p /\ <<p, l>>[2] = l
          /\ <<q, l>> \in Workers /\ <<q, l>>[1] = q /\ <<q, l>>[2] = l
          /\ pc[<<p, l>>] \in Holding /\ pc[<<q, l>>] \in Holding
      BY <2>1, WorkerParts DEF Holding
    <3>2. <<p, l>> = <<q, l>>
      BY <3>1, HolderExcludes
    <3> QED
      BY <3>2
  <2>3. ASSUME l \in Blocked PROVE Bodies[l] = {}
    BY <2>1, <2>3, WorkerParts DEF Blocked, IInv, HeldRow, Holding
  <2> QED
    BY <2>2, <2>3
<1> QED
  BY <1>1, InvHolds, PTL

----------------------------------------------------------------------------
(* One daemon at a time.  Its host may sleep and an operator may repair at  *)
(* any time, so a row may be taken from under a cycle; but no other process *)
(* has a worker in the same lane, so what a cycle left in the lane's lease  *)
(* and result is there when it comes back to them.                          *)

\* One process at most is up, and the workers of the others are idle.
OneUp ==
  /\ \A p, q \in Procs : proc[p] # "off" /\ proc[q] # "off" => p = q
  /\ \A w \in Workers : proc[w[1]] = "off" => pc[w] = "idle"

\* Steps between the claim of the row and its completion.
Claiming == {"acquire", "refused", "finish"} \cup Running

\* Steps at which the row is completed and its result is not yet reported.
Reporting == {"report", "refused_report"}

\* What a worker may count on in its lane.
WorkerFits(w) ==
  /\ pc[w] \in Holding => leases[w[2]].owner = w[1]
  /\ pc[w] = "enqueue" => WaitAfterLatestFailure(results[w[2]]) <= avail[w]
  /\ pc[w] = "claim" =>
       /\ tasks[w[2]].status = "queued"
       /\ WaitAfterLatestFailure(results[w[2]]) <= tasks[w[2]].wait
  /\ pc[w] \in Claiming => tasks[w[2]].status \in {"queued", "claimed", "reconciliation_needed"}
  /\ pc[w] \in Reporting =>
       tasks[w[2]].status \in {"queued", "claimed", "reconciliation_needed", fin[w]}

\* What a lane's rows say of each other: a lane that failed has a row, and a
\* row that was completed has its result, or will get it next.
LaneFits(l) ==
  /\ tasks[l].status = "absent" => results[l].status # "failed"
  /\ crashes = 0 /\ tasks[l].status \in {"completed", "failed"} =>
       \/ results[l].status = tasks[l].status
       \/ \E w \in Workers : w[2] = l /\ pc[w] \in Reporting

OneInv ==
  /\ TypeOK /\ OneUp
  /\ \A w \in Workers : WorkerFits(w)
  /\ \A l \in Lanes : LaneFits(l)

\* A worker whose process is up is alone in its lane.
LEMMA AloneInItsLane ==
  ASSUME OneInv, NEW w \in Workers, proc[w[1]] # "off",
         NEW v \in Workers, v # w, v[2] = w[2]
  PROVE  pc[v] = "idle"
BY WorkerParts DEF OneInv, OneUp

\* A step of a worker that stays within its lane keeps the invariant if the
\* worker and its lane fit after it.
LEMMA OneMoves ==
  ASSUME OneInv, TypeOK', NEW w \in Workers, proc[w[1]] # "off", NEW step,
         pc' = [pc EXCEPT ![w] = step], crashes' = crashes,
         proc' = proc \/ proc' = [proc EXCEPT ![w[1]] = "draining"],
         \A v \in Workers : v # w => avail'[v] = avail[v] /\ fin'[v] = fin[v],
         \A l \in Lanes : l # w[2] =>
           tasks'[l] = tasks[l] /\ leases'[l] = leases[l] /\ results'[l] = results[l],
         WorkerFits(w)', LaneFits(w[2])'
  PROVE  OneInv'
<1>1. \A v \in Workers : pc'[v] = IF v = w THEN step ELSE pc[v]
  BY DEF OneInv, TypeOK
<1>2. \A p \in Procs : proc'[p] = "off" <=> proc[p] = "off"
  BY WorkerParts DEF OneInv, TypeOK
<1>3. OneUp'
  <2>1. \A p, q \in Procs : proc'[p] # "off" /\ proc'[q] # "off" => p = q
    BY <1>2 DEF OneInv, OneUp
  <2>2. \A v \in Workers : proc'[v[1]] = "off" => pc'[v] = "idle"
    BY <1>1, <1>2, WorkerParts DEF OneInv, OneUp
  <2> QED
    BY <2>1, <2>2 DEF OneUp
<1>4. ASSUME NEW v \in Workers PROVE WorkerFits(v)'
  <2>1. CASE v = w
    BY <2>1
  <2>2. CASE v # w /\ v[2] = w[2]
    <3>1. pc'[v] = "idle"
      BY <1>1, <2>2, AloneInItsLane
    <3> QED
      BY <3>1 DEF WorkerFits, Holding, Running, Claiming, Reporting
  <2>3. CASE v # w /\ v[2] # w[2]
    <3>1. /\ pc'[v] = pc[v] /\ avail'[v] = avail[v] /\ fin'[v] = fin[v]
          /\ tasks'[v[2]] = tasks[v[2]] /\ leases'[v[2]] = leases[v[2]]
          /\ results'[v[2]] = results[v[2]]
      BY <1>1, <2>3, WorkerParts
    <3> QED
      BY <3>1 DEF OneInv, WorkerFits
  <2> QED
    BY <2>1, <2>2, <2>3
<1>5. ASSUME NEW l \in Lanes PROVE LaneFits(l)'
  <2>1. CASE l = w[2]
    BY <2>1
  <2>2. CASE l # w[2]
    <3>1. \A v \in Workers : v[2] = l => pc'[v] = pc[v]
      BY <1>1, <2>2
    <3>2. tasks'[l] = tasks[l] /\ results'[l] = results[l]
      BY <2>2
    <3> QED
      BY <3>1, <3>2 DEF OneInv, LaneFits
  <2> QED
    BY <2>1, <2>2
<1> QED
  BY <1>3, <1>4, <1>5 DEF OneInv

\* A worker that owes its lane no result may return, or go to a step at which
\* it counts on nothing, if it leaves row and result alone.
LEMMA OneReturns ==
  ASSUME OneInv, TypeOK', NEW w \in Workers, proc[w[1]] # "off",
         NEW step \in {"idle", "read", "mark", "marked", "backoff"},
         pc' = [pc EXCEPT ![w] = step], crashes' = crashes,
         proc' = proc \/ proc' = [proc EXCEPT ![w[1]] = "draining"],
         \A v \in Workers : v # w => avail'[v] = avail[v] /\ fin'[v] = fin[v],
         UNCHANGED <<tasks, results>>,
         \A l \in Lanes : l # w[2] => leases'[l] = leases[l],
         pc[w] \notin Reporting
  PROVE  OneInv'
<1>1. pc'[w] = step
  BY DEF OneInv, TypeOK
<1>2. WorkerFits(w)'
  BY <1>1 DEF WorkerFits, Holding, Running, Claiming, Reporting
<1>3. LaneFits(w[2])'
  <2>1. \A v \in Workers : pc[v] \in Reporting => pc'[v] = pc[v]
    BY DEF OneInv, TypeOK
  <2> QED
    BY <2>1, WorkerParts DEF OneInv, LaneFits
<1> QED
  BY <1>2, <1>3, OneMoves

\* Marking a claim, of any lane, takes it from whoever works there.
LEMMA OneMarks ==
  ASSUME OneInv, TypeOK', NEW w \in Workers, NEW l \in Lanes, proc[w[1]] # "off",
         MarkStale(w, l)
  PROVE  OneInv'
<1>1. CASE TaskClaimed(tasks[l])
  <2>1. /\ tasks' = [tasks EXCEPT ![l] = ReconciliationNeededTask(tasks[l])]
        /\ results' = [results EXCEPT ![l] = Result("reconciliation_needed", Backoff)]
        /\ pc' = [pc EXCEPT ![w] = "marked"] /\ pc[w] \in {"mark", "marked"}
        /\ UNCHANGED <<leases, proc, crashes, avail, fin>>
    BY <1>1 DEF MarkStale, Goto, world
  <2>2. /\ tasks'[l].status = "reconciliation_needed"
        /\ results'[l].status = "reconciliation_needed"
    BY <2>1, TaskRows DEF OneInv, TypeOK, Result, TaskStatus
  <2>3. \A k \in Lanes : k # l => tasks'[k] = tasks[k] /\ results'[k] = results[k]
    BY <2>1 DEF OneInv, TypeOK
  <2>4. \A v \in Workers : pc'[v] = IF v = w THEN "marked" ELSE pc[v]
    BY <2>1 DEF OneInv, TypeOK
  <2>5. OneUp'
    BY <2>1, <2>4 DEF OneInv, OneUp
  <2>6. ASSUME NEW v \in Workers PROVE WorkerFits(v)'
    <3>0. v[2] \in Lanes
      BY WorkerParts
    <3>1. CASE v = w
      BY <2>4, <3>1 DEF WorkerFits, Holding, Running, Claiming, Reporting
    <3>2. CASE v # w /\ v[2] = l
      <4>1. pc[v] # "claim"
        BY <1>1, <3>2 DEF OneInv, WorkerFits, TaskClaimed
      <4>2. avail[v] \in Nat /\ WaitAfterLatestFailure(results'[v[2]]) = 0
        BY <2>2, <3>2 DEF OneInv, TypeOK, WaitAfterLatestFailure
      <4>3. pc'[v] = pc[v]
        BY <2>4, <3>2
      <4> QED
        BY <2>1, <2>2, <3>2, <4>1, <4>2, <4>3 DEF OneInv, WorkerFits
    <3>3. CASE v # w /\ v[2] # l
      <4>1. /\ pc'[v] = pc[v] /\ tasks'[v[2]] = tasks[v[2]]
            /\ results'[v[2]] = results[v[2]]
        BY <2>3, <2>4, <3>0, <3>3
      <4> QED
        BY <2>1, <4>1 DEF OneInv, WorkerFits
    <3> QED
      BY <3>1, <3>2, <3>3
  <2>7. ASSUME NEW k \in Lanes PROVE LaneFits(k)'
    <3>1. CASE k = l
      BY <2>2, <3>1 DEF LaneFits
    <3>2. CASE k # l
      <4>1. \A v \in Workers : pc[v] \in Reporting => pc'[v] = pc[v]
        BY <2>1, <2>4 DEF Reporting
      <4> QED
        BY <2>1, <2>3, <3>2, <4>1 DEF OneInv, LaneFits
    <3> QED
      BY <3>1, <3>2
  <2> QED
    BY <2>5, <2>6, <2>7 DEF OneInv
<1>2. CASE ~TaskClaimed(tasks[l])
  BY <1>2 DEF MarkStale, OneInv, OneUp, WorkerFits, LaneFits, world
<1> QED
  BY <1>1, <1>2

\* So does every other step of a cycle.
LEMMA OneCycle ==
  ASSUME OneInv, TypeOK', NEW w \in Workers, proc[w[1]] # "off",
         Begin(w) \/ Continue(w) \/ Body(w)
  PROVE  OneInv'
<1>0. /\ w[1] \in Procs /\ w[2] \in Lanes
      /\ tasks[w[2]] \in TaskRow /\ leases[w[2]] \in LeaseRow /\ results[w[2]] \in ResultRow
      /\ fin[w] \in {"completed", "failed"} /\ avail[w] \in Nat
  BY WorkerParts DEF OneInv, TypeOK
<1>t. /\ tasks \in [Lanes -> TaskRow] /\ leases \in [Lanes -> LeaseRow]
      /\ results \in [Lanes -> ResultRow] /\ pc \in [Workers -> Steps]
      /\ avail \in [Workers -> Nat] /\ fin \in [Workers -> {"completed", "failed"}]
  BY DEF OneInv, TypeOK
<1>w. WorkerFits(w) /\ LaneFits(w[2])
  BY <1>0 DEF OneInv
<1>1. CASE BeginCycle(w)
  <2> DEFINE step == IF Recoverables = {} THEN "read" ELSE "mark"
  <2>1. /\ pc' = [pc EXCEPT ![w] = step] /\ step \in {"read", "mark"} /\ pc[w] = "idle"
        /\ UNCHANGED <<tasks, results, leases, proc, crashes, avail, fin>>
    BY <1>1 DEF BeginCycle, Goto, store, world
  <2> HIDE DEF step
  <2> QED
    BY <2>1, OneReturns DEF Reporting
<1>2. ASSUME NEW l \in Lanes, MarkStale(w, l) PROVE OneInv'
  BY <1>2, OneMarks
<1>3. CASE AfterMarking(w)
  <2>1. PICK step \in {"read", "idle"} : pc' = [pc EXCEPT ![w] = step]
    BY <1>3 DEF AfterMarking, Goto, Return
  <2>2. /\ pc[w] \in {"mark", "marked"}
        /\ UNCHANGED <<tasks, results, leases, proc, crashes, avail, fin>>
    BY <1>3 DEF AfterMarking, Return, store, world
  <2> QED
    BY <2>1, <2>2, OneReturns DEF Reporting
<1>4. CASE ReadTask(w)
  <2>0. /\ pc[w] = "read" /\ avail' = [avail EXCEPT ![w] = 0]
        /\ UNCHANGED <<tasks, results, leases, proc, crashes, fin>>
    BY <1>4 DEF ReadTask, Return, store, world
  <2>1. CASE tasks[w[2]].status # "absent"
    <3>1. PICK step \in {"backoff", "idle"} : pc' = [pc EXCEPT ![w] = step]
      BY <1>4, <2>1 DEF ReadTask, Goto, Return
    <3> QED
      BY <1>t, <2>0, <3>1, OneReturns DEF Reporting
  <2>2. CASE tasks[w[2]].status = "absent"
    <3>1. pc' = [pc EXCEPT ![w] = "enqueue"]
      BY <1>4, <2>2 DEF ReadTask, Goto, Return, LeaveAlone
    <3>2. pc'[w] = "enqueue" /\ avail'[w] = 0
      BY <1>t, <2>0, <3>1
    <3>3. WaitAfterLatestFailure(results[w[2]]) = 0
      BY <1>w, <2>2 DEF LaneFits, WaitAfterLatestFailure
    <3>4. WorkerFits(w)'
      BY <2>0, <3>2, <3>3 DEF WorkerFits, Holding, Running, Claiming, Reporting
    <3>5. LaneFits(w[2])'
      BY <2>0, <2>2, <1>w DEF LaneFits
    <3> QED
      BY <1>t, <2>0, <3>1, <3>4, <3>5, OneMoves
  <2> QED
    BY <2>1, <2>2
<1>5. CASE ReadBackoff(w)
  <2>1. /\ pc[w] = "backoff" /\ pc' = [pc EXCEPT ![w] = "enqueue"]
        /\ avail' = [avail EXCEPT ![w] = WaitAfterLatestFailure(results[w[2]])]
        /\ UNCHANGED <<tasks, results, leases, proc, crashes, fin>>
    BY <1>5 DEF ReadBackoff, Goto, store, world
  <2>2. pc'[w] = "enqueue" /\ avail'[w] = WaitAfterLatestFailure(results[w[2]])
    BY <1>t, <2>1
  <2>3. WaitAfterLatestFailure(results[w[2]]) \in Nat
    BY <1>0 DEF WaitAfterLatestFailure, ResultRow
  <2>4. WorkerFits(w)'
    BY <2>1, <2>2, <2>3 DEF WorkerFits, Holding, Running, Claiming, Reporting
  <2>5. LaneFits(w[2])'
    <3>1. \A v \in Workers : pc[v] \in Reporting => pc'[v] = pc[v]
      BY <1>t, <2>1 DEF Reporting
    <3> QED
      BY <1>w, <2>1, <3>1 DEF LaneFits
  <2> QED
    BY <1>t, <2>1, <2>4, <2>5, OneMoves
<1>6. CASE Enqueue(w)
  <2>1. /\ pc[w] = "enqueue" /\ pc' = [pc EXCEPT ![w] = "claim"]
        /\ tasks' = [tasks EXCEPT ![w[2]] = QueuedTask(avail[w])]
        /\ UNCHANGED <<results, leases, proc, crashes, avail, fin>>
    BY <1>6 DEF Enqueue, Goto, world
  <2>2. pc'[w] = "claim" /\ tasks'[w[2]].status = "queued" /\ tasks'[w[2]].wait = avail[w]
    BY <1>0, <1>t, <2>1 DEF QueuedTask
  <2>3. WorkerFits(w)'
    BY <1>w, <2>1, <2>2 DEF WorkerFits, Holding, Running, Claiming, Reporting
  <2>4. LaneFits(w[2])'
    BY <2>2 DEF LaneFits
  <2> QED
    BY <1>t, <2>1, <2>3, <2>4, OneMoves
<1>7. CASE Claim(w)
  <2>0. /\ pc[w] = "claim" /\ avail' = [avail EXCEPT ![w] = 0]
        /\ UNCHANGED <<results, leases, proc, crashes, fin>>
    BY <1>7 DEF Claim, Return, store, world
  <2>1. CASE TaskClaimable(tasks[w[2]])
    <3>1. /\ pc' = [pc EXCEPT ![w] = "acquire"]
          /\ tasks' = [tasks EXCEPT ![w[2]] = ClaimedTask(tasks[w[2]])]
      BY <1>7, <2>1 DEF Claim, Goto
    <3>2. pc'[w] = "acquire" /\ tasks'[w[2]].status = "claimed"
      BY <1>0, <1>t, <3>1 DEF ClaimedTask, WithStatus, TaskRow
    <3>3. WorkerFits(w)'
      BY <3>2 DEF WorkerFits, Holding, Running, Claiming, Reporting
    <3>4. LaneFits(w[2])'
      BY <3>2 DEF LaneFits
    <3> QED
      BY <1>t, <2>0, <3>1, <3>3, <3>4, OneMoves
  <2>2. CASE ~TaskClaimable(tasks[w[2]])
    <3>1. pc' = [pc EXCEPT ![w] = "idle"] /\ UNCHANGED tasks
      BY <1>7, <2>2 DEF Claim, Goto, Return
    <3> QED
      BY <1>t, <2>0, <3>1, OneReturns DEF Reporting
  <2> QED
    BY <2>1, <2>2
<1>8. CASE Acquire(w)
  <2>1. /\ pc[w] = "acquire" /\ pc' = [pc EXCEPT ![w] = "run"]
        /\ leases' = [leases EXCEPT ![w[2]] = AcquiredLease(w[1], LeaseTTL)]
        /\ UNCHANGED <<tasks, results, proc, crashes, avail, fin>>
    BY <1>8 DEF Acquire, Goto, world
  <2>2. pc'[w] = "run" /\ leases'[w[2]].owner = w[1]
    BY <1>0, <1>t, <2>1 DEF AcquiredLease
  <2>3. WorkerFits(w)'
    BY <1>w, <2>1, <2>2 DEF WorkerFits, Running, Claiming, Reporting
  <2>4. LaneFits(w[2])'
    BY <1>w, <2>1 DEF LaneFits, WorkerFits, Claiming
  <2> QED
    BY <1>t, <2>1, <2>3, <2>4, OneMoves
<1>9. CASE AcquireRefused(w)
  <2>1. /\ pc[w] = "acquire" /\ pc' = [pc EXCEPT ![w] = "refused"]
        /\ fin' = [fin EXCEPT ![w] = "failed"]
        /\ UNCHANGED <<tasks, results, leases, proc, crashes, avail>>
    BY <1>9 DEF AcquireRefused, Goto, store, world
  <2>2. pc'[w] = "refused"
    BY <1>t, <2>1
  <2>3. WorkerFits(w)'
    BY <1>w, <2>1, <2>2 DEF WorkerFits, Holding, Running, Claiming, Reporting
  <2>4. LaneFits(w[2])'
    BY <1>w, <2>1 DEF LaneFits, WorkerFits, Claiming
  <2> QED
    BY <1>t, <2>1, <2>3, <2>4, OneMoves
<1>10. CASE Renew(w) \/ Touch(w)
  <2>1. PICK step \in Running : pc' = [pc EXCEPT ![w] = step]
    BY <1>10 DEF Renew, Touch, Goto, Running
  <2>2. /\ pc[w] \in Running /\ pc'[w] \in Running
        /\ UNCHANGED <<results, proc, crashes, avail, fin>>
    BY <1>10, <1>t, <2>1 DEF Renew, Touch, Running, world
  <2>3. /\ \A l \in Lanes : l # w[2] => tasks'[l] = tasks[l] /\ leases'[l] = leases[l]
        /\ tasks'[w[2]].status = tasks[w[2]].status
        /\ leases'[w[2]].owner = leases[w[2]].owner
    <3>1. CASE Renew(w)
      <4>1. RenewedLease(leases[w[2]], LeaseTTL).owner = leases[w[2]].owner
        BY <1>0 DEF RenewedLease, LeaseRow
      <4> QED
        BY <1>0, <1>t, <3>1, <4>1 DEF Renew
    <3>2. CASE Touch(w)
      <4>1. TouchedTask(tasks[w[2]]).status = tasks[w[2]].status
        BY <1>0 DEF TouchedTask, WithStatus, TaskRow
      <4> QED
        BY <1>0, <1>t, <3>2, <4>1 DEF Touch
    <3> QED
      BY <1>10, <3>1, <3>2
  <2>4. WorkerFits(w)'
    BY <1>w, <2>2, <2>3 DEF WorkerFits, Holding, Running, Claiming, Reporting
  <2>5. LaneFits(w[2])'
    BY <1>w, <2>2, <2>3 DEF LaneFits, WorkerFits, Claiming
  <2> QED
    BY <2>1, <2>2, <2>3, <2>4, <2>5, OneMoves
<1>11. ASSUME NEW outcome \in {"completed", "failed"}, BodyReturns(w, outcome) PROVE OneInv'
  <2>1. /\ pc[w] \in Running /\ pc' = [pc EXCEPT ![w] = "finish"]
        /\ fin' = [fin EXCEPT ![w] = outcome]
        /\ UNCHANGED <<tasks, results, leases, proc, crashes, avail>>
    BY <1>11 DEF BodyReturns, Goto, store, world, Running
  <2>2. pc'[w] = "finish"
    BY <1>t, <2>1
  <2>3. WorkerFits(w)'
    BY <1>w, <2>1, <2>2 DEF WorkerFits, Holding, Claiming, Running, Reporting
  <2>4. LaneFits(w[2])'
    BY <1>w, <2>1 DEF LaneFits, WorkerFits, Claiming
  <2> QED
    BY <1>t, <2>1, <2>3, <2>4, OneMoves
<1>12. CASE Complete(w)
  <2>1. PICK step \in Reporting : /\ pc' = [pc EXCEPT ![w] = step]
                                  /\ step = "report" => pc[w] \in Holding
    BY <1>12 DEF Complete, Goto, Reporting, Holding
  <2>2. /\ pc[w] \in Claiming /\ pc'[w] = step
        /\ UNCHANGED <<results, leases, proc, crashes, avail>>
    BY <1>12, <1>t, <2>1 DEF Complete, Claiming, world
  <2>3. tasks'[w[2]].status \in {"queued", "reconciliation_needed", fin'[w]}
    <3>1. CASE TaskClaimed(tasks[w[2]])
      <4>1. /\ tasks' = [tasks EXCEPT ![w[2]] = CompletedTask(tasks[w[2]], fin[w])]
            /\ fin' = fin
        BY <1>12, <3>1 DEF Complete
      <4>2. CompletedTask(tasks[w[2]], fin[w]).status = fin[w]
        BY <1>0, TaskRows DEF TaskStatus
      <4> QED
        BY <1>0, <1>t, <4>1, <4>2
    <3>2. CASE ~TaskClaimed(tasks[w[2]])
      BY <1>12, <1>w, <2>2, <3>2 DEF Complete, WorkerFits, TaskClaimed
    <3> QED
      BY <3>1, <3>2
  <2>4. fin'[w] \in {"completed", "failed"}
    BY DEF TypeOK
  <2>5. WorkerFits(w)'
    BY <1>w, <2>1, <2>2, <2>3 DEF WorkerFits, Holding, Running, Claiming, Reporting
  <2>6. LaneFits(w[2])'
    BY <2>1, <2>2, <2>3, <2>4 DEF LaneFits
  <2>7. \A v \in Workers : v # w => fin'[v] = fin[v]
    BY <1>12, <1>t DEF Complete
  <2>8. \A l \in Lanes : l # w[2] => tasks'[l] = tasks[l]
    BY <1>12, <1>t DEF Complete
  <2> QED
    BY <2>1, <2>2, <2>5, <2>6, <2>7, <2>8, OneMoves
<1>13. CASE Report(w)
  <2>1. PICK step \in {"release", "idle"} : /\ pc' = [pc EXCEPT ![w] = step]
                                            /\ step = "release" => pc[w] = "report"
    BY <1>13 DEF Report, Goto, Return
  <2>2. /\ pc[w] \in Reporting /\ pc'[w] = step
        /\ results' = [results EXCEPT ![w[2]] = Result(fin[w], Backoff)]
        /\ proc' = proc \/ proc' = [proc EXCEPT ![w[1]] = "draining"]
        /\ UNCHANGED <<tasks, leases, crashes, avail>>
    BY <1>13, <1>t, <2>1 DEF Report, Reporting, Return, world
  <2>3. results'[w[2]].status = fin[w]
    BY <1>0, <1>t, <2>2 DEF Result
  <2>4. WorkerFits(w)'
    BY <1>w, <2>1, <2>2 DEF WorkerFits, Holding, Running, Claiming, Reporting
  <2>5. LaneFits(w[2])'
    BY <1>0, <1>w, <2>2, <2>3 DEF LaneFits, WorkerFits
  <2>6. \A v \in Workers : v # w => fin'[v] = fin[v]
    BY <1>13, <1>t DEF Report
  <2>7. \A l \in Lanes : l # w[2] => results'[l] = results[l]
    BY <1>t, <2>2
  <2> QED
    BY <2>1, <2>2, <2>4, <2>5, <2>6, <2>7, OneMoves
<1>14. CASE Release(w)
  <2>1. /\ pc[w] = "release" /\ pc' = [pc EXCEPT ![w] = "idle"]
        /\ leases' = [leases EXCEPT ![w[2]] = NoLease]
        /\ fin' = [fin EXCEPT ![w] = "completed"]
        /\ proc' = proc \/ proc' = [proc EXCEPT ![w[1]] = "draining"]
        /\ UNCHANGED <<tasks, results, crashes, avail>>
    BY <1>14 DEF Release, Return, Goto
  <2> QED
    BY <1>t, <2>1, OneReturns DEF Reporting
<1> QED
  BY <1>1, <1>2, <1>3, <1>4, <1>5, <1>6, <1>7, <1>8, <1>9, <1>10, <1>11, <1>12,
     <1>13, <1>14
  DEF Begin, Continue, CycleStep, Body

\* A process that goes away takes its workers with it; a process starts only
\* when there is none.
LEMMA OneProcess ==
  ASSUME OneInv, TypeOK', MaxDaemons = 1, NEW p \in Procs,
         Start(p) \/ Exit(p) \/ Crash(p) \/ Suspend(p) \/ Resume(p)
  PROVE  OneInv'
<1>1. CASE Start(p)
  <2>1. \A q \in Procs : proc[q] = "off"
    <3> SUFFICES ASSUME NEW q \in Procs, proc[q] # "off" PROVE FALSE
      OBVIOUS
    <3>1. {r \in Procs : proc[r] # "off"} = {q}
      BY DEF OneInv, OneUp
    <3>2. Cardinality({q}) = 1
      BY FS_Singleton
    <3> QED
      BY <1>1, <3>1, <3>2 DEF Start
  <2>2. OneUp'
    BY <1>1, <2>1, WorkerParts DEF Start, OneInv, OneUp, TypeOK, local
  <2> QED
    BY <1>1, <2>2 DEF Start, OneInv, WorkerFits, LaneFits, store, local
<1>2. CASE Exit(p)
  <2>1. \A w \in Workers : w[1] = p => pc[w] = "idle"
    BY <1>2 DEF Exit, Workers
  <2>2. OneUp'
    BY <1>2, <2>1, WorkerParts DEF Exit, OneInv, OneUp, TypeOK, local
  <2> QED
    BY <1>2, <2>2 DEF Exit, OneInv, WorkerFits, LaneFits, store, local
<1>3. CASE Crash(p)
  <2>1. /\ proc' = [proc EXCEPT ![p] = "off"] /\ crashes' = crashes + 1 /\ crashes \in Nat
        /\ UNCHANGED <<tasks, leases, results>>
    BY <1>3, LaneWorkerAssumption DEF Crash, store, OneInv, TypeOK
  <2>2. \A w \in Workers : IF w[1] = p THEN pc'[w] = "idle"
                           ELSE /\ pc'[w] = pc[w] /\ avail'[w] = avail[w]
                                /\ fin'[w] = fin[w]
    BY <1>3 DEF Crash
  <2>3. OneUp'
    BY <2>1, <2>2, WorkerParts DEF OneInv, OneUp, TypeOK
  <2>4. ASSUME NEW w \in Workers PROVE WorkerFits(w)'
    <3>1. CASE w[1] = p
      BY <2>2, <3>1 DEF WorkerFits, Holding, Running, Claiming, Reporting
    <3>2. CASE w[1] # p
      BY <2>1, <2>2, <3>2 DEF OneInv, WorkerFits
    <3> QED
      BY <3>1, <3>2
  <2>5. \A l \in Lanes : LaneFits(l)'
    BY <2>1 DEF OneInv, LaneFits
  <2> QED
    BY <2>3, <2>4, <2>5 DEF OneInv
<1>4. CASE Suspend(p) \/ Resume(p)
  BY <1>4 DEF Suspend, Resume, OneInv, OneUp, WorkerFits, LaneFits, store, local
<1> QED
  BY <1>1, <1>2, <1>3, <1>4

\* A repair queues a row that nobody completes, a minute falls between store
\* calls only.
LEMMA OneElse ==
  ASSUME OneInv, TypeOK', Minute \/ \E l \in Lanes : Repair(l)
  PROVE  OneInv'
<1>1. ASSUME NEW l \in Lanes, Repair(l) PROVE OneInv'
  <2>1. /\ tasks[l].status = "reconciliation_needed"
        /\ tasks' = [tasks EXCEPT ![l] = RepairedTask]
        /\ UNCHANGED <<leases, results, proc, crashes, pc, avail, fin>>
    BY <1>1 DEF Repair, TaskRepairable, world, local
  <2>2. /\ tasks'[l].status = "queued"
        /\ \A k \in Lanes : k # l => tasks'[k] = tasks[k]
    BY <2>1 DEF OneInv, TypeOK, RepairedTask, QueuedTask
  <2>3. ASSUME NEW w \in Workers PROVE WorkerFits(w)'
    <3>1. w[2] \in Lanes /\ WorkerFits(w)
      BY WorkerParts DEF OneInv
    <3>2. CASE w[2] = l
      BY <2>1, <2>2, <3>1, <3>2 DEF WorkerFits
    <3>3. CASE w[2] # l
      BY <2>1, <2>2, <3>1, <3>3 DEF WorkerFits
    <3> QED
      BY <3>2, <3>3
  <2>4. ASSUME NEW k \in Lanes PROVE LaneFits(k)'
    BY <2>1, <2>2 DEF OneInv, LaneFits
  <2>5. OneUp'
    BY <2>1 DEF OneInv, OneUp
  <2> QED
    BY <2>3, <2>4, <2>5 DEF OneInv
<1>2. CASE Minute
  <2>1. /\ \A w \in Workers : pc[w] \in Waiting
        /\ UNCHANGED <<proc, crashes, pc, avail, fin>>
    BY <1>2 DEF Minute, Settled, world
  <2>2. ASSUME NEW l \in Lanes
        PROVE  /\ tasks'[l].status = tasks[l].status
               /\ leases'[l].owner = leases[l].owner
               /\ results'[l].status = results[l].status
    <3>1. /\ tasks[l] \in TaskRow /\ leases[l] \in LeaseRow /\ results[l] \in ResultRow
          /\ tasks'[l] = TaskAfterTick(tasks[l]) /\ leases'[l] = LeaseAfterTick(leases[l])
          /\ results'[l] = ResultAfterTick(results[l])
      BY <1>2 DEF Minute, OneInv, TypeOK
    <3>2. TaskAfterTick(tasks[l]).status = tasks[l].status
      BY <3>1, TaskTick
    <3>3. LeaseAfterTick(leases[l]).owner = leases[l].owner
      BY <3>1 DEF LeaseAfterTick, LeaseRow
    <3>4. ResultAfterTick(results[l]).status = results[l].status
      BY <3>1 DEF ResultAfterTick, ResultRow
    <3> QED
      BY <3>1, <3>2, <3>3, <3>4
  <2>3. ASSUME NEW w \in Workers PROVE WorkerFits(w)'
    <3>1. w[2] \in Lanes /\ WorkerFits(w) /\ pc[w] \notin {"enqueue", "claim"}
      BY <2>1, WorkerParts DEF OneInv, Waiting
    <3> QED
      BY <2>1, <2>2, <3>1 DEF WorkerFits
  <2>4. ASSUME NEW l \in Lanes PROVE LaneFits(l)'
    BY <2>1, <2>2 DEF OneInv, LaneFits
  <2>5. OneUp'
    BY <2>1 DEF OneInv, OneUp
  <2> QED
    BY <2>3, <2>4, <2>5 DEF OneInv
<1> QED
  BY <1>1, <1>2

\* A step from a good state leads to a good one.
LEMMA OneStep == MaxDaemons = 1 => (OneInv /\ [Next]_vars => OneInv')
<1> SUFFICES ASSUME MaxDaemons = 1, OneInv, [Next]_vars PROVE OneInv'
  OBVIOUS
<1>1. TypeOK'
  BY TypeStep DEF OneInv
<1>2. ASSUME NEW w \in Workers, Begin(w) \/ Continue(w) \/ Body(w) PROVE OneInv'
  BY <1>1, <1>2, OneCycle DEF Begin, Continue, Body, Awake
<1>3. ASSUME NEW p \in Procs, Start(p) \/ Exit(p) \/ Crash(p) \/ Suspend(p) \/ Resume(p)
      PROVE  OneInv'
  BY <1>1, <1>3, OneProcess
<1>4. CASE Minute \/ \E l \in Lanes : Repair(l)
  BY <1>1, <1>4, OneElse
<1>5. CASE UNCHANGED vars
  BY <1>1, <1>5 DEF OneInv, OneUp, WorkerFits, LaneFits, vars, store, world, local
<1> QED
  BY <1>2, <1>3, <1>4, <1>5 DEF Next

\* With one daemon at a time, every reachable state is a good one.
LEMMA OneHolds == MaxDaemons = 1 => (Spec => []OneInv)
<1> SUFFICES ASSUME MaxDaemons = 1 PROVE Spec => []OneInv
  OBVIOUS
<1>0. OneInv /\ [Next]_vars => OneInv'
  BY OneStep
<1>1. Init => OneInv
  <2> SUFFICES ASSUME Init PROVE OneInv
    OBVIOUS
  <2>1. TypeOK
    BY StateStoreAssumption, LaneWorkerAssumption
    DEF Init, TypeOK, NoTask, TaskRow, TaskStatus, NoLease, LeaseRow, NoResult, ResultRow,
        ResultStatus, Steps
  <2>2. OneUp
    BY WorkerParts DEF Init, OneUp
  <2>3. \A w \in Workers : WorkerFits(w)
    BY DEF Init, WorkerFits, Holding, Running, Claiming, Reporting
  <2>4. \A l \in Lanes : LaneFits(l)
    BY DEF Init, LaneFits, NoTask, NoResult
  <2> QED
    BY <2>1, <2>2, <2>3, <2>4 DEF OneInv
<1> QED
  BY <1>0, <1>1, PTL DEF Spec

\* What a lane's result row says after its cycle: the deferred writes of one
\* daemon put task row and result in agreement until a process is killed,
\* even when an operator repairs the row while the body still runs.
THEOREM ResultsAgreeWithRows == MaxDaemons = 1 => (Spec => []ResultAgreesUntilCrash)
<1>1. OneInv => ResultAgreesUntilCrash
  BY DEF OneInv, LaneFits, ResultAgreesUntilCrash, Settled, Waiting, Reporting
<1> QED
  BY <1>1, OneHolds, PTL

\* RetryBackoff: a lane is claimed only once its latest failure has cooled
\* down, although the row that a repair queues is available at once.
THEOREM FailuresCoolDown == MaxDaemons = 1 => (Spec => BackoffIsApplied)
<1> DEFINE Cooled == \A l \in Lanes :
             tasks[l].status = "queued" /\ tasks'[l].status = "claimed"
               => WaitAfterLatestFailure(results[l]) = 0
<1>1. OneInv /\ [Next]_vars => Cooled
  <2> SUFFICES ASSUME OneInv, [Next]_vars, NEW l \in Lanes,
                      tasks[l].status = "queued", tasks'[l].status = "claimed"
               PROVE  WaitAfterLatestFailure(results[l]) = 0
    OBVIOUS
  <2>0. tasks \in [Lanes -> TaskRow] /\ tasks[l] \in TaskRow /\ results[l] \in ResultRow
    BY DEF OneInv, TypeOK
  <2>1. \E w \in Workers : Claim(w) /\ TaskClaimable(tasks[l]) /\ w[2] = l
    <3>1. ASSUME NEW w \in Workers, NEW k \in Lanes, MarkStale(w, k) PROVE FALSE
      <4>1. ReconciliationNeededTask(tasks[k]).status = "reconciliation_needed"
        BY TaskRows DEF OneInv, TypeOK, TaskStatus
      <4> QED
        BY <2>0, <3>1, <4>1 DEF MarkStale
    <3>2. ASSUME NEW w \in Workers,
                 BeginCycle(w) \/ AfterMarking(w) \/ ReadTask(w) \/ ReadBackoff(w) \/ Acquire(w)
                   \/ AcquireRefused(w) \/ Renew(w) \/ Report(w) \/ Release(w)
                   \/ \E outcome \in {"completed", "failed"} : BodyReturns(w, outcome)
          PROVE  FALSE
      BY <3>2 DEF BeginCycle, AfterMarking, ReadTask, ReadBackoff, Acquire, AcquireRefused,
                  Renew, Report, Release, BodyReturns, store
    <3>3. ASSUME NEW w \in Workers, Enqueue(w) \/ Touch(w) \/ Complete(w) PROVE FALSE
      <4>1. w[2] \in Lanes /\ tasks[w[2]] \in TaskRow /\ fin[w] \in {"completed", "failed"}
            /\ avail[w] \in Nat
        BY WorkerParts DEF OneInv, TypeOK
      <4>2. /\ QueuedTask(avail[w]).status = "queued"
            /\ TouchedTask(tasks[w[2]]).status = tasks[w[2]].status
            /\ CompletedTask(tasks[w[2]], fin[w]).status = fin[w]
        BY <4>1, TaskRows DEF TaskStatus
      <4> QED
        BY <2>0, <3>3, <4>1, <4>2 DEF Enqueue, Touch, Complete
    <3>4. ASSUME NEW k \in Lanes, Repair(k) PROVE FALSE
      BY <2>0, <3>4 DEF Repair, RepairedTask, QueuedTask
    <3>5. ASSUME NEW p \in Procs, Start(p) \/ Exit(p) \/ Crash(p) \/ Suspend(p) \/ Resume(p)
          PROVE  FALSE
      BY <3>5 DEF Start, Exit, Crash, Suspend, Resume, store
    <3>6. ~Minute
      BY <2>0, TaskTick DEF Minute
    <3>7. PICK w \in Workers : Claim(w)
      BY <3>1, <3>2, <3>3, <3>4, <3>5, <3>6
      DEF Next, Begin, Continue, Body, CycleStep, vars, store
    <3> QED
      BY <2>0, <3>7 DEF Claim
  <2>2. PICK w \in Workers : Claim(w) /\ TaskClaimable(tasks[l]) /\ w[2] = l
    BY <2>1
  <2>3. /\ WaitAfterLatestFailure(results[l]) <= tasks[l].wait
        /\ tasks[l].wait = 0 /\ WaitAfterLatestFailure(results[l]) \in Nat
    BY <2>0, <2>2 DEF Claim, TaskClaimable, OneInv, WorkerFits, WaitAfterLatestFailure, ResultRow
  <2> QED
    BY <2>3
<1>2. Cooled <=> \A l \in Lanes :
        tasks[l].status = "queued" /\ tasks'[l].status = "claimed"
          => WaitAfterLatestFailure(results[l]) = 0
  OBVIOUS
<1> HIDE DEF Cooled
<1>3. MaxDaemons = 1 => (Spec => [][Cooled]_vars)
  BY <1>1, OneHolds, PTL DEF Spec
<1> QED
  BY <1>2, <1>3, PTL DEF BackoffIsApplied

\* renewWorkerTaskSupervision renews by the lease's name alone.  What it renews
\* is its own process's lease if there is one daemon at a time, or if no host
\* sleeps and repairs wait for the cycles.
THEOREM RenewalsAreOfOwnLeases ==
  MaxDaemons = 1 \/ (~MaySuspend /\ ~RepairAnytime) => (Spec => RenewsOwnLease)
<1> DEFINE Owned == \A w \in Workers : pc[w] \in Holding => leases[w[2]].owner = w[1]
           Renewed == \A w \in Workers :
             pc[w] = "run" /\ pc'[w] = "touch" => leases[w[2]].owner = w[1]
<1>1. OneInv => Owned
  BY DEF OneInv, WorkerFits
<1>2. IInv => Owned
  BY DEF IInv, LeaseIsOwned
<1>3. Owned => Renewed
  BY DEF Holding, Running
<1>4. Renewed <=> \A w \in Workers :
        pc[w] = "run" /\ pc'[w] = "touch" => leases[w[2]].owner = w[1]
  OBVIOUS
<1> HIDE DEF Owned, Renewed
<1>5. MaxDaemons = 1 \/ (~MaySuspend /\ ~RepairAnytime) => (Spec => [][Renewed]_vars)
  BY <1>1, <1>2, <1>3, OneHolds, InvHolds, PTL DEF Spec
<1> QED
  BY <1>4, <1>5, PTL DEF RenewsOwnLease

----------------------------------------------------------------------------
(* Rows out of service.  Whether or not a host sleeps, a row is written by  *)
(* few statements, and only UpsertWorkerTask writes without looking at what *)
(* is there.  So a row that waits for an operator is safe if no cycle is    *)
(* about to enqueue over it.                                                *)

\* What a step does to a row, and who does it.
LEMMA RowStep ==
  ASSUME TypeOK, [Next]_vars, NEW l \in Lanes
  PROVE  \/ tasks'[l] = tasks[l]
         \/ \E w \in Workers :
              w[2] = l /\ Awake(w) /\ Enqueue(w) /\ tasks'[l] = QueuedTask(avail[w])
         \/ \E w \in Workers :
              /\ w[2] = l /\ Awake(w) /\ Claim(w)
              /\ TaskClaimable(tasks[l]) /\ tasks'[l] = ClaimedTask(tasks[l])
         \/ /\ TaskClaimed(tasks[l])
            /\ \/ tasks'[l] = ReconciliationNeededTask(tasks[l])
               \/ tasks'[l] = TouchedTask(tasks[l])
               \/ \E w \in Workers : tasks'[l] = CompletedTask(tasks[l], fin[w])
         \/ Repair(l) /\ tasks'[l] = RepairedTask
         \/ tasks'[l] = TaskAfterTick(tasks[l])
<1>0. \A k \in Lanes : \A row : tasks' = [tasks EXCEPT ![k] = row] =>
        tasks'[l] = IF l = k THEN row ELSE tasks[l]
  BY DEF TypeOK
<1>1. ASSUME NEW w \in Workers, NEW k \in Lanes, MarkStale(w, k)
      PROVE  \/ tasks'[l] = tasks[l]
             \/ TaskClaimed(tasks[l]) /\ tasks'[l] = ReconciliationNeededTask(tasks[l])
  BY <1>0, <1>1 DEF MarkStale
<1>2. ASSUME NEW w \in Workers,
             BeginCycle(w) \/ AfterMarking(w) \/ ReadTask(w) \/ ReadBackoff(w) \/ Acquire(w)
               \/ AcquireRefused(w) \/ Renew(w) \/ Report(w) \/ Release(w)
               \/ \E outcome \in {"completed", "failed"} : BodyReturns(w, outcome)
      PROVE  tasks'[l] = tasks[l]
  BY <1>2 DEF BeginCycle, AfterMarking, ReadTask, ReadBackoff, Acquire, AcquireRefused,
              Renew, Report, Release, BodyReturns, store
<1>3. ASSUME NEW w \in Workers, Enqueue(w)
      PROVE  tasks'[l] = tasks[l] \/ (w[2] = l /\ tasks'[l] = QueuedTask(avail[w]))
  BY <1>0, <1>3, WorkerParts DEF Enqueue
<1>4. ASSUME NEW w \in Workers, Claim(w)
      PROVE  \/ tasks'[l] = tasks[l]
             \/ /\ w[2] = l
                /\ TaskClaimable(tasks[l]) /\ tasks'[l] = ClaimedTask(tasks[l])
  <2>1. \/ UNCHANGED tasks
        \/ /\ TaskClaimable(tasks[w[2]])
           /\ tasks' = [tasks EXCEPT ![w[2]] = ClaimedTask(tasks[w[2]])]
    BY <1>4 DEF Claim
  <2>2. CASE l = w[2]
    BY <1>0, <2>1, <2>2, WorkerParts
  <2>3. CASE l # w[2]
    BY <1>0, <2>1, <2>3, WorkerParts
  <2> QED
    BY <2>2, <2>3
<1>5. ASSUME NEW w \in Workers, Touch(w) \/ Complete(w)
      PROVE  \/ tasks'[l] = tasks[l]
             \/ /\ TaskClaimed(tasks[l])
                /\ \/ tasks'[l] = TouchedTask(tasks[l])
                   \/ tasks'[l] = CompletedTask(tasks[l], fin[w])
  BY <1>0, <1>5, WorkerParts DEF Touch, Complete
<1>6. ASSUME NEW w \in Workers, Begin(w) \/ Continue(w) \/ Body(w)
      PROVE  Awake(w) /\ (BeginCycle(w) \/ CycleStep(w)
                            \/ \E outcome \in {"completed", "failed"} : BodyReturns(w, outcome))
  BY <1>6 DEF Begin, Continue, Body
<1>7. ASSUME NEW p \in Procs, Start(p) \/ Exit(p) \/ Crash(p) \/ Suspend(p) \/ Resume(p)
      PROVE  tasks'[l] = tasks[l]
  BY <1>7 DEF Start, Exit, Crash, Suspend, Resume, store
<1>8. ASSUME NEW k \in Lanes, Repair(k)
      PROVE  tasks'[l] = tasks[l] \/ (Repair(l) /\ tasks'[l] = RepairedTask)
  BY <1>0, <1>8 DEF Repair
<1>9. CASE Minute
  BY <1>9 DEF Minute
<1>10. CASE UNCHANGED vars
  BY <1>10 DEF vars, store
<1>11. ASSUME NEW w \in Workers, Awake(w),
              BeginCycle(w) \/ CycleStep(w)
                \/ \E outcome \in {"completed", "failed"} : BodyReturns(w, outcome)
       PROVE  \/ tasks'[l] = tasks[l]
              \/ w[2] = l /\ Awake(w) /\ Enqueue(w) /\ tasks'[l] = QueuedTask(avail[w])
              \/ /\ w[2] = l /\ Awake(w) /\ Claim(w)
                 /\ TaskClaimable(tasks[l]) /\ tasks'[l] = ClaimedTask(tasks[l])
              \/ /\ TaskClaimed(tasks[l])
                 /\ \/ tasks'[l] = ReconciliationNeededTask(tasks[l])
                    \/ tasks'[l] = TouchedTask(tasks[l])
                    \/ tasks'[l] = CompletedTask(tasks[l], fin[w])
  BY <1>1, <1>2, <1>3, <1>4, <1>5, <1>11 DEF CycleStep
<1>12. ASSUME NEW w \in Workers, Begin(w) \/ Continue(w) \/ Body(w)
       PROVE  \/ tasks'[l] = tasks[l]
              \/ w[2] = l /\ Awake(w) /\ Enqueue(w) /\ tasks'[l] = QueuedTask(avail[w])
              \/ /\ w[2] = l /\ Awake(w) /\ Claim(w)
                 /\ TaskClaimable(tasks[l]) /\ tasks'[l] = ClaimedTask(tasks[l])
              \/ /\ TaskClaimed(tasks[l])
                 /\ \/ tasks'[l] = ReconciliationNeededTask(tasks[l])
                    \/ tasks'[l] = TouchedTask(tasks[l])
                    \/ tasks'[l] = CompletedTask(tasks[l], fin[w])
  BY <1>6, <1>11, <1>12
<1> QED
  BY <1>7, <1>8, <1>9, <1>10, <1>12 DEF Next

\* Only a queued row waits and only a claim ages, whatever happens to hosts
\* and daemons.
LEMMA ShapeHolds == Spec => [](TypeOK /\ RowShape)
<1>1. TypeOK /\ RowShape /\ [Next]_vars => TypeOK' /\ RowShape'
  <2> SUFFICES ASSUME TypeOK, RowShape, [Next]_vars, NEW l \in Lanes
               PROVE  /\ tasks'[l].wait > 0 => tasks'[l].status = "queued"
                      /\ tasks'[l].age > 0 => tasks'[l].status = "claimed"
    BY TypeStep DEF RowShape
  <2>0. /\ tasks[l] \in TaskRow /\ tasks[l].wait \in Nat
        /\ tasks[l].wait > 0 => tasks[l].status = "queued"
        /\ tasks[l].age > 0 => tasks[l].status = "claimed"
    BY DEF TypeOK, TaskRow, RowShape
  <2>1. ASSUME NEW w \in Workers, tasks'[l] = QueuedTask(avail[w])
        PROVE  tasks'[l].status = "queued" /\ tasks'[l].age = 0
    BY <2>1 DEF QueuedTask
  <2>2. CASE TaskClaimable(tasks[l]) /\ tasks'[l] = ClaimedTask(tasks[l])
    <3>1. tasks'[l].wait = 0 /\ tasks'[l].status = "claimed"
      BY <2>0, <2>2, TaskRows DEF TaskClaimable, TaskStatus
    <3> QED
      BY <3>1
  <2>3. ASSUME TaskClaimed(tasks[l]),
               \/ tasks'[l] = ReconciliationNeededTask(tasks[l])
               \/ tasks'[l] = TouchedTask(tasks[l])
               \/ \E w \in Workers : tasks'[l] = CompletedTask(tasks[l], fin[w])
        PROVE  tasks'[l].wait = 0 /\ tasks'[l].age = 0
    <3>1. tasks[l].wait = 0
      BY <2>0, <2>3 DEF TaskClaimed
    <3>2. \A w \in Workers : fin[w] \in TaskStatus
      BY DEF TypeOK, TaskStatus
    <3> QED
      BY <2>0, <2>3, <3>1, <3>2, TaskRows DEF TaskStatus
  <2>4. CASE tasks'[l] = RepairedTask
    BY <2>4 DEF RepairedTask, QueuedTask
  <2>5. CASE tasks'[l] = TaskAfterTick(tasks[l])
    <3>1. /\ tasks'[l].status = tasks[l].status
          /\ tasks'[l].wait = IF tasks[l].wait > 0 THEN tasks[l].wait - 1 ELSE 0
          /\ tasks[l].status # "claimed" => tasks'[l].age = 0
      BY <2>0, <2>5, TaskTick
    <3> QED
      BY <2>0, <3>1
  <2> QED
    BY <2>0, <2>1, <2>2, <2>3, <2>4, <2>5, RowStep
<1>2. Init => TypeOK /\ RowShape
  BY InvInit DEF IInv
<1> QED
  BY <1>1, <1>2, PTL DEF Spec

\* No cycle is about to enqueue over a row that is claimed or waits for an
\* operator.
InService ==
  \A w \in Workers : pc[w] \in {"backoff", "enqueue"} => ~LeaveAlone(tasks[w[2]].status)

\* A worker on its way to the enqueue was on it before, or has just read a row
\* that nobody claims.
LEMMA OnTheWay ==
  ASSUME TypeOK, [Next]_vars, NEW v \in Workers, pc'[v] \in {"backoff", "enqueue"}
  PROVE  \/ pc[v] \in {"backoff", "enqueue"}
         \/ ~LeaveAlone(tasks[v[2]].status) /\ UNCHANGED tasks
<1> DEFINE Way == {"backoff", "enqueue"}
<1>0. \A w \in Workers : \A step : pc' = [pc EXCEPT ![w] = step] =>
        pc'[v] = IF v = w THEN step ELSE pc[v]
  BY DEF TypeOK
<1>1. ASSUME NEW w \in Workers, NEW step, Goto(w, step), step \notin Way PROVE pc[v] \in Way
  BY <1>0, <1>1 DEF Goto
<1>2. ASSUME NEW w \in Workers, NEW failed, Return(w, failed) PROVE pc[v] \in Way
  BY <1>0, <1>2 DEF Return, Goto
<1>3. ASSUME NEW w \in Workers, BeginCycle(w) \/ AfterMarking(w) PROVE pc[v] \in Way
  <2>1. \/ \E failed \in BOOLEAN : Return(w, failed)
        \/ \E step \in {"read", "mark"} : Goto(w, step)
    BY <1>3 DEF BeginCycle, AfterMarking
  <2> QED
    BY <1>1, <1>2, <2>1
<1>4. ASSUME NEW w \in Workers, NEW l \in Lanes, MarkStale(w, l) PROVE pc[v] \in Way
  BY <1>1, <1>4 DEF MarkStale
<1>5. ASSUME NEW w \in Workers, ReadTask(w)
      PROVE  pc[v] \in Way \/ (~LeaveAlone(tasks[v[2]].status) /\ UNCHANGED tasks)
  BY <1>0, <1>2, <1>5 DEF ReadTask, Goto, store
<1>6. ASSUME NEW w \in Workers, ReadBackoff(w) PROVE pc[v] \in Way
  BY <1>0, <1>6 DEF ReadBackoff, Goto
<1>7. ASSUME NEW w \in Workers,
             Enqueue(w) \/ Claim(w) \/ Acquire(w) \/ AcquireRefused(w) \/ Renew(w) \/ Touch(w)
               \/ \E outcome \in {"completed", "failed"} : BodyReturns(w, outcome)
      PROVE  pc[v] \in Way
  <2>1. \/ Return(w, FALSE)
        \/ \E step \in {"claim", "acquire", "run", "refused", "touch", "cancelling", "finish"} :
             Goto(w, step)
    BY <1>7 DEF Enqueue, Claim, Acquire, AcquireRefused, Renew, Touch, BodyReturns
  <2> QED
    BY <1>1, <1>2, <2>1
<1>8. ASSUME NEW w \in Workers, Complete(w) \/ Report(w) \/ Release(w) PROVE pc[v] \in Way
  <2>1. \/ \E failed \in BOOLEAN : Return(w, failed)
        \/ \E step \in {"report", "refused_report", "release"} : Goto(w, step)
    BY <1>8 DEF Complete, Report, Release
  <2> QED
    BY <1>1, <1>2, <2>1
<1>9. ASSUME NEW p \in Procs, Start(p) \/ Exit(p) \/ Crash(p) \/ Suspend(p) \/ Resume(p)
      PROVE  pc[v] \in Way
  BY <1>9 DEF Start, Exit, Crash, Suspend, Resume, local
<1>10. CASE Minute \/ (\E l \in Lanes : Repair(l)) \/ UNCHANGED vars
  BY <1>10 DEF Minute, Repair, vars, local
<1>11. ASSUME NEW w \in Workers, Begin(w) \/ Continue(w) \/ Body(w)
       PROVE  pc[v] \in Way \/ (~LeaveAlone(tasks[v[2]].status) /\ UNCHANGED tasks)
  BY <1>3, <1>4, <1>5, <1>6, <1>7, <1>8, <1>11 DEF Begin, Continue, Body, CycleStep
<1> QED
  BY <1>9, <1>10, <1>11 DEF Next

\* With one daemon at a time the row a cycle has read stays in service until it
\* is enqueued: a recovery marks claims only, and nobody else claims it.
LEMMA ServiceHolds == MaxDaemons = 1 => (Spec => []InService)
<1> SUFFICES ASSUME MaxDaemons = 1 PROVE Spec => []InService
  OBVIOUS
<1>1. OneInv /\ InService /\ [Next]_vars => InService'
  <2> SUFFICES ASSUME OneInv, InService, [Next]_vars,
                      NEW v \in Workers, pc'[v] \in {"backoff", "enqueue"}
               PROVE  ~LeaveAlone(tasks'[v[2]].status)
    BY DEF InService, LeaveAlone
  <2>0. v[2] \in Lanes /\ TypeOK /\ tasks[v[2]] \in TaskRow
    BY WorkerParts DEF OneInv, TypeOK
  <2>1. CASE ~LeaveAlone(tasks[v[2]].status) /\ UNCHANGED tasks
    BY <2>1
  <2>2. CASE pc[v] \in {"backoff", "enqueue"}
    <3>1. ~LeaveAlone(tasks[v[2]].status)
      BY <2>2 DEF InService
    <3>2. ASSUME NEW w \in Workers, w[2] = v[2], Awake(w), Enqueue(w) \/ Claim(w)
          PROVE  FALSE
      <4>1. v = w
        BY <2>2, <3>2, AloneInItsLane DEF Awake
      <4>2. pc'[w] \in {"claim", "acquire", "idle"}
        BY <2>0, <3>2 DEF Enqueue, Claim, Return, Goto, TypeOK
      <4> QED
        BY <4>1, <4>2
    <3>3. TaskAfterTick(tasks[v[2]]).status = tasks[v[2]].status
      BY <2>0, TaskTick
    <3>4. ~TaskClaimed(tasks[v[2]]) /\ ~Repair(v[2])
      BY <3>1 DEF LeaveAlone, TaskClaimed, Repair, TaskRepairable
    <3>5. tasks'[v[2]] \in {tasks[v[2]], TaskAfterTick(tasks[v[2]])}
      BY <2>0, <3>2, <3>4, RowStep
    <3> QED
      BY <3>1, <3>3, <3>5
  <2> QED
    BY <2>0, <2>1, <2>2, OnTheWay
<1>2. Init => InService
  BY DEF Init, InService
<1> QED
  BY <1>1, <1>2, OneHolds, PTL DEF Spec

\* A row that needs reconciliation stays exactly as it is until the operator
\* repairs it: no enqueue, claim or completion touches it.  It needs one daemon
\* at a time, whatever its host does, or hosts that do not sleep and repairs
\* that wait for the cycles.
THEOREM BlockedRowsStay ==
  MaxDaemons = 1 \/ (~MaySuspend /\ ~RepairAnytime) => (Spec => BlockedUntilRepair)
<1> DEFINE Spared == \A w \in Workers :
             pc[w] = "enqueue" => tasks[w[2]].status # "reconciliation_needed"
           Stays == \A l \in Lanes :
             tasks[l].status = "reconciliation_needed" /\ tasks'[l] # tasks[l] => Repair(l)
<1>1. IInv => Spared
  BY DEF IInv, EarlyRow, Early
<1>2. InService => Spared
  BY DEF InService, LeaveAlone
<1>3. TypeOK /\ RowShape /\ Spared /\ [Next]_vars => Stays
  <2> SUFFICES ASSUME TypeOK, RowShape, Spared, [Next]_vars, NEW l \in Lanes,
                      tasks[l].status = "reconciliation_needed", tasks'[l] # tasks[l]
               PROVE  Repair(l)
    OBVIOUS
  <2>1. \A w \in Workers : w[2] = l => ~Enqueue(w)
    BY DEF Enqueue
  <2>2. ~TaskClaimable(tasks[l]) /\ ~TaskClaimed(tasks[l])
    BY DEF TaskClaimable, TaskClaimed
  <2>3. TaskAfterTick(tasks[l]) = tasks[l]
    <3>1. tasks[l] \in TaskRow /\ tasks[l].wait \in Nat /\ tasks[l].age \in Nat
      BY DEF TypeOK, TaskRow
    <3>2. tasks[l].wait = 0 /\ tasks[l].age = 0
      BY <3>1 DEF RowShape
    <3>3. TaskAfterTick(tasks[l]) = [tasks[l] EXCEPT !.wait = tasks[l].wait, !.age = tasks[l].age]
      BY <3>2 DEF TaskAfterTick
    <3> QED
      BY <3>1, <3>3 DEF TaskRow
  <2> QED
    BY <2>1, <2>2, <2>3, RowStep
<1>4. Stays <=> \A l \in Lanes :
        tasks[l].status = "reconciliation_needed" /\ tasks'[l] # tasks[l] => Repair(l)
  OBVIOUS
<1> HIDE DEF Spared, Stays
<1>5. MaxDaemons = 1 \/ (~MaySuspend /\ ~RepairAnytime) => (Spec => [][Stays]_vars)
  BY <1>1, <1>2, <1>3, ShapeHolds, InvHolds, ServiceHolds, PTL DEF Spec
<1> QED
  BY <1>4, <1>5, PTL DEF BlockedUntilRepair

=============================================================================
