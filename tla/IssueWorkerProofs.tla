-------------------------- MODULE IssueWorkerProofs --------------------------
(* Theorems about IssueWorker, for any issues, workers, batches and bounds: *)
(* types and one attempt per issue whatever the lanes, and what rows and    *)
(* batches keep as long as each kind of worker is a body of one lane.       *)
EXTENDS IssueWorker, StateStoreProofs, TLAPS

----------------------------------------------------------------------------
(* The run locks.                                                          *)

\* The part of TypeOK the run locks depend on.
LocksAndAttempts ==
  /\ lock \in [Issues -> Implementers \cup {NoPick}]
  /\ att \in [Implementers -> [Issues -> AttemptSteps]]

\* A killed process has no attempts, so whoever takes its run lock over takes it
\* from nobody at work.
DeadAttemptNothing ==
  \A w \in Implementers, i \in Issues : ~Live(w) => att[w][i] = "none"

IInv == LocksAndAttempts /\ DeadAttemptNothing /\ OneAttemptPerIssue

LEMMA InitInv == Init => IInv
  BY DEF Init, IInv, LocksAndAttempts, AttemptSteps, DeadAttemptNothing, OneAttemptPerIssue

\* A step that leaves locks, attempts and processes alone.
LEMMA Elsewhere == IInv /\ UNCHANGED <<lock, att, dead>> => IInv'
  BY DEF IInv, LocksAndAttempts, DeadAttemptNothing, OneAttemptPerIssue, Live

\* A worker takes an issue's lock from nobody or from a dead process.
LEMMA AcquireLockInv ==
  ASSUME IInv, NEW w \in Implementers, Live(w), AcquireLock(w)
  PROVE  IInv'
<1> DEFINE i == pick[w]
<1>1. CASE UNCHANGED <<lock, att>>
  BY <1>1, Elsewhere DEF AcquireLock
<1>2. CASE /\ lock[i] = NoPick \/ ~Live(lock[i])
           /\ lock' = [lock EXCEPT ![i] = w]
           /\ Move(w, i, "held")
  <2>1. dead' = dead
    BY DEF AcquireLock
  <2>2. LocksAndAttempts'
    BY <1>2 DEF IInv, LocksAndAttempts, Move, AttemptSteps
  <2>3. DeadAttemptNothing'
    BY <1>2, <2>1 DEF IInv, DeadAttemptNothing, LocksAndAttempts, Live, Move
  <2>4. ASSUME NEW v \in Implementers, NEW j \in Issues, att'[v][j] \in {"held", "unlock"}
        PROVE  lock'[j] = v
    <3>1. CASE j # i
      BY <1>2, <2>4, <3>1 DEF IInv, LocksAndAttempts, OneAttemptPerIssue, Move
    <3>2. CASE j = i /\ v = w
      BY <1>2, <3>2 DEF IInv, LocksAndAttempts
    <3>3. CASE j = i /\ v # w
      <4>1. att[v][j] \in {"held", "unlock"}
        BY <1>2, <2>4, <3>3 DEF IInv, LocksAndAttempts, Move
      <4>2. lock[i] = v /\ Live(v)
        BY <4>1, <3>3 DEF IInv, OneAttemptPerIssue, DeadAttemptNothing
      <4>3. v # NoPick
        BY IssueWorkerAssumption
      <4> QED
        BY <1>2, <4>2, <4>3
    <3> QED
      BY <3>1, <3>2, <3>3
  <2> QED
    BY <2>2, <2>3, <2>4 DEF IInv, OneAttemptPerIssue
<1> QED
  BY <1>1, <1>2 DEF AcquireLock

\* An attempt gives its lock back: the lock was its own.
LEMMA GiveBackInv ==
  ASSUME IInv, NEW w \in Implementers, NEW i \in Issues, NEW step \in {"none", "complete"},
         att[w][i] \in {"held", "unlock"},
         lock' = [lock EXCEPT ![i] = NoPick],
         Move(w, i, step), dead' = dead
  PROVE  IInv'
<1>1. LocksAndAttempts'
  BY DEF IInv, LocksAndAttempts, Move, AttemptSteps
<1>2. Live(w)
  BY DEF IInv, DeadAttemptNothing
<1>3. DeadAttemptNothing'
  BY <1>2 DEF IInv, DeadAttemptNothing, LocksAndAttempts, Live, Move
<1>4. lock[i] = w
  BY DEF IInv, OneAttemptPerIssue
<1>5. ASSUME NEW v \in Implementers, NEW j \in Issues, att'[v][j] \in {"held", "unlock"}
      PROVE  lock'[j] = v
  <2>1. att[v][j] = att'[v][j]
    BY <1>5 DEF IInv, LocksAndAttempts, Move
  <2>2. lock[j] = v
    BY <1>5, <2>1 DEF IInv, OneAttemptPerIssue
  <2>3. j # i
    BY <1>4, <1>5, <2>1, <2>2 DEF IInv, LocksAndAttempts, Move
  <2> QED
    BY <2>2, <2>3 DEF IInv, LocksAndAttempts
<1> QED
  BY <1>1, <1>3, <1>5 DEF IInv, OneAttemptPerIssue

\* An attempt moves on and the locks stay.
LEMMA MoveOnInv ==
  ASSUME IInv, NEW w \in Implementers, NEW i \in Issues, Live(w),
         NEW step \in AttemptSteps \ {"held"},
         step = "unlock" => att[w][i] = "held",
         Move(w, i, step), UNCHANGED <<lock, dead>>
  PROVE  IInv'
<1>1. LocksAndAttempts'
  BY DEF IInv, LocksAndAttempts, Move
<1>2. DeadAttemptNothing'
  BY DEF IInv, DeadAttemptNothing, LocksAndAttempts, Live, Move
<1>3. OneAttemptPerIssue'
  BY DEF IInv, OneAttemptPerIssue, LocksAndAttempts, Move
<1> QED
  BY <1>1, <1>2, <1>3 DEF IInv

LEMMA WorkInv ==
  ASSUME IInv, NEW w \in Implementers, Work(w)
  PROVE  IInv'
<1> USE DEF Work
<1>1. CASE Claims(w)
  <2>1. CASE ClaimOwn(w) \/ ClaimNothing(w) \/ Take(w)
    BY <2>1, Elsewhere DEF ClaimOwn, ClaimNothing, Take
  <2>2. CASE \E i \in Issues : ClaimNext(w, i)
    BY <2>2, Elsewhere DEF ClaimNext
  <2>3. CASE \E v \in Implementers : ClaimOwnRowOf(w, v)
    BY <2>3, Elsewhere DEF ClaimOwnRowOf
  <2>4. CASE Prepare(w) \/ Complete(w) \/ Report(w)
    BY <2>4, Elsewhere DEF Prepare, Complete, Report
  <2>5. CASE AcquireLock(w)
    BY <2>5, AcquireLockInv
  <2>6. CASE \E i \in Issues : ReleaseClaim(w, i)
    BY <2>6, GiveBackInv DEF ReleaseClaim
  <2> QED
    BY <1>1, <2>1, <2>2, <2>3, <2>4, <2>5, <2>6 DEF Claims
<1>2. CASE Attempts(w)
  <2>1. CASE \E i \in Issues, fails \in BOOLEAN : AttemptEnds(w, i, fails)
    <3>1. PICK i \in Issues, fails \in BOOLEAN : AttemptEnds(w, i, fails)
      BY <2>1
    <3> QED
      BY <3>1, MoveOnInv DEF AttemptEnds, AttemptSteps
  <2>2. CASE \E i \in Issues : Unlock(w, i)
    BY <2>2, GiveBackInv DEF Unlock
  <2>3. CASE \E i \in Issues : CompleteAttempt(w, i)
    <3>1. PICK i \in Issues : CompleteAttempt(w, i)
      BY <2>3
    <3> QED
      BY <3>1, MoveOnInv DEF CompleteAttempt, AttemptSteps
  <2>4. CASE \E i \in Issues : ReportAttempt(w, i)
    <3>1. PICK i \in Issues : ReportAttempt(w, i)
      BY <2>4
    <3> QED
      BY <3>1, MoveOnInv DEF ReportAttempt, AttemptSteps
  <2>5. CASE EndBatch(w)
    BY <2>5, Elsewhere DEF EndBatch
  <2> QED
    BY <1>2, <2>1, <2>2, <2>3, <2>4, <2>5 DEF Attempts
<1> QED
  BY <1>1, <1>2

LEMMA CrashInv ==
  ASSUME IInv, NEW p \in Procs, Crash(p)
  PROVE  IInv'
<1>1. ASSUME NEW w \in Implementers, NEW i \in Issues
      PROVE  att'[w][i] = IF ProcOf[w] = p THEN "none" ELSE att[w][i]
  BY <1>1 DEF Crash
<1>2. LocksAndAttempts'
  BY DEF Crash, IInv, LocksAndAttempts, AttemptSteps
<1>3. DeadAttemptNothing'
  BY <1>1 DEF Crash, IInv, DeadAttemptNothing, Live
<1>4. OneAttemptPerIssue'
  BY <1>1 DEF Crash, IInv, OneAttemptPerIssue
<1> QED
  BY <1>2, <1>3, <1>4 DEF IInv

\* Only a dead holder's lease runs out, and no attempt of it is left.
LEMMA LeaseExpiresInv ==
  ASSUME IInv, NEW i \in Issues, LeaseExpires(i)
  PROVE  IInv'
<1>1. LocksAndAttempts' /\ DeadAttemptNothing'
  BY DEF LeaseExpires, IInv, LocksAndAttempts, DeadAttemptNothing, Live
<1>2. ASSUME NEW v \in Implementers, NEW j \in Issues, att'[v][j] \in {"held", "unlock"}
      PROVE  lock'[j] = v
  <2>1. lock[j] = v /\ Live(v)
    BY <1>2 DEF LeaseExpires, IInv, OneAttemptPerIssue, DeadAttemptNothing
  <2> QED
    BY <2>1 DEF LeaseExpires, IInv, LocksAndAttempts
<1> QED
  BY <1>1, <1>2 DEF IInv, OneAttemptPerIssue

LEMMA NextInv == IInv /\ [Next]_vars => IInv'
<1> SUFFICES ASSUME IInv, [Next]_vars PROVE IInv'
  OBVIOUS
<1>1. CASE \E w \in Workers : Plan(w)
  BY <1>1, Elsewhere
  DEF Plan, Schedule, Select, SelectNone, ReadRow, ReadBackoff, Upsert
<1>2. CASE \E w \in Implementers : Begin(w)
  BY <1>2, Elsewhere DEF Begin, Open
<1>3. CASE \E w \in Implementers : Work(w)
  BY <1>3, WorkInv
<1>4. CASE Recover
  BY <1>4, Elsewhere DEF Recover, FindStale, MarkStale
<1>5. CASE \E i \in Issues : Repair(i)
  BY <1>5, Elsewhere DEF Repair
<1>6. CASE \E i \in Issues : LeaseExpires(i)
  BY <1>6, LeaseExpiresInv
<1>7. CASE \E p \in Procs : Crash(p)
  BY <1>7, CrashInv
<1>8. CASE Minute
  BY <1>8, Elsewhere DEF Minute
<1>9. CASE UNCHANGED vars
  BY <1>9, Elsewhere DEF vars
<1> QED
  BY <1>1, <1>2, <1>3, <1>4, <1>5, <1>6, <1>7, <1>8, <1>9 DEF Next

\* An issue has one attempt at a time (acquireRunLockWithStateContext,
\* executeClaimedRunAttempt), for any number of daemons and `am worker
\* implementation` processes, whatever dispatch, recovery and repair do to the
\* issue's row.
THEOREM OneAttempt == Spec => []OneAttemptPerIssue
<1>1. IInv => OneAttemptPerIssue
  BY DEF IInv
<1> QED
  BY InitInv, NextInv, <1>1, PTL DEF Spec

----------------------------------------------------------------------------
(* The run lock of an issue as LockContract has it.                        *)

\* Those at work under the lock of an issue, and the process on record.
Holders(i) == {w \in Implementers : att[w][i] \in {"held", "unlock"}}
Record(i) == IF lock[i] = NoPick THEN NoProc ELSE ProcOf[lock[i]]

\* A step of the contract, or one that it does not see.
LockStep(i) == [RunLockOf(i)!Next]_(RunLockOf(i)!vars)

\* What leaves the holders, the record and the dead of an issue as they are.
LEMMA LockUnseen ==
  ASSUME NEW i \in Issues, Holders(i)' = Holders(i), Record(i)' = Record(i), dead' = dead
  PROVE  LockStep(i)
BY DEF LockStep, RunLockOf!vars, Holders, Record

\* What leaves locks, attempts and processes alone.
LEMMA LockElsewhere ==
  ASSUME NEW i \in Issues, UNCHANGED <<lock, att, dead>>
  PROVE  LockStep(i)
BY LockUnseen DEF Holders, Record

\* An attempt moves on, and holds the lock after it if it did before.
LEMMA LockMoveOn ==
  ASSUME IInv, NEW i \in Issues, NEW w \in Implementers, NEW j \in Issues, NEW step,
         Move(w, j, step), UNCHANGED <<lock, dead>>,
         step \in {"held", "unlock"} <=> att[w][j] \in {"held", "unlock"}
  PROVE  LockStep(i)
<1>1. \A v \in Implementers :
        att'[v][i] = IF v = w /\ i = j THEN step ELSE att[v][i]
  BY DEF IInv, LocksAndAttempts, Move
<1>2. Holders(i)' = Holders(i)
  BY <1>1 DEF Holders
<1> QED
  BY <1>2, LockUnseen DEF Record

\* Nobody is at work under a lock that nobody, or a dead process, is on record
\* for.
LEMMA FreeLock ==
  ASSUME IInv, NEW i \in Issues, lock[i] = NoPick \/ ~Live(lock[i])
  PROVE  Holders(i) = {}
<1> SUFFICES ASSUME NEW v \in Implementers, att[v][i] \in {"held", "unlock"} PROVE FALSE
  BY DEF Holders
<1>1. lock[i] = v /\ Live(v) /\ v # NoPick
  BY IssueWorkerAssumption DEF IInv, OneAttemptPerIssue, DeadAttemptNothing
<1> QED
  BY <1>1

\* Taking an issue's run lock is taking it in the contract.
LEMMA LockTaken ==
  ASSUME IInv, NEW i \in Issues, NEW w \in Implementers, Live(w), AcquireLock(w)
  PROVE  LockStep(i)
<1> DEFINE j == pick[w]
<1>1. CASE UNCHANGED <<lock, att>>
  BY <1>1, LockElsewhere DEF AcquireLock
<1>2. CASE /\ lock[j] = NoPick \/ ~Live(lock[j])
           /\ lock' = [lock EXCEPT ![j] = w]
           /\ Move(w, j, "held")
  <2>0. dead' = dead
    BY DEF AcquireLock
  <2>1. CASE j # i
    <3>1. lock'[i] = lock[i] /\ \A v \in Implementers : att'[v][i] = att[v][i]
      BY <1>2, <2>1 DEF IInv, LocksAndAttempts, Move
    <3> QED
      BY <2>0, <3>1, LockUnseen DEF Holders, Record
  <2>2. CASE j = i
    <3>1. Holders(i) = {}
      BY <1>2, <2>2, FreeLock
    <3>2. \A v \in Implementers : att'[v][i] = IF v = w THEN "held" ELSE att[v][i]
      BY <1>2, <2>2 DEF IInv, LocksAndAttempts, Move
    <3>3. Holders(i)' = {w}
      BY <3>1, <3>2 DEF Holders
    <3>4. lock'[i] = w /\ w # NoPick
      BY <1>2, <2>2, IssueWorkerAssumption DEF IInv, LocksAndAttempts
    <3>5. Record(i)' = ProcOf[w]
      BY <3>4 DEF Record
    <3>6. Record(i) = NoProc \/ (Record(i) \in dead /\ Record(i) \in Procs)
      BY <1>2, <2>2, IssueWorkerAssumption DEF Record, Live, IInv, LocksAndAttempts, Workers
    <3>7. ProcOf[w] \in Procs
      BY IssueWorkerAssumption DEF Workers
    <3>8. RunLockOf(i)!Take(w)
      BY <2>0, <3>1, <3>3, <3>5, <3>6, <3>7
      DEF RunLockOf!Take, RunLockOf!KnownDead, Holders, Record, Live
    <3> QED
      BY <3>8 DEF LockStep, RunLockOf!Next
  <2> QED
    BY <2>1, <2>2
<1> QED
  BY <1>1, <1>2 DEF AcquireLock

\* An attempt that gives its issue's lock back does so in the contract.
LEMMA LockGivenBack ==
  ASSUME IInv, NEW i \in Issues, NEW w \in Implementers, NEW j \in Issues,
         NEW step \in {"none", "complete"},
         att[w][j] \in {"held", "unlock"}, lock' = [lock EXCEPT ![j] = NoPick],
         Move(w, j, step), dead' = dead
  PROVE  LockStep(i)
<1>1. \A v \in Implementers :
        att'[v][i] = IF v = w /\ i = j THEN step ELSE att[v][i]
  BY DEF IInv, LocksAndAttempts, Move
<1>2. CASE j # i
  <2>1. lock'[i] = lock[i] /\ Holders(i)' = Holders(i)
    BY <1>1, <1>2 DEF IInv, LocksAndAttempts, Holders
  <2> QED
    BY <2>1, LockUnseen DEF Record
<1>3. CASE j = i
  <2>1. Live(w) /\ lock[i] = w
    BY <1>3 DEF IInv, DeadAttemptNothing, OneAttemptPerIssue
  <2>2. \A v \in Implementers : att[v][i] \in {"held", "unlock"} <=> v = w
    BY <1>3, <2>1 DEF IInv, OneAttemptPerIssue
  <2>3. Holders(i) = {w} /\ Holders(i)' = {}
    BY <1>1, <1>3, <2>2 DEF Holders
  <2>4. lock'[i] = NoPick
    BY <1>3 DEF IInv, LocksAndAttempts
  <2>5. Record(i)' = NoProc
    BY <2>4 DEF Record
  <2>6. RunLockOf(i)!GiveBack(w)
    BY <2>1, <2>3, <2>5 DEF RunLockOf!GiveBack, Holders, Record, Live
  <2> QED
    BY <2>6 DEF LockStep, RunLockOf!Next
<1> QED
  BY <1>2, <1>3

\* A crash, and the end of a dead process' lease, in the contract.
LEMMA LockOfTheDead ==
  ASSUME IInv, NEW i \in Issues
  PROVE  /\ \A p \in Procs : Crash(p) => LockStep(i)
         /\ \A j \in Issues : LeaseExpires(j) => LockStep(i)
<1>1. ASSUME NEW p \in Procs, Crash(p) PROVE LockStep(i)
  <2>1. \A v \in Implementers :
          att'[v][i] = IF ProcOf[v] = p THEN "none" ELSE att[v][i]
    BY <1>1 DEF Crash
  <2>2. Holders(i)' = {v \in Holders(i) : ProcOf[v] # p}
    BY <2>1 DEF Holders
  <2>3. Record(i)' = Record(i) /\ dead' = dead \cup {p}
    BY <1>1 DEF Crash, Record
  <2>4. RunLockOf(i)!Die(p)
    BY <2>2, <2>3 DEF RunLockOf!Die, Holders, Record
  <2> QED
    BY <2>4 DEF LockStep, RunLockOf!Next
<1>2. ASSUME NEW j \in Issues, LeaseExpires(j) PROVE LockStep(i)
  <2>1. Holders(i)' = Holders(i) /\ dead' = dead
    BY <1>2 DEF LeaseExpires, Holders
  <2>2. CASE j # i
    <3>1. lock'[i] = lock[i]
      BY <1>2, <2>2 DEF LeaseExpires, IInv, LocksAndAttempts
    <3> QED
      BY <2>1, <3>1, LockUnseen DEF Record
  <2>3. CASE j = i
    <3>1. Holders(i) = {}
      BY <1>2, <2>3, FreeLock DEF LeaseExpires
    <3>2. lock'[i] = NoPick
      BY <1>2, <2>3 DEF LeaseExpires, IInv, LocksAndAttempts
    <3>3. Record(i)' = NoProc
      BY <3>2 DEF Record
    <3>4. RunLockOf(i)!Lapse
      BY <2>1, <3>1, <3>3 DEF RunLockOf!Lapse, Holders, Record
    <3> QED
      BY <3>4 DEF LockStep, RunLockOf!Next
  <2> QED
    BY <2>2, <2>3
<1> QED
  BY <1>1, <1>2

\* What an implementer does to the lock of an issue.
LEMMA LockWork ==
  ASSUME IInv, NEW i \in Issues, NEW w \in Implementers, Work(w)
  PROVE  LockStep(i)
<1> USE DEF Work
<1>1. CASE Claims(w)
  <2>1. CASE ClaimOwn(w) \/ ClaimNothing(w) \/ Take(w)
    BY <2>1, LockElsewhere DEF ClaimOwn, ClaimNothing, Take
  <2>2. CASE \E j \in Issues : ClaimNext(w, j)
    BY <2>2, LockElsewhere DEF ClaimNext
  <2>3. CASE \E v \in Implementers : ClaimOwnRowOf(w, v)
    BY <2>3, LockElsewhere DEF ClaimOwnRowOf
  <2>4. CASE Prepare(w) \/ Complete(w) \/ Report(w)
    BY <2>4, LockElsewhere DEF Prepare, Complete, Report
  <2>5. CASE AcquireLock(w)
    BY <2>5, LockTaken
  <2>6. CASE \E j \in Issues : ReleaseClaim(w, j)
    BY <2>6, LockGivenBack DEF ReleaseClaim
  <2> QED
    BY <1>1, <2>1, <2>2, <2>3, <2>4, <2>5, <2>6 DEF Claims
<1>2. CASE Attempts(w)
  <2>1. CASE \E j \in Issues, fails \in BOOLEAN : AttemptEnds(w, j, fails)
    <3>1. PICK j \in Issues, fails \in BOOLEAN : AttemptEnds(w, j, fails)
      BY <2>1
    <3> QED
      BY <3>1, LockMoveOn DEF AttemptEnds
  <2>2. CASE \E j \in Issues : Unlock(w, j)
    BY <2>2, LockGivenBack DEF Unlock
  <2>3. CASE \E j \in Issues : CompleteAttempt(w, j) \/ ReportAttempt(w, j)
    <3>1. PICK j \in Issues : CompleteAttempt(w, j) \/ ReportAttempt(w, j)
      BY <2>3
    <3> QED
      BY <3>1, LockMoveOn DEF CompleteAttempt, ReportAttempt
  <2>4. CASE EndBatch(w)
    BY <2>4, LockElsewhere DEF EndBatch
  <2> QED
    BY <1>2, <2>1, <2>2, <2>3, <2>4 DEF Attempts
<1> QED
  BY <1>1, <1>2

\* The steps of all workers, recovery, repair, crashes and time.
LEMMA LockSteps == IInv /\ [Next]_vars => \A i \in Issues : LockStep(i)
<1> SUFFICES ASSUME IInv, [Next]_vars, NEW i \in Issues PROVE LockStep(i)
  OBVIOUS
<1>1. CASE \E w \in Workers : Plan(w)
  BY <1>1, LockElsewhere
  DEF Plan, Schedule, Select, SelectNone, ReadRow, ReadBackoff, Upsert
<1>2. CASE \E w \in Implementers : Begin(w)
  BY <1>2, LockElsewhere DEF Begin, Open
<1>3. CASE \E w \in Implementers : Work(w)
  BY <1>3, LockWork
<1>4. CASE Recover
  BY <1>4, LockElsewhere DEF Recover, FindStale, MarkStale
<1>5. CASE \E j \in Issues : Repair(j)
  BY <1>5, LockElsewhere DEF Repair
<1>6. CASE \E j \in Issues : LeaseExpires(j)
  BY <1>6, LockOfTheDead
<1>7. CASE \E p \in Procs : Crash(p)
  BY <1>7, LockOfTheDead
<1>8. CASE Minute
  BY <1>8, LockElsewhere DEF Minute
<1>9. CASE UNCHANGED vars
  BY <1>9, LockElsewhere DEF vars
<1> QED
  BY <1>1, <1>2, <1>3, <1>4, <1>5, <1>6, <1>7, <1>8, <1>9 DEF Next

\* Every batch takes and gives back the run lock of every issue as LockContract
\* has it, which is what RunLock's operations implement; a batch that an error
\* ends gives back the locks of its earlier claims (continuous.go:177), and a
\* killed process loses its locks only when it has no attempts any more.
THEOREM BatchesUseRunLocks == Spec => UsesRunLocks
<1> DEFINE EveryStep == \A i \in Issues : LockStep(i)
           Start == \A i \in Issues : RunLockOf(i)!Init
<1>1. Init => Start
  BY IssueWorkerAssumption DEF Init, RunLockOf!Init
<1>2. IInv /\ [Next]_vars => EveryStep
  BY LockSteps
<1> HIDE DEF EveryStep, Start
<1>3. Spec => Start /\ [][EveryStep]_vars
  BY <1>1, <1>2, InitInv, NextInv, PTL DEF Spec
<1> USE DEF EveryStep, Start
<1> QED
  BY <1>3, PTL DEF UsesRunLocks, LockStep

----------------------------------------------------------------------------
(* Types.                                                                  *)

\* What the statements on a row make of a row is a row.
LEMMA Rewritten ==
  /\ \A wait \in Nat : QueuedTask(wait) \in TaskRow
  /\ \A task \in TaskRow :
       /\ ClaimedTask(task) \in TaskRow
       /\ \A status \in {"completed", "failed"} : CompletedTask(task, status) \in TaskRow
       /\ ReconciliationNeededTask(task) \in TaskRow
       /\ TaskAfterTick(task) \in TaskRow
<1>1. /\ {"completed", "failed"} \subseteq TaskStatus
      /\ NoTask \in TaskRow
  BY StateStoreAssumption DEF TaskStatus, NoTask, TaskRow
<1>2. \A wait \in Nat : QueuedTask(wait) \in TaskRow
  BY <1>1, TaskRows
<1>3. \A task \in TaskRow, status \in {"completed", "failed"} :
        /\ ClaimedTask(task) \in TaskRow
        /\ CompletedTask(task, status) \in TaskRow
        /\ ReconciliationNeededTask(task) \in TaskRow
  <2> TAKE task \in TaskRow, status \in {"completed", "failed"}
  <2> QED
    BY <1>1, TaskRows
<1>4. \A task \in TaskRow : TaskAfterTick(task) \in TaskRow
  BY TaskTick
<1> QED
  BY <1>2, <1>3, <1>4

\* What is reported is a result row, and so is what a minute makes of it.
LEMMA Reported ==
  /\ \A status \in {"completed", "failed", "reconciliation_needed"} :
       Result(status, Backoff) \in ResultRow
  /\ \A result \in ResultRow : /\ ResultAfterTick(result) \in ResultRow
                               /\ WaitAfterLatestFailure(result) \in Nat
  BY IssueWorkerAssumption
  DEF ResultRow, ResultStatus, Result, ResultAfterTick, WaitAfterLatestFailure

\* Whoever reads, queues, claims, prepares, locks or skips a row does it for an
\* issue; only a completion may be of another implementer's own row.
PicksAnIssue ==
  \A w \in Workers :
    pc[w] \in {"read", "backoff", "upsert", "take", "prepare", "lock", "skip"}
      => pick[w] \in Issues

TInv == TypeOK /\ PicksAnIssue

LEMMA InitTyped == Init => TInv
  BY IssueWorkerAssumption, StateStoreAssumption
  DEF Init, TInv, TypeOK, PicksAnIssue, NoTask, NoResult, TaskRow, TaskStatus, ResultRow,
      ResultStatus, Steps, AttemptSteps

\* A worker goes on with another choice.
LEMMA GoOnTyped ==
  ASSUME TInv, NEW w \in Workers, NEW step \in Steps,
         NEW row \in Issues \cup Implementers \cup {NoPick},
         Goto(w, step), pick' = [pick EXCEPT ![w] = row],
         step \in {"read", "backoff", "upsert", "take", "prepare", "lock", "skip"}
           => row \in Issues
  PROVE  /\ pc' \in [Workers -> Steps]
         /\ pick' \in [Workers -> Issues \cup Implementers \cup {NoPick}]
         /\ PicksAnIssue'
  BY DEF TInv, TypeOK, PicksAnIssue, Goto

\* A worker goes on with its choice.
LEMMA StepOnTyped ==
  ASSUME TInv, NEW w \in Workers, NEW step \in Steps,
         Goto(w, step), pick' = pick,
         step \in {"read", "backoff", "upsert", "take", "prepare", "lock", "skip"}
           => pick[w] \in Issues
  PROVE  /\ pc' \in [Workers -> Steps]
         /\ pick' \in [Workers -> Issues \cup Implementers \cup {NoPick}]
         /\ PicksAnIssue'
  BY DEF TInv, TypeOK, PicksAnIssue, Goto

LEMMA ScheduleTyped ==
  ASSUME TInv, NEW w \in Workers, Schedule(w)
  PROVE  TInv'
<1> USE DEF Steps
<1>1. CASE \E i \in Issues : Select(w, i)
  <2>1. PICK i \in Issues : Select(w, i)
    BY <1>1
  <2>2. Goto(w, "read") /\ Choose(w, i)
    BY <2>1 DEF Select
  <2> QED
    BY <2>1, <2>2, GoOnTyped DEF Select, Choose, TInv, TypeOK
<1>2. CASE SelectNone(w)
  BY <1>2, StepOnTyped DEF SelectNone, NothingScheduled, EndOfBatch, TInv, TypeOK
<1>3. CASE ReadRow(w)
  <2>1. CASE BlocksDispatch(tasks[pick[w]].status)
    BY <1>3, <2>1, GoOnTyped
    DEF ReadRow, NothingScheduled, EndOfBatch, Choose, TInv, TypeOK
  <2>2. CASE ~BlocksDispatch(tasks[pick[w]].status)
    BY <1>3, <2>2, StepOnTyped DEF ReadRow, TInv, TypeOK, PicksAnIssue
  <2> QED
    BY <2>1, <2>2
<1>4. CASE ReadBackoff(w)
  <2>1. pick[w] \in Issues /\ Goto(w, "upsert") /\ pick' = pick
    BY <1>4 DEF ReadBackoff, TInv, PicksAnIssue
  <2>2. avail' \in [Workers -> Nat]
    BY <1>4, <2>1, Reported DEF ReadBackoff, TInv, TypeOK
  <2> QED
    BY <1>4, <2>1, <2>2, StepOnTyped DEF ReadBackoff, TInv, TypeOK
<1>5. CASE Upsert(w)
  <2>1. pick[w] \in Issues
    BY <1>5 DEF Upsert, TInv, PicksAnIssue
  <2>2. NoTask \in TaskRow
    BY StateStoreAssumption DEF NoTask, TaskRow, TaskStatus
  <2>3. tasks' \in [Issues -> TaskRow] /\ avail' \in [Workers -> Nat]
    BY <1>5, <2>1, <2>2, Rewritten DEF Upsert, SetTask, TInv, TypeOK
  <2>4. CASE w \in Schedulers
    BY <1>5, <2>3, <2>4, GoOnTyped DEF Upsert, Choose, TInv, TypeOK
  <2>5. CASE w \notin Schedulers
    BY <1>5, <2>1, <2>3, <2>5, StepOnTyped DEF Upsert, TInv, TypeOK
  <2> QED
    BY <2>4, <2>5
<1> QED
  BY <1>1, <1>2, <1>3, <1>4, <1>5 DEF Schedule

LEMMA ClaimsTyped ==
  ASSUME TInv, NEW w \in Implementers, Claims(w)
  PROVE  TInv'
<1> USE DEF Steps, Workers
<1>1. CASE ClaimOwn(w) \/ ClaimNothing(w)
  <2>1. own' \in SUBSET Implementers
    BY <1>1 DEF ClaimOwn, ClaimNothing, TInv, TypeOK
  <2>2. /\ Goto(w, "next") \/ Goto(w, "idle") \/ Goto(w, "select") \/ Goto(w, "exec")
        /\ pick' = pick
    BY <1>1 DEF ClaimOwn, ClaimNothing, EndOfBatch
  <2> QED
    BY <1>1, <2>1, <2>2, StepOnTyped DEF ClaimOwn, ClaimNothing, TInv, TypeOK
<1>2. CASE Take(w)
  <2>1. pick[w] \in Issues
    BY <1>2 DEF Take, TInv, PicksAnIssue
  <2>2. CASE TaskClaimable(tasks[pick[w]])
    <3>1. tasks' \in [Issues -> TaskRow]
      BY <1>2, <2>1, <2>2, Rewritten DEF Take, SetTask, TInv, TypeOK
    <3> QED
      BY <1>2, <2>1, <2>2, <3>1, StepOnTyped DEF Take, TInv, TypeOK
  <2>3. CASE ~TaskClaimable(tasks[pick[w]])
    BY <1>2, <2>3, GoOnTyped DEF Take, EndOfBatch, Choose, TInv, TypeOK
  <2> QED
    BY <2>2, <2>3
<1>3. CASE \E i \in Issues : ClaimNext(w, i)
  <2>1. PICK i \in Issues : ClaimNext(w, i)
    BY <1>3
  <2>2. tasks' \in [Issues -> TaskRow]
    BY <2>1, Rewritten DEF ClaimNext, SetTask, TInv, TypeOK
  <2> QED
    BY <2>1, <2>2, GoOnTyped DEF ClaimNext, Choose, TInv, TypeOK
<1>4. CASE \E v \in Implementers : ClaimOwnRowOf(w, v)
  <2>1. PICK v \in Implementers : ClaimOwnRowOf(w, v)
    BY <1>4
  <2>2. own' \in SUBSET Implementers
    BY <2>1 DEF ClaimOwnRowOf, TInv, TypeOK
  <2> QED
    BY <2>1, <2>2, GoOnTyped DEF ClaimOwnRowOf, Choose, TInv, TypeOK
<1>5. CASE Prepare(w)
  <2>1. pick[w] \in Issues
    BY <1>5 DEF Prepare, TInv, PicksAnIssue
  <2>2. (Goto(w, "lock") \/ Goto(w, "skip") \/ Goto(w, "fail")) /\ pick' = pick
    BY <1>5 DEF Prepare
  <2> QED
    BY <1>5, <2>1, <2>2, StepOnTyped DEF Prepare, TInv, TypeOK
<1>6. CASE AcquireLock(w)
  <2> DEFINE i == pick[w]
  <2>1. CASE lock[i] = NoPick \/ ~Live(lock[i])
    <3>1. /\ lock' \in [Issues -> Implementers \cup {NoPick}]
          /\ att' \in [Implementers -> [Issues -> AttemptSteps]]
      <4>1. /\ lock' = [lock EXCEPT ![i] = w]
            /\ att' = [att EXCEPT ![w][i] = "held"]
        BY <1>6, <2>1 DEF AcquireLock, Move
      <4>2. "held" \in AttemptSteps
        BY DEF AttemptSteps
      <4> QED
        BY <4>1, <4>2 DEF TInv, TypeOK
    <3>2. (Goto(w, "next") \/ Goto(w, "exec")) /\ Choose(w, NoPick)
      BY <1>6, <2>1 DEF AcquireLock, AfterClaim
    <3> QED
      BY <1>6, <3>1, <3>2, GoOnTyped DEF AcquireLock, Choose, TInv, TypeOK
  <2>2. CASE ~(lock[i] = NoPick \/ ~Live(lock[i]))
    BY <1>6, <2>2, StepOnTyped DEF AcquireLock, TInv, TypeOK
  <2> QED
    BY <2>1, <2>2
<1>7. CASE Complete(w)
  <2>1. tasks' \in [Issues -> TaskRow]
    BY <1>7, Rewritten DEF Complete, SetTask, TInv, TypeOK
  <2>2. /\ Goto(w, "failed") \/ Goto(w, "skipped") \/ Goto(w, "skip_failed")
        /\ pick' = pick
    BY <1>7 DEF Complete
  <2> QED
    BY <1>7, <2>1, <2>2, StepOnTyped DEF Complete, TInv, TypeOK
<1>8. CASE Report(w)
  <2>1. results' \in [Issues -> ResultRow]
    BY <1>8, Reported DEF Report, TInv, TypeOK
  <2>2. (Goto(w, "exec") \/ Goto(w, "release")) /\ Choose(w, NoPick)
    BY <1>8 DEF Report, EndOfBatch
  <2> QED
    BY <1>8, <2>1, <2>2, GoOnTyped DEF Report, Choose, TInv, TypeOK
<1>9. CASE \E i \in Issues : ReleaseClaim(w, i)
  BY <1>9 DEF ReleaseClaim, Move, AttemptSteps, TInv, TypeOK, PicksAnIssue
<1> QED
  BY <1>1, <1>2, <1>3, <1>4, <1>5, <1>6, <1>7, <1>8, <1>9 DEF Claims

LEMMA AttemptsTyped ==
  ASSUME TInv, NEW w \in Implementers, Attempts(w)
  PROVE  TInv'
<1>1. ASSUME NEW i \in Issues, NEW step \in AttemptSteps, Move(w, i, step)
      PROVE  att' \in [Implementers -> [Issues -> AttemptSteps]]
  BY <1>1 DEF Move, TInv, TypeOK
<1>2. {"none", "unlock", "complete", "report"} \subseteq AttemptSteps
  BY DEF AttemptSteps
<1>3. CASE \E i \in Issues, fails \in BOOLEAN : AttemptEnds(w, i, fails)
  <2>1. PICK i \in Issues, fails \in BOOLEAN : AttemptEnds(w, i, fails)
    BY <1>3
  <2>2. bad' \in [Implementers -> SUBSET Issues]
    BY <2>1 DEF AttemptEnds, TInv, TypeOK
  <2> QED
    BY <2>1, <2>2, <1>1, <1>2 DEF AttemptEnds, TInv, TypeOK, PicksAnIssue
<1>4. CASE \E i \in Issues : Unlock(w, i)
  BY <1>4, <1>1, <1>2 DEF Unlock, TInv, TypeOK, PicksAnIssue
<1>5. CASE \E i \in Issues : CompleteAttempt(w, i)
  <2>1. PICK i \in Issues : CompleteAttempt(w, i)
    BY <1>5
  <2>2. tasks' \in [Issues -> TaskRow]
    BY <2>1, Rewritten DEF CompleteAttempt, SetTask, AttemptStatus, TInv, TypeOK
  <2> QED
    BY <2>1, <2>2, <1>1, <1>2 DEF CompleteAttempt, TInv, TypeOK, PicksAnIssue
<1>6. CASE \E i \in Issues : ReportAttempt(w, i)
  <2>1. PICK i \in Issues : ReportAttempt(w, i)
    BY <1>6
  <2>2. results' \in [Issues -> ResultRow] /\ bad' \in [Implementers -> SUBSET Issues]
    BY <2>1, Reported DEF ReportAttempt, AttemptStatus, TInv, TypeOK
  <2> QED
    BY <2>1, <2>2, <1>1, <1>2 DEF ReportAttempt, TInv, TypeOK, PicksAnIssue
<1>7. CASE EndBatch(w)
  BY <1>7, StepOnTyped DEF EndBatch, TInv, TypeOK, Steps, Workers
<1> QED
  BY <1>3, <1>4, <1>5, <1>6, <1>7 DEF Attempts

LEMMA RecoverTyped == TInv /\ Recover => TInv'
<1> SUFFICES ASSUME TInv, NEW i \in Issues, FindStale(i) \/ MarkStale(i) PROVE TInv'
  BY DEF Recover
<1>1. CASE FindStale(i)
  BY <1>1 DEF FindStale, TInv, TypeOK, PicksAnIssue
<1>2. CASE MarkStale(i)
  <2>1. tasks' \in [Issues -> TaskRow]
    BY <1>2, Rewritten DEF MarkStale, SetTask, TInv, TypeOK
  <2>2. results' \in [Issues -> ResultRow]
    BY <1>2, Reported DEF MarkStale, TInv, TypeOK
  <2> QED
    BY <1>2, <2>1, <2>2 DEF MarkStale, TInv, TypeOK, PicksAnIssue
<1> QED
  BY <1>1, <1>2

LEMMA CrashTyped ==
  ASSUME TInv, NEW p \in Procs, Crash(p)
  PROVE  TInv'
<1>1. /\ dead' \in SUBSET Procs
      /\ crashes' \in 0..MaxCrashes
  BY IssueWorkerAssumption DEF Crash, TInv, TypeOK
<1>2. /\ pc' \in [Workers -> Steps]
      /\ pick' \in [Workers -> Issues \cup Implementers \cup {NoPick}]
      /\ avail' \in [Workers -> Nat]
  BY DEF Crash, TInv, TypeOK, Steps
<1>3. /\ att' \in [Implementers -> [Issues -> AttemptSteps]]
      /\ bad' \in [Implementers -> SUBSET Issues]
  BY DEF Crash, TInv, TypeOK, AttemptSteps
<1>4. PicksAnIssue'
  BY DEF Crash, TInv, PicksAnIssue
<1> QED
  BY <1>1, <1>2, <1>3, <1>4 DEF Crash, TInv, TypeOK

LEMMA NextTyped == TInv /\ [Next]_vars => TInv'
<1> SUFFICES ASSUME TInv, [Next]_vars PROVE TInv'
  OBVIOUS
<1>1. CASE \E w \in Workers : Plan(w)
  BY <1>1, ScheduleTyped DEF Plan
<1>2. CASE \E w \in Implementers : Begin(w)
  <2>1. PICK w \in Implementers : Open(w)
    BY <1>2 DEF Begin
  <2> QED
    BY <2>1, StepOnTyped DEF Open, TInv, TypeOK, Steps, Workers
<1>3. CASE \E w \in Implementers : Work(w)
  BY <1>3, ClaimsTyped, AttemptsTyped DEF Work
<1>4. CASE Recover
  BY <1>4, RecoverTyped
<1>5. CASE \E i \in Issues : Repair(i)
  <2>1. PICK i \in Issues : Repair(i)
    BY <1>5
  <2>2. tasks' \in [Issues -> TaskRow]
    BY <2>1, Rewritten DEF Repair, SetTask, RepairedTask, TInv, TypeOK
  <2> QED
    BY <2>1, <2>2 DEF Repair, TInv, TypeOK, PicksAnIssue
<1>6. CASE \E i \in Issues : LeaseExpires(i)
  BY <1>6 DEF LeaseExpires, TInv, TypeOK, PicksAnIssue
<1>7. CASE \E p \in Procs : Crash(p)
  BY <1>7, CrashTyped
<1>8. CASE Minute
  BY <1>8, Rewritten, Reported DEF Minute, TInv, TypeOK, PicksAnIssue
<1>9. CASE UNCHANGED vars
  BY <1>9 DEF vars, TInv, TypeOK, PicksAnIssue
<1> QED
  BY <1>1, <1>2, <1>3, <1>4, <1>5, <1>6, <1>7, <1>8, <1>9 DEF Next

\* Every variable keeps its type (implementation_worker_process.go, run_one.go),
\* for any issues, workers, lanes, capacities and bounds.
THEOREM TypeCorrect == Spec => []TypeOK
<1>1. TInv => TypeOK
  BY DEF TInv
<1> QED
  BY InitTyped, NextTyped, <1>1, PTL DEF Spec

----------------------------------------------------------------------------
(* Rows and batches, where each kind of worker is a body of one lane.      *)

\* The lanes as the daemons have them: one scheduler lane and one implementation
\* lane, whose implementers leave the queueing to the scheduler.
LanesOfDaemons ==
  /\ SelfScheduling = {}
  /\ \A v, w \in Schedulers : LaneOf[v] = LaneOf[w]
  /\ \A v, w \in Implementers : LaneOf[v] = LaneOf[w]

\* Killed processes do nothing, workers only what their lane does, and a batch
\* of attempts lasts as long as its body.
Bodies ==
  /\ \A w \in Workers : ~Live(w) => pc[w] = "idle"
  /\ \A w \in Schedulers : pc[w] \in {"idle", "read", "backoff", "upsert"}
  /\ \A w \in Implementers : pc[w] \notin {"select", "read", "backoff", "upsert", "take"}
  /\ \A w \in Implementers, i \in Issues : pc[w] \in {"idle", "own"} => att[w][i] = "none"

\* One body of a lane at a time.
OneBody ==
  /\ \A v, w \in Schedulers : pc[v] # "idle" /\ pc[w] # "idle" => v = w
  /\ \A v, w \in Implementers : pc[v] # "idle" /\ pc[w] # "idle" => v = w

\* What the scheduler read of the row still holds when it queues the row.
StillRunnable ==
  \A w \in Schedulers :
    pc[w] \in {"backoff", "upsert"} => ~BlocksDispatch(tasks[pick[w]].status)

\* A row of a batch is claimed or was marked as long as its worker still claims
\* rows (repairs wait until it runs the batch), and blocks dispatch then.
HeldRow(w, i) ==
  LET taken == tasks[i].status \in {"claimed", "reconciliation_needed"}
  IN /\ pc[w] # "exec" => att[w][i] \in {"none", "held"}
     /\ pc[w] # "exec" /\ att[w][i] = "held" => taken
     /\ att[w][i] = "held" => BlocksDispatch(tasks[i].status)
     /\ pc[w] \in {"prepare", "lock", "fail", "skip"} /\ pick[w] = i
          => att[w][i] = "none" /\ taken

HeldRows == \A w \in Implementers, i \in Issues : HeldRow(w, i)

\* Time does not change a row that waits for its repair.
RowTime(task) ==
  /\ task.status \in {"claimed", "reconciliation_needed"} => task.wait = 0
  /\ task.status = "reconciliation_needed" => task.age = 0

RowTimes == \A i \in Issues : RowTime(tasks[i])

BInv == TInv /\ Bodies /\ OneBody /\ StillRunnable /\ HeldRows /\ RowTimes

LEMMA InitBatches == Init => BInv
<1> SUFFICES ASSUME Init PROVE BInv
  OBVIOUS
<1>1. TInv
  BY InitTyped
<1>2. Bodies /\ OneBody /\ StillRunnable
  BY DEF Init, Bodies, OneBody, StillRunnable, Workers
<1>3. HeldRows /\ RowTimes
  BY DEF Init, HeldRows, HeldRow, RowTimes, RowTime, NoTask, Workers
<1> QED
  BY <1>1, <1>2, <1>3 DEF BInv

\* The statements on a row, as far as batches care.
LEMMA RowChanges ==
  ASSUME NEW task \in TaskRow
  PROVE  /\ \A wait \in Nat : /\ QueuedTask(wait).status = "queued"
                              /\ RowTime(QueuedTask(wait))
         /\ ClaimedTask(task).status = "claimed"
         /\ task.wait = 0 => RowTime(ClaimedTask(task))
         /\ \A status \in {"completed", "failed"} : RowTime(CompletedTask(task, status))
         /\ ReconciliationNeededTask(task).status = "reconciliation_needed"
         /\ task.wait = 0 => RowTime(ReconciliationNeededTask(task))
         /\ RowTime(task) => RowTime(TaskAfterTick(task))
         /\ TaskAfterTick(task).status = task.status
<1>1. {"completed", "failed"} \subseteq TaskStatus
  BY DEF TaskStatus
<1>2. \A wait \in Nat : QueuedTask(wait).status = "queued" /\ RowTime(QueuedTask(wait))
  BY DEF QueuedTask, RowTime
<1>3. ASSUME NEW status \in {"completed", "failed"}
      PROVE  /\ ClaimedTask(task).status = "claimed"
             /\ task.wait = 0 => RowTime(ClaimedTask(task))
             /\ RowTime(CompletedTask(task, status))
             /\ ReconciliationNeededTask(task).status = "reconciliation_needed"
             /\ task.wait = 0 => RowTime(ReconciliationNeededTask(task))
  BY <1>1, TaskRows DEF RowTime
<1>4. /\ RowTime(task) => RowTime(TaskAfterTick(task))
      /\ TaskAfterTick(task).status = task.status
  BY TaskTick DEF RowTime
<1> QED
  BY <1>2, <1>3, <1>4

\* What a worker's step leaves alone.
OthersStay(w) ==
  /\ \A v \in Workers \ {w} : pc'[v] = pc[v] /\ pick'[v] = pick[v]
  /\ \A v \in Implementers \ {w} : att'[v] = att[v]
  /\ dead' = dead

\* A step of the one implementer at work that changes blocking rows only.
LEMMA ImplementerStep ==
  ASSUME BInv, TInv', NEW w \in Implementers, Live(w),
         \A v \in Implementers \ {w} : pc[v] = "idle",
         OthersStay(w),
         pc'[w] \notin {"select", "read", "backoff", "upsert", "take"},
         \A i \in Issues : pc'[w] \in {"idle", "own"} => att'[w][i] = "none",
         \A i \in Issues : \/ tasks'[i] = tasks[i]
                           \/ BlocksDispatch(tasks[i].status) /\ RowTime(tasks'[i]),
         \A i \in Issues : HeldRow(w, i)'
  PROVE  BInv'
<1> USE IssueWorkerAssumption DEF Workers, OthersStay
<1>1. Bodies'
  BY DEF BInv, Bodies, Live
<1>2. OneBody'
  BY DEF BInv, OneBody
<1>3. StillRunnable'
  <2> SUFFICES ASSUME NEW s \in Schedulers, pc'[s] \in {"backoff", "upsert"}
               PROVE  ~BlocksDispatch(tasks'[pick'[s]].status)
    BY DEF StillRunnable
  <2>1. s # w /\ pc[s] = pc'[s] /\ pick[s] = pick'[s]
    OBVIOUS
  <2>2. pick[s] \in Issues /\ ~BlocksDispatch(tasks[pick[s]].status)
    BY <2>1 DEF BInv, StillRunnable, TInv, PicksAnIssue
  <2> QED
    BY <2>1, <2>2
<1>4. HeldRows'
  <2> SUFFICES ASSUME NEW v \in Implementers \ {w}, NEW i \in Issues PROVE HeldRow(v, i)'
    BY DEF HeldRows
  <2>1. pc'[v] = "idle" /\ att'[v][i] = "none"
    BY DEF BInv, Bodies
  <2> QED
    BY <2>1 DEF HeldRow
<1>5. RowTimes'
  BY DEF BInv, RowTimes
<1> QED
  BY <1>1, <1>2, <1>3, <1>4, <1>5 DEF BInv

\* A step of the one scheduler at work.
LEMMA SchedulerStep ==
  ASSUME BInv, TInv', NEW w \in Schedulers, Live(w),
         \A v \in Schedulers \ {w} : pc[v] = "idle",
         OthersStay(w), att' = att,
         pc'[w] \in {"idle", "read", "backoff", "upsert"},
         pc'[w] \in {"backoff", "upsert"} => ~BlocksDispatch(tasks'[pick'[w]].status),
         \A i \in Issues : \/ tasks'[i] = tasks[i]
                           \/ ~BlocksDispatch(tasks[i].status) /\ RowTime(tasks'[i])
  PROVE  BInv'
<1> USE IssueWorkerAssumption DEF Workers, OthersStay
<1>1. Bodies'
  BY DEF BInv, Bodies, Live
<1>2. OneBody'
  BY DEF BInv, OneBody
<1>3. StillRunnable'
  BY DEF StillRunnable
<1>4. HeldRows'
  <2> SUFFICES ASSUME NEW v \in Implementers, NEW i \in Issues PROVE HeldRow(v, i)'
    BY DEF HeldRows
  <2>1. v # w /\ pc'[v] = pc[v] /\ pick'[v] = pick[v] /\ att'[v] = att[v]
    OBVIOUS
  <2>2. HeldRow(v, i)
    BY DEF BInv, HeldRows
  <2>3. CASE tasks'[i] = tasks[i]
    BY <2>1, <2>2, <2>3 DEF HeldRow
  <2>4. CASE ~BlocksDispatch(tasks[i].status)
    BY <2>1, <2>2, <2>4 DEF HeldRow, BlocksDispatch
  <2> QED
    BY <2>3, <2>4
<1>5. RowTimes'
  BY DEF BInv, RowTimes
<1> QED
  BY <1>1, <1>2, <1>3, <1>4, <1>5 DEF BInv

LEMMA PlanKeeps ==
  ASSUME LanesOfDaemons, BInv, TInv', NEW w \in Workers, Plan(w)
  PROVE  BInv'
<1> USE IssueWorkerAssumption DEF Workers
<1>1. w \in Schedulers
  BY DEF Plan, Schedule, Select, MayPick, SelectNone, ReadRow, ReadBackoff, Upsert,
         BInv, Bodies
<1>2. Live(w) /\ pc \in [Workers -> Steps]
      /\ pick \in [Workers -> Issues \cup Implementers \cup {NoPick}]
      /\ tasks \in [Issues -> TaskRow]
  BY DEF Plan, BInv, TInv, TypeOK
<1>3. CASE \E i \in Issues : Select(w, i)
  <2>1. PICK i \in Issues : Select(w, i)
    BY <1>3
  <2>2. \A v \in Schedulers \ {w} : pc[v] = "idle"
    BY <1>1, <2>1 DEF Select, MayPick, LaneIsFree, LanesOfDaemons, BInv, Bodies
  <2> QED
    BY <1>1, <1>2, <2>1, <2>2, SchedulerStep DEF Select, Choose, Goto, OthersStay
<1>4. CASE ReadRow(w) \/ ReadBackoff(w) \/ Upsert(w)
  <2>1. \A v \in Schedulers \ {w} : pc[v] = "idle"
    BY <1>1, <1>4 DEF ReadRow, ReadBackoff, Upsert, BInv, OneBody
  <2>2. pick[w] \in Issues
    BY <1>4 DEF ReadRow, ReadBackoff, Upsert, BInv, TInv, PicksAnIssue
  <2>3. CASE ReadRow(w)
    BY <1>1, <1>2, <2>1, <2>3, SchedulerStep
    DEF ReadRow, NothingScheduled, Choose, Goto, OthersStay
  <2>4. CASE ReadBackoff(w)
    BY <1>1, <1>2, <2>1, <2>4, SchedulerStep
    DEF ReadBackoff, Goto, OthersStay, BInv, StillRunnable
  <2>5. CASE Upsert(w)
    <3>1. /\ tasks' = [tasks EXCEPT ![pick[w]] = QueuedTask(avail[w])]
          /\ ~BlocksDispatch(tasks[pick[w]].status)
          /\ avail[w] \in Nat
          /\ pc' = [pc EXCEPT ![w] = "idle"] /\ pick' = [pick EXCEPT ![w] = NoPick]
          /\ UNCHANGED <<att, dead>>
      BY <1>1, <2>5 DEF Upsert, SetTask, Goto, Choose, BInv, StillRunnable, TInv, TypeOK
    <3>2. RowTime(QueuedTask(avail[w]))
      BY <1>2, <2>2, <3>1, RowChanges
    <3> QED
      BY <1>1, <1>2, <2>1, <2>2, <3>1, <3>2, SchedulerStep DEF OthersStay
  <2> QED
    BY <1>4, <2>3, <2>4, <2>5
<1> QED
  BY <1>1, <1>3, <1>4 DEF Plan, Schedule, SelectNone, BInv, Bodies

LEMMA BeginKeeps ==
  ASSUME LanesOfDaemons, BInv, TInv', NEW w \in Implementers, Begin(w)
  PROVE  BInv'
<1> USE IssueWorkerAssumption DEF Workers
<1>1. pc' = [pc EXCEPT ![w] = "own"] /\ UNCHANGED <<tasks, pick, att, dead>>
  BY DEF Begin, Open, Goto
<1>2. \A v \in Implementers \ {w} : pc[v] = "idle"
  BY DEF Begin, Open, LaneIsFree, LanesOfDaemons, BInv, Bodies
<1>3. \A i \in Issues : att[w][i] = "none"
  BY DEF Begin, Open, BInv, Bodies
<1>4. pc'[w] = "own" /\ OthersStay(w)
  BY <1>1 DEF OthersStay, BInv, TInv, TypeOK
<1>5. \A i \in Issues : HeldRow(w, i)'
  BY <1>1, <1>3, <1>4 DEF HeldRow
<1>6. Live(w)
  BY DEF Begin
<1> QED
  BY <1>1, <1>2, <1>3, <1>4, <1>5, <1>6, ImplementerStep

\* The implementer at work is the only one.
LEMMA OnlyOneWorks ==
  ASSUME BInv, NEW w \in Implementers, pc[w] # "idle"
  PROVE  /\ \A v \in Implementers \ {w} : pc[v] = "idle"
         /\ \A i \in Issues : HeldRow(w, i) /\ RowTime(tasks[i]) /\ tasks[i] \in TaskRow
         /\ pc[w] \notin {"select", "read", "backoff", "upsert", "take"}
         /\ pc \in [Workers -> Steps]
         /\ pick \in [Workers -> Issues \cup Implementers \cup {NoPick}]
         /\ att \in [Implementers -> [Issues -> AttemptSteps]]
         /\ tasks \in [Issues -> TaskRow]
  BY DEF BInv, OneBody, Bodies, HeldRows, RowTimes, TInv, TypeOK

\* The next claim of a batch is of a row the batch does not have.
LEMMA ClaimKeeps ==
  ASSUME BInv, TInv', NEW w \in Implementers, NEW i \in Issues, Live(w), ClaimNext(w, i)
  PROVE  BInv'
<1> USE IssueWorkerAssumption DEF Workers
<1>1. /\ pc[w] = "next" /\ tasks[i].status = "queued" /\ tasks[i].wait = 0
      /\ tasks' = [tasks EXCEPT ![i] = ClaimedTask(tasks[i])]
      /\ pc' = [pc EXCEPT ![w] = "prepare"] /\ pick' = [pick EXCEPT ![w] = i]
      /\ UNCHANGED <<att, dead>>
  BY DEF ClaimNext, TaskClaimable, SetTask, Goto, Choose
<1>2. OthersStay(w) /\ pc'[w] = "prepare" /\ pick'[w] = i
  BY <1>1, OnlyOneWorks DEF OthersStay
<1>3. ClaimedTask(tasks[i]).status = "claimed" /\ RowTime(ClaimedTask(tasks[i]))
  BY <1>1, OnlyOneWorks, RowChanges
<1>4. BlocksDispatch(tasks[i].status)
  BY <1>1 DEF BlocksDispatch
<1>5. \A j \in Issues : tasks'[j] = IF j = i THEN ClaimedTask(tasks[i]) ELSE tasks[j]
  BY <1>1, OnlyOneWorks
<1>6. \A j \in Issues : HeldRow(w, j)
  BY <1>1, OnlyOneWorks
<1>7. ASSUME NEW j \in Issues PROVE HeldRow(w, j)'
  <2>1. CASE j = i
    BY <1>1, <1>2, <1>3, <1>5, <1>6, <2>1 DEF HeldRow, BlocksDispatch
  <2>2. CASE j # i
    BY <1>1, <1>2, <1>5, <1>6, <2>2 DEF HeldRow
  <2> QED
    BY <2>1, <2>2
<1> QED
  BY <1>1, <1>2, <1>3, <1>4, <1>5, <1>7, OnlyOneWorks, ImplementerStep

\* A step of a batch that touches no row, and takes no attempt up.
LEMMA BatchKeeps ==
  ASSUME BInv, TInv', NEW w \in Implementers, Live(w), pc[w] # "idle",
         OthersStay(w), tasks' = tasks,
         pc'[w] \notin {"select", "read", "backoff", "upsert", "take"},
         \A i \in Issues : pc'[w] \in {"idle", "own"} => att'[w][i] = "none",
         \A i \in Issues : \/ att'[w][i] = att[w][i]
                           \/ att'[w][i] = "none"
                           \/ pc'[w] = "exec" /\ att'[w][i] # "held",
         pc'[w] # "exec" => pc[w] # "exec" \/ \A i \in Issues : att'[w][i] = "none",
         pc'[w] \in {"prepare", "lock", "fail", "skip"}
           => \/ pc[w] \in {"prepare", "lock", "fail", "skip"} /\ pick'[w] = pick[w]
              \/ pick'[w] \notin Issues
  PROVE  BInv'
<1>1. \A i \in Issues : HeldRow(w, i)
  BY OnlyOneWorks
<1>2. ASSUME NEW i \in Issues PROVE HeldRow(w, i)'
  <2>1. pc'[w] # "exec" => att'[w][i] \in {"none", "held"}
    BY <1>1 DEF HeldRow
  <2>2. /\ pc'[w] # "exec" /\ att'[w][i] = "held"
             => tasks'[i].status \in {"claimed", "reconciliation_needed"}
        /\ att'[w][i] = "held" => BlocksDispatch(tasks'[i].status)
    BY <1>1 DEF HeldRow
  <2>3. pc'[w] \in {"prepare", "lock", "fail", "skip"} /\ pick'[w] = i
          => /\ att'[w][i] = "none"
             /\ tasks'[i].status \in {"claimed", "reconciliation_needed"}
    BY <1>1 DEF HeldRow
  <2> QED
    BY <2>1, <2>2, <2>3 DEF HeldRow
<1> QED
  BY <1>2, OnlyOneWorks, ImplementerStep

\* The lock of a claim makes it one of the batch.
LEMMA LockKeeps ==
  ASSUME BInv, TInv', NEW w \in Implementers, Live(w), AcquireLock(w)
  PROVE  BInv'
<1> USE IssueWorkerAssumption DEF Workers
<1> DEFINE i == pick[w]
<1>1. pc[w] = "lock" /\ tasks' = tasks /\ dead' = dead
  BY DEF AcquireLock
<1>2. i \in Issues
  BY <1>1 DEF BInv, TInv, PicksAnIssue
<1>3. CASE lock[i] = NoPick \/ ~Live(lock[i])
  <2>1. /\ pc' = [pc EXCEPT ![w] = "next"] \/ pc' = [pc EXCEPT ![w] = "exec"]
        /\ pick' = [pick EXCEPT ![w] = NoPick]
        /\ att' = [att EXCEPT ![w][i] = "held"]
    BY <1>3 DEF AcquireLock, AfterClaim, Goto, Choose, Move
  <2>2. /\ pc'[w] \in {"next", "exec"}
        /\ att'[w] = [att[w] EXCEPT ![i] = "held"]
        /\ OthersStay(w)
    BY <1>1, <2>1, OnlyOneWorks DEF OthersStay
  <2>3. \A j \in Issues : att'[w][j] = IF j = i THEN "held" ELSE att[w][j]
    BY <1>1, <2>2, OnlyOneWorks
  <2>4. \A j \in Issues : HeldRow(w, j)
    BY <1>1, OnlyOneWorks
  <2>5. ASSUME NEW j \in Issues PROVE HeldRow(w, j)'
    <3>1. CASE j = i
      BY <1>1, <2>2, <2>3, <2>4, <3>1 DEF HeldRow, BlocksDispatch
    <3>2. CASE j # i
      BY <1>1, <2>2, <2>3, <2>4, <3>2 DEF HeldRow
    <3> QED
      BY <3>1, <3>2
  <2> QED
    BY <1>1, <2>2, <2>5, OnlyOneWorks, ImplementerStep
<1>4. CASE ~(lock[i] = NoPick \/ ~Live(lock[i]))
  <2>1. pc' = [pc EXCEPT ![w] = "fail"] /\ UNCHANGED <<att, pick>>
    BY <1>4 DEF AcquireLock, Goto
  <2>2. OthersStay(w) /\ pc'[w] = "fail"
    BY <1>1, <2>1, OnlyOneWorks DEF OthersStay
  <2> QED
    BY <1>1, <2>1, <2>2, BatchKeeps
<1> QED
  BY <1>3, <1>4

\* The completion of a claim that came to nothing concerns none of the batch.
LEMMA CompleteKeeps ==
  ASSUME BInv, TInv', NEW w \in Implementers, Live(w), Complete(w)
  PROVE  BInv'
<1> USE IssueWorkerAssumption DEF Workers
<1> DEFINE i == pick[w]
           status == IF pc[w] = "fail" THEN "failed" ELSE "completed"
<1>1. /\ pc[w] \in {"fail", "skip"} /\ UNCHANGED <<pick, att, dead>>
      /\ pc'[w] \in {"failed", "skipped", "skip_failed"}
      /\ OthersStay(w)
  BY OnlyOneWorks DEF Complete, Goto, OthersStay
<1>2. CASE tasks' = tasks
  BY <1>1, <1>2, BatchKeeps
<1>3. CASE /\ i \in Issues /\ TaskClaimed(tasks[i])
           /\ tasks' = [tasks EXCEPT ![i] = CompletedTask(tasks[i], status)]
  <2>1. RowTime(CompletedTask(tasks[i], status)) /\ BlocksDispatch(tasks[i].status)
    BY <1>1, <1>3, OnlyOneWorks, RowChanges DEF TaskClaimed, BlocksDispatch
  <2>2. \A j \in Issues :
          tasks'[j] = IF j = i THEN CompletedTask(tasks[i], status) ELSE tasks[j]
    BY <1>1, <1>3, OnlyOneWorks
  <2>3. ASSUME NEW j \in Issues PROVE HeldRow(w, j)'
    <3>1. HeldRow(w, j)
      BY <1>1, OnlyOneWorks
    <3>2. CASE j = i
      BY <1>1, <3>1, <3>2 DEF HeldRow
    <3>3. CASE j # i
      BY <1>1, <2>2, <3>1, <3>3 DEF HeldRow
    <3> QED
      BY <3>2, <3>3
  <2> QED
    BY <1>1, <2>1, <2>2, <2>3, OnlyOneWorks, ImplementerStep
<1>4. i \in Issues => i \notin Implementers
  OBVIOUS
<1> QED
  BY <1>2, <1>3, <1>4 DEF Complete, SetTask

\* An attempt's row is completed when the attempt holds nothing any more.
LEMMA AttemptKeeps ==
  ASSUME BInv, TInv', NEW w \in Implementers, NEW i \in Issues, Live(w), CompleteAttempt(w, i)
  PROVE  BInv'
<1> USE IssueWorkerAssumption DEF Workers
<1>1. /\ att[w][i] = "complete" /\ att' = [att EXCEPT ![w][i] = "report"]
      /\ UNCHANGED <<pc, pick, dead>>
  BY DEF CompleteAttempt, Move
<1>2. pc[w] = "exec"
  BY <1>1 DEF BInv, HeldRows, HeldRow
<1>3. /\ att'[w] = [att[w] EXCEPT ![i] = "report"]
      /\ OthersStay(w)
  BY <1>1, <1>2, OnlyOneWorks DEF OthersStay
<1>4. \A j \in Issues : att'[w][j] = IF j = i THEN "report" ELSE att[w][j]
  BY <1>2, <1>3, OnlyOneWorks
<1>5. \A j \in Issues :
        \/ tasks'[j] = tasks[j]
        \/ j = i /\ BlocksDispatch(tasks[j].status) /\ RowTime(tasks'[j])
  <2>1. CASE TaskClaimed(tasks[i])
    <3>1. tasks' = [tasks EXCEPT ![i] = CompletedTask(tasks[i], AttemptStatus(w, i))]
      BY <2>1 DEF CompleteAttempt, SetTask
    <3>2. RowTime(CompletedTask(tasks[i], AttemptStatus(w, i)))
      BY <1>2, OnlyOneWorks, RowChanges DEF AttemptStatus
    <3> QED
      BY <1>2, <2>1, <3>1, <3>2, OnlyOneWorks DEF TaskClaimed, BlocksDispatch
  <2>2. CASE ~TaskClaimed(tasks[i])
    BY <2>2 DEF CompleteAttempt
  <2> QED
    BY <2>1, <2>2
<1>6. ASSUME NEW j \in Issues PROVE HeldRow(w, j)'
  <2>1. HeldRow(w, j)
    BY <1>2, OnlyOneWorks
  <2> QED
    BY <1>1, <1>2, <1>4, <1>5, <2>1 DEF HeldRow
<1> QED
  BY <1>1, <1>2, <1>3, <1>5, <1>6, OnlyOneWorks, ImplementerStep

LEMMA WorkKeeps ==
  ASSUME LanesOfDaemons, BInv, TInv', NEW w \in Implementers, Work(w)
  PROVE  BInv'
<1> USE IssueWorkerAssumption DEF Workers
<1>1. Live(w) /\ (Claims(w) \/ Attempts(w))
  BY DEF Work
<1>2. ASSUME pc[w] # "idle", UNCHANGED <<att, tasks, dead>>,
             NEW step, NEW row, Goto(w, step), pick' = [pick EXCEPT ![w] = row],
             step \notin {"select", "read", "backoff", "upsert", "take", "own"},
             step = "idle" => Batch(w) = {},
             step # "exec" => pc[w] # "exec" \/ Batch(w) = {},
             step \in {"prepare", "lock", "fail", "skip"}
               => \/ pc[w] \in {"prepare", "lock", "fail", "skip"} /\ row = pick[w]
                  \/ row \notin Issues
      PROVE  BInv'
  <2>1. OthersStay(w) /\ pc'[w] = step /\ pick'[w] = row
    BY <1>2, OnlyOneWorks DEF Goto, OthersStay
  <2>2. Batch(w) = {} => \A i \in Issues : att[w][i] = "none"
    BY DEF Batch
  <2> QED
    BY <1>1, <1>2, <2>1, <2>2, BatchKeeps
<1>3. pick \in [Workers -> Issues \cup Implementers \cup {NoPick}]
  BY DEF BInv, TInv, TypeOK
<1>4. \A row : row = pick[w] => pick = [pick EXCEPT ![w] = row]
  BY <1>3
<1>5. CASE ClaimOwn(w)
  <2>1. Batch(w) = {}
    BY <1>5 DEF ClaimOwn, Batch, BInv, Bodies
  <2> QED
    BY <1>2, <1>4, <1>5, <2>1 DEF ClaimOwn
<1>6. CASE ClaimNothing(w)
  BY <1>2, <1>4, <1>6 DEF ClaimNothing, EndOfBatch, LanesOfDaemons
<1>7. CASE \E i \in Issues : ClaimNext(w, i)
  BY <1>1, <1>7, ClaimKeeps
<1>8. CASE \E v \in Implementers : ClaimOwnRowOf(w, v)
  BY <1>2, <1>8 DEF ClaimOwnRowOf, Choose
<1>9. CASE Prepare(w)
  BY <1>2, <1>4, <1>9 DEF Prepare
<1>10. CASE AcquireLock(w)
  BY <1>1, <1>10, LockKeeps
<1>11. CASE Complete(w)
  BY <1>1, <1>11, CompleteKeeps
<1>12. CASE Report(w)
  BY <1>2, <1>12 DEF Report, Choose, EndOfBatch
<1>13. CASE EndBatch(w)
  BY <1>2, <1>4, <1>13 DEF EndBatch
<1>14. ASSUME NEW i \in Issues, NEW step \in AttemptSteps \ {"held"}, Move(w, i, step),
              UNCHANGED <<tasks, pc, pick, dead>>,
              att[w][i] # "none", step = "none" \/ pc[w] = "exec"
       PROVE  BInv'
  <2>1. pc[w] \notin {"idle", "own"}
    BY <1>14 DEF BInv, Bodies
  <2>2. /\ att'[w] = [att[w] EXCEPT ![i] = step]
        /\ OthersStay(w)
    BY <1>14, <2>1, OnlyOneWorks DEF Move, OthersStay
  <2>3. \A j \in Issues : att'[w][j] = IF j = i THEN step ELSE att[w][j]
    BY <2>1, <2>2, OnlyOneWorks
  <2> QED
    BY <1>1, <1>14, <2>1, <2>2, <2>3, BatchKeeps, OnlyOneWorks
<1>15. \A i \in Issues : att[w][i] \in {"unlock", "complete", "report"} => pc[w] = "exec"
  BY DEF BInv, HeldRows, HeldRow
<1>16. CASE \E i \in Issues : ReleaseClaim(w, i)
  BY <1>14, <1>16 DEF ReleaseClaim, AttemptSteps
<1>17. CASE \E i \in Issues, fails \in BOOLEAN : AttemptEnds(w, i, fails)
  BY <1>14, <1>17 DEF AttemptEnds, AttemptSteps
<1>18. CASE \E i \in Issues : Unlock(w, i)
  BY <1>14, <1>15, <1>18 DEF Unlock, AttemptSteps
<1>19. CASE \E i \in Issues : CompleteAttempt(w, i)
  BY <1>1, <1>19, AttemptKeeps
<1>20. CASE \E i \in Issues : ReportAttempt(w, i)
  BY <1>14, <1>15, <1>20 DEF ReportAttempt, AttemptSteps
<1>21. ~Take(w)
  BY DEF Take, BInv, Bodies
<1> QED
  BY <1>1, <1>5, <1>6, <1>7, <1>8, <1>9, <1>10, <1>11, <1>12, <1>13, <1>16, <1>17, <1>18,
     <1>19, <1>20, <1>21 DEF Claims, Attempts

\* Rows change under workers that stay where they are.
LEMMA RowsChange ==
  ASSUME BInv, TInv', UNCHANGED <<pc, pick, att, dead>>,
         \A i \in Issues :
           RowTime(tasks'[i]) /\ (tasks'[i].status = tasks[i].status
             \/ /\ BlocksDispatch(tasks[i].status) /\ BlocksDispatch(tasks'[i].status)
                /\ \/ tasks'[i].status = "reconciliation_needed"
                   \/ \A w \in Implementers : pc[w] \in {"idle", "exec"})
  PROVE  BInv'
<1>1. Bodies' /\ OneBody' /\ RowTimes'
  BY DEF BInv, Bodies, OneBody, RowTimes, Live
<1>2. StillRunnable'
  BY DEF BInv, StillRunnable, TInv, PicksAnIssue, Workers
<1>3. ASSUME NEW w \in Implementers, NEW i \in Issues PROVE HeldRow(w, i)'
  <2>1. HeldRow(w, i) /\ (pc[w] = "idle" => att[w][i] = "none")
    BY DEF BInv, HeldRows, Bodies
  <2>2. CASE tasks'[i].status = tasks[i].status
    BY <2>1, <2>2 DEF HeldRow
  <2>3. CASE /\ BlocksDispatch(tasks'[i].status)
             /\ tasks'[i].status = "reconciliation_needed"
    BY <2>1, <2>3 DEF HeldRow
  <2>4. CASE BlocksDispatch(tasks'[i].status) /\ pc[w] \in {"idle", "exec"}
    BY <2>1, <2>4 DEF HeldRow
  <2> QED
    BY <2>2, <2>3, <2>4
<1> QED
  BY <1>1, <1>2, <1>3 DEF BInv, HeldRows

LEMMA CrashKeeps ==
  ASSUME BInv, TInv', NEW p \in Procs, Crash(p)
  PROVE  BInv'
<1> USE IssueWorkerAssumption DEF Workers
<1>1. \A w \in Workers :
        /\ pc'[w] = IF ProcOf[w] = p THEN "idle" ELSE pc[w]
        /\ pick'[w] = IF ProcOf[w] = p THEN NoPick ELSE pick[w]
  BY DEF Crash
<1>2. \A w \in Implementers, i \in Issues :
        att'[w][i] = IF ProcOf[w] = p THEN "none" ELSE att[w][i]
  BY DEF Crash
<1>3. dead' = dead \cup {p} /\ tasks' = tasks
  BY DEF Crash
<1>4. Bodies'
  BY <1>1, <1>2, <1>3 DEF BInv, Bodies, Live
<1>5. OneBody' /\ StillRunnable' /\ RowTimes'
  BY <1>1, <1>3 DEF BInv, OneBody, StillRunnable, RowTimes
<1>6. HeldRows'
  BY <1>1, <1>2, <1>3 DEF BInv, HeldRows, HeldRow
<1> QED
  BY <1>4, <1>5, <1>6 DEF BInv

LEMMA NextBatches == LanesOfDaemons /\ BInv /\ [Next]_vars => BInv'
<1> SUFFICES ASSUME LanesOfDaemons, BInv, [Next]_vars PROVE BInv'
  OBVIOUS
<1>1. TInv'
  BY NextTyped DEF BInv
<1>2. \A i \in Issues : RowTime(tasks[i]) /\ tasks[i] \in TaskRow
  BY DEF BInv, RowTimes, TInv, TypeOK
<1>3. CASE \E w \in Workers : Plan(w)
  BY <1>1, <1>3, PlanKeeps
<1>4. CASE \E w \in Implementers : Begin(w)
  BY <1>1, <1>4, BeginKeeps
<1>5. CASE \E w \in Implementers : Work(w)
  BY <1>1, <1>5, WorkKeeps
<1>6. CASE UNCHANGED <<tasks, pc, pick, att, dead>>
  BY <1>1, <1>2, <1>6, RowsChange
<1>7. CASE Recover
  <2> SUFFICES ASSUME NEW i \in Issues, MarkStale(i) PROVE BInv'
    BY <1>6, <1>7 DEF Recover, FindStale
  <2>1. CASE tasks' = tasks
    BY <1>6, <2>1 DEF MarkStale
  <2>2. CASE /\ tasks[i].status = "claimed"
             /\ tasks' = [tasks EXCEPT ![i] = ReconciliationNeededTask(tasks[i])]
    <3>1. /\ RowTime(ReconciliationNeededTask(tasks[i]))
          /\ ReconciliationNeededTask(tasks[i]).status = "reconciliation_needed"
      BY <1>2, <2>2, RowChanges DEF RowTime
    <3>2. \A j \in Issues :
            tasks'[j] = IF j = i THEN ReconciliationNeededTask(tasks[i]) ELSE tasks[j]
      BY <2>2 DEF BInv, TInv, TypeOK
    <3>3. UNCHANGED <<pc, pick, att, dead>>
      BY DEF MarkStale
    <3> QED
      BY <1>1, <1>2, <2>2, <3>1, <3>2, <3>3, RowsChange DEF BlocksDispatch
  <2> QED
    BY <2>1, <2>2 DEF MarkStale, TaskClaimed, SetTask
<1>8. CASE \E i \in Issues : Repair(i)
  <2>1. PICK i \in Issues : Repair(i)
    BY <1>8
  <2>2. \A w \in Implementers : pc[w] \in {"idle", "exec"}
    BY <2>1 DEF Repair, Settled, BInv, Bodies, Workers
  <2>3. /\ RepairedTask.status = "queued" /\ RowTime(RepairedTask)
        /\ tasks[i].status = "reconciliation_needed"
        /\ UNCHANGED <<pc, pick, att, dead>>
    BY <2>1 DEF Repair, RepairedTask, QueuedTask, RowTime, TaskRepairable
  <2>4. \A j \in Issues : tasks'[j] = IF j = i THEN RepairedTask ELSE tasks[j]
    BY <2>1 DEF Repair, SetTask, BInv, TInv, TypeOK
  <2> QED
    BY <1>1, <1>2, <2>2, <2>3, <2>4, RowsChange DEF BlocksDispatch
<1>9. CASE \E i \in Issues : LeaseExpires(i)
  BY <1>6, <1>9 DEF LeaseExpires
<1>10. CASE \E p \in Procs : Crash(p)
  BY <1>1, <1>10, CrashKeeps
<1>11. CASE Minute
  <2>1. \A i \in Issues : RowTime(tasks'[i]) /\ tasks'[i].status = tasks[i].status
    BY <1>2, <1>11, RowChanges DEF Minute
  <2> QED
    BY <1>1, <1>11, <2>1, RowsChange DEF Minute
<1>12. CASE UNCHANGED vars
  BY <1>6, <1>12 DEF vars
<1> QED
  BY <1>3, <1>4, <1>5, <1>7, <1>8, <1>9, <1>10, <1>11, <1>12 DEF Next

LEMMA Batches == LanesOfDaemons => (Spec => []BInv)
<1> SUFFICES ASSUME LanesOfDaemons PROVE Spec => []BInv
  OBVIOUS
<1>1. BInv /\ [Next]_vars => BInv'
  BY NextBatches
<1> QED
  BY InitBatches, <1>1, PTL DEF Spec

\* While an attempt runs, its issue's row blocks dispatch (BlocksDispatch), for any
\* number of daemons, issues and claims in a batch, whatever recovery and the
\* operator do to the row, as long as one implementation lane claims at a time.
THEOREM RunningBlocksDispatch == LanesOfDaemons => (Spec => []RunningBlocks)
<1>1. BInv => RunningBlocks
  BY DEF BInv, HeldRows, HeldRow, RunningBlocks
<1> QED
  BY Batches, <1>1, PTL

\* No two daemons handle claims of one issue at a time
\* (runClaimedAttemptBatchWithClaimerContext), on the same condition.
THEOREM OneClaimantOnly == LanesOfDaemons => (Spec => []OneClaimant)
<1>1. BInv => OneClaimant
  <2> SUFFICES ASSUME BInv, NEW v \in Implementers, NEW w \in Implementers, NEW i \in Issues,
                      Attends(v, i), Attends(w, i)
               PROVE  v = w
    BY DEF OneClaimant
  <2>1. \A u \in Implementers : Attends(u, i) => pc[u] # "idle"
    BY DEF Attends, BInv, Bodies
  <2> QED
    BY <2>1 DEF BInv, OneBody
<1> QED
  BY Batches, <1>1, PTL

\* What a step of a worker does to a row that waits for its repair: nothing.
LEMMA WorkersLeaveMarkedRows ==
  ASSUME LanesOfDaemons, BInv, NEW i \in Issues, tasks[i].status = "reconciliation_needed",
         NEW w \in Workers,
         Plan(w) \/ (w \in Implementers /\ (Begin(w) \/ Work(w)))
  PROVE  tasks'[i] = tasks[i]
<1> USE IssueWorkerAssumption DEF Workers
<1>1. tasks \in [Issues -> TaskRow]
  BY DEF BInv, TInv, TypeOK
<1>2. ASSUME NEW j, NEW row, SetTask(j, row), tasks[j].status # "reconciliation_needed"
      PROVE  tasks'[i] = tasks[i]
  BY <1>1, <1>2 DEF SetTask
<1>3. CASE tasks' = tasks
  BY <1>3
<1>4. CASE Upsert(w)
  <2>1. w \in Schedulers /\ pc[w] = "upsert"
    BY <1>4 DEF Upsert, BInv, Bodies
  <2>2. ~BlocksDispatch(tasks[pick[w]].status)
    BY <2>1 DEF BInv, StillRunnable
  <2> QED
    BY <1>2, <1>4, <2>2 DEF Upsert, BlocksDispatch
<1>5. CASE w \in Implementers /\ \E j \in Issues : ClaimNext(w, j)
  BY <1>2, <1>5 DEF ClaimNext, TaskClaimable
<1>6. CASE w \in Implementers /\ Take(w)
  BY <1>6 DEF Take, BInv, Bodies
<1>7. CASE w \in Implementers /\ Complete(w)
  <2>1. CASE tasks' = tasks
    BY <2>1
  <2>2. CASE pick[w] \in Issues /\ TaskClaimed(tasks[pick[w]])
             /\ \E row : SetTask(pick[w], row)
    BY <1>2, <2>2 DEF TaskClaimed
  <2> QED
    BY <1>7, <2>1, <2>2 DEF Complete
<1>8. CASE w \in Implementers /\ \E j \in Issues : CompleteAttempt(w, j)
  BY <1>2, <1>3, <1>8 DEF CompleteAttempt, TaskClaimed
<1>9. Plan(w) => Upsert(w) \/ tasks' = tasks
  BY DEF Plan, Schedule, Select, SelectNone, ReadRow, ReadBackoff
<1>10. ASSUME w \in Implementers, Begin(w) PROVE tasks' = tasks
  BY <1>10 DEF Begin, Open
<1>11. ASSUME w \in Implementers, Claims(w)
       PROVE  \/ tasks' = tasks \/ Take(w) \/ Complete(w)
              \/ \E j \in Issues : ClaimNext(w, j)
  BY <1>11
  DEF Claims, ClaimOwn, ClaimNothing, ClaimOwnRowOf, Prepare, AcquireLock, Report, ReleaseClaim
<1>12. ASSUME w \in Implementers, Attempts(w)
       PROVE  tasks' = tasks \/ \E j \in Issues : CompleteAttempt(w, j)
  BY <1>12 DEF Attempts, AttemptEnds, Unlock, ReportAttempt, EndBatch
<1> QED
  BY <1>3, <1>4, <1>5, <1>6, <1>7, <1>8, <1>9, <1>10, <1>11, <1>12 DEF Work

LEMMA MarkedRowsWait ==
  ASSUME LanesOfDaemons, BInv, [Next]_vars, NEW i \in Issues,
         tasks[i].status = "reconciliation_needed", tasks'[i] # tasks[i]
  PROVE  Repair(i)
<1>1. tasks \in [Issues -> TaskRow]
  BY DEF BInv, TInv, TypeOK
<1>2. CASE \E w \in Workers : Plan(w)
  BY <1>2, WorkersLeaveMarkedRows
<1>3. CASE \E w \in Implementers : Begin(w) \/ Work(w)
  BY <1>3, WorkersLeaveMarkedRows DEF Workers
<1>4. CASE Recover
  BY <1>1, <1>4 DEF Recover, FindStale, MarkStale, TaskClaimed, SetTask
<1>5. CASE \E j \in Issues : Repair(j)
  BY <1>1, <1>5 DEF Repair, SetTask
<1>6. CASE Minute
  <2>1. tasks[i].wait = 0 /\ tasks[i].age = 0
    BY DEF BInv, RowTimes, RowTime
  <2>2. TaskAfterTick(tasks[i]) = [tasks[i] EXCEPT !.wait = tasks[i].wait, !.age = tasks[i].age]
    BY <2>1 DEF TaskAfterTick
  <2>3. TaskAfterTick(tasks[i]) = tasks[i]
    BY <1>1, <2>2 DEF TaskRow
  <2> QED
    BY <1>6, <2>3 DEF Minute
<1>7. CASE (\E j \in Issues : LeaseExpires(j)) \/ (\E p \in Procs : Crash(p)) \/ UNCHANGED vars
  BY <1>7 DEF LeaseExpires, Crash, vars
<1> QED
  BY <1>2, <1>3, <1>4, <1>5, <1>6, <1>7 DEF Next

\* A row that recovery has marked is changed by the operator's repair only
\* (enqueueImplementationWorkerTask decides on the row it reads, CompleteWorkerTask
\* tests that the row is claimed).
THEOREM MarkedRowsStay == LanesOfDaemons => (Spec => BlockedUntilRepair)
<1> SUFFICES ASSUME LanesOfDaemons PROVE Spec => BlockedUntilRepair
  OBVIOUS
<1> DEFINE Stays == \A i \in Issues :
             tasks[i].status = "reconciliation_needed" /\ tasks'[i] # tasks[i] => Repair(i)
<1>1. BInv /\ [Next]_vars => [Stays]_vars
  BY MarkedRowsWait
<1>2. Spec => []BInv
  BY Batches
<1> QED
  BY <1>1, <1>2, PTL DEF Spec, BlockedUntilRepair
=============================================================================
