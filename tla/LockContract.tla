---------------------------- MODULE LockContract ----------------------------
(***************************************************************************)
(* What the run lock of an issue promises to those who take it             *)
(* (docs/specs/end-to-end-orchestration.md, "Multi-agent behavior"),       *)
(* with no export, expiry or operation that has an inside: taking it and   *)
(* giving it back are one step each, as IssueWorker and Delivery have      *)
(* them.  One worker holds it at a time; it is on record for its process;  *)
(* it is taken when none is on record, or from a process known to be dead. *)
(***************************************************************************)
CONSTANTS Workers, Procs, NoProc, ProcOf, HostOf

VARIABLES
  holders,   \* the workers that act as holder of the lock
  record,    \* the process the lock is recorded for, NoProc if it is free
  dead       \* processes that were killed

vars == <<holders, record, dead>>

Init ==
  /\ holders = {}
  /\ record = NoProc
  /\ dead = {}

\* Whose death a worker can see: the processes of its own host.
KnownDead(w) == {p \in dead : HostOf[p] = HostOf[ProcOf[w]]}

Take(w) ==
  /\ ProcOf[w] \notin dead
  /\ holders = {}
  /\ record \in {NoProc} \cup KnownDead(w)
  /\ holders' = {w}
  /\ record' = ProcOf[w]
  /\ UNCHANGED dead

GiveBack(w) ==
  /\ ProcOf[w] \notin dead
  /\ holders = {w}
  /\ holders' = {}
  /\ record' = NoProc
  /\ UNCHANGED dead

\* A killed process stays on record.
Die(p) ==
  /\ dead' = dead \cup {p}
  /\ holders' = {w \in holders : ProcOf[w] # p}
  /\ UNCHANGED record

\* A record lapses only when nobody holds the lock.
Lapse ==
  /\ holders = {}
  /\ record' = NoProc
  /\ UNCHANGED <<holders, dead>>

Next ==
  \/ \E w \in Workers : Take(w) \/ GiveBack(w)
  \/ \E p \in Procs : Die(p)
  \/ Lapse

Spec == Init /\ [][Next]_vars
============================================================================
