--------------------------- MODULE LaneContract ---------------------------
(***************************************************************************)
(* What the durable-task machinery promises to the body of a lane          *)
(* (docs/specs/durable-worker-orchestration.md, "Worker tasks"), with no   *)
(* store, lease, clock or heartbeat: a lane's body runs in at most one     *)
(* process at a time, a lane that needs reconciliation runs nowhere, it    *)
(* comes to need reconciliation only while its body runs nowhere, and only *)
(* an operator's repair lets it run again.                                 *)
(***************************************************************************)
CONSTANTS Lanes, Procs

VARIABLES
  running,   \* the processes a lane's body runs in
  blocked    \* the lanes that need reconciliation

vars == <<running, blocked>>

Init ==
  /\ running = [l \in Lanes |-> {}]
  /\ blocked = {}

Begin(p, l) ==
  /\ running[l] = {}
  /\ l \notin blocked
  /\ running' = [running EXCEPT ![l] = {p}]
  /\ UNCHANGED blocked

\* A process ends one body or, by dying, all of its bodies at once.
End(p, ended) ==
  /\ running' = [l \in Lanes |-> IF l \in ended THEN running[l] \ {p} ELSE running[l]]
  /\ UNCHANGED blocked

Surface(l) ==
  /\ running[l] = {}
  /\ blocked' = blocked \cup {l}
  /\ UNCHANGED running

Repair(l) ==
  /\ blocked' = blocked \ {l}
  /\ UNCHANGED running

Next ==
  \/ \E p \in Procs, l \in Lanes : Begin(p, l)
  \/ \E p \in Procs, ended \in SUBSET Lanes : End(p, ended)
  \/ \E l \in Lanes : Surface(l) \/ Repair(l)

Spec == Init /\ [][Next]_vars

\* What the promise comes to in every state: one body at most, and none in a
\* lane that needs reconciliation.
Exclusive ==
  \A l \in Lanes :
    /\ \A p, q \in running[l] : p = q
    /\ l \in blocked => running[l] = {}
============================================================================
