--------------------------- MODULE MCLaneWorker ---------------------------
(* LaneWorker for TLC: two or three processes share one or two lanes.  No  *)
(* definition tells processes, or lanes, apart.                            *)
EXTENDS LaneWorker, TLC

Processes == Permutations(Procs)

Exchanges == Permutations(Procs) \cup Permutations(Lanes)
============================================================================
