--------------------------- MODULE MCIssueWorker ---------------------------
(* IssueWorker for TLC: two daemons, whose lanes are the same, and an      *)
(* `am worker implementation`.                                             *)
EXTENDS IssueWorker, TLC

CONSTANTS s1, s2, m1, m2, m3, p1, p2, p3

ProcOfDaemons == s1 :> p1 @@ m1 :> p1 @@ s2 :> p2 @@ m2 :> p2
LaneOfDaemons ==
  s1 :> "scheduler" @@ s2 :> "scheduler" @@ m1 :> "implementation" @@ m2 :> "implementation"

ProcOfMixed == s1 :> p1 @@ m1 :> p1 @@ m3 :> p3
LaneOfMixed == s1 :> "scheduler" @@ m1 :> "implementation" @@ m3 :> "worker"

CapacityOfMixed == m1 :> 2 @@ m3 :> 1
CapacityOfDaemons == m1 :> 2 @@ m2 :> 2

AnyIssue == Permutations(Issues)
============================================================================
