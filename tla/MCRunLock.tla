----------------------------- MODULE MCRunLock -----------------------------
(* RunLock for TLC: three processes on two hosts, one of them with two     *)
(* workers; or three workers in two processes of one host.                 *)
EXTENDS RunLock, TLC

CONSTANTS w1, w2, w3, w4, p1, p2, p3, h1, h2

\* Three processes on two hosts.
ProcOfThree == w1 :> p1 @@ w2 :> p2 @@ w3 :> p3 @@ w4 :> p3
HostOfThree == p1 :> h1 @@ p2 :> h1 @@ p3 :> h2

\* A daemon, and one started after it with two lanes that run the issue.
ProcOfTwo == w1 :> p1 @@ w2 :> p2 @@ w3 :> p2
HostOfTwo == p1 :> h1 @@ p2 :> h1
============================================================================
