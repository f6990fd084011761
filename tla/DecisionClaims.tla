--------------------------- MODULE DecisionClaims ---------------------------
(***************************************************************************)
(* What the documents say of the decisions and the code does not do: TLC   *)
(* refutes each (DecisionClaimsOpenPR.cfg, DecisionClaimsExplain.cfg).     *)
(***************************************************************************)
EXTENDS Decisions

\* No workspace is deleted while its pull request is open (what
\* docs/specs/durable-worker-orchestration.md asks of the cleanup worker; the
\* rule for attempts that have ended, cleanup.go:426, asks the code host nothing).
OpenPRIsKept ==
  asked.about = "cleanup" /\ asked.out.delete => ~(asked.in.facts.url # 0 /\ asked.in.pr = "open")

\* The explain command says an issue would run exactly if a lane takes it,
\* for an attempt or to resume its review (what docs/specs/harness-behavior.md
\* says of --explain; explain.go:112 looks at no retry decision).
ExplainAgrees ==
  asked.about = "issue" => (asked.out.explained <=> asked.out.pick \/ asked.out.resume)
=============================================================================
