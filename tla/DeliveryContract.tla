-------------------------- MODULE DeliveryContract --------------------------
(***************************************************************************)
(* What the lanes promise of one issue, whoever does which part of it and  *)
(* whatever is repeated or cut short on the way: it is handed to a human   *)
(* only after a review accepted some work on it, or work was there to be   *)
(* reviewed where no review is configured; a lane merges only what was so  *)
(* accepted and what a human approved; the issue is done only when         *)
(* something was merged, and its workspace is deleted only then.           *)
(***************************************************************************)

VARIABLES stage,      \* the Linear state of the issue
          reviewed,   \* whether the work was ever accepted, by a review or for want of one
          approved,   \* whether a human ever approved a pull request of it
          mergers,    \* who merged one, a lane or a human
          workspace   \* "absent" until it is made, "here", "deleted"

vars == <<stage, reviewed, approved, mergers, workspace>>

Init ==
  /\ stage = "Ready" /\ reviewed = FALSE /\ approved = FALSE
  /\ mergers = {} /\ workspace = "absent"

Reviews ==
  /\ reviewed' = TRUE
  /\ UNCHANGED <<stage, approved, mergers, workspace>>

Approves ==
  /\ approved' = TRUE
  /\ UNCHANGED <<stage, reviewed, mergers, workspace>>

\* The issue goes to the lanes, or to a human with questions.
Returns ==
  /\ stage' \in {"Ready", "Running", "NeedsInfo"}
  /\ UNCHANGED <<reviewed, approved, mergers, workspace>>

HandsOff ==
  /\ reviewed
  /\ stage' = "Handoff"
  /\ UNCHANGED <<reviewed, approved, mergers, workspace>>

LaneMerges ==
  /\ reviewed /\ approved
  /\ mergers' = mergers \cup {"lane"}
  /\ UNCHANGED <<stage, reviewed, approved, workspace>>

HumanMerges ==
  /\ mergers' = mergers \cup {"human"}
  /\ UNCHANGED <<stage, reviewed, approved, workspace>>

Finishes ==
  /\ mergers # {}
  /\ stage' = "Done"
  /\ UNCHANGED <<reviewed, approved, mergers, workspace>>

Prepares ==
  /\ workspace' = "here"
  /\ UNCHANGED <<stage, reviewed, approved, mergers>>

Deletes ==
  /\ mergers # {}
  /\ workspace' = "deleted"
  /\ UNCHANGED <<stage, reviewed, approved, mergers>>

Next ==
  \/ Reviews \/ Approves \/ Returns \/ HandsOff
  \/ LaneMerges \/ HumanMerges \/ Finishes \/ Prepares \/ Deletes

Spec == Init /\ [][Next]_vars
============================================================================
