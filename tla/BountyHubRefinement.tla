------------------------- MODULE BountyHubRefinement -------------------------
(***************************************************************************)
(* BountyHub implements BountyPromise: the mapping from the records of the *)
(* contract to the outcome of each finding.                                *)
(***************************************************************************)
EXTENDS BountyHub

OutcomeOf(sub) ==
  IF sub.auditor = NoAccount THEN "none"
  ELSE CASE sub.status = "Committed"                 -> "sealed"
         [] sub.status = "Revealed"                  -> "judged by verifier"
         [] sub.status = "JuryPending"               -> "judged by jury"
         [] sub.status = "AwaitingOwnerAdjudication" -> "judged by owner"
         [] sub.status = "Verified"                  -> IF sub.challenged THEN "upheld" ELSE "accepted"
         [] sub.status = "Disputed"                  -> "contested"
         [] sub.status = "Finalized"                 -> "settled"
         [] sub.status = "Invalid"                   -> "rejected"

ExclusivePrograms == {p \in ProjectIds : projects[p].config.mode = "UNIQUE"}
ProgramOf         == [s \in SubmissionIds |-> submissions[s].projectId]
Outcomes          == [s \in SubmissionIds |-> OutcomeOf(submissions[s])]
AcceptedFindings  == {s \in SubmissionIds : Accepted(s)}

Promise == INSTANCE BountyPromise WITH
  Programs  <- ProjectIds,
  Findings  <- SubmissionIds,
  exclusive <- ExclusivePrograms,
  program   <- ProgramOf,
  outcome   <- Outcomes,
  accepted  <- AcceptedFindings

(* Every behaviour of the contract is one the promise allows: whatever the *)
(* order of commits, reveals, reports, disputes and finalizations, no      *)
(* finding skips or repeats a stage and a UNIQUE project has one winner.   *)
ImplementsPromise == Promise!PromiseSpec

=============================================================================
