--------------------------- MODULE BountyHubLedger ---------------------------
(***************************************************************************)
(* The money of BountyHub: what the contract holds against what it owes.   *)
(* These properties sum over projects and submissions.                     *)
(***************************************************************************)
EXTENDS BountyHub, FiniteSetsExt

BountyPools == MapThenSumSet(LAMBDA p : projects[p].bountyPool, ProjectIds)

(* A bond is the challenger's until the dispute is resolved or forfeited.  *)
OpenBonds ==
  MapThenSumSet(LAMBDA s : IF submissions[s].status = "Disputed"
                           THEN submissions[s].challengeBond ELSE 0, SubmissionIds)

(* The contract holds at least every pool and every bond still at stake,   *)
(* so no payout and no bond return ever fails for want of ether.           *)
Solvent == balance >= BountyPools + OpenBonds

=============================================================================
