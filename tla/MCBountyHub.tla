----------------------------- MODULE MCBountyHub -----------------------------
(***************************************************************************)
(* Small instances of BountyHub for TLC.                                   *)
(***************************************************************************)
EXTENDS BountyHubLedger, BountyHubRefinement, TLC

CONSTANTS a1, a2, t1, t2

AuditorSymmetry == Permutations(Auditors)
SaltSymmetry == Permutations({t1, t2})

Base ==
  [mode |-> "UNIQUE", maxPayoutPerBug |-> 20, commitDeadline |-> 0, revealDeadline |-> 0,
   disputeWindow |-> 1, juryWindow |-> 1, adjudicationWindow |-> 1,
   criticalDrainWei |-> 4, highDrainWei |-> 3, mediumDrainWei |-> 2, lowDrainWei |-> 1]

Multi == [Base EXCEPT !.mode = "MULTI", !.commitDeadline = 2, !.revealDeadline = 3]

(* Windows: every kind of deadline of a MULTI project.                     *)
MultiConfigs == {Multi, [Multi EXCEPT !.revealDeadline = 0],
                 [Multi EXCEPT !.commitDeadline = 0, !.revealDeadline = 0]}

(* Settlement: a UNIQUE project with and without a dispute window, and a   *)
(* MULTI project, which arbitrates nothing.  The deposit of 1 covers no    *)
(* payout, nor the 5% penalty of 2 on a payout of 40; once topped up, the  *)
(* pool of 46 covers one payout of 40 with its penalty and not two.        *)
SettlementConfigs ==
  LET capped == [Base EXCEPT !.maxPayoutPerBug = 40]
  IN  {capped, [capped EXCEPT !.disputeWindow = 0],
       [Multi EXCEPT !.maxPayoutPerBug = 40, !.disputeWindow = 0]}

(* Admission: a UNIQUE project, and an allowlist of any of the three ids.  *)
AdmissionConfigs    == {Base}
AdmissionWorkflows  == {VERIFY_POC, JURY_ORCHESTRATOR, NoWorkflow}

Signed(type, a, s, n, d) ==
  [type |-> type, auditor |-> a, submissionId |-> s, salt |-> t1, nonce |-> n, deadline |-> d]

(* The auditors have queued a reveal at their first or second nonce, the   *)
(* first time with a deadline that passes before the reveals open.  All    *)
(* messages compete for the nonces 0 and 1.                                *)
SomeQueueSignatures ==
  {Signed("queue", a, s, n, 2 + 2 * n) : a \in Auditors, s \in {0, 1}, n \in {0, 1}}

SomeRevealSignatures == {Signed("reveal", a, 0, 1, 4) : a \in Auditors}

SomeCommitSignatures ==
  {[type |-> "commit", auditor |-> a, projectId |-> 0, commitHash |-> CommitmentTo(a, t1),
    nonce |-> 0, deadline |-> 3] : a \in Auditors}
=============================================================================
