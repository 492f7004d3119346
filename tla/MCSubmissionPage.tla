-------------------------- MODULE MCSubmissionPage --------------------------
(* A small instance of SubmissionPage: a UNIQUE project, with and without disputes. *)
EXTENDS SubmissionPage

CONSTANTS a1, t1

Unique ==
  [mode |-> "UNIQUE", maxPayoutPerBug |-> 20, commitDeadline |-> 0, revealDeadline |-> 0,
   disputeWindow |-> 1, juryWindow |-> 1, adjudicationWindow |-> 1,
   criticalDrainWei |-> 4, highDrainWei |-> 3, mediumDrainWei |-> 2, lowDrainWei |-> 1]

WithAndWithoutDisputes == {Unique, [Unique EXCEPT !.disputeWindow = 0]}
=============================================================================
