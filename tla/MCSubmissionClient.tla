------------------------- MODULE MCSubmissionClient -------------------------
(* Symmetry for TLC: tabs and accounts are interchangeable. *)
EXTENDS SubmissionClient, TLC

Alike == Permutations(Tabs) \cup Permutations(Accounts) \cup Permutations(Projects)
           \cup Permutations(Slots) \cup Permutations(OtherPoCs)
=============================================================================
