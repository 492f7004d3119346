---------------------------- MODULE MCJuryRound ----------------------------
(* A short round, and symmetry: human jurors are interchangeable. *)
EXTENDS JuryRound

OneEach == [juryWindow |-> 1, adjudicationWindow |-> 1, committed |-> 1, revealed |-> 1]

HumanSymmetry == Permutations(Humans) \cup Permutations(Runs)
=============================================================================
