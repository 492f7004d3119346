---------------------------- MODULE MCVerifyPoc ----------------------------
(* A small instance of VerifyPoc: one PoC takes all the target holds, the other all that
   its setup puts there, within the rules or beyond them. *)
EXTENDS VerifyPoc

CONSTANTS s1, s2

AllAndMore     == (s1 :> 3) @@ (s2 :> 4)
Limits         == [seed |-> 3, warp |-> 0, impersonation |-> FALSE]
Fill(amount)   == [type |-> "setBalance", who |-> "target", value |-> amount]
Plain          == [hashed |-> TRUE, stored |-> TRUE, form |-> "workflow", chain |-> "1",
                   setup |-> <<>>]
Filling(steps) == [Plain EXCEPT !.form = "frontend", !.chain = "sepolia", !.setup = steps]
PlainAndFilling ==
  {(s1 :> Plain) @@ (s2 :> Filling(steps)) : steps \in {<<Fill(3)>>, <<Fill(1), Fill(4)>>}}
OneEach        == [juryWindow |-> 1, adjudicationWindow |-> 1, committed |-> 1, revealed |-> 2]
BothOpen       == (s1 :> {"call"}) @@ (s2 :> {"call", "token"})
Repeated       == <<"primary", "fallback", "primary">>
Alike          == Permutations(Handlers) \cup Permutations(Inits)
=============================================================================
