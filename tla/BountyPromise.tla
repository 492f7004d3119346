---------------------------- MODULE BountyPromise ----------------------------
(***************************************************************************)
(* What a bounty program promises its auditors, without blocks, salts,     *)
(* signatures, reports or money: the road a finding takes from its sealed  *)
(* submission to its outcome, and that an exclusive program judges one     *)
(* finding at a time and stops at the first it accepts.  BountyHub is      *)
(* shown to implement this specification.                                  *)
(***************************************************************************)
EXTENDS Integers, FiniteSets

CONSTANTS Programs, Findings

VARIABLES
  exclusive,  \* the programs that accept one finding only
  program,    \* the program of each finding
  outcome,    \* how far each finding has come
  accepted    \* the findings that were accepted at some time

promiseVars == <<exclusive, program, outcome, accepted>>

Outcome == {"none", "sealed", "judged by verifier", "judged by jury", "judged by owner",
            "accepted", "contested", "upheld", "rejected", "settled"}

Judging == {"judged by verifier", "judged by jury", "judged by owner"}

PromiseInit ==
  /\ exclusive = Programs
  /\ program \in [Findings -> Programs]
  /\ outcome = [f \in Findings |-> "none"]
  /\ accepted = {}

(* A program starts, exclusive or not, before any finding is sent to it.   *)
StartProgram(p) ==
  /\ \A f \in Findings : program[f] = p => outcome[f] = "none"
  /\ exclusive' \in {exclusive \cup {p}, exclusive \ {p}}
  /\ UNCHANGED <<program, outcome, accepted>>

Move(f, from, to) ==
  /\ outcome[f] \in from
  /\ outcome' = [outcome EXCEPT ![f] = to]

Seal(f, p) ==
  /\ Move(f, {"none"}, "sealed")
  /\ program' = [program EXCEPT ![f] = p]
  /\ UNCHANGED <<exclusive, accepted>>

(* An exclusive program opens a finding only while it has no other one     *)
(* open and has accepted none.                                             *)
MayOpen(f) ==
  program[f] \in exclusive =>
    \A g \in Findings : program[g] = program[f] => g \notin accepted /\ outcome[g] \notin Judging

Open(f) ==
  /\ MayOpen(f)
  /\ Move(f, {"sealed"}, "judged by verifier")
  /\ UNCHANGED <<exclusive, program, accepted>>

Escalate(f) ==
  /\ \/ Move(f, {"judged by verifier"}, "judged by jury")
     \/ Move(f, {"judged by jury"}, "judged by owner")
  /\ UNCHANGED <<exclusive, program, accepted>>

Accept(f) ==
  /\ \E to \in {"accepted", "settled"} : Move(f, Judging, to)
  /\ accepted' = accepted \cup {f}
  /\ UNCHANGED <<exclusive, program>>

(* Rejected by a verdict, or overturned by the owner after a challenge.    *)
Reject(f) ==
  /\ Move(f, Judging \cup {"contested"}, "rejected")
  /\ UNCHANGED <<exclusive, program, accepted>>

Contest(f) ==
  /\ Move(f, {"accepted"}, "contested")
  /\ UNCHANGED <<exclusive, program, accepted>>

UpholdFinding(f) ==
  /\ Move(f, {"contested"}, "upheld")
  /\ UNCHANGED <<exclusive, program, accepted>>

Settle(f) ==
  /\ Move(f, {"accepted", "contested", "upheld"}, "settled")
  /\ UNCHANGED <<exclusive, program, accepted>>

PromiseNext ==
  \/ \E p \in Programs : StartProgram(p)
  \/ \E f \in Findings :
       \/ \E p \in Programs : Seal(f, p)
       \/ Open(f) \/ Escalate(f) \/ Accept(f) \/ Reject(f)
       \/ Contest(f) \/ UpholdFinding(f) \/ Settle(f)

PromiseSpec == PromiseInit /\ [][PromiseNext]_promiseVars

(* An exclusive program has at most one accepted finding, ever, and none   *)
(* under judgement beside it: what the guard of Open amounts to.           *)
ExclusiveAward ==
  \A f, g \in Findings :
    (program[f] = program[g] /\ program[f] \in exclusive /\ f # g) =>
       ~ (/\ f \in accepted \/ outcome[f] \in Judging
          /\ g \in accepted \/ outcome[g] \in Judging)
=============================================================================
