-------------------------- MODULE MCMultiGrouping --------------------------
(* Four submissions that differ in what similarity looks at. *)
EXTENDS MultiGrouping

Bug == [severity |-> "HIGH", target |-> "vault", impact |-> "theft",
        summary |-> {"drains"}, calldata |-> {"withdraw"}]

Reports ==
  {[Bug EXCEPT !.calldata = c] :
     c \in {{}, {"withdraw"}, {"withdraw", "deposit"}, {"deposit", "short"}}}
  \cup {[Bug EXCEPT !.calldata = {}, !.summary = w] : w \in {{"the"}, {"draining", "reserve"}}}
  \cup {[Bug EXCEPT !.severity = "LOW"]}

Stems == [drains |-> "drain", draining |-> "drain", reserve |-> "reserv", the |-> "none"]

ImpactWords == [theft |-> {"the"}]

AfterVerdict ==
  {[competitionMode |-> "MULTI", finalValidity |-> "VALID", severity |-> "CRITICAL",
    submissions |-> s] : s \in [Ids -> Reports]}

Refused ==
  {[competitionMode |-> m, finalValidity |-> v, severity |-> s, submissions |-> [i \in Ids |-> Bug]] :
     m \in {"MULTI", "UNIQUE"}, v \in {"NONE", "VALID"}, s \in {"MEDIUM", "LOW"}}

AllRequests == AfterVerdict \cup Refused
=============================================================================
