----------------------------- MODULE JuryRound -----------------------------
(***************************************************************************)
(* workflow/jury-orchestrator: one adjudication round of one submission.   *)
(*                                                                         *)
(* main.ts is a stateless pipeline: every mode takes JSON artefacts (case  *)
(* packages, ingest envelopes, verdict candidates) from its caller and     *)
(* returns a new one.  The artefacts that circulate are therefore state,   *)
(* and a caller may combine any of them: a case package from before a      *)
(* juror was replaced with votes from after it, or a verdict it wrote      *)
(* itself.  run-once.ts drives a whole round in one process: it asks the   *)
(* LLM jurors, stores every opinion in Oasis and reads it back, then runs  *)
(* the pipeline and reports to BountyHub.                                  *)
(*                                                                         *)
(* A digest is modelled by the value it is taken of.  Rationales and       *)
(* testimonies are left out; parsing is what it accepts.                   *)
(***************************************************************************)
EXTENDS ReportEnvelope, SequencesExt

CONSTANTS
  LlmCount, HumanCount,          \* seats of each cohort (5 and 5)
  RequiredConsensus,             \* agreeing votes a jury verdict needs (8)
  RequiredCohort,                \* of which from each cohort (3)
  Llms, Humans,                  \* juror ids
  NoJuror, NoCase, NoVerdict,    \* none of a juror id, a case package, a verdict
  Times,                         \* windows of the project, timestamps of the submission
  Runs,                          \* run-once processes
  Drains,                        \* finalDrainAmountWei a caller may name; run-once names none
  Votes,                         \* the validities jurors vote for
  MaxReplacements, MaxIngests, MaxFinals, MaxTime

ASSUME SeatAssumption ==
  /\ LlmCount \in Nat /\ HumanCount \in Nat
  /\ RequiredConsensus \in Nat /\ RequiredCohort \in Nat
  /\ RequiredConsensus >= LlmCount + RequiredCohort
ASSUME JurorAssumption ==
  /\ Llms \cap Humans = {} /\ NoJuror \notin Llms \cup Humans
ASSUME TimeAssumption ==
  Times \in [juryWindow : Nat, adjudicationWindow : Nat, committed : Nat, revealed : Nat]

VARIABLES
  now,       \* seconds, shared by the chain and the callers
  cases,     \* adjudication-case packages that circulate
  opinions,  \* Oasis: what is stored under a slot and a juror id
  ingests,   \* opinion-ingest envelopes that circulate
  finals,    \* what final-package mode returned, with the evidence it was given
  verdict,   \* BountyHub: the final verdict of the submission
  run        \* the run-once processes

vars == <<now, cases, opinions, ingests, finals, verdict, run>>

Jurors     == Llms \cup Humans
Slots      == 0 .. (LlmCount + HumanCount - 1)
LlmSlots   == {s \in Slots : s < LlmCount}
HumanSlots == Slots \ LlmSlots
Validities == {"HIGH", "MEDIUM", "INVALID"}
Rosters    == [Slots -> Jurors]

Replacement == [slot : HumanSlots, previous : Jurors, next : Jurors]
Selection   == [HumanSlots -> Jurors]    \* whom the draw gave each human seat
Case        == [committed : Rosters, drawn : Selection, trail : Seq(Replacement),
                seated : Rosters]
Opinion     == [juror : Jurors \cup {NoJuror}, validity : Validities, at : Nat]
Ingest      == {[slots |-> D, vote |-> v] : D \in SUBSET Slots, v \in [Slots -> Opinion]}

NoOpinion == "NONE"
NoVote    == [juror |-> NoJuror, validity |-> "INVALID", at |-> 0]

-----------------------------------------------------------------------------
(* The evidence *)

\* Reports callers may hand in: the evidence verify-poc gives out for the submission, and
\* reports no case may be opened on.
Submission      == 1
OtherSubmission == 2
Evidence   == StrictFail(Submission, FALSE, 0, Times, 0, "NONE")
VerifiedReports ==
  {Evidence} \cup {[Evidence EXCEPT !.payload.isValid = TRUE],
                   [Evidence EXCEPT !.payload.drainAmountWei = 1]}
  \cup {[StrictPass(id, ok, drain) EXCEPT !.reportType = type] :
          id \in {Submission, OtherSubmission}, type \in {V1, V2}, ok \in BOOLEAN,
          drain \in {0, 1}}

JuryDeadline         == Deadlines(Evidence).jury
AdjudicationDeadline == Deadlines(Evidence).adjudication

-----------------------------------------------------------------------------
(* Requests to the pipeline *)

InputKeys ==
  ("derive-recommendation"     :> {"verifiedReport"}) @@
  ("aggregate-recommendations" :> {"recommendations", "requiredQuorum", "timedOut"}) @@
  ("owner-testimony"           :> {"recommendation", "ownerTestimony", "verifiedReport"}) @@
  ("case-initialization"       :> {"verifiedReport", "juryRoundId", "rosterSelection"}) @@
  ("opinion-ingest"            :> {"casePackage", "sealedOpinions"}) @@
  ("aggregate-opinions"        :> {"casePackage", "opinionIngest", "currentTimestampSec"}) @@
  ("final-package"             :> {"casePackage", "finalVerdict"})
Modes == DOMAIN InputKeys

\* inferJuryPipelineMode goes by the first key it finds.
InferredMode(keys) ==
  IF "sealedOpinions" \in keys THEN "opinion-ingest"
  ELSE IF keys \cap {"opinionIngest", "currentTimestampSec"} # {} THEN "aggregate-opinions"
  ELSE IF keys \cap {"casePackage", "finalVerdict"} # {} THEN "final-package"
  ELSE IF "juryRoundId" \in keys THEN "case-initialization"
  ELSE IF keys \cap {"recommendation", "ownerTestimony"} # {} THEN "owner-testimony"
  ELSE IF "recommendations" \in keys THEN "aggregate-recommendations"
  ELSE "derive-recommendation"

ModeOf(request) == IF request.mode = "none" THEN InferredMode(request.keys) ELSE request.mode

\* parseJuryWorkflowConfig: the policy may only say that nothing settles here.
WellFormedPolicy(p) == ~p.allowDirectSettlement /\ p.requireOwnerResolution
Policy == [allowDirectSettlement : BOOLEAN, requireOwnerResolution : BOOLEAN]

\* A mode serves a request that has its keys, whether it names the mode or not.
Requests(m) ==
  [mode : Modes \cup {"none"}, keys : SUBSET InputKeys[m], policy : Policy]
Serves(m, request) ==
  /\ ModeOf(request) = m
  /\ request.keys = InputKeys[m] /\ WellFormedPolicy(request.policy)
Served == {m \in Modes : \E request \in Requests(m) : Serves(m, request)}

-----------------------------------------------------------------------------
(* The roster *)

\* parseRosterSelectionInput: the LLM jurors seat by seat, enough human candidates, and
\* nobody named twice.
RosterSelections ==
  {sel \in [llms : [1 .. LlmCount -> Llms], candidates : SUBSET Humans] :
     /\ Cardinality(sel.candidates) >= HumanCount
     /\ IsInjective(sel.llms) /\ Range(sel.llms) \cap sel.candidates = {}}

\* buildRosterCommitment: the ranking of the human candidates is by a digest, so that any
\* of them may come out, in any order.
IsRoster(r, sel) ==
  /\ r \in Rosters /\ IsInjective(r)
  /\ \A s \in LlmSlots : r[s] = sel.llms[s + 1]
  /\ \A s \in HumanSlots : r[s] \in sel.candidates

CaseOn(r) == [committed |-> r, drawn |-> [s \in HumanSlots |-> r[s]], trail |-> <<>>,
              seated |-> r]

OpenCase ==
  /\ cases = {} /\ "case-initialization" \in Served
  /\ \E report \in VerifiedReports : OpensCase(report)
  /\ \E sel \in RosterSelections, r \in Rosters :
       /\ IsRoster(r, sel)
       /\ cases' = {CaseOn(r)}
  /\ UNCHANGED <<now, opinions, ingests, finals, verdict, run>>

\* resolveEffectiveRosterSlots: the committed roster with the trail replayed.
Seat(roster, change) == [roster EXCEPT ![change.slot] = change.next]
ReplayedRoster(c) == FoldLeft(Seat, c.committed, c.trail)

\* A trail replays when each replacement names the juror in the seat and no active one.
Replays(c) ==
  \A i \in 1 .. Len(c.trail) :
    LET before == ReplayedRoster([c EXCEPT !.trail = SubSeq(c.trail, 1, i - 1)])
        change == c.trail[i]
    IN  /\ change.slot \in HumanSlots
        /\ before[change.slot] = change.previous
        /\ \A s \in Slots \ {change.slot} : before[s] # change.next

\* assertHumanSelectionMatchesCommittedSlots
SelectionMatches(c) == \A s \in HumanSlots : c.drawn[s] = c.committed[s]

\* parseRosterCommitment: seats in order and distinct, the human ones as drawn, and the
\* digest of the effective roster is that of the replayed trail.
WellFormedRoster(c) ==
  /\ IsInjective(c.committed) /\ SelectionMatches(c)
  /\ Replays(c) /\ c.seated = ReplayedRoster(c)

\* Variant: the next juror only has to differ from the one in the seat.
AnotherJuror(c, s, j) == c.seated[s] # j

\* reissueHumanJurorSlot: the next juror may sit nowhere, but nothing asks whether it
\* was on the panel before, nor whether the seat has opined.
SitsNowhere(c, s, j) == \A t \in Slots : c.seated[t] # j

Reissue(c, s, j) ==
  /\ WellFormedRoster(c)
  /\ s \in HumanSlots /\ SitsNowhere(c, s, j)
  /\ cases' = cases \cup
       {[c EXCEPT !.trail = Append(@, [slot |-> s, previous |-> c.seated[s], next |-> j]),
                  !.seated[s] = j]}
  /\ UNCHANGED <<now, opinions, ingests, finals, verdict, run>>

ReissueHumanJurorSlot ==
  \E c \in cases, s \in HumanSlots, j \in Humans :
    Len(c.trail) < MaxReplacements /\ Reissue(c, s, j)

-----------------------------------------------------------------------------
(* Opinions *)

\* assertOpinionIngestRosterSlotAuthorized
MayOpine(c, s, j) == WellFormedRoster(c) /\ s \in Slots /\ c.seated[s] = j

\* The date of an opinion is the caller's, whatever the time is: in time, or late.
OpinionDates == {JuryDeadline, JuryDeadline + 1}

\* ingestJurorOpinions: the caller hands in the sealed opinions of whom it takes for the
\* panel (that of any case package about), with their dates; each must come from the juror
\* in its seat.
IngestOpinions(c) ==
  /\ Cardinality(ingests) < MaxIngests /\ "opinion-ingest" \in Served
  /\ \E d \in cases, given \in SUBSET Slots \ {{}} :
       \E validity \in [given -> Votes], date \in [given -> OpinionDates] :
         /\ \A s \in given : MayOpine(c, s, d.seated[s])
         /\ ingests' = ingests \cup
              {[slots |-> given,
                vote  |-> [s \in Slots |-> IF s \in given
                             THEN [juror |-> d.seated[s], validity |-> validity[s], at |-> date[s]]
                             ELSE NoVote]]}
  /\ UNCHANGED <<now, cases, opinions, finals, verdict, run>>

\* Variant: the ledger is complete and in time; whose votes it holds is not compared.
ReadComplete(c, e) ==
  /\ e.slots = Slots
  /\ \A s \in Slots : e.vote[s].at <= JuryDeadline

\* Variant: seats that did not vote are passed over.
ReadPresent(c, e) ==
  \A s \in e.slots : e.vote[s].juror = c.seated[s] /\ e.vote[s].at <= JuryDeadline

\* assertOpinionAggregationReadConsistency: the whole panel of this case package, in time
ReadConsistent(c, e) ==
  /\ e.slots = Slots
  /\ \A s \in Slots : e.vote[s].juror = c.seated[s] /\ e.vote[s].at <= JuryDeadline

-----------------------------------------------------------------------------
(* Aggregation *)

Supporters(e, v) == {s \in e.slots : e.vote[s].validity = v}

Qualifies(e, v) ==
  /\ Cardinality(Supporters(e, v)) >= RequiredConsensus
  /\ Cardinality(Supporters(e, v) \cap LlmSlots) >= RequiredCohort
  /\ Cardinality(Supporters(e, v) \cap HumanSlots) >= RequiredCohort

\* selectDeterministicConsensusSupport: the first seats in order
FirstOf(S) == {s \in S : Cardinality({t \in S : t < s}) < RequiredConsensus}

Consensus(e) ==
  IF Qualifies(e, "HIGH") THEN "HIGH"
  ELSE IF Qualifies(e, "MEDIUM") THEN "MEDIUM"
  ELSE IF Qualifies(e, "INVALID") THEN "INVALID" ELSE "NONE"

\* The leader of a handoff has more votes than each of the others.
Leader(e) ==
  IF \E v \in Validities : \A w \in Validities \ {v} :
       Cardinality(Supporters(e, v)) > Cardinality(Supporters(e, w))
  THEN CHOOSE v \in Validities : \A w \in Validities \ {v} :
         Cardinality(Supporters(e, v)) > Cardinality(Supporters(e, w))
  ELSE "NONE"

\* The payloads of jury-consensus/v1 and of owner-adjudication-handoff/v1
ConsensusPayload(e, at) ==
  [kind |-> "consensus", validity |-> Consensus(e), at |-> at,
   support |-> FirstOf(Supporters(e, Consensus(e)))]
HandoffPayload(e, at) ==
  [kind |-> "handoff", validity |-> Leader(e), at |-> at,
   support |-> IF Leader(e) = "NONE" THEN {} ELSE Supporters(e, Leader(e))]

\* aggregateTargetStateOpinionRecords
Aggregate(e, at) ==
  IF Consensus(e) # "NONE" THEN ConsensusPayload(e, at) ELSE HandoffPayload(e, at)

\* aggregate-opinions mode refuses to read the ledger before the jury deadline.
MayAggregate(c, e, at) == at >= JuryDeadline /\ WellFormedRoster(c) /\ ReadConsistent(c, e)

\* parseJuryConsensusEnvelope and parseOwnerAdjudicationHandoffEnvelope
WellFormedConsensus(a) ==
  /\ a.kind = "consensus"
  /\ a.validity \in Validities
  /\ Cardinality(a.support) = RequiredConsensus
  /\ Cardinality(a.support \cap LlmSlots) >= RequiredCohort
  /\ Cardinality(a.support \cap HumanSlots) >= RequiredCohort

WellFormedHandoff(a) == a.kind = "handoff"

-----------------------------------------------------------------------------
(* Final packages.  A candidate carries an ingest envelope and the aggregation its
   author claims for it; a decision is what the candidate resolves to. *)

Claims(e) ==
  {[Aggregate(e, at) EXCEPT !.validity = v] :
     at \in Times.revealed .. now, v \in Validities \cup {"NONE"}}

Decision(source, v, drain, evidence) ==
  [source |-> source, validity |-> v, drain |-> drain, evidence |-> evidence,
   compatibility |-> IF source = "LEGACY" THEN "migration-only" ELSE "final-verdict-ready"]

\* deriveTrustedOpinionAggregationEnvelope: the opinions are aggregated afresh, for the time
\* the candidate names; what comes out must be of its kind and have the same digest.
ConsensusDigest(a) == <<a.kind, a.validity, a.at, a.support>>
HandoffDigest(a)   == <<a.kind, a.validity, a.at, a.support>>
ConsensusTrusted(e, a) ==
  LET trusted == Aggregate(e, a.at)
  IN  trusted.kind = "consensus" /\ ConsensusDigest(a) = ConsensusDigest(trusted)
HandoffTrusted(e, a) ==
  LET trusted == Aggregate(e, a.at)
  IN  trusted.kind = "handoff" /\ HandoffDigest(a) = HandoffDigest(trusted)

\* normalizeJuryConsensusCandidate
JuryDecisions(c, e) ==
  {Decision("JURY", claim.validity, drain, e) :
     claim \in {a \in Claims(e) : /\ WellFormedConsensus(a)
                                  /\ MayAggregate(c, e, a.at)
                                  /\ ConsensusTrusted(e, a)},
     drain \in Drains \cup {0}}

\* normalizeOwnerAdjudicationCandidate, up to the adjudication deadline
OwnerDecisions(c, e) ==
  {Decision("OWNER", v, drain, e) :
     claim \in {a \in Claims(e) : /\ WellFormedHandoff(a)
                                  /\ now <= AdjudicationDeadline
                                  /\ MayAggregate(c, e, a.at)
                                  /\ HandoffTrusted(e, a)},
     v \in Validities, drain \in Drains \cup {0}}

\* The older modes end in a recommendation about one submission: of one report, of a
\* sequence of recommendations, in which nothing tells who made them, or of one that the
\* owner's testimony accompanies.
About(submission, action) == [submissionId |-> submission, action |-> action]
Derived ==
  {About(r.payload.submissionId,
         IF r.payload.isValid THEN "UPHOLD_AI_RESULT" ELSE "OVERTURN_AI_RESULT") :
     r \in {q \in VerifiedReports : JuryReads(q) /\ q.reportType # V3 /\ NoAuthorityBypass(q)}}

\* assertMatchingRecommendationScope
SameScope(given) == \A i \in DOMAIN given : given[i].submissionId = given[1].submissionId

Recommenders(given, action) ==
  Cardinality({i \in DOMAIN given : given[i].action = action})
Leading(given) ==
  {a \in JuryActions : \A b \in JuryActions : Recommenders(given, b) <= Recommenders(given, a)}
Quorate(given, quorum) == {a \in JuryActions : Recommenders(given, a) >= quorum}

\* aggregateJuryRecommendationEnvelopes
Recommended(given, quorum) ==
  IF Leading(given) = Quorate(given, quorum) /\ Cardinality(Leading(given)) = 1
  THEN CHOOSE a \in JuryActions : a \in Leading(given) ELSE "NEEDS_OWNER_REVIEW"

Recommendations ==
  {About(id, action) : id \in {Submission, OtherSubmission}, action \in JuryActions}
Aggregated ==
  {About(given[1].submissionId, Recommended(given, quorum)) :
     given \in {g \in [1 .. 2 -> Recommendations] : SameScope(g)}, quorum \in {1, 2}}

\* parseOwnerTestimonyPayload, assertOwnerTestimonyConsistency: the report may be left out.
Testimony(id) == [submissionId |-> id, recommendationReportType |-> RecommendationType]
Consistent(rec, testimony, reports) ==
  /\ testimony.submissionId = rec.submissionId
  /\ testimony.recommendationReportType = RecommendationType
  /\ \A r \in reports : r.payload.submissionId = rec.submissionId /\ NoAuthorityBypass(r)

\* ingestOwnerTestimony hands the recommendation back as it was.
Testified ==
  {rec \in Recommendations : \E id \in {Submission, OtherSubmission} :
     Consistent(rec, Testimony(id), {})
     \/ \E r \in VerifiedReports : JuryReads(r) /\ Consistent(rec, Testimony(id), {r})}

FinalValidityOf(action) ==
  CASE action = "UPHOLD_AI_RESULT" -> "HIGH" [] action = "OVERTURN_AI_RESULT" -> "INVALID"
    [] OTHER -> "NONE"

\* A recommendation about the submission of the case, offered as the final verdict
LegacyDecisions(c, e) ==
  {Decision("LEGACY", FinalValidityOf(rec.action), 0, e) :
     rec \in {r \in Derived \cup Aggregated \cup Testified : r.submissionId = Submission}}

\* buildAdjudicationFinalPackage
DrainFits(v, drain) == IF v \in {"HIGH", "MEDIUM"} THEN drain > 0 ELSE drain = 0

\* Variant: the compatibility of the candidate is not looked at.
AnyCandidate(d) == DrainFits(d.validity, d.drain)
Packable(d) == d.compatibility = "final-verdict-ready" /\ DrainFits(d.validity, d.drain)
Final(c, d) == [case |-> c, decision |-> d]

PackageVerdict(c, e) ==
  /\ Cardinality(finals) < MaxFinals /\ "final-package" \in Served
  /\ \E d \in JuryDecisions(c, e) \cup OwnerDecisions(c, e) \cup LegacyDecisions(c, e) :
       Packable(d) /\ finals' = finals \cup {Final(c, d)}
  /\ UNCHANGED <<now, cases, opinions, ingests, verdict, run>>

IsValid(d) == d.validity \in {"HIGH", "MEDIUM"}
FinalPackage(d) == Envelope(FinalType,
  [submissionId |-> Submission, lifecycleStatus |-> IF IsValid(d) THEN "VERIFIED" ELSE "INVALID",
   verdictSource |-> d.source, finalValidity |-> d.validity, isValid |-> IsValid(d),
   drainAmountWei |-> d.drain, evidenceReportType |-> V3]
  @@ IF d.source = "OWNER" THEN [ownerTestimonyDigest |-> d.validity] ELSE <<>>)

\* encodeJuryOrchestratorContractReport: HIGH and MEDIUM become Valid with a severity.
Report(f) == [source |-> f.decision.source, drain |-> f.decision.drain,
              isValid |-> IsValid(f.decision),
              severity |-> IF IsValid(f.decision) THEN f.decision.validity ELSE "NONE"]

\* BountyHub takes one final verdict for a submission; a second report reverts.
Accepts(report) == verdict = NoVerdict

DeliverVerdict ==
  /\ \E f \in finals : Accepts(Report(f)) /\ verdict' = Report(f)
  /\ UNCHANGED <<now, cases, opinions, ingests, finals, run>>

-----------------------------------------------------------------------------
(* run-once.ts *)

Idle == [phase |-> "idle", case |-> NoCase, seat |-> 0,
         record |-> [s \in Slots |-> NoOpinion], final |-> NoCase]
Exited == [Idle EXCEPT !.phase = "exited"]    \* a process drives one round

\* prepareJuryRoundContext: the same evidence and selection commit the same roster, and
\* the seats taken are the committed ones.
PrepareRound(r) ==
  /\ run[r].phase = "idle"
  /\ \E c \in cases :
       /\ c.trail = <<>>
       /\ run' = [run EXCEPT ![r] = [Idle EXCEPT !.phase = "write", !.case = c]]
  /\ UNCHANGED <<now, cases, opinions, ingests, finals, verdict>>

\* The LLM cohort, then the human one.  Within a cohort the jurors are asked at the same
\* time; they touch different slots of Oasis, so here they are taken seat by seat.
Stored(r) == <<run[r].seat, run[r].case.committed[run[r].seat]>>

\* persistAndReadBackOpinion: the juror answers, the opinion is written over whatever the
\* slot held ...
WriteOpinion(r, v) ==
  /\ run[r].phase = "write"
  /\ run' = [run EXCEPT ![r].record[run[r].seat] = v, ![r].phase = "read"]
  /\ opinions' = [opinions EXCEPT ![Stored(r)] = v]
  /\ UNCHANGED <<now, cases, ingests, finals, verdict>>

LastSeat(s) == s + 1 \notin Slots

\* ... then read back, and compared with what was sent.
ReadBackOpinion(r) ==
  /\ run[r].phase = "read"
  /\ run' = [run EXCEPT ![r] =
       IF opinions[Stored(r)] # @.record[@.seat] THEN Exited
       ELSE IF LastSeat(@.seat) THEN [@ EXCEPT !.phase = "aggregate"]
       ELSE [@ EXCEPT !.phase = "write", !.seat = run[r].seat + 1]]
  /\ UNCHANGED <<now, cases, opinions, ingests, finals, verdict>>

\* A juror, the write or the read fails: the round is given up, what is stored stays.
AbortRound(r) ==
  /\ run[r].phase \in {"write", "read"}
  /\ run' = [run EXCEPT ![r] = Exited]
  /\ UNCHANGED <<now, cases, opinions, ingests, finals, verdict>>

\* aggregateCollectedJuryOpinions.  No clock is read: the opinions are dated just before
\* the jury deadline and the aggregation just after it.
lateSafe == IF JuryDeadline > 1 THEN JuryDeadline - 1 ELSE 1
RunIngest(r) ==
  [slots |-> Slots,
   vote  |-> [s \in Slots |-> [juror |-> run[r].case.committed[s],
                               validity |-> run[r].record[s], at |-> lateSafe]]]

RunConsensus(r, drain) ==
  LET a == Aggregate(RunIngest(r), JuryDeadline + 1)
      d == Decision("JURY", a.validity, IF a.validity = "INVALID" THEN 0 ELSE drain, RunIngest(r))
  IN  /\ MayAggregate(run[r].case, RunIngest(r), JuryDeadline + 1)
      /\ a.kind = "consensus" /\ WellFormedConsensus(a) /\ Packable(d)
      /\ Cardinality(finals) < MaxFinals
      /\ finals' = finals \cup {Final(run[r].case, d)}
      /\ run' = [run EXCEPT ![r].phase = "simulate", ![r].final = Final(run[r].case, d)]

\* A handoff is returned, and a consensus whose drain is missing throws: nothing is sent.
RunEndsWithoutVerdict(r, drain) ==
  LET a == Aggregate(RunIngest(r), JuryDeadline + 1)
  IN  /\ a.kind = "handoff" \/ (a.validity # "INVALID" /\ drain = 0)
      /\ run' = [run EXCEPT ![r] = Exited]
      /\ UNCHANGED finals

AggregateRound(r) ==
  /\ run[r].phase = "aggregate"
  /\ \E drain \in Drains \cup {0} : RunConsensus(r, drain) \/ RunEndsWithoutVerdict(r, drain)
  /\ UNCHANGED <<now, cases, opinions, ingests, verdict>>

\* submitJuryReportOnchain: the call is simulated, sent, and its receipt awaited.
Simulate(r) ==
  /\ run[r].phase = "simulate"
  /\ run' = [run EXCEPT ![r] = IF Accepts(Report(@.final)) THEN [@ EXCEPT !.phase = "sent"]
                               ELSE Exited]
  /\ UNCHANGED <<now, cases, opinions, ingests, finals, verdict>>

IncludeReport(r) ==
  /\ run[r].phase = "sent"
  /\ verdict' = IF Accepts(Report(run[r].final)) THEN Report(run[r].final) ELSE verdict
  /\ run' = [run EXCEPT ![r] = Exited]
  /\ UNCHANGED <<now, cases, opinions, ingests, finals>>

-----------------------------------------------------------------------------
Tick == now < MaxTime /\ now' = now + 1
        /\ UNCHANGED <<cases, opinions, ingests, finals, verdict, run>>

Init ==
  /\ now = Times.revealed /\ cases = {} /\ ingests = {} /\ finals = {}
  /\ opinions = [p \in Slots \X Jurors |-> NoOpinion]
  /\ verdict = NoVerdict
  /\ run = [r \in Runs |-> Idle]

Pipeline ==
  \/ OpenCase \/ ReissueHumanJurorSlot \/ DeliverVerdict
  \/ \E c \in cases : IngestOpinions(c) \/ \E e \in ingests : PackageVerdict(c, e)

RunOnce(r) ==
  \/ PrepareRound(r) \/ ReadBackOpinion(r) \/ AbortRound(r) \/ AggregateRound(r)
  \/ Simulate(r) \/ IncludeReport(r)
  \/ \E v \in Votes : WriteOpinion(r, v)

Next == Tick \/ Pipeline \/ \E r \in Runs : RunOnce(r)
Spec == Init /\ [][Next]_vars

-----------------------------------------------------------------------------
(* Properties *)

\* However jurors were replaced, on whichever copy of the case package, nobody holds two
\* seats and the LLM seats keep the jurors they were committed with.
OneSeatPerJuror ==
  \A c \in cases : /\ IsInjective(c.seated)
                   /\ \A s \in LlmSlots : c.seated[s] = c.committed[s]

\* A jury verdict has its majority, in both cohorts, among votes of the very panel of its
\* case package, each dated in time (the caller of the ingest dates them), whatever artefacts
\* the caller combined or wrote.
JuryVerdictBacked ==
  \A f \in finals : f.decision.source = "JURY" =>
    /\ Qualifies(f.decision.evidence, f.decision.validity)
    /\ \A s \in Slots : /\ f.decision.evidence.vote[s].juror = f.case.seated[s]
                        /\ f.decision.evidence.vote[s].at <= JuryDeadline

\* The owner decides only when the whole panel voted and reached no consensus.
OwnerOnlyAfterDeadlock ==
  \A f \in finals : f.decision.source = "OWNER" =>
    /\ Consensus(f.decision.evidence) = "NONE"
    /\ f.decision.evidence.slots = Slots

\* From one set of votes the jury never gives two verdicts, and not one beside the owner's.
OneVerdictPerBallot ==
  \A f, g \in finals : f.decision.evidence = g.decision.evidence =>
    /\ f.decision.source = g.decision.source
    /\ f.decision.source = "JURY" => f.decision.validity = g.decision.validity
=============================================================================
