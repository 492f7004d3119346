--------------------------- MODULE ReportEnvelope ---------------------------
(***************************************************************************)
(* The envelopes in which verify-poc, the simulator and jury-orchestrator  *)
(* hand a submission's report to each other, and what each of them reads.  *)
(* The two workflows have a parser each; they do not accept the same.      *)
(*                                                                         *)
(* An envelope is a record with the fields its author set: an optional     *)
(* field may be missing from its domain, and a field the parser does not   *)
(* know makes it refuse.  The magic, identifiers, addresses, digests and   *)
(* rationales are taken to be well formed and left out.                    *)
(***************************************************************************)
EXTENDS Integers, Sequences, TLC

V1          == "verified-report/v1"
V2          == "verified-report/v2"
V3          == "verified-report/v3"
LegacyType  == "legacy-verify-poc/v0"
FinalType   == "adjudication-final/v1"
ExpiredType == "owner-adjudication-expired/v1"

Envelope(type, payload) == [reportType |-> type, payload |-> payload]

Has(record, field)    == field \in DOMAIN record
Only(record, allowed) == DOMAIN record \subseteq allowed

\* requireReportBigIntLike and requireReportPositiveSafeInteger
NonNegative == Nat
Positive    == Nat \ {0}

-----------------------------------------------------------------------------
(* Parts both parsers read alike *)

PayloadKeys == {"submissionId", "isValid", "drainAmountWei", "observedCalldata"}

WellFormedPayload(p) ==
  /\ Only(p, PayloadKeys)
  /\ p.isValid \in BOOLEAN /\ p.drainAmountWei \in NonNegative

Actions == {"UPHOLD_AI_RESULT", "OVERTURN_AI_RESULT", "NEEDS_OWNER_REVIEW"}
RecommendationType == "jury-recommendation/v1"

CommitmentVersion == "anti-soon.verify-poc.jury-commitment.v1"
CommitmentKeys == {"commitmentVersion", "juryLedgerDigest", "sourceEventKey", "mappingFingerprint"}
OasisKeys == {"chain", "contract", "slotId", "envelopeHash"}
AdjudicationKeys ==
  {"severity", "juryWindow", "adjudicationWindow", "commitTimestampSec", "revealTimestampSec",
   "sapphireWriteTimestampSec", "reasonCode", "oasis"}

-----------------------------------------------------------------------------
(* verify-poc reads *)

WellFormedJury(j) ==
  /\ Only(j, {"recommendationReportType", "action"})
  /\ j.recommendationReportType = RecommendationType /\ j.action \in Actions
WellFormedTestimony(t) ==
  /\ Only(t, {"recommendationReportType"})
  /\ t.recommendationReportType = RecommendationType

\* parseVerifyPocJuryCommitmentMetadata, parseVerifyPocAdjudicationOasisMetadata
WellFormedCommitment(c) ==
  DOMAIN c = CommitmentKeys /\ c.commitmentVersion = CommitmentVersion
WellFormedOasis(o) == DOMAIN o = OasisKeys

\* parseVerifyPocGroupingMetadata: every rank counts from one.
GroupingKeys == {"cohort", "groupRank", "cohortRank", "memberRank", "groupSize"}
WellFormedGrouping(g) ==
  /\ Only(g, GroupingKeys)
  /\ g.cohort \in {"HIGH", "MEDIUM", "OTHER"}
  /\ {g.groupRank, g.cohortRank, g.memberRank, g.groupSize} \subseteq Positive

ReasonCodes == {"RETRYABLE_RPC", "RETRY_EXHAUSTED", "BINDING_MISMATCH",
                "ORPHAN_RECOVERED", "ORPHAN_QUARANTINED"}

\* parseVerifyPocAdjudicationMetadata: a window or a timestamp may be zero.
VerifyReadsAdjudication(a) ==
  /\ Only(a, AdjudicationKeys) /\ WellFormedOasis(a.oasis)
  /\ {a.severity, a.juryWindow, a.adjudicationWindow,
      a.commitTimestampSec, a.revealTimestampSec} \subseteq NonNegative
  /\ Has(a, "sapphireWriteTimestampSec") => a.sapphireWriteTimestampSec \in NonNegative
  /\ Has(a, "reasonCode") => a.reasonCode \in ReasonCodes

\* parseVerifyPocAdjudicationFinalPayload
FinalPayloadKeys ==
  {"submissionId", "lifecycleStatus", "verdictSource", "finalValidity", "isValid",
   "drainAmountWei", "evidenceReportType", "ownerTestimonyDigest"}

FinalLifecycles == {"VERIFIED", "INVALID"}
FinalSources    == {"JURY", "OWNER"}
FinalValidities == {"HIGH", "MEDIUM", "INVALID"}

FinalOutcomeAgrees(p) ==
  \/ /\ p.lifecycleStatus = "VERIFIED" /\ p.finalValidity \in {"HIGH", "MEDIUM"}
     /\ p.isValid /\ p.drainAmountWei \in Positive
  \/ /\ p.lifecycleStatus = "INVALID" /\ p.finalValidity = "INVALID"
     /\ ~p.isValid /\ p.drainAmountWei = 0

WellFormedFinal(p) ==
  /\ Only(p, FinalPayloadKeys)
  /\ p.lifecycleStatus \in FinalLifecycles /\ p.finalValidity \in FinalValidities
  /\ p.verdictSource \in FinalSources /\ p.isValid \in BOOLEAN
  /\ FinalOutcomeAgrees(p)
  /\ p.verdictSource = "OWNER" <=> Has(p, "ownerTestimonyDigest")
  /\ p.evidenceReportType = V3

\* parseVerifyPocOwnerAdjudicationExpiredPayload
WellFormedExpired(p) ==
  /\ Only(p, {"submissionId", "lifecycleStatus", "resolution", "evidenceReportType"})
  /\ p.lifecycleStatus = "OWNER_ADJUDICATION_EXPIRED" /\ p.resolution = "UNRESOLVED"
  /\ p.evidenceReportType = V3

\* parseVerifyPocTypedReportEnvelopeObject, by report type
DecodesTyped(e) ==
  /\ e.reportType \in {V1, V2, V3} /\ WellFormedPayload(e.payload)
  /\ e.reportType = V1 => Only(e, {"reportType", "payload"})
  /\ e.reportType = V2 =>
       /\ Only(e, {"reportType", "payload", "jury", "testimony", "grouping"})
       /\ Has(e, "jury") => WellFormedJury(e.jury)
       /\ Has(e, "testimony") => WellFormedTestimony(e.testimony)
       /\ Has(e, "grouping") => WellFormedGrouping(e.grouping)
  /\ e.reportType = V3 =>
       /\ Only(e, {"reportType", "payload", "juryCommitment", "adjudication"})
       /\ Has(e, "juryCommitment") /\ WellFormedCommitment(e.juryCommitment)
       /\ Has(e, "adjudication") /\ VerifyReadsAdjudication(e.adjudication)

DecodesFinal(e) ==
  /\ e.reportType = FinalType /\ Only(e, {"reportType", "payload", "grouping"})
  /\ WellFormedFinal(e.payload)
  /\ Has(e, "grouping") => WellFormedGrouping(e.grouping)

DecodesExpired(e) ==
  /\ e.reportType = ExpiredType /\ Only(e, {"reportType", "payload"})
  /\ WellFormedExpired(e.payload)

\* The older report has no keys that are checked.
DecodesLegacy(e) ==
  /\ e.reportType = LegacyType
  /\ e.payload.isValid \in BOOLEAN /\ e.payload.drainAmountWei \in NonNegative

\* decodeVerifyPocReportEnvelope
Decodes(e) == DecodesLegacy(e) \/ DecodesFinal(e) \/ DecodesExpired(e) \/ DecodesTyped(e)

-----------------------------------------------------------------------------
(* verify-poc writes *)

\* encodeVerifyPocContractReport: evidence and the two outcomes of an adjudication are
\* refused.
Writable(e) == Decodes(e) /\ e.reportType \in {LegacyType, V1, V2}

\* What of the envelope reaches BountyHub
ContractReport(e) ==
  [isValid |-> e.payload.isValid, drainAmountWei |-> e.payload.drainAmountWei,
   hasJury |-> e.reportType = V2 /\ Has(e, "jury"),
   hasGrouping |-> e.reportType = V2 /\ Has(e, "grouping")]

ResultPayload(s, isValid, drain) ==
  [submissionId |-> s, isValid |-> isValid, drainAmountWei |-> drain, observedCalldata |-> <<>>]

\* buildVerifyPocStrictPassReportEnvelope
StrictPass(s, isValid, drain) == Envelope(V2, ResultPayload(s, isValid, drain))

\* buildVerifyPocStrictFailEvidenceEnvelope; digests are of the submission, and the time of
\* the Sapphire write, which nobody reads further, is left out.
Commitment(s) ==
  [commitmentVersion |-> CommitmentVersion, juryLedgerDigest |-> s, sourceEventKey |-> s,
   mappingFingerprint |-> s]

WithField(record, field, value) ==
  [f \in DOMAIN record \cup {field} |-> IF f = field THEN value ELSE record[f]]

Adjudication(s, times, severity, reason) ==
  LET always ==
        [severity |-> severity, juryWindow |-> times.juryWindow,
         adjudicationWindow |-> times.adjudicationWindow,
         commitTimestampSec |-> times.committed, revealTimestampSec |-> times.revealed,
         oasis |-> [chain |-> "sapphire", contract |-> "store", slotId |-> s, envelopeHash |-> s]]
  IN  IF reason = "NONE" THEN always ELSE WithField(always, "reasonCode", reason)

StrictFail(s, isValid, drain, times, severity, reason) ==
  [reportType |-> V3, payload |-> ResultPayload(s, isValid, drain), juryCommitment |-> Commitment(s),
   adjudication |-> Adjudication(s, times, severity, reason)]

\* decideVerifyPocStrictGate
Gate(isValid, reason) ==
  IF reason \in {"RETRYABLE_RPC", "RETRY_EXHAUSTED"} THEN "RETRY_SYNC"
  ELSE IF ~isValid THEN "EMIT_EVIDENCE" ELSE "WRITE_REPORT"

-----------------------------------------------------------------------------
(* The simulator reads what verify-poc returned: evidence opens the commit phase of the
   jury, anything else is left alone. *)

ReasonOf(e) == IF e.reportType = V3 /\ Has(e.adjudication, "reasonCode")
               THEN e.adjudication.reasonCode ELSE "NONE"

Dispatches(e) ==
  /\ DecodesTyped(e) /\ e.reportType = V3
  /\ Gate(e.payload.isValid, ReasonOf(e)) = "EMIT_EVIDENCE"

-----------------------------------------------------------------------------
(* jury-orchestrator reads *)

JuryActions == {"UPHOLD_AI_RESULT", "OVERTURN_AI_RESULT", "NEEDS_OWNER_REVIEW"}
JuryReadsJury(j) ==
  /\ Only(j, {"recommendationReportType", "action"})
  /\ j.recommendationReportType = RecommendationType /\ j.action \in JuryActions
JuryReadsTestimony(t) ==
  /\ Only(t, {"recommendationReportType"})
  /\ t.recommendationReportType = RecommendationType
JuryReadsCommitment(c) ==
  DOMAIN c = CommitmentKeys /\ c.commitmentVersion = CommitmentVersion
JuryReadsOasis(o) == DOMAIN o = OasisKeys

\* parseVerifiedReportAdjudicationMetadata: windows and timestamps are positive, and any
\* reason code will do.
JuryReadsAdjudication(a) ==
  /\ Only(a, AdjudicationKeys) /\ JuryReadsOasis(a.oasis) /\ a.severity \in NonNegative
  /\ {a.juryWindow, a.adjudicationWindow,
      a.commitTimestampSec, a.revealTimestampSec} \subseteq Positive
  /\ Has(a, "sapphireWriteTimestampSec") => a.sapphireWriteTimestampSec \in NonNegative

\* parseVerifiedReportEnvelope: there is no grouping in its v2.
JuryReads(e) ==
  /\ e.reportType \in {V1, V2, V3} /\ WellFormedPayload(e.payload)
  /\ e.reportType = V1 => Only(e, {"reportType", "payload"})
  /\ e.reportType = V2 =>
       /\ Only(e, {"reportType", "payload", "jury", "testimony"})
       /\ Has(e, "jury") => JuryReadsJury(e.jury)
       /\ Has(e, "testimony") => JuryReadsTestimony(e.testimony)
  /\ e.reportType = V3 =>
       /\ Only(e, {"reportType", "payload", "juryCommitment", "adjudication"})
       /\ Has(e, "juryCommitment") /\ JuryReadsCommitment(e.juryCommitment)
       /\ Has(e, "adjudication") /\ JuryReadsAdjudication(e.adjudication)

\* FORBIDDEN_AUTHORITY_SELECTORS: calls that settle a submission past the arbitration
Forbidden == {"finalize", "resolveDispute"}
NoAuthorityBypass(e) ==
  \A i \in DOMAIN e.payload.observedCalldata : e.payload.observedCalldata[i] \notin Forbidden

\* normalizeStrictFailEvidenceToCase
OpensCase(e) ==
  /\ JuryReads(e) /\ e.reportType = V3
  /\ ~e.payload.isValid /\ e.payload.drainAmountWei = 0
  /\ NoAuthorityBypass(e)

Deadlines(e) ==
  [jury |-> e.adjudication.revealTimestampSec + e.adjudication.juryWindow,
   adjudication |-> e.adjudication.revealTimestampSec + e.adjudication.juryWindow
                    + e.adjudication.adjudicationWindow]
=============================================================================
