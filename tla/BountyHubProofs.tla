--------------------------- MODULE BountyHubProofs ---------------------------
(***************************************************************************)
(* Theorems about BountyHub for all values of its constants, in seven      *)
(* parts: that its state is well typed; its safety invariants; what        *)
(* auditors and owners may rely on; what BountyPromise promises; that      *)
(* BountyHub implements it; that the submission page says and offers       *)
(* nothing that is not so; and that the contract can always pay what it    *)
(* owes.                                                                   *)
(***************************************************************************)
EXTENDS BountyHubRefinement, BountyHubLedger, BountyPromise, SubmissionPage, SumsAndPlaces

-----------------------------------------------------------------------------
(* Arithmetic of the payouts.                                              *)

(* An integer division of a natural number is a natural number.            *)
LEMMA DivisionIsNat ==
  ASSUME NEW n \in Nat, NEW d \in Nat, d > 0
  PROVE  n \div d \in Nat
OBVIOUS

(* _calculatePayout returns an amount for every severity.                  *)
LEMMA CalculatePayoutIsNat ==
  ASSUME NEW severity \in Severity, NEW maxPayout \in Nat
  PROVE  CalculatePayout(severity, maxPayout) \in Nat
<1>1. PayoutPercent[severity] \in {0, 10, 30, 60, 100}
  BY DEF Severity, PayoutPercent
<1>2. maxPayout * PayoutPercent[severity] \in Nat
  BY <1>1
<1>3. QED
  BY <1>2, DivisionIsNat DEF CalculatePayout

(* The penalty of finalize is an amount.                                   *)
LEMMA TimeoutPenaltyIsNat ==
  ASSUME NEW sub \in Submission
  PROVE  TimeoutPenalty(sub) \in Nat
<1>1. TIMEOUT_PENALTY_BPS \in Nat /\ sub.payoutAmount \in Nat
  BY ConstantsAssumption DEF Submission
<1>2. sub.payoutAmount * TIMEOUT_PENALTY_BPS \in Nat
  BY <1>1
<1>3. (sub.payoutAmount * TIMEOUT_PENALTY_BPS) \div 10000 \in Nat
  BY <1>2, DivisionIsNat
<1>4. QED
  BY <1>3 DEF TimeoutPenalty

(* A payout never exceeds the amount owed, the cap or the pool.            *)
LEMMA PayableBounds ==
  ASSUME NEW amount \in Nat, NEW maxPayout \in Nat, NEW pool \in Nat
  PROVE  /\ Payable(amount, maxPayout, pool) \in Nat
         /\ Payable(amount, maxPayout, pool) <= amount
         /\ Payable(amount, maxPayout, pool) <= maxPayout
         /\ Payable(amount, maxPayout, pool) <= pool
BY DEF Payable, Least

LEMMA SeverityType ==
  ASSUME NEW drain \in Nat, NEW c \in Config
  PROVE  CalculateSeverity(drain, c) \in Severity
BY DEF CalculateSeverity, Severity

-----------------------------------------------------------------------------
(* Type correctness.                                                       *)

LEMMA ConfigType ==
  ASSUME TypeOK, NEW s \in SubmissionIds
  PROVE  /\ submissions[s] \in Submission
         /\ submissions[s].projectId \in ProjectIds
         /\ projects[submissions[s].projectId] \in Project
         /\ ConfigOf(s) \in Config
BY DEF TypeOK, Submission, Project, ConfigOf

LEMMA InitTypeOK == Init => TypeOK
<1> SUFFICES ASSUME Init PROVE TypeOK
  OBVIOUS
<1> USE ConstantsAssumption DEF Init
<1>1. EmptyConfig \in Config
  BY DEF EmptyConfig, Config, CompetitionMode
<1>2. EmptyProject \in Project
  BY <1>1 DEF EmptyProject, Project
<1>3. EmptySubmission \in Submission
  BY DEF EmptySubmission, Submission, SubmissionStatus, Severity, ProjectIds
<1>4. EmptyLifecycle \in SubmissionLifecycle
  BY DEF EmptyLifecycle, SubmissionLifecycle, VerdictSource, FinalValidity
<1>5. NoQueuedReveal \in QueuedReveal
  BY DEF NoQueuedReveal, QueuedReveal
<1>6. EmptyUniqueState \in UniqueRevealState
  BY DEF EmptyUniqueState, UniqueRevealState
<1>7. QED
  BY <1>2, <1>3, <1>4, <1>5, <1>6 DEF TypeOK

(* Commit, reveal and queue.                                               *)
LEMMA CommitTypeOK ==
  ASSUME TypeOK, NEW a \in Auditors, NEW p \in ProjectIds, NEW h \in CommitHash,
         Commit(a, p, h), relayed' \in [Signatures -> Nat], sigNonces' \in [Auditors -> Nat]
  PROVE  TypeOK'
<1>1. nextSubmissionId \in SubmissionIds /\ nextSubmissionId' \in 0 .. MaxSubmissions
  <2>1. nextSubmissionId < MaxSubmissions /\ nextSubmissionId' = nextSubmissionId + 1
    BY DEF Commit
  <2>2. nextSubmissionId \in 0 .. MaxSubmissions /\ MaxSubmissions \in Nat
    BY ConstantsAssumption DEF TypeOK
  <2>3. QED
    BY <2>1, <2>2 DEF SubmissionIds
<1> USE ConstantsAssumption DEF TypeOK, Commit, verdictVars, adminVars, ledgerVars
<1>2. submissions' \in [SubmissionIds -> Submission]
  <2>1. submissions[nextSubmissionId] \in Submission
    BY <1>1
  <2>2. [submissions[nextSubmissionId] EXCEPT !.auditor = a, !.projectId = p, !.commitHash = h,
                                              !.status = "Committed"] \in Submission
    BY <2>1 DEF Submission, SubmissionStatus
  <2>3. QED
    BY <1>1, <2>2
<1>3. lastCommitTime' \in [Auditors -> [ProjectIds -> Nat]]
  OBVIOUS
<1>4. QED
  BY <1>1, <1>2, <1>3

LEMMA SpendSignatureTypeOK ==
  ASSUME TypeOK, NEW g \in Signatures, SpendSignature(g)
  PROVE  relayed' \in [Signatures -> Nat] /\ sigNonces' \in [Auditors -> Nat]
BY ConstantsAssumption DEF TypeOK, SpendSignature, Signatures, CommitSignature, RevealSignature, QueueSignature

LEMMA RevealTypeOK ==
  ASSUME TypeOK, NEW a \in Auditors \cup {NoAccount}, NEW s \in SubmissionIds,
         NEW salt \in Salts \cup {NoSalt},
         Reveal(a, s, salt), relayed' \in [Signatures -> Nat], sigNonces' \in [Auditors -> Nat]
  PROVE  TypeOK'
<1> USE ConstantsAssumption DEF TypeOK, Reveal, DropQueuedReveal, idVars, verdictVars, commitVars, adminVars, ledgerVars
<1>1. submissions' \in [SubmissionIds -> Submission]
  <2>1. [submissions[s] EXCEPT !.salt = salt, !.revealTimestamp = now, !.status = "Revealed"]
           \in Submission
    <3>1. submissions[s] \in Submission /\ now \in Nat /\ salt \in Salts \cup {NoSalt}
      OBVIOUS
    <3>2. QED
      BY ONLY <3>1 DEF Submission, SubmissionStatus
  <2>2. QED
    BY <2>1
<1>2. uniqueRevealState' \in [ProjectIds -> UniqueRevealState]
  <2>1. CASE UNCHANGED uniqueRevealState
    BY <2>1
  <2>2. CASE TakeCandidacy(submissions[s].projectId, s)
    <3>1. submissions[s].projectId \in ProjectIds
      BY ConfigType
    <3>2. [uniqueRevealState[submissions[s].projectId] EXCEPT
             !.hasCandidate = TRUE, !.candidateSubmissionId = s] \in UniqueRevealState
      <4>1. uniqueRevealState[submissions[s].projectId] \in UniqueRevealState /\ s \in Nat
        BY <3>1 DEF SubmissionIds
      <4>2. QED
        BY ONLY <4>1 DEF UniqueRevealState
    <3>3. QED
      BY <2>2, <3>1, <3>2 DEF TakeCandidacy
  <2>3. QED
    BY <2>1, <2>2
<1>3. queuedReveals' \in [SubmissionIds -> QueuedReveal]
  BY DEF QueuedReveal, NoQueuedReveal
<1>4. QED
  BY <1>1, <1>2, <1>3

(* Verdicts and settlement.                                                *)
LEMMA ExecutePayoutTypeOK ==
  ASSUME TypeOK, NEW s \in SubmissionIds, NEW sub \in Submission, NEW pool \in Nat,
         sub.projectId = submissions[s].projectId,
         ExecutePayout(s, sub, pool)
  PROVE  /\ projects' \in [ProjectIds -> Project]
         /\ submissions' \in [SubmissionIds -> Submission]
         /\ balance' \in Nat
         /\ paidOut' \in [SubmissionIds -> Nat]
<1> DEFINE paid == Payable(sub.payoutAmount, ConfigOf(s).maxPayoutPerBug, pool)
<1>1. sub.payoutAmount \in Nat /\ ConfigOf(s).maxPayoutPerBug \in Nat
  BY ConfigType DEF Submission, Config
<1>2. paid \in Nat /\ paid <= pool
  BY <1>1, PayableBounds
<1>3. /\ paid <= balance
      /\ projects' = [projects EXCEPT ![sub.projectId].bountyPool = pool - paid]
      /\ submissions' = [submissions EXCEPT ![s] =
                           [sub EXCEPT !.payoutAmount = paid, !.status = "Finalized"]]
      /\ balance' = balance - paid
      /\ paidOut' = [paidOut EXCEPT ![s] = @ + paid]
  BY DEF ExecutePayout
<1> HIDE DEF paid
<1>4. projects' \in [ProjectIds -> Project]
  <2>1. sub.projectId \in ProjectIds /\ projects[sub.projectId] \in Project /\ pool - paid \in Nat
    BY <1>2, ConfigType
  <2>2. [projects[sub.projectId] EXCEPT !.bountyPool = pool - paid] \in Project
    BY <2>1 DEF Project
  <2>3. QED
    BY <1>3, <2>1, <2>2 DEF TypeOK
<1>5. submissions' \in [SubmissionIds -> Submission]
  BY <1>2, <1>3 DEF TypeOK, Submission, SubmissionStatus
<1>6. QED
  BY <1>2, <1>3, <1>4, <1>5 DEF TypeOK

LEMMA AcceptFindingTypeOK ==
  ASSUME TypeOK, NEW s \in SubmissionIds, NEW v \in Verdict,
         NEW source \in {"Verification", "Jury", "Owner"},
         AcceptFinding(s, source, v)
  PROVE  /\ projects' \in [ProjectIds -> Project]
         /\ submissions' \in [SubmissionIds -> Submission]
         /\ uniqueRevealState' \in [ProjectIds -> UniqueRevealState]
         /\ balance' \in Nat
         /\ paidOut' \in [SubmissionIds -> Nat]
<1> DEFINE c == ConfigOf(s)
           p == submissions[s].projectId
           severity == IF source = "Verification" THEN CalculateSeverity(v.drain, c) ELSE v.adjudicated
           awarded == [submissions[s] EXCEPT !.severity = severity,
                          !.payoutAmount = CalculatePayout(severity, c.maxPayoutPerBug)]
<1>1. c \in Config /\ p \in ProjectIds /\ submissions[s] \in Submission /\ projects[p] \in Project
  BY ConfigType
<1>2. severity \in Severity
  BY <1>1, SeverityType, ConstantsAssumption DEF Verdict
<1>3. CalculatePayout(severity, c.maxPayoutPerBug) \in Nat
  BY <1>1, <1>2, CalculatePayoutIsNat DEF Config
<1>4. awarded \in Submission /\ awarded.projectId = submissions[s].projectId
  <2> HIDE DEF severity, c
  <2> QED  BY <1>1, <1>2, <1>3 DEF Submission
<1>5. \/ ExecutePayout(s, awarded, projects[p].bountyPool)
      \/ /\ submissions' = [submissions EXCEPT ![s] =
             [awarded EXCEPT !.status = "Verified", !.disputeDeadline = now + c.disputeWindow]]
         /\ UNCHANGED <<projects, ledgerVars>>
  BY DEF AcceptFinding
<1>6. uniqueRevealState' = IF c.mode = "UNIQUE"
        THEN [uniqueRevealState EXCEPT ![p] =
                [@ EXCEPT !.hasCandidate = FALSE, !.winnerLocked = TRUE, !.winnerSubmissionId = s]]
        ELSE uniqueRevealState
  BY DEF AcceptFinding
<1> HIDE DEF awarded, severity
<1>7. uniqueRevealState' \in [ProjectIds -> UniqueRevealState]
  <2>1. [uniqueRevealState[p] EXCEPT !.hasCandidate = FALSE, !.winnerLocked = TRUE,
                                     !.winnerSubmissionId = s] \in UniqueRevealState
    <3>1. uniqueRevealState[p] \in UniqueRevealState /\ s \in Nat
      BY <1>1 DEF TypeOK, SubmissionIds
    <3>2. QED
      BY ONLY <3>1 DEF UniqueRevealState
  <2>2. QED
    BY <1>1, <1>6, <2>1 DEF TypeOK
<1>8. CASE ExecutePayout(s, awarded, projects[p].bountyPool)
  <2>1. projects[p].bountyPool \in Nat
    BY <1>1 DEF Project
  <2>2. QED
    BY <1>4, <1>7, <1>8, <2>1, ExecutePayoutTypeOK
<1>9. CASE /\ submissions' = [submissions EXCEPT ![s] =
                [awarded EXCEPT !.status = "Verified", !.disputeDeadline = now + c.disputeWindow]]
           /\ UNCHANGED <<projects, ledgerVars>>
  <2>1. now + c.disputeWindow \in Nat
    BY <1>1 DEF TypeOK, Config
  <2>2. [awarded EXCEPT !.status = "Verified", !.disputeDeadline = now + c.disputeWindow] \in Submission
    BY <1>4, <2>1 DEF Submission, SubmissionStatus
  <2>3. QED
    BY <1>7, <1>9, <2>2 DEF TypeOK, ledgerVars
<1>10. QED
  BY <1>5, <1>8, <1>9

LEMMA RejectFindingTypeOK ==
  ASSUME TypeOK, NEW s \in SubmissionIds, NEW v \in Verdict, RejectFinding(s, v)
  PROVE  /\ projects' \in [ProjectIds -> Project]
         /\ submissions' \in [SubmissionIds -> Submission]
         /\ uniqueRevealState' \in [ProjectIds -> UniqueRevealState]
         /\ balance' \in Nat
         /\ paidOut' \in [SubmissionIds -> Nat]
<1> DEFINE p == submissions[s].projectId
<1>1. p \in ProjectIds /\ submissions[s] \in Submission
  BY ConfigType
<1>2. [submissions[s] EXCEPT !.status = "Invalid", !.severity = "NONE", !.payoutAmount = 0] \in Submission
  BY <1>1 DEF Submission, SubmissionStatus, Severity
<1>3. [uniqueRevealState[p] EXCEPT !.hasCandidate = FALSE, !.candidateSubmissionId = 0] \in UniqueRevealState
  BY <1>1 DEF TypeOK, UniqueRevealState
<1>4. QED
  BY <1>1, <1>2, <1>3 DEF TypeOK, RejectFinding, ledgerVars

LEMMA DeadlinesTypeOK ==
  ASSUME TypeOK, NEW s \in SubmissionIds
  PROVE  WithDerivedDeadlines(s) \in SubmissionLifecycle
<1>1. /\ submissions[s].revealTimestamp \in Nat
      /\ ConfigOf(s).juryWindow \in Nat /\ ConfigOf(s).adjudicationWindow \in Nat
      /\ lifecycle[s] \in SubmissionLifecycle
  BY ConfigType DEF TypeOK, Submission, Config
<1> DEFINE jury == submissions[s].revealTimestamp + ConfigOf(s).juryWindow
           adjudication == jury + ConfigOf(s).adjudicationWindow
<1>2. jury \in Nat /\ adjudication \in Nat
  BY <1>1
<1>3. WithDerivedDeadlines(s) =
        [lifecycle[s] EXCEPT !.juryDeadline = jury, !.adjudicationDeadline = adjudication]
  BY DEF WithDerivedDeadlines
<1> HIDE DEF jury, adjudication
<1>4. QED
  BY <1>1, <1>2, <1>3 DEF SubmissionLifecycle

LEMMA CommitFinalVerdictTypeOK ==
  ASSUME TypeOK, NEW s \in SubmissionIds, NEW v \in Verdict,
         NEW source \in {"Verification", "Jury", "Owner"},
         NEW base \in SubmissionLifecycle,
         CommitFinalVerdict(s, source, v, base), grouping' \in [SubmissionIds -> BOOLEAN]
  PROVE  TypeOK'
<1> USE DEF CommitFinalVerdict
<1>1. /\ projects' \in [ProjectIds -> Project]
      /\ submissions' \in [SubmissionIds -> Submission]
      /\ uniqueRevealState' \in [ProjectIds -> UniqueRevealState]
      /\ balance' \in Nat
      /\ paidOut' \in [SubmissionIds -> Nat]
  BY AcceptFindingTypeOK, RejectFindingTypeOK
<1>2. [base EXCEPT !.verdictSource = source,
                   !.finalValidity = IF v.isValid THEN "Valid" ELSE "Invalid"] \in SubmissionLifecycle
  BY DEF SubmissionLifecycle, VerdictSource, FinalValidity
<1>3. lifecycle' \in [SubmissionIds -> SubmissionLifecycle]
  BY <1>2 DEF TypeOK
<1>4. QED
  BY <1>1, <1>3 DEF TypeOK, idVars, commitVars, sigVars, adminVars

LEMMA FinalizeTypeOK ==
  ASSUME TypeOK, NEW s \in SubmissionIds, Finalize(s)
  PROVE  TypeOK'
<1> DEFINE sub     == submissions[s]
           pool    == projects[sub.projectId].bountyPool + ForfeitedBond(sub)
           penalty == AffordablePenalty(sub, pool)
           settled == [sub EXCEPT !.payoutAmount = @ + penalty,
                                  !.challengeBond = @ - ForfeitedBond(sub)]
<1>1. sub \in Submission /\ projects[sub.projectId].bountyPool \in Nat
  BY ConfigType DEF Project
<1>2. ForfeitedBond(sub) \in Nat /\ sub.challengeBond - ForfeitedBond(sub) \in Nat
  BY <1>1 DEF ForfeitedBond, Submission
<1>3. pool \in Nat
  BY <1>1, <1>2
<1>4. penalty \in Nat /\ pool - penalty \in Nat
  BY <1>1, <1>3, TimeoutPenaltyIsNat DEF AffordablePenalty
<1>5. /\ ExecutePayout(s, settled, pool - penalty)
      /\ UNCHANGED <<now, idVars, uniqueRevealState, queuedReveals,
                     verdictVars, commitVars, sigVars, adminVars>>
  BY DEF Finalize
<1>6. settled \in Submission /\ settled.projectId = submissions[s].projectId
  <2> HIDE DEF penalty
  <2>1. sub.payoutAmount + penalty \in Nat
    BY <1>1, <1>4 DEF Submission
  <2>2. QED
    BY <1>1, <1>2, <2>1 DEF Submission
<1> HIDE DEF settled, pool, penalty
<1>7. QED
  BY <1>4, <1>5, <1>6, ExecutePayoutTypeOK
     DEF TypeOK, idVars, verdictVars, commitVars, sigVars, adminVars

LEMMA ResolveDisputeTypeOK ==
  ASSUME TypeOK, NEW caller \in Owners, NEW s \in SubmissionIds, ResolveDispute(caller, s)
  PROVE  TypeOK'
<1> DEFINE p == submissions[s].projectId
<1>1. /\ submissions[s] \in Submission /\ p \in ProjectIds /\ projects[p] \in Project
      /\ submissions[s].challengeBond \in Nat
  BY ConfigType DEF Submission
<1>2. ASSUME Overturn(s)  PROVE TypeOK'
  <2>1. [submissions[s] EXCEPT !.status = "Invalid", !.payoutAmount = 0] \in Submission
    BY <1>1 DEF Submission, SubmissionStatus
  <2>2. QED
    BY <1>1, <1>2, <2>1 DEF TypeOK, ResolveDispute, Overturn, idVars, verdictVars, commitVars, sigVars, adminVars
<1>3. ASSUME Uphold(s)  PROVE TypeOK'
  <2>1. [submissions[s] EXCEPT !.status = "Verified", !.challengeBond = 0] \in Submission
    BY <1>1 DEF Submission, SubmissionStatus
  <2>2. [projects[p] EXCEPT !.bountyPool = @ + submissions[s].challengeBond] \in Project
    BY <1>1 DEF Project
  <2>3. QED
    BY <1>1, <1>3, <2>1, <2>2 DEF TypeOK, ResolveDispute, Uphold, idVars, verdictVars, commitVars, sigVars, adminVars
<1>4. QED
  BY <1>2, <1>3 DEF ResolveDispute

(* Every transaction keeps the types.                                      *)
LEMMA NextTypeOK ==
  ASSUME TypeOK, [Next]_vars
  PROVE  TypeOK'
<1> USE DEF idVars, verdictVars, commitVars, sigVars, adminVars, ledgerVars
<1>1. CASE UNCHANGED vars
  BY <1>1 DEF vars, TypeOK
<1>2. CASE Tick
  <2>1. now' \in Nat /\ now' >= StartTime
    BY <1>2, ConstantsAssumption DEF Tick, TypeOK
  <2>2. QED
    BY <1>2, <2>1 DEF Tick, TypeOK
<1>3. ASSUME NEW w \in Workflows, NEW b \in BOOLEAN, SetAuthorizedWorkflow(w, b)
      PROVE  TypeOK'
  BY <1>3 DEF SetAuthorizedWorkflow, TypeOK
<1>4. ASSUME NEW b \in FallbackSettings, SetLegacyReportFallbackEnabled(b)
      PROVE  TypeOK'
  BY <1>4, ConstantsAssumption DEF SetLegacyReportFallbackEnabled, TypeOK
<1>5. ASSUME NEW o \in Owners, NEW c \in ProjectConfigs, NEW value \in Deposits,
             RegisterProject(o, c, value)
      PROVE  TypeOK'
  <2>1. nextProjectId \in ProjectIds /\ nextProjectId' \in 0 .. MaxProjects /\ value \in Nat
    BY <1>5, ConstantsAssumption DEF RegisterProject, TypeOK, ProjectIds
  <2>2. [owner |-> o, bountyPool |-> value, active |-> TRUE, config |-> c] \in Project
    BY <2>1, ConstantsAssumption DEF Project
  <2>3. QED
    BY <1>5, <2>1, <2>2 DEF RegisterProject, TypeOK
<1>6. ASSUME NEW o \in Owners, NEW p \in ProjectIds, NEW value \in TopUps, TopUpBounty(o, p, value)
      PROVE  TypeOK'
  <2>1. value \in Nat /\ projects[p] \in Project
    BY ConstantsAssumption DEF TypeOK
  <2>2. [projects[p] EXCEPT !.bountyPool = @ + value] \in Project
    BY <2>1 DEF Project
  <2>3. QED
    BY <1>6, <2>1, <2>2 DEF TopUpBounty, TypeOK
<1>7. ASSUME NEW a \in Auditors, NEW p \in ProjectIds, NEW h \in CommitHash, CommitPoC(a, p, h)
      PROVE  TypeOK'
  BY <1>7, CommitTypeOK DEF CommitPoC, TypeOK
<1>8. ASSUME NEW g \in CommitSignatures, CommitPoCBySig(g)
      PROVE  TypeOK'
  <2>1. g \in Signatures /\ g.auditor \in Auditors /\ g.projectId \in ProjectIds /\ g.commitHash \in CommitHash
    BY ConstantsAssumption DEF Signatures, CommitSignature
  <2>2. QED
    BY <1>8, <2>1, CommitTypeOK, SpendSignatureTypeOK DEF CommitPoCBySig
<1>9. ASSUME NEW a \in Auditors, NEW s \in SubmissionIds, NEW salt \in Salts, RevealPoC(a, s, salt)
      PROVE  TypeOK'
  BY <1>9, RevealTypeOK DEF RevealPoC, TypeOK
<1>10. ASSUME NEW g \in RevealSignatures, RevealPoCBySig(g)
       PROVE  TypeOK'
  <2>1. g \in Signatures /\ g.auditor \in Auditors /\ g.submissionId \in SubmissionIds /\ g.salt \in Salts
    BY ConstantsAssumption DEF Signatures, RevealSignature
  <2>2. QED
    BY <1>10, <2>1, RevealTypeOK, SpendSignatureTypeOK DEF RevealPoCBySig
<1>11. ASSUME NEW g \in QueueSignatures, QueueRevealBySig(g)
       PROVE  TypeOK'
  <2>1. /\ g \in Signatures /\ g.submissionId \in SubmissionIds
        /\ [auditor |-> g.auditor, salt |-> g.salt, deadline |-> g.deadline, queued |-> TRUE] \in QueuedReveal
    BY ConstantsAssumption DEF Signatures, QueueSignature, QueuedReveal
  <2>2. relayed' \in [Signatures -> Nat] /\ sigNonces' \in [Auditors -> Nat]
    BY <1>11, <2>1, SpendSignatureTypeOK DEF QueueRevealBySig
  <2>3. QED
    BY <1>11, <2>1, <2>2 DEF QueueRevealBySig, TypeOK
<1>12. ASSUME NEW s \in SubmissionIds, ExecuteQueuedReveal(s)
       PROVE  TypeOK'
  <2>1. queuedReveals[s].auditor \in Auditors \cup {NoAccount} /\ queuedReveals[s].salt \in Salts \cup {NoSalt}
    BY DEF TypeOK, QueuedReveal
  <2>2. QED
    BY <1>12, <2>1, RevealTypeOK DEF ExecuteQueuedReveal, TypeOK
<1>13. ASSUME NEW a \in Auditors, NEW s \in SubmissionIds, CancelQueuedReveal(a, s)
       PROVE  TypeOK'
  <2>1. NoQueuedReveal \in QueuedReveal
    BY DEF NoQueuedReveal, QueuedReveal
  <2>2. QED
    BY <1>13, <2>1 DEF CancelQueuedReveal, DropQueuedReveal, TypeOK
<1>14. ASSUME NEW w \in Reporters, NEW s \in SubmissionIds, NEW v \in Verdict,
              ProcessVerificationReport(w, s, v)
       PROVE  TypeOK'
  <2>1. lifecycle[s] \in SubmissionLifecycle /\ grouping' \in [SubmissionIds -> BOOLEAN]
    BY <1>14 DEF ProcessVerificationReport, TypeOK
  <2>2. QED
    BY <1>14, <2>1, CommitFinalVerdictTypeOK DEF ProcessVerificationReport
<1>15. ASSUME NEW w \in Reporters, NEW s \in SubmissionIds, NEW v \in Verdict, NEW g \in BOOLEAN,
              ProcessTypedVerificationReport(w, s, v, g)
       PROVE  TypeOK'
  <2>1. lifecycle[s] \in SubmissionLifecycle /\ grouping' \in [SubmissionIds -> BOOLEAN]
    BY <1>15 DEF ProcessTypedVerificationReport, ApplySubmissionMetadata, TypeOK
  <2>2. QED
    BY <1>15, <2>1, CommitFinalVerdictTypeOK DEF ProcessTypedVerificationReport
<1>16. ASSUME NEW w \in Reporters, NEW s \in SubmissionIds, NEW source \in {"Verification", "Jury", "Owner"},
              NEW v \in Verdict, NEW g \in BOOLEAN, ProcessFinalLifecycleReport(w, s, source, v, g)
       PROVE  TypeOK'
  <2>1. grouping' \in [SubmissionIds -> BOOLEAN]
    BY <1>16 DEF ProcessFinalLifecycleReport, ApplySubmissionMetadata, TypeOK
  <2>2. QED
    BY <1>16, <2>1, DeadlinesTypeOK, CommitFinalVerdictTypeOK DEF ProcessFinalLifecycleReport
<1>17. ASSUME NEW w \in Reporters, NEW s \in SubmissionIds,
              NEW next \in {"JuryPending", "AwaitingOwnerAdjudication"},
              ProcessAdjudicationTransition(w, s, next)
       PROVE  TypeOK'
  <2>1. [submissions[s] EXCEPT !.status = next] \in Submission
    BY ConfigType DEF Submission, SubmissionStatus
  <2>2. [WithDerivedDeadlines(s) EXCEPT !.verdictSource = "None", !.finalValidity = "None"] \in SubmissionLifecycle
    BY DeadlinesTypeOK DEF SubmissionLifecycle, VerdictSource, FinalValidity
  <2>3. QED
    BY <1>17, <2>1, <2>2 DEF ProcessAdjudicationTransition, ApplySubmissionMetadata, TypeOK
<1>18. ASSUME NEW s \in SubmissionIds, NEW bond \in Bonds, Challenge(s, bond)
       PROVE  TypeOK'
  <2>1. bond \in Nat /\ submissions[s] \in Submission
    BY ConfigType, ConstantsAssumption
  <2>2. [submissions[s] EXCEPT !.challenged = TRUE, !.challengeBond = bond, !.status = "Disputed"] \in Submission
    BY <2>1 DEF Submission, SubmissionStatus
  <2>3. QED
    BY <1>18, <2>1, <2>2 DEF Challenge, TypeOK
<1>19. ASSUME NEW o \in Owners, NEW s \in SubmissionIds, ResolveDispute(o, s)
       PROVE  TypeOK'
  BY <1>19, ResolveDisputeTypeOK
<1>20. ASSUME NEW s \in SubmissionIds, Finalize(s)
       PROVE  TypeOK'
  BY <1>20, FinalizeTypeOK
<1>21. QED
  BY <1>1, <1>2, <1>3, <1>4, <1>5, <1>6, <1>7, <1>8, <1>9, <1>10, <1>11, <1>12, <1>13,
     <1>14, <1>15, <1>16, <1>17, <1>18, <1>19, <1>20
     DEF Next, AdminNext, AuditorNext, ReportNext, SettlementNext

(* Every record of the contract keeps the type it is declared with, on     *)
(* every behaviour: in particular no pool, balance or payment is ever      *)
(* driven below zero, where the Solidity subtraction would revert.         *)
THEOREM TypeCorrect == Spec => []TypeOK
<1>1. Init => TypeOK
  BY InitTypeOK
<1>2. TypeOK /\ [Next]_vars => TypeOK'
  BY NextTypeOK
<1>3. QED
  BY <1>1, <1>2, PTL DEF Spec

-----------------------------------------------------------------------------
(***************************************************************************)
(* Safety.  The transactions are first reduced to six kinds of step, by    *)
(* what they do to a submission, its verdict and the arbitration of its    *)
(* project.  The invariants are then proved from the kinds.                *)
(***************************************************************************)

SameCommitment(r, t) ==
  /\ r.auditor = t.auditor /\ r.projectId = t.projectId /\ r.commitHash = t.commitHash
  /\ r.salt = t.salt /\ r.revealTimestamp = t.revealTimestamp

Rules(p) == <<projects[p].config, projects[p].active>>
RulesKept == \A p \in ProjectIds : Rules(p)' = Rules(p)

OnlyTouches(s) ==
  /\ nextSubmissionId' = nextSubmissionId
  /\ nextProjectId' = nextProjectId
  /\ \A t \in SubmissionIds \ {s} : submissions'[t] = submissions[t] /\ lifecycle'[t] = lifecycle[t]
  /\ RulesKept

(* No submission changes; at most a new project appears.                   *)
QuietStep ==
  /\ UNCHANGED <<submissions, nextSubmissionId, lifecycle, uniqueRevealState>>
  /\ nextProjectId' \in {nextProjectId, nextProjectId + 1}
  /\ nextProjectId' = nextProjectId => RulesKept
  /\ \A p \in ProjectIds : p # nextProjectId => Rules(p)' = Rules(p)

CommitStep ==
  \E a \in Auditors, p \in ProjectIds, h \in CommitHash : Commit(a, p, h)

RevealStep(s) ==
  \E a \in Auditors \cup {NoAccount}, salt \in Salts \cup {NoSalt} : Reveal(a, s, salt)

Won(u, s) == [u EXCEPT !.hasCandidate = FALSE, !.winnerLocked = TRUE, !.winnerSubmissionId = s]
Cleared(u) == [u EXCEPT !.hasCandidate = FALSE, !.candidateSubmissionId = 0]

VerdictStep(s) ==
  LET p == submissions[s].projectId
      unique == ConfigOf(s).mode = "UNIQUE"
  IN  /\ InFlight(s)
      /\ OnlyTouches(s)
      /\ SameCommitment(submissions'[s], submissions[s])
      /\ (unique /\ submissions[s].salt # NoSalt) => IsActiveCandidate(s)
      /\ ~unique => UNCHANGED uniqueRevealState
      /\ \/ /\ submissions'[s].status \in {"Verified", "Finalized"}
            /\ lifecycle'[s].finalValidity = "Valid"
            /\ unique => uniqueRevealState' =
                 [uniqueRevealState EXCEPT ![p] = Won(uniqueRevealState[p], s)]
         \/ /\ submissions'[s].status = "Invalid"
            /\ lifecycle'[s].finalValidity = "Invalid"
            /\ unique => uniqueRevealState' =
                 [uniqueRevealState EXCEPT ![p] = Cleared(uniqueRevealState[p])]

EscalationStep(s) ==
  /\ InFlight(s)
  /\ OnlyTouches(s)
  /\ SameCommitment(submissions'[s], submissions[s])
  /\ submissions'[s].status \in {"JuryPending", "AwaitingOwnerAdjudication"}
  /\ lifecycle'[s].finalValidity = "None"
  /\ UNCHANGED uniqueRevealState

SettlementStep(s) ==
  /\ submissions[s].status \in {"Verified", "Disputed"}
  /\ OnlyTouches(s)
  /\ SameCommitment(submissions'[s], submissions[s])
  /\ submissions'[s].status \in {"Verified", "Disputed", "Finalized", "Invalid"}
  /\ UNCHANGED <<lifecycle, uniqueRevealState>>

StepKind ==
  \/ QuietStep
  \/ CommitStep
  \/ \E s \in SubmissionIds : \/ RevealStep(s) \/ VerdictStep(s)
                              \/ EscalationStep(s) \/ SettlementStep(s)

(* Paying a submission changes no other submission and no configuration.   *)
LEMMA ExecutePayoutEffect ==
  ASSUME TypeOK, NEW s \in SubmissionIds, NEW sub \in Submission, NEW pool \in Nat,
         sub.projectId = submissions[s].projectId,
         ExecutePayout(s, sub, pool)
  PROVE  /\ \A t \in SubmissionIds \ {s} : submissions'[t] = submissions[t]
         /\ SameCommitment(submissions'[s], sub)
         /\ submissions'[s].status = "Finalized"
         /\ RulesKept
<1> DEFINE paid == Payable(sub.payoutAmount, ConfigOf(s).maxPayoutPerBug, pool)
<1>1. /\ projects' = [projects EXCEPT ![sub.projectId].bountyPool = pool - paid]
      /\ submissions' = [submissions EXCEPT ![s] =
                           [sub EXCEPT !.payoutAmount = paid, !.status = "Finalized"]]
  BY DEF ExecutePayout
<1> HIDE DEF paid
<1>2. submissions'[s] = [sub EXCEPT !.payoutAmount = paid, !.status = "Finalized"]
  BY <1>1 DEF TypeOK
<1>3. SameCommitment(submissions'[s], sub) /\ submissions'[s].status = "Finalized"
  BY <1>2 DEF SameCommitment, Submission
<1>4. RulesKept
  BY <1>1 DEF RulesKept, Rules, TypeOK, Project
<1>5. QED
  BY <1>1, <1>3, <1>4 DEF TypeOK

LEMMA VerdictKind ==
  ASSUME TypeOK, NEW s \in SubmissionIds, NEW v \in Verdict,
         NEW source \in {"Verification", "Jury", "Owner"},
         NEW base \in SubmissionLifecycle,
         CommitFinalVerdict(s, source, v, base)
  PROVE  VerdictStep(s)
<1> DEFINE c == ConfigOf(s)
           p == submissions[s].projectId
           severity == IF source = "Verification" THEN CalculateSeverity(v.drain, c) ELSE v.adjudicated
           awarded == [submissions[s] EXCEPT !.severity = severity,
                          !.payoutAmount = CalculatePayout(severity, c.maxPayoutPerBug)]
<1>1. InFlight(s)
  BY DEF CommitFinalVerdict, AwaitsVerdict, PendingStatus, InFlight
<1>2. /\ \A t \in SubmissionIds \ {s} : lifecycle'[t] = lifecycle[t]
      /\ lifecycle'[s].finalValidity = IF v.isValid THEN "Valid" ELSE "Invalid"
  BY DEF CommitFinalVerdict, TypeOK, SubmissionLifecycle
<1>3. UNCHANGED idVars /\ ((c.mode = "UNIQUE" /\ submissions[s].salt # NoSalt) => IsActiveCandidate(s))
  BY DEF CommitFinalVerdict
<1>4. ASSUME AcceptFinding(s, source, v)  PROVE VerdictStep(s)
  <2>1. c \in Config /\ p \in ProjectIds /\ submissions[s] \in Submission /\ projects[p] \in Project
    BY ConfigType
  <2>2. severity \in Severity
    BY <2>1, SeverityType, ConstantsAssumption DEF Verdict
  <2>3. CalculatePayout(severity, c.maxPayoutPerBug) \in Nat
    BY <2>1, <2>2, CalculatePayoutIsNat DEF Config
  <2>4. awarded \in Submission /\ SameCommitment(awarded, submissions[s])
    <3> HIDE DEF severity, c
    <3> QED  BY <2>1, <2>2, <2>3 DEF Submission, SameCommitment
  <2>5. /\ v.isValid
        /\ \/ ExecutePayout(s, awarded, projects[p].bountyPool)
           \/ /\ submissions' = [submissions EXCEPT ![s] =
                   [awarded EXCEPT !.status = "Verified", !.disputeDeadline = now + c.disputeWindow]]
              /\ UNCHANGED <<projects, ledgerVars>>
        /\ uniqueRevealState' = IF c.mode = "UNIQUE"
             THEN [uniqueRevealState EXCEPT ![p] = Won(uniqueRevealState[p], s)]
             ELSE uniqueRevealState
    BY <1>4 DEF AcceptFinding, Won
  <2> HIDE DEF awarded
  <2>6. /\ \A t \in SubmissionIds \ {s} : submissions'[t] = submissions[t]
        /\ SameCommitment(submissions'[s], submissions[s])
        /\ submissions'[s].status \in {"Verified", "Finalized"}
        /\ RulesKept
    <3>1. CASE ExecutePayout(s, awarded, projects[p].bountyPool)
      <4>1. projects[p].bountyPool \in Nat /\ awarded.projectId = p
        BY <2>1, <2>4 DEF Project, SameCommitment
      <4>2. QED
        BY <2>4, <3>1, <4>1, ExecutePayoutEffect DEF SameCommitment
    <3>2. CASE /\ submissions' = [submissions EXCEPT ![s] =
                    [awarded EXCEPT !.status = "Verified", !.disputeDeadline = now + c.disputeWindow]]
               /\ UNCHANGED <<projects, ledgerVars>>
      <4>1. submissions'[s] = [awarded EXCEPT !.status = "Verified", !.disputeDeadline = now + c.disputeWindow]
        BY <3>2 DEF TypeOK
      <4>2. SameCommitment(submissions'[s], awarded) /\ submissions'[s].status = "Verified"
        BY <2>4, <4>1 DEF SameCommitment, Submission
      <4>3. QED
        BY <2>4, <3>2, <4>2 DEF SameCommitment, RulesKept, Rules, TypeOK
    <3>3. QED
      BY <2>5, <3>1, <3>2
  <2>7. QED
    BY <1>1, <1>2, <1>3, <2>5, <2>6 DEF VerdictStep, OnlyTouches, idVars
<1>5. ASSUME RejectFinding(s, v)  PROVE VerdictStep(s)
  <2>1. /\ ~v.isValid
        /\ submissions' = [submissions EXCEPT ![s] =
             [@ EXCEPT !.status = "Invalid", !.severity = "NONE", !.payoutAmount = 0]]
        /\ UNCHANGED projects
        /\ uniqueRevealState' = IF c.mode = "UNIQUE"
             THEN [uniqueRevealState EXCEPT ![p] = Cleared(uniqueRevealState[p])]
             ELSE uniqueRevealState
    BY <1>5 DEF RejectFinding, Cleared
  <2>2. submissions'[s] = [submissions[s] EXCEPT !.status = "Invalid", !.severity = "NONE", !.payoutAmount = 0]
    BY <2>1 DEF TypeOK
  <2>3. SameCommitment(submissions'[s], submissions[s]) /\ submissions'[s].status = "Invalid"
    BY <2>2, ConfigType DEF SameCommitment, Submission
  <2>4. \A t \in SubmissionIds \ {s} : submissions'[t] = submissions[t]
    BY <2>1 DEF TypeOK
  <2>5. QED
    BY <1>1, <1>2, <1>3, <2>1, <2>3, <2>4 DEF VerdictStep, OnlyTouches, RulesKept, Rules, idVars
<1>6. QED
  BY <1>4, <1>5 DEF CommitFinalVerdict

LEMMA EscalationKind ==
  ASSUME TypeOK, NEW w, NEW s \in SubmissionIds,
         NEW next \in {"JuryPending", "AwaitingOwnerAdjudication"},
         ProcessAdjudicationTransition(w, s, next)
  PROVE  EscalationStep(s)
<1> USE DEF ProcessAdjudicationTransition
<1>1. submissions[s] \in Submission /\ WithDerivedDeadlines(s) \in SubmissionLifecycle
  BY ConfigType, DeadlinesTypeOK
<1>2. submissions'[s] = [submissions[s] EXCEPT !.status = next]
  BY DEF TypeOK
<1>3. SameCommitment(submissions'[s], submissions[s]) /\ submissions'[s].status = next
  BY <1>1, <1>2 DEF SameCommitment, Submission
<1>4. lifecycle'[s].finalValidity = "None"
  BY <1>1 DEF TypeOK, SubmissionLifecycle
<1>5. \A t \in SubmissionIds \ {s} : submissions'[t] = submissions[t] /\ lifecycle'[t] = lifecycle[t]
  BY DEF TypeOK
<1>6. InFlight(s)
  BY DEF AdjudicationStep, InFlight
<1>7. QED
  BY <1>3, <1>4, <1>5, <1>6 DEF EscalationStep, OnlyTouches, RulesKept, Rules, idVars

LEMMA ChallengeKind ==
  ASSUME TypeOK, NEW s \in SubmissionIds, NEW bond \in Nat, Challenge(s, bond)
  PROVE  SettlementStep(s)
<1>1. submissions'[s] = [submissions[s] EXCEPT !.challenged = TRUE, !.challengeBond = bond, !.status = "Disputed"]
  BY DEF Challenge, TypeOK
<1>2. SameCommitment(submissions'[s], submissions[s]) /\ submissions'[s].status = "Disputed"
  BY <1>1, ConfigType DEF SameCommitment, Submission
<1>3. \A t \in SubmissionIds \ {s} : submissions'[t] = submissions[t]
  BY DEF Challenge, TypeOK
<1>4. QED
  BY <1>2, <1>3 DEF Challenge, SettlementStep, OnlyTouches, RulesKept, Rules, idVars, verdictVars

LEMMA ResolveDisputeKind ==
  ASSUME TypeOK, NEW caller \in Owners, NEW s \in SubmissionIds, ResolveDispute(caller, s)
  PROVE  SettlementStep(s)
<1> USE DEF ResolveDispute
<1>1. ASSUME Overturn(s)  PROVE SettlementStep(s)
  <2>1. submissions'[s] = [submissions[s] EXCEPT !.status = "Invalid", !.payoutAmount = 0]
    BY <1>1 DEF Overturn, TypeOK
  <2>2. SameCommitment(submissions'[s], submissions[s]) /\ submissions'[s].status = "Invalid"
    BY <2>1, ConfigType DEF SameCommitment, Submission
  <2>3. \A t \in SubmissionIds \ {s} : submissions'[t] = submissions[t]
    BY <1>1 DEF Overturn, TypeOK
  <2>4. QED
    BY <1>1, <2>2, <2>3 DEF Overturn, SettlementStep, OnlyTouches, RulesKept, Rules, idVars, verdictVars
<1>2. ASSUME Uphold(s)  PROVE SettlementStep(s)
  <2>1. submissions'[s] = [submissions[s] EXCEPT !.status = "Verified", !.challengeBond = 0]
    BY <1>2 DEF Uphold, TypeOK
  <2>2. SameCommitment(submissions'[s], submissions[s]) /\ submissions'[s].status = "Verified"
    BY <2>1, ConfigType DEF SameCommitment, Submission
  <2>3. \A t \in SubmissionIds \ {s} : submissions'[t] = submissions[t]
    BY <1>2 DEF Uphold, TypeOK
  <2>4. RulesKept
    BY <1>2 DEF Uphold, RulesKept, Rules, TypeOK, Project
  <2>5. QED
    BY <2>2, <2>3, <2>4 DEF SettlementStep, OnlyTouches, idVars, verdictVars
<1>3. QED
  BY <1>1, <1>2

LEMMA FinalizeKind ==
  ASSUME TypeOK, NEW s \in SubmissionIds, Finalize(s)
  PROVE  SettlementStep(s)
<1> DEFINE sub     == submissions[s]
           pool    == projects[sub.projectId].bountyPool + ForfeitedBond(sub)
           penalty == AffordablePenalty(sub, pool)
           settled == [sub EXCEPT !.payoutAmount = @ + penalty,
                                  !.challengeBond = @ - ForfeitedBond(sub)]
<1>1. sub \in Submission /\ projects[sub.projectId].bountyPool \in Nat
  BY ConfigType DEF Project
<1>2. ForfeitedBond(sub) \in Nat /\ sub.challengeBond - ForfeitedBond(sub) \in Nat
  BY <1>1 DEF ForfeitedBond, Submission
<1>3. penalty \in Nat /\ pool - penalty \in Nat
  BY <1>1, <1>2, TimeoutPenaltyIsNat DEF AffordablePenalty
<1>4. /\ ExecutePayout(s, settled, pool - penalty)
      /\ submissions[s].status \in {"Verified", "Disputed"}
      /\ UNCHANGED <<now, idVars, uniqueRevealState, queuedReveals,
                     verdictVars, commitVars, sigVars, adminVars>>
  BY DEF Finalize
<1>5. settled \in Submission /\ SameCommitment(settled, submissions[s])
  <2> HIDE DEF penalty
  <2>1. sub.payoutAmount + penalty \in Nat
    BY <1>1, <1>3 DEF Submission
  <2>2. QED
    BY <1>1, <1>2, <2>1 DEF Submission, SameCommitment
<1> HIDE DEF settled, pool, penalty
<1>6. settled.projectId = submissions[s].projectId
  BY <1>5 DEF SameCommitment
<1>7. /\ \A t \in SubmissionIds \ {s} : submissions'[t] = submissions[t]
      /\ SameCommitment(submissions'[s], settled)
      /\ submissions'[s].status = "Finalized"
      /\ RulesKept
  BY <1>3, <1>4, <1>5, <1>6, ExecutePayoutEffect
<1>8. QED
  BY <1>4, <1>5, <1>7 DEF SettlementStep, SameCommitment, OnlyTouches, idVars, verdictVars

(* Every transaction is a step of one of the six kinds.                    *)
LEMMA EveryStepHasAKind ==
  ASSUME TypeOK, [Next]_vars
  PROVE  StepKind
<1> USE DEF idVars, verdictVars, commitVars, sigVars, adminVars, ledgerVars
<1>1. CASE UNCHANGED vars
  BY <1>1 DEF vars, StepKind, QuietStep, RulesKept, Rules
<1>2. CASE Tick
  BY <1>2 DEF Tick, StepKind, QuietStep, RulesKept, Rules
<1>3. ASSUME NEW w \in Workflows, NEW b \in BOOLEAN, SetAuthorizedWorkflow(w, b)
      PROVE  StepKind
  BY <1>3 DEF SetAuthorizedWorkflow, StepKind, QuietStep, RulesKept, Rules
<1>4. ASSUME NEW b \in FallbackSettings, SetLegacyReportFallbackEnabled(b)
      PROVE  StepKind
  BY <1>4 DEF SetLegacyReportFallbackEnabled, StepKind, QuietStep, RulesKept, Rules
<1>5. ASSUME NEW o \in Owners, NEW c \in ProjectConfigs, NEW value \in Deposits,
             RegisterProject(o, c, value)
      PROVE  StepKind
  <2>1. nextProjectId' = nextProjectId + 1 /\ nextProjectId \in Nat
    BY <1>5 DEF RegisterProject, TypeOK
  <2>2. \A p \in ProjectIds : p # nextProjectId => Rules(p)' = Rules(p)
    BY <1>5 DEF RegisterProject, TypeOK, Rules
  <2>3. QED
    BY <1>5, <2>1, <2>2 DEF RegisterProject, StepKind, QuietStep
<1>6. ASSUME NEW o \in Owners, NEW p \in ProjectIds, NEW value \in TopUps, TopUpBounty(o, p, value)
      PROVE  StepKind
  <2>1. RulesKept
    BY <1>6 DEF TopUpBounty, RulesKept, Rules, TypeOK, Project
  <2>2. QED
    BY <1>6, <2>1 DEF TopUpBounty, StepKind, QuietStep, RulesKept, Rules
<1>7. ASSUME NEW a \in Auditors, NEW p \in ProjectIds, NEW h \in CommitHash, CommitPoC(a, p, h)
      PROVE  StepKind
  BY <1>7 DEF CommitPoC, StepKind, CommitStep
<1>8. ASSUME NEW g \in CommitSignatures, CommitPoCBySig(g)
      PROVE  StepKind
  <2>1. g.auditor \in Auditors /\ g.projectId \in ProjectIds /\ g.commitHash \in CommitHash
    BY ConstantsAssumption DEF CommitSignature
  <2>2. QED
    BY <1>8, <2>1 DEF CommitPoCBySig, StepKind, CommitStep
<1>9. ASSUME NEW a \in Auditors, NEW s \in SubmissionIds, NEW salt \in Salts, RevealPoC(a, s, salt)
      PROVE  StepKind
  BY <1>9 DEF RevealPoC, StepKind, RevealStep
<1>10. ASSUME NEW g \in RevealSignatures, RevealPoCBySig(g)
       PROVE  StepKind
  <2>1. g.auditor \in Auditors /\ g.submissionId \in SubmissionIds /\ g.salt \in Salts
    BY ConstantsAssumption DEF RevealSignature
  <2>2. QED
    BY <1>10, <2>1 DEF RevealPoCBySig, StepKind, RevealStep
<1>11. ASSUME NEW g \in QueueSignatures, QueueRevealBySig(g)
       PROVE  StepKind
  BY <1>11 DEF QueueRevealBySig, StepKind, QuietStep, RulesKept, Rules
<1>12. ASSUME NEW s \in SubmissionIds, ExecuteQueuedReveal(s)
       PROVE  StepKind
  <2>1. queuedReveals[s].auditor \in Auditors \cup {NoAccount} /\ queuedReveals[s].salt \in Salts \cup {NoSalt}
    BY DEF TypeOK, QueuedReveal
  <2>2. QED
    BY <1>12, <2>1 DEF ExecuteQueuedReveal, StepKind, RevealStep
<1>13. ASSUME NEW a \in Auditors, NEW s \in SubmissionIds, CancelQueuedReveal(a, s)
       PROVE  StepKind
  BY <1>13 DEF CancelQueuedReveal, DropQueuedReveal, StepKind, QuietStep, RulesKept, Rules
<1>14. ASSUME NEW w \in Reporters, NEW s \in SubmissionIds, NEW v \in Verdict,
              ProcessVerificationReport(w, s, v)
       PROVE  StepKind
  <2>1. lifecycle[s] \in SubmissionLifecycle
    BY DEF TypeOK
  <2>2. QED
    BY <1>14, <2>1, VerdictKind DEF ProcessVerificationReport, StepKind
<1>15. ASSUME NEW w \in Reporters, NEW s \in SubmissionIds, NEW v \in Verdict, NEW g \in BOOLEAN,
              ProcessTypedVerificationReport(w, s, v, g)
       PROVE  StepKind
  <2>1. lifecycle[s] \in SubmissionLifecycle
    BY DEF TypeOK
  <2>2. QED
    BY <1>15, <2>1, VerdictKind DEF ProcessTypedVerificationReport, StepKind
<1>16. ASSUME NEW w \in Reporters, NEW s \in SubmissionIds, NEW source \in {"Verification", "Jury", "Owner"},
              NEW v \in Verdict, NEW g \in BOOLEAN, ProcessFinalLifecycleReport(w, s, source, v, g)
       PROVE  StepKind
  BY <1>16, DeadlinesTypeOK, VerdictKind DEF ProcessFinalLifecycleReport, StepKind
<1>17. ASSUME NEW w \in Reporters, NEW s \in SubmissionIds,
              NEW next \in {"JuryPending", "AwaitingOwnerAdjudication"},
              ProcessAdjudicationTransition(w, s, next)
       PROVE  StepKind
  BY <1>17, EscalationKind DEF StepKind
<1>18. ASSUME NEW s \in SubmissionIds, NEW bond \in Bonds, Challenge(s, bond)
       PROVE  StepKind
  BY <1>18, ChallengeKind, ConstantsAssumption DEF StepKind
<1>19. ASSUME NEW o \in Owners, NEW s \in SubmissionIds, ResolveDispute(o, s)
       PROVE  StepKind
  BY <1>19, ResolveDisputeKind DEF StepKind
<1>20. ASSUME NEW s \in SubmissionIds, Finalize(s)
       PROVE  StepKind
  BY <1>20, FinalizeKind DEF StepKind
<1>21. QED
  BY <1>1, <1>2, <1>3, <1>4, <1>5, <1>6, <1>7, <1>8, <1>9, <1>10, <1>11, <1>12, <1>13,
     <1>14, <1>15, <1>16, <1>17, <1>18, <1>19, <1>20
     DEF Next, AdminNext, AuditorNext, ReportNext, SettlementNext

-----------------------------------------------------------------------------
(* The status of a submission and the rest of its record.                  *)

(* A project id that is still free takes no commits and has no rules.      *)
FreeProjectsAreEmpty ==
  \A p \in ProjectIds : p >= nextProjectId =>
    projects[p].config = EmptyConfig /\ projects[p].active = FALSE

LEMMA FreeProjectsAreEmptyKept ==
  ASSUME TypeOK, FreeProjectsAreEmpty, StepKind
  PROVE  FreeProjectsAreEmpty'
<1> USE DEF FreeProjectsAreEmpty
<1>1. CASE QuietStep
  <2> SUFFICES ASSUME NEW p \in ProjectIds, p >= nextProjectId'
               PROVE  projects'[p].config = EmptyConfig /\ projects'[p].active = FALSE
    OBVIOUS
  <2>1. p \in Nat /\ nextProjectId \in Nat /\ nextProjectId' \in {nextProjectId, nextProjectId + 1}
    BY <1>1 DEF QuietStep, TypeOK, ProjectIds
  <2>2. p >= nextProjectId /\ (p = nextProjectId => nextProjectId' = nextProjectId)
    BY <2>1
  <2>3. Rules(p)' = Rules(p)
    BY <1>1, <2>2 DEF QuietStep, RulesKept
  <2>4. QED
    BY <2>2, <2>3 DEF Rules
<1>2. CASE CommitStep
  BY <1>2 DEF CommitStep, Commit, Rules
<1>3. ASSUME NEW s \in SubmissionIds, RevealStep(s)  PROVE FreeProjectsAreEmpty'
  BY <1>3 DEF RevealStep, Reveal, idVars, Rules
<1>4. ASSUME NEW s \in SubmissionIds, VerdictStep(s) \/ EscalationStep(s) \/ SettlementStep(s)
      PROVE  FreeProjectsAreEmpty'
  BY <1>4 DEF VerdictStep, EscalationStep, SettlementStep, OnlyTouches, RulesKept, Rules
<1>5. QED
  BY <1>1, <1>2, <1>3, <1>4 DEF StepKind

(* A reveal gives the submission, which exists, a salt and a time.         *)
LEMMA RevealEffect ==
  ASSUME TypeOK, StatusMatchesRecord, NEW s \in SubmissionIds, RevealStep(s)
  PROVE  /\ s < nextSubmissionId
         /\ submissions[s].status = "Committed"
         /\ submissions'[s].status = "Revealed"
         /\ submissions'[s].auditor = submissions[s].auditor
         /\ submissions'[s].projectId = submissions[s].projectId
         /\ submissions'[s].commitHash = submissions[s].commitHash
         /\ submissions[s].commitHash = CommitmentTo(submissions[s].auditor, submissions'[s].salt)
         /\ submissions'[s].salt # NoSalt
         /\ submissions'[s].revealTimestamp > 0
         /\ \A t \in SubmissionIds \ {s} : submissions'[t] = submissions[t]
         /\ UNCHANGED <<idVars, projects, lifecycle>>
<1>1. PICK a \in Auditors \cup {NoAccount}, salt \in Salts \cup {NoSalt} : Reveal(a, s, salt)
  BY DEF RevealStep
<1>2. submissions[s] \in Submission /\ now \in Nat /\ now > 0
  BY ConfigType, ConstantsAssumption DEF TypeOK
<1>3. submissions'[s] = [submissions[s] EXCEPT !.salt = salt, !.revealTimestamp = now, !.status = "Revealed"]
  BY <1>1 DEF Reveal, TypeOK
<1>4. submissions[s].commitHash = CommitmentTo(a, salt) /\ submissions[s].auditor = a
      /\ submissions[s].status = "Committed" /\ salt # NoSalt
  BY <1>1 DEF Reveal
<1>5. s < nextSubmissionId
  <2>1. CommitmentTo(a, salt) # NoHash
    BY ConstantsAssumption DEF CommitmentTo
  <2>2. submissions[s] # EmptySubmission
    BY <1>4, <2>1 DEF EmptySubmission
  <2>3. QED
    BY <2>2 DEF StatusMatchesRecord, RecordOK, TypeOK, SubmissionIds
<1>6. /\ submissions'[s].status = "Revealed"
      /\ submissions'[s].auditor = submissions[s].auditor
      /\ submissions'[s].projectId = submissions[s].projectId
      /\ submissions'[s].commitHash = submissions[s].commitHash
      /\ submissions'[s].salt = salt /\ submissions'[s].revealTimestamp = now
  BY <1>2, <1>3 DEF Submission
<1>7. QED
  BY <1>1, <1>2, <1>4, <1>5, <1>6 DEF Reveal, TypeOK, verdictVars

(* A record that a step leaves alone stays right.                          *)
LEMMA UntouchedRecord ==
  ASSUME NEW t \in SubmissionIds, RecordOK(t),
         submissions'[t] = submissions[t], lifecycle'[t] = lifecycle[t],
         nextSubmissionId' = nextSubmissionId, nextProjectId \in Nat,
         nextProjectId' \in {nextProjectId, nextProjectId + 1},
         submissions[t].projectId \in Nat
  PROVE  RecordOK(t)'
BY DEF RecordOK, InFlight, Accepted

LEMMA StatusMatchesRecordKept ==
  ASSUME TypeOK, TypeOK', FreeProjectsAreEmpty, StatusMatchesRecord, StepKind
  PROVE  StatusMatchesRecord'
<1> USE DEF StatusMatchesRecord
<1>0. /\ nextProjectId \in Nat /\ nextSubmissionId \in Nat
      /\ \A t \in SubmissionIds : t \in Nat /\ submissions[t].projectId \in Nat
  BY ConfigType DEF TypeOK, SubmissionIds, ProjectIds
<1>1. CASE QuietStep
  BY <1>0, <1>1, UntouchedRecord DEF QuietStep
<1>2. CASE CommitStep
  <2>1. PICK a \in Auditors, p \in ProjectIds, h \in CommitHash : Commit(a, p, h)
    BY <1>2 DEF CommitStep
  <2>2. PICK n \in SubmissionIds : n = nextSubmissionId
    BY <2>1, ConstantsAssumption DEF Commit, TypeOK, SubmissionIds
  <2>3. submissions[n] = EmptySubmission /\ RecordOK(n)
    BY <1>0, <2>2 DEF RecordOK
  <2>4. nextSubmissionId' = n + 1 /\ nextProjectId' = nextProjectId /\ lifecycle' = lifecycle
    BY <2>1, <2>2 DEF Commit, verdictVars
  <2>5. submissions'[n] = [EmptySubmission EXCEPT !.auditor = a, !.projectId = p, !.commitHash = h,
                                                  !.status = "Committed"]
    BY <2>1, <2>2, <2>3 DEF Commit, TypeOK
  <2>6. submissions'[n].auditor = a /\ submissions'[n].projectId = p /\ submissions'[n].status = "Committed"
    BY <2>5 DEF EmptySubmission
  <2>7. \A t \in SubmissionIds \ {n} : submissions'[t] = submissions[t]
    BY <2>1, <2>2 DEF Commit, TypeOK
  <2>8. p < nextProjectId
    <3>1. projects[p].active = TRUE
      BY <2>1 DEF Commit, TypeOK, Project
    <3>2. QED
      BY <1>0, <3>1 DEF FreeProjectsAreEmpty, Rules, ProjectIds
  <2>9. lifecycle[n].finalValidity = "None"
    BY <2>3 DEF EmptySubmission, RecordOK
  <2>10. RecordOK(n)'
    <3>1. ~(n >= n + 1)
      BY <1>0
    <3>2. QED
      BY <2>4, <2>6, <2>8, <2>9, <3>1 DEF RecordOK, InFlight, Accepted
  <2>11. ASSUME NEW t \in SubmissionIds \ {n}  PROVE RecordOK(t)'
    <3>1. submissions'[t] = submissions[t] /\ RecordOK(t) /\ t # n
      BY <2>7
    <3>2. QED
      BY <1>0, <2>2, <2>4, <3>1 DEF RecordOK, InFlight, Accepted
  <2>12. QED
    BY <2>10, <2>11
<1>3. ASSUME NEW s \in SubmissionIds, RevealStep(s)  PROVE StatusMatchesRecord'
  <2>1. RecordOK(s)'
    BY <1>0, <1>3, RevealEffect DEF RecordOK, InFlight, Accepted, idVars
  <2>2. ASSUME NEW t \in SubmissionIds \ {s}  PROVE RecordOK(t)'
    BY <1>0, <1>3, RevealEffect, UntouchedRecord DEF idVars
  <2>3. QED
    BY <2>1, <2>2
<1>4. ASSUME NEW s \in SubmissionIds, OnlyTouches(s), RecordOK(s)'  PROVE StatusMatchesRecord'
  <2>1. ASSUME NEW t \in SubmissionIds \ {s}  PROVE RecordOK(t)'
    BY <1>0, <1>4, UntouchedRecord DEF OnlyTouches
  <2>2. QED
    BY <1>4, <2>1
<1>5. ASSUME NEW s \in SubmissionIds, submissions[s].status # "Committed"
      PROVE  s < nextSubmissionId /\ s \in Nat
  BY <1>0, <1>5 DEF RecordOK, EmptySubmission
<1>6. ASSUME NEW s \in SubmissionIds, VerdictStep(s) \/ EscalationStep(s) \/ SettlementStep(s)
      PROVE  StatusMatchesRecord'
  <2>1. OnlyTouches(s) /\ SameCommitment(submissions'[s], submissions[s]) /\ s < nextSubmissionId
        /\ s \in Nat /\ submissions[s].status # "Committed"
    BY <1>5, <1>6 DEF VerdictStep, EscalationStep, SettlementStep, InFlight
  <2>2. RecordOK(s)
    OBVIOUS
  <2>3. CASE VerdictStep(s)
    <3>1. RecordOK(s)'
      BY <1>0, <2>1, <2>2, <2>3 DEF VerdictStep, OnlyTouches, SameCommitment, RecordOK, InFlight, Accepted
    <3>2. QED
      BY <1>4, <2>1, <3>1
  <2>4. CASE EscalationStep(s)
    <3>1. RecordOK(s)'
      BY <1>0, <2>1, <2>2, <2>4 DEF EscalationStep, OnlyTouches, SameCommitment, RecordOK, InFlight, Accepted
    <3>2. QED
      BY <1>4, <2>1, <3>1
  <2>5. CASE SettlementStep(s)
    <3>1. RecordOK(s)'
      BY <1>0, <2>1, <2>2, <2>5 DEF SettlementStep, OnlyTouches, SameCommitment, RecordOK, InFlight, Accepted
    <3>2. QED
      BY <1>4, <2>1, <3>1
  <2>6. QED
    BY <1>6, <2>3, <2>4, <2>5
<1>7. QED
  BY <1>1, <1>2, <1>3, <1>6 DEF StepKind

-----------------------------------------------------------------------------
(* The arbitration of UNIQUE projects.                                     *)

(* The arbitration of a project rests on its submissions alone.            *)
LEMMA ArbitrationUntouched ==
  ASSUME TypeOK, NEW q \in ProjectIds, ArbitrationOK(q),
         uniqueRevealState'[q] = uniqueRevealState[q],
         \A t \in SubmissionIds :
           submissions[t].projectId = q \/ submissions'[t].projectId = q =>
             submissions'[t] = submissions[t] /\ lifecycle'[t] = lifecycle[t]
  PROVE  ArbitrationOK(q)'
BY DEF ArbitrationOK, SubmissionsOf, InFlight, Accepted

LEMMA UniqueArbitrationKept ==
  ASSUME TypeOK, TypeOK', FreeProjectsAreEmpty, StatusMatchesRecord, UniqueArbitration, StepKind
  PROVE  UniqueArbitration'
<1> SUFFICES ASSUME NEW q \in ProjectIds, projects'[q].config.mode = "UNIQUE"
             PROVE  ArbitrationOK(q)'
  BY DEF UniqueArbitration
<1>0. nextSubmissionId \in Nat /\ nextProjectId \in Nat
      /\ \A t \in SubmissionIds : RecordOK(t) /\ t \in Nat /\ submissions[t] \in Submission
  BY ConfigType DEF TypeOK, StatusMatchesRecord, SubmissionIds
<1>1. CASE QuietStep
  <2>1. projects[q].config.mode = "UNIQUE"
    <3>1. CASE q = nextProjectId
      BY <1>0, <3>1 DEF FreeProjectsAreEmpty, EmptyConfig
    <3>2. CASE q # nextProjectId
      BY <1>1, <3>2 DEF QuietStep, Rules
    <3>3. QED
      BY <3>1, <3>2
  <2>2. QED
    BY <1>1, <2>1 DEF QuietStep, UniqueArbitration, ArbitrationOK, SubmissionsOf, InFlight, Accepted
<1>2. CASE CommitStep
  <2>1. PICK a \in Auditors, p \in ProjectIds, h \in CommitHash : Commit(a, p, h)
    BY <1>2 DEF CommitStep
  <2>2. PICK n \in SubmissionIds : n = nextSubmissionId
    BY <2>1, ConstantsAssumption DEF Commit, TypeOK, SubmissionIds
  <2>3. submissions[n] = EmptySubmission
    BY <1>0, <2>2 DEF RecordOK
  <2>4. /\ projects' = projects /\ uniqueRevealState' = uniqueRevealState /\ lifecycle' = lifecycle
        /\ \A t \in SubmissionIds \ {n} : submissions'[t] = submissions[t]
    BY <2>1, <2>2 DEF Commit, verdictVars, TypeOK
  <2>5. submissions'[n].status = "Committed"
    <3>1. submissions'[n] = [EmptySubmission EXCEPT !.auditor = a, !.projectId = p, !.commitHash = h,
                                                    !.status = "Committed"]
      BY <2>1, <2>2, <2>3 DEF Commit, TypeOK
    <3>2. QED
      BY <3>1 DEF EmptySubmission
  <2>6. ~InFlight(n) /\ ~InFlight(n)' /\ ~Accepted(n) /\ ~Accepted(n)'
    <3>1. ~InFlight(n) /\ ~InFlight(n)'
      BY <2>3, <2>5 DEF InFlight, EmptySubmission
    <3>2. lifecycle[n].finalValidity = "None"
      BY <1>0, <2>3 DEF RecordOK, EmptySubmission
    <3>3. QED
      BY <2>4, <3>1, <3>2 DEF Accepted
  <2>7. ArbitrationOK(q)
    BY <2>4 DEF UniqueArbitration
  <2>8. \A t \in SubmissionIds \ {n} : InFlight(t)' = InFlight(t) /\ Accepted(t)' = Accepted(t)
                                      /\ (t \in SubmissionsOf(q))' = (t \in SubmissionsOf(q))
    BY <2>4 DEF InFlight, Accepted, SubmissionsOf
  <2> DEFINE u == uniqueRevealState[q]
  <2>9. u.hasCandidate => u.candidateSubmissionId # n
    BY <2>6, <2>7 DEF ArbitrationOK
  <2>10. u.winnerLocked => u.winnerSubmissionId # n
    BY <2>6, <2>7 DEF ArbitrationOK
  <2>11. SubmissionsOf(q) \subseteq SubmissionIds /\ SubmissionsOf(q)' \subseteq SubmissionIds
    BY DEF SubmissionsOf
  <2>12. QED
    BY <2>4, <2>6, <2>7, <2>8, <2>9, <2>10, <2>11 DEF ArbitrationOK
<1>3. ASSUME NEW s \in SubmissionIds, RevealStep(s)  PROVE ArbitrationOK(q)'
  <2>1. /\ submissions[s].status = "Committed" /\ submissions'[s].status = "Revealed"
        /\ submissions'[s].projectId = submissions[s].projectId
        /\ \A t \in SubmissionIds \ {s} : submissions'[t] = submissions[t]
        /\ projects' = projects /\ lifecycle' = lifecycle
    BY <1>3, RevealEffect
  <2>2. ArbitrationOK(q)
    BY <2>1 DEF UniqueArbitration
  <2>3. PICK a \in Auditors \cup {NoAccount}, salt \in Salts \cup {NoSalt} : Reveal(a, s, salt)
    BY <1>3 DEF RevealStep
  <2>4. CASE submissions[s].projectId = q
    <3>1. TakeCandidacy(q, s)
      BY <2>1, <2>3, <2>4 DEF Reveal, ConfigOf
    <3>2. ~InFlight(s) /\ InFlight(s)' /\ ~Accepted(s) /\ ~Accepted(s)'
      BY <1>0, <2>1 DEF InFlight, Accepted, RecordOK
    <3>3. s \in SubmissionsOf(q) /\ SubmissionsOf(q)' = SubmissionsOf(q)
      BY <2>1, <2>4 DEF SubmissionsOf
    <3>4. \A t \in SubmissionIds \ {s} : InFlight(t)' = InFlight(t) /\ Accepted(t)' = Accepted(t)
      BY <2>1 DEF InFlight, Accepted
    <3>5. /\ ~uniqueRevealState[q].winnerLocked /\ ~uniqueRevealState[q].hasCandidate
          /\ uniqueRevealState' = [uniqueRevealState EXCEPT ![q] =
                                     [@ EXCEPT !.hasCandidate = TRUE, !.candidateSubmissionId = s]]
      BY <2>2, <3>1, <3>2, <3>3 DEF TakeCandidacy, ArbitrationOK
    <3>6. /\ uniqueRevealState'[q].hasCandidate /\ uniqueRevealState'[q].candidateSubmissionId = s
          /\ ~uniqueRevealState'[q].winnerLocked
      <4>1. uniqueRevealState[q] \in UniqueRevealState
        BY DEF TypeOK
      <4>2. uniqueRevealState'[q] = [uniqueRevealState[q] EXCEPT !.hasCandidate = TRUE,
                                                                 !.candidateSubmissionId = s]
        BY <3>5 DEF TypeOK
      <4>3. QED
        BY <3>5, <4>1, <4>2 DEF UniqueRevealState
    <3>7. \A t \in SubmissionsOf(q) \ {s} : ~InFlight(t) /\ ~Accepted(t)
      BY <2>2, <3>5 DEF ArbitrationOK
    <3>8. SubmissionsOf(q) \subseteq SubmissionIds
      BY DEF SubmissionsOf
    <3>9. QED
      BY <3>2, <3>3, <3>4, <3>6, <3>7, <3>8 DEF ArbitrationOK
  <2>5. CASE submissions[s].projectId # q
    <3>1. uniqueRevealState'[q] = uniqueRevealState[q]
      <4>1. submissions[s].projectId \in ProjectIds
        BY ConfigType
      <4>2. QED
        BY <2>3, <2>5, <4>1 DEF Reveal, TakeCandidacy, TypeOK
    <3>2. QED
      BY <2>1, <2>2, <2>5, <3>1, ArbitrationUntouched
  <2>6. QED
    BY <2>4, <2>5
<1>4. ASSUME NEW s \in SubmissionIds, VerdictStep(s) \/ EscalationStep(s) \/ SettlementStep(s)
      PROVE  ArbitrationOK(q)'
  <2>1. OnlyTouches(s) /\ SameCommitment(submissions'[s], submissions[s])
    BY <1>4 DEF VerdictStep, EscalationStep, SettlementStep
  <2>2. /\ projects[q].config.mode = "UNIQUE" /\ ArbitrationOK(q)
        /\ SubmissionsOf(q)' = SubmissionsOf(q) /\ SubmissionsOf(q) \subseteq SubmissionIds
        /\ \A t \in SubmissionIds \ {s} : InFlight(t)' = InFlight(t) /\ Accepted(t)' = Accepted(t)
    <3>1. projects[q].config.mode = "UNIQUE"
      BY <2>1 DEF OnlyTouches, RulesKept, Rules
    <3>2. \A t \in SubmissionIds : submissions'[t].projectId = submissions[t].projectId
      BY <2>1 DEF OnlyTouches, SameCommitment
    <3>3. QED
      BY <2>1, <3>1, <3>2 DEF OnlyTouches, UniqueArbitration, SubmissionsOf, InFlight, Accepted
  <2>3. CASE submissions[s].projectId # q
    <3>1. uniqueRevealState'[q] = uniqueRevealState[q]
      <4>1. submissions[s].projectId \in ProjectIds
        BY ConfigType
      <4>2. QED
        BY <1>4, <2>3, <4>1 DEF VerdictStep, EscalationStep, SettlementStep, TypeOK
    <3>2. QED
      BY <2>1, <2>2, <2>3, <3>1, ArbitrationUntouched DEF OnlyTouches, SameCommitment
  <2>4. CASE submissions[s].projectId = q /\ VerdictStep(s)
    <3>1. ConfigOf(s).mode = "UNIQUE" /\ s \in SubmissionsOf(q)
      BY <2>2, <2>4 DEF ConfigOf, SubmissionsOf
    <3>2. InFlight(s) /\ IsActiveCandidate(s)
      BY <1>0, <2>4, <3>1 DEF VerdictStep, RecordOK, InFlight
    <3>3. uniqueRevealState[q].hasCandidate /\ uniqueRevealState[q].candidateSubmissionId = s
      BY <2>4, <3>2 DEF IsActiveCandidate
    <3>4. ~uniqueRevealState[q].winnerLocked
          /\ \A t \in SubmissionsOf(q) \ {s} : ~InFlight(t) /\ ~Accepted(t)
      BY <2>2, <3>3 DEF ArbitrationOK
    <3>5. uniqueRevealState[q] \in UniqueRevealState /\ q \in DOMAIN uniqueRevealState
      BY DEF TypeOK
    <3>6. ~InFlight(s)'
      BY <2>4 DEF VerdictStep, InFlight
    <3>7. CASE /\ lifecycle'[s].finalValidity = "Valid"
               /\ uniqueRevealState' = [uniqueRevealState EXCEPT ![q] = Won(uniqueRevealState[q], s)]
      <4>1. uniqueRevealState'[q] = Won(uniqueRevealState[q], s)
        BY <3>5, <3>7
      <4>2. /\ ~uniqueRevealState'[q].hasCandidate /\ uniqueRevealState'[q].winnerLocked
            /\ uniqueRevealState'[q].winnerSubmissionId = s
        BY <3>5, <4>1 DEF Won, UniqueRevealState
      <4>3. Accepted(s)'
        BY <3>7 DEF Accepted
      <4>4. QED
        BY <2>2, <3>1, <3>4, <3>6, <4>2, <4>3 DEF ArbitrationOK
    <3>8. CASE /\ lifecycle'[s].finalValidity = "Invalid"
               /\ uniqueRevealState' = [uniqueRevealState EXCEPT ![q] = Cleared(uniqueRevealState[q])]
      <4>1. uniqueRevealState'[q] = Cleared(uniqueRevealState[q])
        BY <3>5, <3>8
      <4>2. ~uniqueRevealState'[q].hasCandidate /\ ~uniqueRevealState'[q].winnerLocked
        BY <3>4, <3>5, <4>1 DEF Cleared, UniqueRevealState
      <4>3. ~Accepted(s)'
        BY <3>8 DEF Accepted
      <4>4. QED
        BY <2>2, <3>1, <3>4, <3>6, <4>2, <4>3 DEF ArbitrationOK
    <3>9. QED
      BY <2>4, <3>1, <3>7, <3>8 DEF VerdictStep
  <2>5. CASE submissions[s].projectId = q /\ (EscalationStep(s) \/ SettlementStep(s))
    <3>1. uniqueRevealState' = uniqueRevealState
      BY <2>5 DEF EscalationStep, SettlementStep
    <3>2. InFlight(s)' = InFlight(s) /\ Accepted(s)' = Accepted(s)
      <4>1. CASE EscalationStep(s)
        BY <1>0, <4>1 DEF EscalationStep, InFlight, Accepted, RecordOK
      <4>2. CASE SettlementStep(s)
        BY <4>2 DEF SettlementStep, InFlight, Accepted
      <4>3. QED
        BY <2>5, <4>1, <4>2
    <3>3. \A t \in SubmissionIds : InFlight(t)' = InFlight(t) /\ Accepted(t)' = Accepted(t)
      BY <2>2, <3>2
    <3>4. QED
      BY <2>2, <3>1, <3>3 DEF ArbitrationOK
  <2>6. QED
    BY <1>4, <2>3, <2>4, <2>5
<1>5. QED
  BY <1>1, <1>2, <1>3, <1>4 DEF StepKind

-----------------------------------------------------------------------------
(* No kind of step reaches back behind a verdict.                          *)
LEMMA StepKeepsVerdict ==
  ASSUME TypeOK, StatusMatchesRecord, StepKind
  PROVE  VerdictKept
<1>0. \A t \in SubmissionIds : RecordOK(t)
  BY DEF StatusMatchesRecord
<1>1. CASE QuietStep
  BY <1>1 DEF QuietStep, VerdictKept
<1>2. CASE CommitStep
  <2>1. PICK a \in Auditors, p \in ProjectIds, h \in CommitHash : Commit(a, p, h)
    BY <1>2 DEF CommitStep
  <2>2. lifecycle' = lifecycle
        /\ \A t \in SubmissionIds : t # nextSubmissionId => submissions'[t] = submissions[t]
    BY <2>1 DEF Commit, verdictVars, TypeOK
  <2>3. \A t \in SubmissionIds : t = nextSubmissionId => submissions[t].status = "Committed"
    BY <1>0 DEF RecordOK, EmptySubmission, SubmissionIds
  <2>4. QED
    BY <2>2, <2>3 DEF VerdictKept
<1>3. ASSUME NEW s \in SubmissionIds, RevealStep(s)  PROVE VerdictKept
  <2>1. submissions[s].status = "Committed" /\ lifecycle' = lifecycle
        /\ \A t \in SubmissionIds \ {s} : submissions'[t] = submissions[t]
    BY <1>3, RevealEffect
  <2>2. QED
    BY <2>1 DEF VerdictKept
<1>4. ASSUME NEW s \in SubmissionIds, VerdictStep(s) \/ EscalationStep(s)  PROVE VerdictKept
  <2>1. InFlight(s) /\ OnlyTouches(s)
    BY <1>4 DEF VerdictStep, EscalationStep
  <2>2. lifecycle[s].finalValidity = "None" /\ submissions[s].status \notin {"Finalized", "Invalid"}
    BY <1>0, <2>1 DEF RecordOK, InFlight
  <2>3. QED
    BY <2>1, <2>2 DEF OnlyTouches, VerdictKept
<1>5. ASSUME NEW s \in SubmissionIds, SettlementStep(s)  PROVE VerdictKept
  BY <1>5 DEF SettlementStep, OnlyTouches, VerdictKept
<1>6. QED
  BY <1>1, <1>2, <1>3, <1>4, <1>5 DEF StepKind

-----------------------------------------------------------------------------
(* The inductive invariant: the arbitration needs the records to be right, *)
(* the records need the types and the project ids in use.                  *)
Inv == TypeOK /\ FreeProjectsAreEmpty /\ StatusMatchesRecord /\ UniqueArbitration

(* The deployed contract satisfies the invariant.                          *)
LEMMA InitInv == Init => Inv
<1> SUFFICES ASSUME Init  PROVE Inv
  OBVIOUS
<1>1. TypeOK
  BY InitTypeOK
<1>2. FreeProjectsAreEmpty
  BY DEF Init, FreeProjectsAreEmpty, EmptyProject
<1>3. StatusMatchesRecord
  BY DEF Init, StatusMatchesRecord, RecordOK, EmptySubmission, EmptyLifecycle, SubmissionIds, InFlight
<1>4. UniqueArbitration
  BY DEF Init, UniqueArbitration, ArbitrationOK, SubmissionsOf, InFlight, Accepted,
         EmptySubmission, EmptyLifecycle, EmptyUniqueState
<1>5. QED
  BY <1>1, <1>2, <1>3, <1>4 DEF Inv

(* Every transaction preserves the invariant and is of one of the kinds.   *)
LEMMA NextInv == Inv /\ [Next]_vars => Inv' /\ StepKind
<1> SUFFICES ASSUME Inv, [Next]_vars  PROVE Inv' /\ StepKind
  OBVIOUS
<1>1. TypeOK'
  BY NextTypeOK DEF Inv
<1>2. StepKind
  BY EveryStepHasAKind DEF Inv
<1>3. QED
  BY <1>1, <1>2, FreeProjectsAreEmptyKept, StatusMatchesRecordKept, UniqueArbitrationKept DEF Inv

(* The inductive invariant holds of every behaviour of the contract.       *)
THEOREM Invariance == Spec => []Inv
<1>1. Init => Inv
  BY InitInv
<1>2. Inv /\ [Next]_vars => Inv'
  BY NextInv
<1>3. QED
  BY <1>1, <1>2, PTL DEF Spec

(* However commits, reveals, reports and disputes interleave, the status   *)
(* of a submission agrees with its salt, its reveal time and its verdict.  *)
THEOREM StatusMatchesRecordAlways == Spec => []StatusMatchesRecord
<1>1. Inv => StatusMatchesRecord
  BY DEF Inv
<1>2. QED
  BY <1>1, Invariance, PTL

(* A UNIQUE project judges one finding at a time and awards one, and no    *)
(* finding is blocked by a candidate that is not in flight.                *)
THEOREM UniqueArbitrationAlways == Spec => []UniqueArbitration
<1>1. Inv => UniqueArbitration
  BY DEF Inv
<1>2. QED
  BY <1>1, Invariance, PTL

(* A verdict on record, and a finalized or invalid submission, never       *)
(* change, whichever reports still arrive.                                 *)
THEOREM VerdictIsFinalAlways == Spec => VerdictIsFinal
<1>1. Inv /\ [Next]_vars => [VerdictKept]_vars
  BY NextInv, StepKeepsVerdict DEF Inv
<1>2. QED
  BY <1>1, Invariance, PTL DEF Spec, VerdictIsFinal

-----------------------------------------------------------------------------
(***************************************************************************)
(* Guarantees.  What auditors and owners may rely on: signatures,          *)
(* commitments, queued reveals, payments and the provenance of verdicts.   *)
(* The safety invariant and its kinds of step carry over; what they leave  *)
(* open are the books kept beside the records.                             *)
(***************************************************************************)

\* Who writes the hashes in use, the queue and the nonces
LEMMA StepBooks ==
  ASSUME TypeOK, [Next]_vars
  PROVE  /\ UNCHANGED commitHashUsed \/ CommitStep
         /\ \/ UNCHANGED queuedReveals
            \/ \E g \in QueueSignatures : QueueRevealBySig(g)
            \/ \E a \in Auditors, s \in SubmissionIds : CancelQueuedReveal(a, s)
            \/ \E s \in SubmissionIds : RevealStep(s)
         /\ UNCHANGED sigVars \/ \E g \in Signatures : SpendSignature(g)
<1> DEFINE books == UNCHANGED <<commitHashUsed, queuedReveals, sigNonces, relayed>>
<1> USE DEF sigVars, commitVars
<1>1. CASE UNCHANGED vars \/ Tick \/ AdminNext \/ SettlementNext
  <2>1. books
    BY <1>1 DEF vars, Tick, AdminNext, SetAuthorizedWorkflow, SetLegacyReportFallbackEnabled,
       RegisterProject, TopUpBounty, SettlementNext, Challenge, ResolveDispute, Finalize
  <2>2. QED
    BY <2>1
<1>2. CASE ReportNext
  <2>1. PICK s \in SubmissionIds :
          \/ \E source, v, base : CommitFinalVerdict(s, source, v, base)
          \/ \E w, next : ProcessAdjudicationTransition(w, s, next)
    BY <1>2 DEF ReportNext, ProcessVerificationReport, ProcessTypedVerificationReport,
       ProcessFinalLifecycleReport
  <2>2. books
    BY <2>1 DEF ProcessAdjudicationTransition, CommitFinalVerdict
  <2>3. QED
    BY <2>2
<1>3. ASSUME NEW a \in Auditors, NEW p \in ProjectIds, NEW h \in CommitHash, Commit(a, p, h)
      PROVE  CommitStep /\ queuedReveals' = queuedReveals
  BY <1>3 DEF CommitStep, Commit
<1>4. ASSUME NEW a \in Auditors \cup {NoAccount}, NEW s \in SubmissionIds,
             NEW salt \in Salts \cup {NoSalt}, Reveal(a, s, salt)
      PROVE  RevealStep(s) /\ commitHashUsed' = commitHashUsed
  BY <1>4 DEF RevealStep, Reveal
<1>5. /\ \A g \in CommitSignatures : /\ g \in Signatures /\ g.auditor \in Auditors
                                     /\ g.projectId \in ProjectIds /\ g.commitHash \in CommitHash
      /\ \A g \in RevealSignatures : /\ g \in Signatures /\ g.auditor \in Auditors
                                     /\ g.submissionId \in SubmissionIds /\ g.salt \in Salts
      /\ QueueSignatures \subseteq Signatures
  BY ConstantsAssumption DEF Signatures, CommitSignature, RevealSignature
<1>6. \A s \in SubmissionIds : /\ queuedReveals[s].auditor \in Auditors \cup {NoAccount}
                               /\ queuedReveals[s].salt \in Salts \cup {NoSalt}
  BY DEF TypeOK, QueuedReveal
<1>7. CASE \/ \E a \in Auditors, p \in ProjectIds, h \in CommitHash : CommitPoC(a, p, h)
           \/ \E g \in CommitSignatures : CommitPoCBySig(g)
  BY <1>3, <1>5, <1>7 DEF CommitPoC, CommitPoCBySig
<1>8. CASE \/ \E a \in Auditors, s \in SubmissionIds, salt \in Salts : RevealPoC(a, s, salt)
           \/ \E g \in RevealSignatures : RevealPoCBySig(g)
           \/ \E s \in SubmissionIds : ExecuteQueuedReveal(s)
  BY <1>4, <1>5, <1>6, <1>8 DEF RevealPoC, RevealPoCBySig, ExecuteQueuedReveal
<1>9. CASE \E g \in QueueSignatures : QueueRevealBySig(g)
  BY <1>5, <1>9 DEF QueueRevealBySig
<1>10. CASE \E a \in Auditors, s \in SubmissionIds : CancelQueuedReveal(a, s)
  BY <1>10 DEF CancelQueuedReveal
<1>11. QED
  BY <1>1, <1>2, <1>7, <1>8, <1>9, <1>10 DEF Next, AuditorNext

-----------------------------------------------------------------------------
(* Signatures *)

\* A signature that was accepted lies below the nonce of its signer.
SignaturesSpent ==
  /\ \A g \in Signatures : relayed[g] = 0 \/ (relayed[g] = 1 /\ g.nonce < sigNonces[g.auditor])
  /\ SignatureSpentOnce

\* Who signed a message, and with which nonce.
LEMMA SignatureFields ==
  ASSUME NEW g \in Signatures
  PROVE  g.auditor \in Auditors /\ g.nonce \in Nat
BY ConstantsAssumption DEF Signatures, CommitSignature, RevealSignature, QueueSignature

\* An accepted message raises its signer's nonce above its own.
LEMMA NextSignatures ==
  ASSUME TypeOK, SignaturesSpent, [Next]_vars
  PROVE  SignaturesSpent'
<1>1. CASE UNCHANGED sigVars
  BY <1>1 DEF sigVars, SignaturesSpent, SignatureSpentOnce
<1>2. ASSUME NEW g \in Signatures, SpendSignature(g)  PROVE SignaturesSpent'
  <2>1. /\ g.auditor \in Auditors /\ g.nonce \in Nat /\ sigNonces[g.auditor] = g.nonce
        /\ sigNonces' = [sigNonces EXCEPT ![g.auditor] = g.nonce + 1]
        /\ relayed' = [relayed EXCEPT ![g] = @ + 1]
    BY <1>2, SignatureFields DEF SpendSignature
  <2>2. relayed[g] = 0
    BY <2>1 DEF SignaturesSpent
  <2>3. relayed'[g] = 1 /\ \A h \in Signatures \ {g} : relayed'[h] = relayed[h]
    BY <2>1, <2>2 DEF TypeOK
  <2>4. /\ sigNonces'[g.auditor] = g.nonce + 1
        /\ \A a \in Auditors \ {g.auditor} : sigNonces'[a] = sigNonces[a]
    BY <2>1 DEF TypeOK
  <2>5. \A h \in Signatures : relayed'[h] = 0 \/ (relayed'[h] = 1 /\ h.nonce < sigNonces'[h.auditor])
    <3> SUFFICES ASSUME NEW h \in Signatures
                 PROVE  relayed'[h] = 0 \/ (relayed'[h] = 1 /\ h.nonce < sigNonces'[h.auditor])
      OBVIOUS
    <3>1. h.auditor \in Auditors /\ h.nonce \in Nat
      BY SignatureFields
    <3>2. CASE h = g
      BY <2>1, <2>3, <2>4, <3>2
    <3>3. CASE h # g
      BY <2>1, <2>3, <2>4, <3>1, <3>3 DEF SignaturesSpent
    <3>4. QED
      BY <3>2, <3>3
  <2>6. \A h \in Signatures : relayed[h] = 1 /\ h.auditor = g.auditor => h.nonce # g.nonce
    BY <2>1, SignatureFields DEF SignaturesSpent
  <2>7. SignatureSpentOnce'
    BY <2>3, <2>5, <2>6 DEF SignaturesSpent, SignatureSpentOnce
  <2>8. QED
    BY <2>5, <2>7 DEF SignaturesSpent
<1>3. QED
  BY <1>1, <1>2, StepBooks

\* However the messages an auditor has signed are relayed, reordered and replayed, a nonce is
\* spent on one of them, once.
THEOREM SignatureSpentOnceAlways == Spec => []SignatureSpentOnce
<1>1. Init => SignaturesSpent
  BY DEF Init, SignaturesSpent, SignatureSpentOnce
<1>2. TypeOK /\ SignaturesSpent /\ [Next]_vars => SignaturesSpent'
  BY NextSignatures
<1>3. SignaturesSpent => SignatureSpentOnce
  BY DEF SignaturesSpent
<1>4. QED
  BY <1>1, <1>2, <1>3, TypeCorrect, PTL DEF Spec

-----------------------------------------------------------------------------
(* Queued reveals *)

Queued ==
  \A s \in SubmissionIds : queuedReveals[s].queued =>
    /\ submissions[s].status = "Committed"
    /\ submissions[s].auditor = queuedReveals[s].auditor
    /\ queuedReveals[s].auditor \in Auditors

\* A submission id that is free has nobody who could queue it.
LEMMA FreeNotQueued ==
  ASSUME Inv, Queued, NEW s \in SubmissionIds, s >= nextSubmissionId
  PROVE  ~queuedReveals[s].queued
<1>1. submissions[s].auditor = NoAccount
  BY DEF Inv, StatusMatchesRecord, RecordOK, EmptySubmission
<1>2. QED
  BY <1>1, ConstantsAssumption DEF Queued

\* Every transaction leaves only such entries in the queue.
LEMMA NextQueued ==
  ASSUME Inv, Queued, [Next]_vars
  PROVE  Queued'
<1>1. StepKind /\ TypeOK
  BY NextInv DEF Inv
<1>2. ASSUME NEW s \in SubmissionIds, RevealStep(s)  PROVE Queued'
  <2>1. /\ queuedReveals' = [queuedReveals EXCEPT ![s] = NoQueuedReveal]
        /\ \A t \in SubmissionIds \ {s} : submissions'[t] = submissions[t]
    BY <1>1, <1>2 DEF RevealStep, Reveal, DropQueuedReveal, TypeOK
  <2>2. ~queuedReveals'[s].queued /\ \A t \in SubmissionIds \ {s} : queuedReveals'[t] = queuedReveals[t]
    BY <1>1, <2>1 DEF TypeOK, NoQueuedReveal
  <2>3. QED
    BY <2>1, <2>2 DEF Queued
<1>3. ASSUME NEW g \in QueueSignatures, QueueRevealBySig(g)  PROVE Queued'
  <2> DEFINE entry == [auditor |-> g.auditor, salt |-> g.salt, deadline |-> g.deadline, queued |-> TRUE]
  <2>1. g.submissionId \in SubmissionIds /\ g.auditor \in Auditors
    BY ConstantsAssumption DEF QueueSignature
  <2>2. /\ submissions' = submissions /\ submissions[g.submissionId].status = "Committed"
        /\ submissions[g.submissionId].auditor = g.auditor
        /\ queuedReveals' = [queuedReveals EXCEPT ![g.submissionId] = entry]
    BY <1>3 DEF QueueRevealBySig
  <2>3. entry.auditor = g.auditor
    OBVIOUS
  <2> HIDE DEF entry
  <2>4. QED
    BY <1>1, <2>1, <2>2, <2>3 DEF Queued, TypeOK
<1>4. ASSUME NEW a \in Auditors, NEW s \in SubmissionIds, CancelQueuedReveal(a, s)  PROVE Queued'
  BY <1>1, <1>4 DEF CancelQueuedReveal, DropQueuedReveal, NoQueuedReveal, Queued, TypeOK
<1>5. ASSUME UNCHANGED queuedReveals, ~\E s \in SubmissionIds : RevealStep(s)  PROVE Queued'
  <2>1. CASE QuietStep
    BY <1>5, <2>1 DEF QuietStep, Queued
  <2>2. CASE CommitStep
    <3>1. /\ nextSubmissionId \in SubmissionIds
          /\ \A s \in SubmissionIds \ {nextSubmissionId} : submissions'[s] = submissions[s]
      BY <1>1, <2>2, ConstantsAssumption DEF CommitStep, Commit, TypeOK, SubmissionIds
    <3>2. ~queuedReveals[nextSubmissionId].queued
      BY <3>1, FreeNotQueued DEF SubmissionIds
    <3>3. QED
      BY <1>5, <3>1, <3>2 DEF Queued
  <2>3. ASSUME NEW s \in SubmissionIds, VerdictStep(s) \/ EscalationStep(s) \/ SettlementStep(s)
        PROVE  Queued'
    <3>1. submissions[s].status # "Committed" /\ \A t \in SubmissionIds \ {s} : submissions'[t] = submissions[t]
      BY <2>3 DEF VerdictStep, EscalationStep, SettlementStep, InFlight, OnlyTouches
    <3>2. QED
      BY <1>5, <3>1 DEF Queued
  <2>4. QED
    BY <1>1, <1>5, <2>1, <2>2, <2>3 DEF StepKind
<1>6. QED
  BY <1>1, <1>2, <1>3, <1>4, <1>5, StepBooks

\* By whichever entry point a submission is revealed, and whatever is queued, cancelled and
\* queued again: what is queued can still be opened by its auditor.
THEOREM QueueOnlyForCommittedAlways == Spec => []QueueOnlyForCommitted
<1>1. Init => Queued
  BY DEF Init, Queued, NoQueuedReveal
<1>2. Inv /\ Queued /\ [Next]_vars => Queued'
  BY NextQueued
<1>3. Queued => QueueOnlyForCommitted
  BY DEF Queued, QueueOnlyForCommitted
<1>4. QED
  BY <1>1, <1>2, <1>3, Invariance, PTL DEF Spec

-----------------------------------------------------------------------------
(* Commitments *)

Ids == 0 .. nextSubmissionId - 1

\* The hash of every submission is used, by it alone, and the revealed ones have opened it.
Committed ==
  /\ \A s \in Ids : submissions[s].commitHash \in commitHashUsed
  /\ RevealProvesAuthorship

\* The ids in use are ids.
LEMMA IdsType ==
  ASSUME TypeOK
  PROVE  Ids \subseteq SubmissionIds /\ nextSubmissionId \in Nat
BY ConstantsAssumption DEF TypeOK, Ids, SubmissionIds

\* A step that keeps ids, hashes and commitments and reveals nothing
LEMMA CommittedKept ==
  ASSUME Committed, TypeOK, nextSubmissionId' = nextSubmissionId, commitHashUsed' = commitHashUsed,
         \A s \in SubmissionIds : /\ SameCommitment(submissions'[s], submissions[s])
                                  /\ submissions[s].status = "Committed" => submissions'[s].status = "Committed"
  PROVE  Committed'
BY IdsType DEF Committed, RevealProvesAuthorship, SameCommitment, Ids

\* A new hash is a fresh one, and a reveal opens the hash it finds.
LEMMA NextCommitted ==
  ASSUME Inv, Committed, [Next]_vars
  PROVE  Committed'
<1>1. StepKind /\ TypeOK /\ Ids \subseteq SubmissionIds
  BY NextInv, IdsType DEF Inv
<1>2. \A r : SameCommitment(r, r)
  BY DEF SameCommitment
<1>3. CASE CommitStep
  <2>1. PICK a \in Auditors, p \in ProjectIds, h \in CommitHash : Commit(a, p, h)
    BY <1>3 DEF CommitStep
  <2>2. /\ nextSubmissionId \in SubmissionIds /\ nextSubmissionId \in Nat
        /\ nextSubmissionId' = nextSubmissionId + 1
    BY <1>1, <2>1, ConstantsAssumption DEF Commit, TypeOK, SubmissionIds
  <2>3. /\ h \notin commitHashUsed /\ commitHashUsed' = commitHashUsed \cup {h}
        /\ submissions'[nextSubmissionId].commitHash = h
        /\ submissions'[nextSubmissionId].status = "Committed"
        /\ \A s \in SubmissionIds \ {nextSubmissionId} : submissions'[s] = submissions[s]
    BY <1>1, <2>1, <2>2 DEF Commit, FreshCommit, TypeOK, Submission
  <2>4. Ids' = Ids \cup {nextSubmissionId} /\ nextSubmissionId \notin Ids
    BY <2>2 DEF Ids
  <2>5. \A s \in Ids : submissions'[s] = submissions[s] /\ submissions[s].commitHash # h
    BY <1>1, <2>3, <2>4 DEF Committed
  <2>6. \A s \in Ids' : submissions'[s].commitHash \in commitHashUsed'
    BY <2>3, <2>4, <2>5 DEF Committed
  <2>7. RevealProvesAuthorship'
    <3>1. \A s \in Ids : /\ submissions[s].status # "Committed" =>
                              submissions[s].commitHash = CommitmentTo(submissions[s].auditor, submissions[s].salt)
                         /\ \A t \in Ids : submissions[t].commitHash = submissions[s].commitHash => s = t
      BY DEF Committed, RevealProvesAuthorship, Ids
    <3>2. \A s \in Ids' : /\ submissions'[s].status # "Committed" =>
                               submissions'[s].commitHash = CommitmentTo(submissions'[s].auditor, submissions'[s].salt)
                          /\ \A t \in Ids' : submissions'[t].commitHash = submissions'[s].commitHash => s = t
      BY <2>3, <2>4, <2>5, <3>1
    <3>3. QED
      BY <3>2 DEF RevealProvesAuthorship, Ids, CommitmentTo
  <2>8. QED
    BY <2>6, <2>7 DEF Committed
<1>4. ASSUME NEW s \in SubmissionIds, RevealStep(s)  PROVE Committed'
  <2>1. PICK a \in Auditors \cup {NoAccount}, salt \in Salts \cup {NoSalt} : Reveal(a, s, salt)
    BY <1>4 DEF RevealStep
  <2>2. /\ nextSubmissionId' = nextSubmissionId /\ commitHashUsed' = commitHashUsed
        /\ submissions'[s].auditor = submissions[s].auditor
        /\ submissions'[s].commitHash = submissions[s].commitHash
        /\ submissions[s].commitHash = CommitmentTo(submissions'[s].auditor, submissions'[s].salt)
        /\ \A t \in SubmissionIds \ {s} : submissions'[t] = submissions[t]
    <3>1. submissions[s] \in Submission
      BY <1>1 DEF TypeOK
    <3>2. submissions'[s] = [submissions[s] EXCEPT !.salt = salt, !.revealTimestamp = now, !.status = "Revealed"]
      BY <1>1, <2>1 DEF Reveal, TypeOK
    <3>3. /\ submissions'[s].auditor = submissions[s].auditor /\ submissions'[s].salt = salt
          /\ submissions'[s].commitHash = submissions[s].commitHash
      BY <3>1, <3>2 DEF Submission
    <3>4. QED
      BY <1>1, <2>1, <3>3 DEF Reveal, idVars, commitVars, TypeOK
  <2>3. Ids' = Ids /\ \A t \in Ids : submissions'[t].commitHash = submissions[t].commitHash
    BY <1>1, <2>2 DEF Ids
  <2>4. \A t \in Ids : submissions'[t].status # "Committed" =>
          submissions'[t].commitHash = CommitmentTo(submissions'[t].auditor, submissions'[t].salt)
    BY <1>1, <2>2 DEF Committed, RevealProvesAuthorship, Ids
  <2>5. \A t, r \in Ids : submissions[t].commitHash = submissions[r].commitHash => t = r
    BY DEF Committed, RevealProvesAuthorship, Ids
  <2>6. RevealProvesAuthorship'
    BY <2>3, <2>4, <2>5 DEF RevealProvesAuthorship, Ids, CommitmentTo
  <2>7. QED
    BY <2>2, <2>3, <2>6 DEF Committed
<1>5. ASSUME commitHashUsed' = commitHashUsed, ~CommitStep, ~\E s \in SubmissionIds : RevealStep(s)
      PROVE  Committed'
  <2>1. CASE QuietStep
    BY <1>1, <1>2, <1>5, <2>1, CommittedKept DEF QuietStep
  <2>2. ASSUME NEW s \in SubmissionIds, VerdictStep(s) \/ EscalationStep(s) \/ SettlementStep(s)
        PROVE  Committed'
    <3>1. /\ submissions[s].status # "Committed" /\ nextSubmissionId' = nextSubmissionId
          /\ SameCommitment(submissions'[s], submissions[s])
          /\ \A t \in SubmissionIds \ {s} : submissions'[t] = submissions[t]
      BY <2>2 DEF VerdictStep, EscalationStep, SettlementStep, InFlight, OnlyTouches
    <3>2. QED
      BY <1>1, <1>2, <1>5, <3>1, CommittedKept
  <2>3. QED
    BY <1>1, <1>5, <2>1, <2>2 DEF StepKind
<1>6. QED
  BY <1>1, <1>3, <1>4, <1>5, StepBooks

\* However hashes are copied and front-run, a revealed submission opened a commitment made to
\* its own auditor, and no two submissions share one.
THEOREM RevealProvesAuthorshipAlways == Spec => []RevealProvesAuthorship
<1>1. Init => Committed
  BY DEF Init, Committed, RevealProvesAuthorship, Ids
<1>2. Inv /\ Committed /\ [Next]_vars => Committed'
  BY NextCommitted
<1>3. Committed => RevealProvesAuthorship
  BY DEF Committed
<1>4. QED
  BY <1>1, <1>2, <1>3, Invariance, PTL DEF Spec

-----------------------------------------------------------------------------
(* What every step leaves alone *)

\* The project of a submission and its rules stay.
LEMMA SubmissionRulesStay ==
  ASSUME Inv, [Next]_vars, NEW s \in SubmissionIds, s < nextSubmissionId
  PROVE  /\ submissions'[s].projectId = submissions[s].projectId
         /\ ConfigOf(s)' = ConfigOf(s)
<1> DEFINE p == submissions[s].projectId
<1>1. TypeOK /\ StepKind /\ p < nextProjectId /\ p \in ProjectIds
  BY NextInv, ConfigType DEF Inv, StatusMatchesRecord, RecordOK
<1> HIDE DEF p
<1>2. CASE QuietStep
  <2>1. submissions' = submissions /\ p # nextProjectId
    BY <1>1, <1>2 DEF QuietStep, ProjectIds, TypeOK
  <2>2. projects'[p].config = projects[p].config
    BY <1>1, <1>2, <2>1 DEF QuietStep, Rules
  <2>3. QED
    BY <2>1, <2>2 DEF ConfigOf, p
<1>3. CASE CommitStep
  <2>1. nextSubmissionId < MaxSubmissions
    BY <1>3 DEF CommitStep, Commit
  <2>2. nextSubmissionId \in SubmissionIds /\ s # nextSubmissionId
    BY <1>1, <2>1, ConstantsAssumption DEF TypeOK, SubmissionIds
  <2>3. submissions'[s] = submissions[s] /\ projects' = projects
    BY <1>1, <1>3, <2>2 DEF CommitStep, Commit, TypeOK
  <2>4. QED
    BY <2>3 DEF ConfigOf
<1>4. ASSUME NEW t \in SubmissionIds, RevealStep(t)
      PROVE  submissions'[s].projectId = submissions[s].projectId /\ ConfigOf(s)' = ConfigOf(s)
  <2>1. PICK a, salt : Reveal(a, t, salt)
    BY <1>4 DEF RevealStep
  <2>2. /\ submissions' = [submissions EXCEPT ![t] =
                            [@ EXCEPT !.salt = salt, !.revealTimestamp = now, !.status = "Revealed"]]
        /\ projects' = projects
    BY <2>1 DEF Reveal
  <2>3. submissions'[s].projectId = submissions[s].projectId
    BY <1>1, <2>2 DEF TypeOK, Submission
  <2>4. QED
    BY <2>2, <2>3 DEF ConfigOf
<1>5. ASSUME NEW t \in SubmissionIds, VerdictStep(t) \/ EscalationStep(t) \/ SettlementStep(t)
      PROVE  submissions'[s].projectId = submissions[s].projectId /\ ConfigOf(s)' = ConfigOf(s)
  <2>1. submissions'[s].projectId = p
    BY <1>5 DEF VerdictStep, EscalationStep, SettlementStep, OnlyTouches, SameCommitment, p
  <2>2. projects'[p].config = projects[p].config
    BY <1>1, <1>5 DEF VerdictStep, EscalationStep, SettlementStep, OnlyTouches, RulesKept, Rules
  <2>3. QED
    BY <2>1, <2>2 DEF ConfigOf, p
<1>6. QED
  BY <1>1, <1>2, <1>3, <1>4, <1>5 DEF StepKind

\* A submission that is past Committed exists.
LEMMA OpenedExists ==
  ASSUME Inv, NEW s \in SubmissionIds, submissions[s].status # "Committed"
  PROVE  s < nextSubmissionId
<1>1. nextSubmissionId \in Nat /\ s \in Nat
  BY ConstantsAssumption DEF Inv, TypeOK, SubmissionIds
<1>2. s >= nextSubmissionId => submissions[s].status = "Committed"
  BY DEF Inv, StatusMatchesRecord, RecordOK, EmptySubmission
<1>3. QED
  BY <1>1, <1>2

\* Time stands still within a transaction, and blocks follow one another.
LEMMA NowGrows ==
  ASSUME TypeOK, [Next]_vars
  PROVE  now' \in {now, now + 1} /\ now \in Nat
<1> SUFFICES now' \in {now, now + 1}
  BY DEF TypeOK
<1>1. CASE UNCHANGED vars \/ Tick
  BY <1>1 DEF vars, Tick
<1>2. CASE AdminNext
  BY <1>2 DEF AdminNext, SetAuthorizedWorkflow, SetLegacyReportFallbackEnabled, RegisterProject,
     TopUpBounty
<1>3. CASE AuditorNext
  BY <1>3 DEF AuditorNext, CommitPoC, CommitPoCBySig, Commit, RevealPoC, RevealPoCBySig,
     ExecuteQueuedReveal, Reveal, QueueRevealBySig, CancelQueuedReveal
<1>4. CASE ReportNext
  <2>1. \A s, source, v, base : CommitFinalVerdict(s, source, v, base) => now' = now
    BY DEF CommitFinalVerdict
  <2>2. \A w, s, next : ProcessAdjudicationTransition(w, s, next) => now' = now
    BY DEF ProcessAdjudicationTransition
  <2>3. PICK w \in Reporters, t \in SubmissionIds :
          \/ \E v \in Verdict : ProcessVerificationReport(w, t, v)
          \/ \E v \in Verdict, g \in BOOLEAN : ProcessTypedVerificationReport(w, t, v, g)
          \/ \E source \in {"Verification", "Jury", "Owner"}, v \in Verdict, g \in BOOLEAN :
                ProcessFinalLifecycleReport(w, t, source, v, g)
          \/ \E next \in {"JuryPending", "AwaitingOwnerAdjudication"} :
                ProcessAdjudicationTransition(w, t, next)
    BY <1>4 DEF ReportNext
  <2>4. now' = now
    BY <2>1, <2>2, <2>3 DEF ProcessVerificationReport, ProcessTypedVerificationReport,
       ProcessFinalLifecycleReport
  <2>5. QED
    BY <2>4
<1>5. CASE SettlementNext
  <2>1. \A s : Finalize(s) => now' = now
    BY DEF Finalize
  <2>2. QED
    BY <1>5, <2>1 DEF SettlementNext, Challenge, ResolveDispute
<1>6. QED
  BY <1>1, <1>2, <1>3, <1>4, <1>5 DEF Next

-----------------------------------------------------------------------------
(* No commit after a reveal *)

\* What is opened in a MULTI project was opened after its commit deadline.
OpenedLate ==
  \A s \in SubmissionIds : submissions[s].status # "Committed" /\ ConfigOf(s).mode = "MULTI" =>
    ConfigOf(s).commitDeadline > 0 /\ now > ConfigOf(s).commitDeadline

\* Every transaction leaves what is open opened after the deadline.
LEMMA NextOpenedLate ==
  ASSUME Inv, OpenedLate, [Next]_vars
  PROVE  OpenedLate'
<1>1. StepKind /\ TypeOK /\ now' \in {now, now + 1} /\ now \in Nat
  BY NextInv, NowGrows DEF Inv
<1>2. ASSUME NEW s \in SubmissionIds, submissions[s].status # "Committed",
             submissions'[s].status # "Committed", ConfigOf(s)'.mode = "MULTI"
      PROVE  ConfigOf(s)'.commitDeadline > 0 /\ now' > ConfigOf(s)'.commitDeadline
  <2>1. ConfigOf(s)' = ConfigOf(s) /\ ConfigOf(s).commitDeadline \in Nat
    BY <1>1, <1>2, OpenedExists, SubmissionRulesStay, ConfigType DEF Config
  <2>2. QED
    BY <1>1, <1>2, <2>1 DEF OpenedLate
<1>3. ASSUME NEW s \in SubmissionIds, submissions[s].status = "Committed",
             submissions'[s].status # "Committed", ConfigOf(s)'.mode = "MULTI"
      PROVE  ConfigOf(s)'.commitDeadline > 0 /\ now' > ConfigOf(s)'.commitDeadline
  <2>1. ASSUME NEW t \in SubmissionIds, RevealStep(t)
        PROVE  ConfigOf(s)'.commitDeadline > 0 /\ now' > ConfigOf(s)'.commitDeadline
    <3>1. PICK a, salt : Reveal(a, t, salt)
      BY <2>1 DEF RevealStep
    <3>2. /\ submissions' = [submissions EXCEPT ![t] =
                              [@ EXCEPT !.salt = salt, !.revealTimestamp = now, !.status = "Revealed"]]
          /\ projects' = projects /\ now' = now
      BY <3>1 DEF Reveal
    <3>3. s = t /\ submissions'[s].projectId = submissions[s].projectId
      BY <1>1, <1>3, <3>2 DEF TypeOK, Submission
    <3>4. ConfigOf(s)' = ConfigOf(s)
      BY <3>2, <3>3 DEF ConfigOf
    <3>5. RevealWindowOpen(ConfigOf(s))
      BY <1>3, <3>1, <3>3, <3>4 DEF Reveal
    <3>6. QED
      BY <3>2, <3>4, <3>5 DEF RevealWindowOpen
  <2>2. CASE QuietStep
    BY <1>3, <2>2 DEF QuietStep
  <2>3. CASE CommitStep
    <3>1. nextSubmissionId \in SubmissionIds
      BY <1>1, <2>3, ConstantsAssumption DEF CommitStep, Commit, TypeOK, SubmissionIds
    <3>2. submissions'[s].status = "Committed"
      BY <1>1, <1>3, <2>3, <3>1 DEF CommitStep, Commit, TypeOK, Submission
    <3>3. QED
      BY <1>3, <3>2
  <2>4. ASSUME NEW t \in SubmissionIds, VerdictStep(t) \/ EscalationStep(t) \/ SettlementStep(t)
        PROVE  FALSE
    <3>1. submissions[t].status # "Committed"
      BY <2>4 DEF VerdictStep, EscalationStep, SettlementStep, InFlight
    <3>2. s # t /\ submissions'[s] = submissions[s]
      BY <1>3, <2>4, <3>1 DEF VerdictStep, EscalationStep, SettlementStep, OnlyTouches
    <3>3. QED
      BY <1>3, <3>2
  <2>5. QED
    BY <1>1, <2>1, <2>2, <2>3, <2>4 DEF StepKind
<1>4. QED
  BY <1>2, <1>3 DEF OpenedLate

\* A commit goes to a project whose commit deadline has not passed.
LEMMA CommitStepProject ==
  ASSUME Inv, OpenedLate, [Next]_vars, NEW s \in SubmissionIds, submissions[s].status # "Committed",
         ConfigOf(s).mode = "MULTI", nextSubmissionId' # nextSubmissionId
  PROVE  submissions'[nextSubmissionId].projectId # submissions[s].projectId
<1>1. StepKind /\ TypeOK
  BY NextInv DEF Inv
<1>2. CommitStep
  BY <1>1 DEF StepKind, QuietStep, RevealStep, Reveal, VerdictStep, EscalationStep, SettlementStep,
     OnlyTouches, idVars
<1>3. PICK a \in Auditors, p \in ProjectIds, h \in CommitHash : Commit(a, p, h)
  BY <1>2 DEF CommitStep
<1>4. nextSubmissionId \in SubmissionIds
  BY <1>1, <1>3, ConstantsAssumption DEF Commit, TypeOK, SubmissionIds
<1>5. submissions'[nextSubmissionId].projectId = p
  BY <1>1, <1>3, <1>4 DEF Commit, TypeOK, Submission
<1>6. p # submissions[s].projectId
  <2>1. /\ ConfigOf(s).commitDeadline > 0 /\ now > ConfigOf(s).commitDeadline
        /\ now \in Nat /\ ConfigOf(s).commitDeadline \in Nat
    BY <1>1, ConfigType DEF OpenedLate, TypeOK, Config
  <2>2. projects[p].config.mode = "MULTI" /\ projects[p].config.commitDeadline > 0
          => now <= projects[p].config.commitDeadline
    BY <1>3 DEF Commit
  <2>3. QED
    BY <2>1, <2>2 DEF ConfigOf
<1>7. QED
  BY <1>5, <1>6

\* Nobody commits to a MULTI project in which a finding is open to be copied.
THEOREM NoCommitAfterRevealAlways == Spec => NoCommitAfterReveal
<1>1. Init => OpenedLate
  BY DEF Init, OpenedLate, EmptySubmission
<1>2. Inv /\ OpenedLate /\ [Next]_vars => OpenedLate'
  BY NextOpenedLate
<1> DEFINE Late ==
      \A s \in SubmissionIds :
        (submissions[s].status # "Committed" /\ ConfigOf(s).mode = "MULTI"
           /\ nextSubmissionId' # nextSubmissionId)
        => submissions'[nextSubmissionId].projectId # submissions[s].projectId
<1>3. Inv /\ OpenedLate /\ [Next]_vars => [Late]_vars
  BY CommitStepProject
<1>4. QED
  BY <1>1, <1>2, <1>3, Invariance, PTL DEF Spec, NoCommitAfterReveal

-----------------------------------------------------------------------------
(* Where verdicts come from *)

\* A jury or owner verdict came in a report the allowlist admits.
LEMMA VerdictProvenance ==
  ASSUME TypeOK, [Next]_vars, NEW s \in SubmissionIds, lifecycle[s].verdictSource = "None",
         lifecycle'[s].verdictSource \in {"Jury", "Owner"}
  PROVE  authorizedWorkflows = {} \/ {JURY_ORCHESTRATOR, NoWorkflow} \cap authorizedWorkflows # {}
<1>1. CASE UNCHANGED vars \/ Tick \/ AdminNext \/ AuditorNext \/ SettlementNext
  <2>1. lifecycle' = lifecycle
    BY <1>1 DEF vars, verdictVars, Tick, AdminNext, SetAuthorizedWorkflow, SetLegacyReportFallbackEnabled,
       RegisterProject, TopUpBounty, AuditorNext, CommitPoC, CommitPoCBySig, Commit, RevealPoC,
       RevealPoCBySig, ExecuteQueuedReveal, Reveal, QueueRevealBySig, CancelQueuedReveal,
       SettlementNext, Challenge, ResolveDispute, Finalize
  <2>2. QED
    BY <2>1
<1>2. ASSUME NEW t \in SubmissionIds, NEW v \in Verdict,
             CommitFinalVerdict(t, "Verification", v, lifecycle[t])
      PROVE  FALSE
  <2> DEFINE new == [lifecycle[t] EXCEPT !.verdictSource = "Verification",
                       !.finalValidity = IF v.isValid THEN "Valid" ELSE "Invalid"]
  <2>1. lifecycle' = [lifecycle EXCEPT ![t] = new]
    BY <1>2 DEF CommitFinalVerdict
  <2>2. new.verdictSource = "Verification"
    BY DEF TypeOK, SubmissionLifecycle
  <2> HIDE DEF new
  <2>3. QED
    BY <2>1, <2>2 DEF TypeOK
<1>3. ASSUME NEW w, NEW t \in SubmissionIds, NEW next, ProcessAdjudicationTransition(w, t, next)
      PROVE  FALSE
  <2> DEFINE new == [WithDerivedDeadlines(t) EXCEPT !.verdictSource = "None", !.finalValidity = "None"]
  <2>1. lifecycle' = [lifecycle EXCEPT ![t] = new]
    BY <1>3 DEF ProcessAdjudicationTransition
  <2>2. new.verdictSource = "None"
    BY DeadlinesTypeOK DEF SubmissionLifecycle
  <2> HIDE DEF new
  <2>3. QED
    BY <2>1, <2>2 DEF TypeOK
<1>4. CASE ReportNext
  <2>1. PICK w \in Reporters, t \in SubmissionIds :
          \/ \E v \in Verdict : ProcessVerificationReport(w, t, v)
          \/ \E v \in Verdict, g \in BOOLEAN : ProcessTypedVerificationReport(w, t, v, g)
          \/ \E source \in {"Verification", "Jury", "Owner"}, v \in Verdict, g \in BOOLEAN :
                ProcessFinalLifecycleReport(w, t, source, v, g)
          \/ \E next \in {"JuryPending", "AwaitingOwnerAdjudication"} :
                ProcessAdjudicationTransition(w, t, next)
    BY <1>4 DEF ReportNext
  <2>2. \E source, v, g : ProcessFinalLifecycleReport(w, t, source, v, g)
    BY <1>2, <1>3, <2>1 DEF ProcessVerificationReport, ProcessTypedVerificationReport
  <2>3. QED
    BY <2>2 DEF ProcessFinalLifecycleReport, ReportAdmitted
<1>5. QED
  BY <1>1, <1>4 DEF Next

\* While an allowlist is in force, a jury's or owner's verdict came from the jury's workflow
\* or, where the contract's owner has authorised bytes32(0), from any that carries that id.
THEOREM JuryVerdictsFromJuryWorkflowAlways == Spec => JuryVerdictsFromJuryWorkflow
<1> DEFINE Admitted ==
      \A s \in SubmissionIds :
        (lifecycle[s].verdictSource = "None" /\ lifecycle'[s].verdictSource \in {"Jury", "Owner"})
        => \/ authorizedWorkflows = {}
           \/ {JURY_ORCHESTRATOR, NoWorkflow} \cap authorizedWorkflows # {}
<1>1. TypeOK /\ [Next]_vars => [Admitted]_vars
  BY VerdictProvenance
<1>2. QED
  BY <1>1, TypeCorrect, PTL DEF Spec, JuryVerdictsFromJuryWorkflow
-----------------------------------------------------------------------------
(* Payments *)

\* A step that pays submission s, out of its own project's pool, in a window that allows it
Pays(s) ==
  /\ submissions[s].status \notin {"Committed", "Finalized", "Invalid"}
  /\ submissions'[s].status = "Finalized"
  /\ submissions'[s].payoutAmount <= ConfigOf(s).maxPayoutPerBug
  /\ paidOut' = [paidOut EXCEPT ![s] = @ + submissions'[s].payoutAmount]
  /\ ConfigOf(s).disputeWindow = 0 \/ now > submissions[s].disputeDeadline
  /\ \A t \in SubmissionIds \ {s} : submissions'[t] = submissions[t]
  /\ \A p \in ProjectIds \ {submissions[s].projectId} : projects'[p] = projects[p]
  /\ nextProjectId' = nextProjectId

\* A step that pays nobody: what is finalized stays as it is and no pool shrinks
PaysNobody ==
  /\ paidOut' = paidOut
  /\ \A s \in SubmissionIds : \/ submissions'[s] = submissions[s]
                              \/ submissions[s].status # "Finalized" /\ submissions'[s].status # "Finalized"
  /\ \A p \in ProjectIds : /\ projects'[p].bountyPool >= projects[p].bountyPool
                           /\ projects'[p] = projects[p] \/ p < nextProjectId'
  /\ nextProjectId' >= nextProjectId

FreePools == \A p \in ProjectIds : p >= nextProjectId => projects[p] = EmptyProject

PaymentStep == PaysNobody \/ \E s \in SubmissionIds : Pays(s)

\* Pools and project counters are natural numbers.
LEMMA PoolsAreNat ==
  ASSUME TypeOK
  PROVE  /\ \A p \in ProjectIds : projects[p].bountyPool \in Nat /\ p \in Nat
         /\ nextProjectId \in Nat
BY DEF TypeOK, Project, ProjectIds

\* _executePayout pays one submission from its own project.
LEMMA PayoutPays ==
  ASSUME TypeOK, NEW s \in SubmissionIds, NEW sub \in Submission, NEW pool \in Nat,
         sub.projectId = submissions[s].projectId, ExecutePayout(s, sub, pool),
         submissions[s].status \notin {"Committed", "Finalized", "Invalid"},
         ConfigOf(s).disputeWindow = 0 \/ now > submissions[s].disputeDeadline,
         nextProjectId' = nextProjectId
  PROVE  Pays(s)
<1> DEFINE paid == Payable(sub.payoutAmount, ConfigOf(s).maxPayoutPerBug, pool)
<1>1. /\ projects' = [projects EXCEPT ![sub.projectId].bountyPool = pool - paid]
      /\ submissions' = [submissions EXCEPT ![s] =
                           [sub EXCEPT !.payoutAmount = paid, !.status = "Finalized"]]
      /\ paidOut' = [paidOut EXCEPT ![s] = @ + paid]
  BY DEF ExecutePayout
<1>2. paid <= ConfigOf(s).maxPayoutPerBug
  BY ConfigType, PayableBounds DEF Submission, Config
<1> HIDE DEF paid
<1>3. submissions'[s] = [sub EXCEPT !.payoutAmount = paid, !.status = "Finalized"]
  BY <1>1 DEF TypeOK
<1>4. submissions'[s].payoutAmount = paid /\ submissions'[s].status = "Finalized"
  BY <1>3 DEF Submission
<1>5. /\ \A t \in SubmissionIds \ {s} : submissions'[t] = submissions[t]
      /\ \A p \in ProjectIds \ {submissions[s].projectId} : projects'[p] = projects[p]
  BY <1>1 DEF TypeOK
<1>6. QED
  BY <1>1, <1>2, <1>4, <1>5 DEF Pays

\* A step that touches no pool and finalizes nothing
LEMMA NoPayment ==
  ASSUME TypeOK, paidOut' = paidOut, projects' = projects, nextProjectId' = nextProjectId,
         NEW s \in SubmissionIds, submissions[s].status # "Finalized",
         submissions'[s].status # "Finalized",
         \A t \in SubmissionIds \ {s} : submissions'[t] = submissions[t]
  PROVE  PaysNobody
BY PoolsAreNat DEF PaysNobody

\* A verdict pays nobody, unless the project has no dispute window.
LEMMA VerdictPays ==
  ASSUME TypeOK, NEW s \in SubmissionIds, NEW v \in Verdict,
         NEW source \in {"Verification", "Jury", "Owner"}, NEW base,
         CommitFinalVerdict(s, source, v, base)
  PROVE  PaysNobody \/ Pays(s)
<1> DEFINE c == ConfigOf(s)
           p == submissions[s].projectId
           severity == IF source = "Verification" THEN CalculateSeverity(v.drain, c) ELSE v.adjudicated
           awarded == [submissions[s] EXCEPT !.severity = severity,
                          !.payoutAmount = CalculatePayout(severity, c.maxPayoutPerBug)]
<1>1. /\ submissions[s].status \in {"Revealed", "JuryPending", "AwaitingOwnerAdjudication"}
      /\ nextProjectId' = nextProjectId
  BY DEF CommitFinalVerdict, AwaitsVerdict, PendingStatus, idVars
<1>2. c \in Config /\ submissions[s] \in Submission /\ projects[p].bountyPool \in Nat
  BY ConfigType DEF Project
<1>3. severity \in Severity
  BY <1>2, SeverityType, ConstantsAssumption DEF Verdict
<1>4. CalculatePayout(severity, c.maxPayoutPerBug) \in Nat
  BY <1>2, <1>3, CalculatePayoutIsNat DEF Config
<1>5. awarded \in Submission /\ awarded.projectId = p
  <2> HIDE DEF severity, c
  <2> QED  BY <1>2, <1>3, <1>4 DEF Submission
<1>6. ASSUME AcceptFinding(s, source, v)  PROVE PaysNobody \/ Pays(s)
  <2>1. \/ c.disputeWindow = 0 /\ ExecutePayout(s, awarded, projects[p].bountyPool)
        \/ /\ submissions' = [submissions EXCEPT ![s] =
                [awarded EXCEPT !.status = "Verified", !.disputeDeadline = now + c.disputeWindow]]
           /\ UNCHANGED <<projects, ledgerVars>>
    BY <1>6 DEF AcceptFinding
  <2> HIDE DEF awarded
  <2>2. CASE c.disputeWindow = 0 /\ ExecutePayout(s, awarded, projects[p].bountyPool)
    BY <1>1, <1>2, <1>5, <2>2, PayoutPays
  <2>3. CASE /\ submissions' = [submissions EXCEPT ![s] =
                  [awarded EXCEPT !.status = "Verified", !.disputeDeadline = now + c.disputeWindow]]
             /\ UNCHANGED <<projects, ledgerVars>>
    <3>1. submissions'[s] = [awarded EXCEPT !.status = "Verified", !.disputeDeadline = now + c.disputeWindow]
      BY <2>3 DEF TypeOK
    <3>2. submissions'[s].status = "Verified"
      BY <1>5, <3>1 DEF Submission
    <3>3. QED
      BY <1>1, <2>3, <3>2, NoPayment DEF ledgerVars
  <2>4. QED
    BY <2>1, <2>2, <2>3
<1>7. ASSUME RejectFinding(s, v)  PROVE PaysNobody
  <2>1. /\ submissions' = [submissions EXCEPT ![s] =
             [@ EXCEPT !.status = "Invalid", !.severity = "NONE", !.payoutAmount = 0]]
        /\ projects' = projects /\ paidOut' = paidOut
    BY <1>7 DEF RejectFinding, ledgerVars
  <2>2. submissions'[s] = [submissions[s] EXCEPT !.status = "Invalid", !.severity = "NONE", !.payoutAmount = 0]
    BY <2>1 DEF TypeOK
  <2>3. submissions'[s].status = "Invalid"
    BY <1>2, <2>2 DEF Submission
  <2>4. QED
    BY <1>1, <2>1, <2>3, NoPayment
<1>8. QED
  BY <1>6, <1>7 DEF CommitFinalVerdict

\* finalize pays the submission, after its window.
LEMMA FinalizePays ==
  ASSUME TypeOK, NEW s \in SubmissionIds, Finalize(s)
  PROVE  Pays(s)
<1> DEFINE sub     == submissions[s]
           pool    == projects[sub.projectId].bountyPool + ForfeitedBond(sub)
           penalty == AffordablePenalty(sub, pool)
           settled == [sub EXCEPT !.payoutAmount = @ + penalty,
                                  !.challengeBond = @ - ForfeitedBond(sub)]
<1>1. sub \in Submission /\ projects[sub.projectId].bountyPool \in Nat
  BY ConfigType DEF Project
<1>2. ForfeitedBond(sub) \in Nat /\ sub.challengeBond - ForfeitedBond(sub) \in Nat
  BY <1>1 DEF ForfeitedBond, Submission
<1>3. penalty \in Nat /\ pool - penalty \in Nat
  BY <1>1, <1>2, TimeoutPenaltyIsNat DEF AffordablePenalty
<1>4. /\ ExecutePayout(s, settled, pool - penalty)
      /\ submissions[s].status \in {"Verified", "Disputed"}
      /\ now > submissions[s].disputeDeadline /\ nextProjectId' = nextProjectId
  BY DEF Finalize, DisputeWindowOver, idVars
<1>5. settled \in Submission /\ settled.projectId = sub.projectId
  <2> HIDE DEF penalty
  <2>1. sub.payoutAmount + penalty \in Nat
    BY <1>1, <1>3 DEF Submission
  <2>2. QED
    BY <1>1, <1>2, <2>1 DEF Submission
<1> HIDE DEF settled, pool, penalty
<1>6. QED
  BY <1>3, <1>4, <1>5, PayoutPays

\* Challenges and resolutions pay no auditor, and an upheld bond feeds the pool.
LEMMA DisputePaysNobody ==
  ASSUME Inv, NEW s \in SubmissionIds,
         \/ \E bond \in Bonds : Challenge(s, bond)
         \/ \E caller \in Owners : ResolveDispute(caller, s)
  PROVE  PaysNobody
<1> DEFINE p == submissions[s].projectId
<1>1. /\ TypeOK /\ submissions[s] \in Submission /\ p \in ProjectIds
      /\ projects[p] \in Project /\ submissions[s].challengeBond \in Nat
  BY ConfigType DEF Inv, Submission
<1>2. CASE \E bond \in Bonds : Challenge(s, bond)
  <2>1. PICK bond \in Bonds : Challenge(s, bond)
    BY <1>2
  <2>2. submissions'[s] = [submissions[s] EXCEPT !.challenged = TRUE, !.challengeBond = bond,
                                                 !.status = "Disputed"]
    BY <1>1, <2>1 DEF Challenge, TypeOK
  <2>3. submissions'[s].status = "Disputed" /\ submissions[s].status = "Verified"
    <3>1. submissions'[s].status = "Disputed"
      BY <1>1, <2>2 DEF Submission
    <3>2. QED
      BY <2>1, <3>1 DEF Challenge
  <2>4. \A t \in SubmissionIds \ {s} : submissions'[t] = submissions[t]
    BY <1>1, <2>1 DEF Challenge, TypeOK
  <2>5. paidOut' = paidOut /\ projects' = projects /\ nextProjectId' = nextProjectId
    BY <2>1 DEF Challenge, idVars
  <2>6. QED
    BY <1>1, <2>3, <2>4, <2>5, NoPayment
<1>3. ASSUME NEW caller \in Owners, ResolveDispute(caller, s)  PROVE PaysNobody
  <2>1. /\ submissions[s].status = "Disputed"
        /\ paidOut' = paidOut /\ nextProjectId' = nextProjectId
    BY <1>3 DEF ResolveDispute, idVars
  <2>2. CASE Overturn(s)
    <3>1. submissions'[s] = [submissions[s] EXCEPT !.status = "Invalid", !.payoutAmount = 0]
      BY <1>1, <2>2 DEF Overturn, TypeOK
    <3>2. submissions'[s].status = "Invalid"
      BY <1>1, <3>1 DEF Submission
    <3>3. projects' = projects /\ \A t \in SubmissionIds \ {s} : submissions'[t] = submissions[t]
      BY <1>1, <2>2 DEF Overturn, TypeOK
    <3>4. QED
      BY <1>1, <2>1, <3>2, <3>3, NoPayment
  <2>3. CASE Uphold(s)
    <3>1. submissions'[s] = [submissions[s] EXCEPT !.status = "Verified", !.challengeBond = 0]
      BY <1>1, <2>3 DEF Uphold, TypeOK
    <3>2. submissions'[s].status = "Verified"
      BY <1>1, <3>1 DEF Submission
    <3>3. \A t \in SubmissionIds \ {s} : submissions'[t] = submissions[t]
      BY <1>1, <2>3 DEF Uphold, TypeOK
    <3>4. /\ projects'[p] = [projects[p] EXCEPT !.bountyPool = @ + submissions[s].challengeBond]
          /\ \A q \in ProjectIds \ {p} : projects'[q] = projects[q]
      BY <1>1, <2>3 DEF Uphold, TypeOK
    <3>5. projects'[p].bountyPool = projects[p].bountyPool + submissions[s].challengeBond
      BY <1>1, <3>4 DEF Project
    <3>6. p < nextProjectId
      BY <2>1, OpenedExists DEF Inv, StatusMatchesRecord, RecordOK
    <3>7. ASSUME NEW q \in ProjectIds
          PROVE  /\ projects'[q].bountyPool >= projects[q].bountyPool
                 /\ projects'[q] = projects[q] \/ q < nextProjectId'
      <4>1. CASE q = p
        BY <1>1, <2>1, <3>5, <3>6, <4>1, PoolsAreNat
      <4>2. CASE q # p
        BY <1>1, <3>4, <4>2, PoolsAreNat
      <4>3. QED
        BY <4>1, <4>2
    <3>8. QED
      BY <1>1, <2>1, <3>2, <3>3, <3>7, PoolsAreNat DEF PaysNobody
  <2>4. QED
    BY <1>3, <2>2, <2>3 DEF ResolveDispute
<1>4. QED
  BY <1>2, <1>3

\* Registrations and top ups only feed pools.
LEMMA FundingPaysNobody ==
  ASSUME Inv, FreePools, AdminNext
  PROVE  PaysNobody
<1>1. TypeOK
  BY DEF Inv
<1>2. CASE \/ \E w \in Workflows, b \in BOOLEAN : SetAuthorizedWorkflow(w, b)
           \/ \E b \in FallbackSettings : SetLegacyReportFallbackEnabled(b)
  BY <1>1, <1>2, PoolsAreNat
     DEF SetAuthorizedWorkflow, SetLegacyReportFallbackEnabled, PaysNobody, ledgerVars, idVars
<1>3. ASSUME NEW o \in Owners, NEW c \in ProjectConfigs, NEW value \in Deposits,
             RegisterProject(o, c, value)
      PROVE  PaysNobody
  <2> DEFINE new == [owner |-> o, bountyPool |-> value, active |-> TRUE, config |-> c]
  <2>1. /\ nextProjectId \in ProjectIds /\ nextProjectId' = nextProjectId + 1
        /\ projects' = [projects EXCEPT ![nextProjectId] = new]
        /\ paidOut' = paidOut /\ submissions' = submissions
    BY <1>1, <1>3, ConstantsAssumption DEF RegisterProject, TypeOK, ProjectIds
  <2>2. new.bountyPool \in Nat
    BY ConstantsAssumption
  <2> HIDE DEF new
  <2>3. projects[nextProjectId].bountyPool = 0
    BY <1>1, <2>1, PoolsAreNat DEF FreePools, EmptyProject
  <2>4. /\ projects'[nextProjectId] = new
        /\ \A p \in ProjectIds \ {nextProjectId} : projects'[p] = projects[p]
    BY <1>1, <2>1 DEF TypeOK
  <2>5. QED
    BY <1>1, <2>1, <2>2, <2>3, <2>4, PoolsAreNat DEF PaysNobody
<1>4. ASSUME NEW o \in Owners, NEW p \in ProjectIds, NEW value \in TopUps, TopUpBounty(o, p, value)
      PROVE  PaysNobody
  <2>1. /\ projects[p].owner = o /\ value \in Nat /\ projects[p] \in Project
        /\ projects' = [projects EXCEPT ![p].bountyPool = @ + value]
        /\ paidOut' = paidOut /\ submissions' = submissions /\ nextProjectId' = nextProjectId
    BY <1>1, <1>4, ConstantsAssumption DEF TopUpBounty, idVars, TypeOK
  <2>2. p < nextProjectId
    <3>1. p >= nextProjectId => projects[p].owner = NoAccount
      BY DEF FreePools, EmptyProject
    <3>2. QED
      BY <1>1, <2>1, <3>1, PoolsAreNat, ConstantsAssumption
  <2>3. /\ projects'[p] = [projects[p] EXCEPT !.bountyPool = @ + value]
        /\ \A q \in ProjectIds \ {p} : projects'[q] = projects[q]
    BY <1>1, <2>1 DEF TypeOK
  <2>4. projects'[p].bountyPool = projects[p].bountyPool + value
    BY <2>1, <2>3 DEF Project
  <2>5. QED
    BY <1>1, <2>1, <2>2, <2>3, <2>4, PoolsAreNat DEF PaysNobody
<1>5. QED
  BY <1>2, <1>3, <1>4 DEF AdminNext

\* Commits, reveals and the queue move no money.
LEMMA AuditorsPayNobody ==
  ASSUME Inv, AuditorNext
  PROVE  PaysNobody
<1>1. TypeOK
  BY DEF Inv
<1>2. ASSUME NEW a \in Auditors, NEW p \in ProjectIds, NEW h \in CommitHash, Commit(a, p, h)
      PROVE  PaysNobody
  <2>1. nextSubmissionId \in SubmissionIds
    BY <1>1, <1>2, ConstantsAssumption DEF Commit, TypeOK, SubmissionIds
  <2>2. submissions[nextSubmissionId].status = "Committed"
    BY <2>1 DEF Inv, StatusMatchesRecord, RecordOK, EmptySubmission, SubmissionIds
  <2>3. /\ submissions'[nextSubmissionId].status = "Committed"
        /\ \A t \in SubmissionIds \ {nextSubmissionId} : submissions'[t] = submissions[t]
    BY <1>1, <1>2, <2>1 DEF Commit, TypeOK, Submission
  <2>4. paidOut' = paidOut /\ projects' = projects /\ nextProjectId' = nextProjectId
    BY <1>2 DEF Commit, ledgerVars
  <2>5. QED
    BY <1>1, <2>1, <2>2, <2>3, <2>4, NoPayment
<1>3. ASSUME NEW a, NEW s \in SubmissionIds, NEW salt, Reveal(a, s, salt)
      PROVE  PaysNobody
  <2>1. /\ submissions[s].status = "Committed" /\ submissions[s] \in Submission
        /\ submissions'[s] = [submissions[s] EXCEPT !.salt = salt, !.revealTimestamp = now, !.status = "Revealed"]
        /\ \A t \in SubmissionIds \ {s} : submissions'[t] = submissions[t]
    BY <1>1, <1>3 DEF Reveal, TypeOK
  <2>2. submissions'[s].status = "Revealed"
    BY <2>1 DEF Submission
  <2>3. paidOut' = paidOut /\ projects' = projects /\ nextProjectId' = nextProjectId
    BY <1>3 DEF Reveal, ledgerVars, idVars
  <2>4. QED
    BY <1>1, <2>1, <2>2, <2>3, NoPayment
<1>4. CASE \/ \E g \in QueueSignatures : QueueRevealBySig(g)
           \/ \E a \in Auditors, s \in SubmissionIds : CancelQueuedReveal(a, s)
  <2>1. /\ submissions' = submissions /\ projects' = projects
        /\ paidOut' = paidOut /\ nextProjectId' = nextProjectId
    BY <1>4 DEF QueueRevealBySig, CancelQueuedReveal, ledgerVars, idVars
  <2>2. QED
    BY <1>1, <2>1, PoolsAreNat DEF PaysNobody
<1>5. /\ \A g \in CommitSignatures : g.auditor \in Auditors /\ g.projectId \in ProjectIds
                                     /\ g.commitHash \in CommitHash
      /\ \A g \in RevealSignatures : g.submissionId \in SubmissionIds
  BY ConstantsAssumption DEF CommitSignature, RevealSignature
<1>6. QED
  BY <1>2, <1>3, <1>4, <1>5
     DEF AuditorNext, CommitPoC, CommitPoCBySig, RevealPoC, RevealPoCBySig, ExecuteQueuedReveal

\* Every transaction pays nobody or one submission.
LEMMA PaymentKind ==
  ASSUME Inv, FreePools, [Next]_vars
  PROVE  PaymentStep
<1>1. TypeOK
  BY DEF Inv
<1>2. CASE UNCHANGED vars \/ Tick
  BY <1>1, <1>2, PoolsAreNat DEF vars, Tick, PaymentStep, PaysNobody, ledgerVars, idVars
<1>3. CASE AdminNext \/ AuditorNext
  BY <1>3, FundingPaysNobody, AuditorsPayNobody DEF PaymentStep
<1>4. CASE SettlementNext
  BY <1>1, <1>4, FinalizePays, DisputePaysNobody DEF SettlementNext, PaymentStep
<1>5. ASSUME NEW w, NEW s \in SubmissionIds, NEW next \in {"JuryPending", "AwaitingOwnerAdjudication"},
             ProcessAdjudicationTransition(w, s, next)
      PROVE  PaymentStep
  <2>1. /\ submissions[s].status \in {"Revealed", "JuryPending"} /\ submissions[s] \in Submission
        /\ submissions'[s] = [submissions[s] EXCEPT !.status = next]
        /\ \A t \in SubmissionIds \ {s} : submissions'[t] = submissions[t]
    BY <1>1, <1>5 DEF ProcessAdjudicationTransition, AdjudicationStep, TypeOK
  <2>2. submissions'[s].status = next
    BY <2>1 DEF Submission
  <2>3. paidOut' = paidOut /\ projects' = projects /\ nextProjectId' = nextProjectId
    BY <1>5 DEF ProcessAdjudicationTransition, ledgerVars, idVars
  <2>4. QED
    BY <1>1, <2>1, <2>2, <2>3, NoPayment DEF PaymentStep
<1>6. CASE ReportNext
  <2>1. PICK w \in Reporters, s \in SubmissionIds :
          \/ \E source \in {"Verification", "Jury", "Owner"}, v \in Verdict : \E base :
                CommitFinalVerdict(s, source, v, base)
          \/ \E next \in {"JuryPending", "AwaitingOwnerAdjudication"} :
                ProcessAdjudicationTransition(w, s, next)
    BY <1>6 DEF ReportNext, ProcessVerificationReport, ProcessTypedVerificationReport,
       ProcessFinalLifecycleReport
  <2>2. QED
    BY <1>1, <1>5, <2>1, VerdictPays DEF PaymentStep
<1>7. QED
  BY <1>2, <1>3, <1>4, <1>6 DEF Next

\* What the ledger of payments rests on: unregistered projects hold nothing.
Paid == FreePools /\ PaidOnceAsRecorded

\* Every transaction leaves the books of payments balanced.
LEMMA NextPaid ==
  ASSUME Inv, Paid, [Next]_vars
  PROVE  Paid'
<1>1. /\ TypeOK /\ TypeOK' /\ PaymentStep
      /\ FreePools /\ PaidOnceAsRecorded
  BY NextInv, PaymentKind DEF Inv, Paid
<1>2. \A s \in SubmissionIds : /\ paidOut[s] \in Nat /\ paidOut'[s] \in Nat
                               /\ submissions'[s].payoutAmount \in Nat
                               /\ ConfigOf(s)'.maxPayoutPerBug \in Nat
  <2> SUFFICES ASSUME NEW s \in SubmissionIds
               PROVE  /\ paidOut[s] \in Nat /\ paidOut'[s] \in Nat
                      /\ submissions'[s].payoutAmount \in Nat
                      /\ ConfigOf(s)'.maxPayoutPerBug \in Nat
    OBVIOUS
  <2>1. paidOut[s] \in Nat /\ paidOut'[s] \in Nat
    BY <1>1 DEF TypeOK
  <2>2. submissions'[s] \in Submission /\ projects' \in [ProjectIds -> Project]
    BY <1>1 DEF TypeOK
  <2>3. ConfigOf(s)' \in Config
    BY <2>2 DEF ConfigOf, Submission, Project
  <2>4. QED
    BY <2>1, <2>2, <2>3 DEF Submission, Config
<1>3. \A s \in SubmissionIds : submissions[s].status # "Committed" => ConfigOf(s)' = ConfigOf(s)
  BY OpenedExists, SubmissionRulesStay
<1>4. FreePools'
  <2>1. ASSUME NEW p \in ProjectIds, p >= nextProjectId'
        PROVE  projects'[p] = EmptyProject
    <3>1. CASE PaysNobody
      <4>1. /\ p >= nextProjectId /\ ~(p < nextProjectId')
        BY <1>1, <2>1, <3>1, PoolsAreNat DEF PaysNobody, TypeOK
      <4>2. QED
        BY <1>1, <3>1, <4>1 DEF PaysNobody, FreePools
    <3>2. ASSUME NEW s \in SubmissionIds, Pays(s)  PROVE projects'[p] = EmptyProject
      <4>1. submissions[s].projectId < nextProjectId
        BY <3>2, OpenedExists DEF Pays, Inv, StatusMatchesRecord, RecordOK
      <4>2. p # submissions[s].projectId /\ p >= nextProjectId
        BY <1>1, <2>1, <3>2, <4>1, PoolsAreNat DEF Pays
      <4>3. QED
        BY <1>1, <3>2, <4>2 DEF Pays, FreePools
    <3>3. QED
      BY <1>1, <3>1, <3>2 DEF PaymentStep
  <2>2. QED
    BY <2>1 DEF FreePools
<1>5. ASSUME NEW s \in SubmissionIds
      PROVE  /\ paidOut'[s] = IF submissions'[s].status = "Finalized" THEN submissions'[s].payoutAmount ELSE 0
             /\ paidOut'[s] <= ConfigOf(s)'.maxPayoutPerBug
  <2>1. /\ paidOut[s] = IF submissions[s].status = "Finalized" THEN submissions[s].payoutAmount ELSE 0
        /\ paidOut[s] <= ConfigOf(s).maxPayoutPerBug
    BY <1>1 DEF PaidOnceAsRecorded
  <2>2. ASSUME paidOut'[s] = paidOut[s],
               \/ submissions'[s] = submissions[s]
               \/ submissions[s].status # "Finalized" /\ submissions'[s].status # "Finalized"
        PROVE  /\ paidOut'[s] = IF submissions'[s].status = "Finalized" THEN submissions'[s].payoutAmount ELSE 0
               /\ paidOut'[s] <= ConfigOf(s)'.maxPayoutPerBug
    <3>1. CASE submissions[s].status = "Finalized"
      BY <1>3, <2>1, <2>2, <3>1
    <3>2. CASE submissions[s].status # "Finalized"
      BY <1>2, <2>1, <2>2, <3>2
    <3>3. QED
      BY <3>1, <3>2
  <2>3. CASE PaysNobody
    BY <2>2, <2>3 DEF PaysNobody
  <2>4. ASSUME NEW t \in SubmissionIds, Pays(t), t # s
        PROVE  paidOut'[s] = paidOut[s] /\ submissions'[s] = submissions[s]
    BY <1>1, <2>4 DEF Pays, TypeOK
  <2>5. CASE Pays(s)
    <3>1. /\ submissions[s].status # "Finalized" /\ submissions[s].status # "Committed"
          /\ submissions'[s].status = "Finalized"
          /\ submissions'[s].payoutAmount <= ConfigOf(s).maxPayoutPerBug
          /\ paidOut'[s] = paidOut[s] + submissions'[s].payoutAmount
      BY <1>1, <2>5 DEF Pays, TypeOK
    <3>2. paidOut'[s] = submissions'[s].payoutAmount
      BY <1>2, <2>1, <3>1
    <3>3. QED
      BY <1>3, <3>1, <3>2
  <2>6. QED
    BY <1>1, <2>2, <2>3, <2>4, <2>5 DEF PaymentStep
<1>6. QED
  BY <1>4, <1>5 DEF Paid, PaidOnceAsRecorded

\* A deployed contract has paid nothing.
LEMMA InitPaid == Init => Paid
<1> SUFFICES ASSUME Init  PROVE Paid
  OBVIOUS
<1>1. FreePools
  BY DEF Init, FreePools
<1>2. \A s \in SubmissionIds : ConfigOf(s) = EmptyConfig
  BY ConstantsAssumption DEF Init, ConfigOf, EmptySubmission, EmptyProject, ProjectIds
<1>3. QED
  BY <1>1, <1>2 DEF Init, Paid, PaidOnceAsRecorded, EmptySubmission, EmptyConfig

\* However verdicts, challenges and finalizations interleave, a submission is paid once, what
\* its record says, and never more than the cap of its project.
THEOREM PaidOnceAsRecordedAlways == Spec => []PaidOnceAsRecorded
<1>1. Inv /\ Paid /\ [Next]_vars => Paid'
  BY NextPaid
<1>2. Paid => PaidOnceAsRecorded
  BY DEF Paid
<1>3. QED
  BY <1>1, <1>2, InitPaid, Invariance, PTL DEF Spec

\* A pool that shrinks has paid a submission of its project.
LEMMA PoolStep ==
  ASSUME Inv, FreePools, [Next]_vars, NEW p \in ProjectIds,
         projects'[p].bountyPool < projects[p].bountyPool
  PROVE  \E s \in SubmissionsOf(p) :
           /\ submissions[s].status # "Finalized" /\ submissions'[s].status = "Finalized"
           /\ projects[p].config.disputeWindow = 0 \/ now > submissions[s].disputeDeadline
<1>1. PaymentStep /\ TypeOK /\ TypeOK'
  BY PaymentKind, NextInv DEF Inv
<1>2. projects[p].bountyPool \in Nat /\ projects'[p].bountyPool \in Nat
  BY <1>1 DEF TypeOK, Project
<1>3. PICK s \in SubmissionIds : Pays(s)
  BY <1>1, <1>2 DEF PaymentStep, PaysNobody
<1>4. submissions[s].projectId = p
  BY <1>2, <1>3 DEF Pays
<1>5. QED
  BY <1>3, <1>4 DEF Pays, SubmissionsOf, ConfigOf

\* The owner's ether leaves a pool only for a finding of that project, and while a dispute
\* window was promised, only after it.
THEOREM PoolSpentOnlyByFinalizationAlways == Spec => PoolSpentOnlyByFinalization
<1> DEFINE Spent ==
      \A p \in ProjectIds : projects'[p].bountyPool < projects[p].bountyPool =>
        \E s \in SubmissionsOf(p) :
          /\ submissions[s].status # "Finalized" /\ submissions'[s].status = "Finalized"
          /\ projects[p].config.disputeWindow = 0 \/ now > submissions[s].disputeDeadline
<1>1. Inv /\ Paid /\ [Next]_vars => Paid'
  BY NextPaid
<1>2. Inv /\ Paid /\ [Next]_vars => [Spent]_vars
  BY PoolStep DEF Paid
<1>3. QED
  BY <1>1, <1>2, InitPaid, Invariance, PTL DEF Spec, PoolSpentOnlyByFinalization

-----------------------------------------------------------------------------
(***************************************************************************)
(* The promise.  An exclusive program of BountyPromise judges and accepts  *)
(* one finding, whoever implements it.                                     *)
(***************************************************************************)

(* The findings that keep an exclusive program from opening another one.   *)
Claims(f) == f \in accepted \/ outcome[f] \in Judging

(* ExclusiveAward depends on what a program may still become: exclusive    *)
(* is decided before the program is sent a finding, so a finding that      *)
(* claims its program has left "none".                                     *)
PromiseInv ==
  /\ program \in [Findings -> Programs]
  /\ outcome \in [Findings -> Outcome]
  /\ \A f \in accepted : f \in Findings /\ outcome[f] # "none"
  /\ ExclusiveAward

(* No finding is accepted or judged when a program starts.                 *)
LEMMA PromiseInit_Inv == PromiseInit => PromiseInv
BY DEF PromiseInit, PromiseInv, ExclusiveAward, Outcome, Judging

(* A finding that was not claiming its program does so only through Open.  *)
LEMMA MoveKeeps ==
  ASSUME PromiseInv, NEW f \in Findings, NEW from, NEW to \in Outcome \ {"none"},
         Move(f, from, to), UNCHANGED <<exclusive, program>>,
         accepted' \in {accepted, accepted \cup {f}},
         (accepted' = accepted /\ to \notin Judging) \/ Claims(f)
  PROVE  PromiseInv'
<1>1. /\ outcome' \in [Findings -> Outcome]
      /\ outcome'[f] = to
      /\ \A g \in Findings \ {f} : outcome'[g] = outcome[g]
  BY DEF PromiseInv, Move
<1>2. \A g \in accepted' : g \in Findings /\ outcome'[g] # "none"
  BY <1>1 DEF PromiseInv
<1>3. \A g \in Findings : (g \in accepted' \/ outcome'[g] \in Judging) => Claims(g)
  BY <1>1 DEF Claims
<1>4. ExclusiveAward'
  BY <1>3 DEF PromiseInv, ExclusiveAward, Claims
<1> QED BY <1>1, <1>2, <1>4 DEF PromiseInv

(* Every step of the promise keeps the invariant.                          *)
LEMMA PromiseNext_Inv == PromiseInv /\ [PromiseNext]_promiseVars => PromiseInv'
<1> SUFFICES ASSUME PromiseInv, [PromiseNext]_promiseVars PROVE PromiseInv'
  OBVIOUS
<1>1. ASSUME NEW p \in Programs, StartProgram(p) PROVE PromiseInv'
  <2>1. \A f \in Findings : program[f] = p => ~Claims(f)
    BY <1>1 DEF StartProgram, PromiseInv, Claims, Judging
  <2>2. ExclusiveAward'
    BY <1>1, <2>1 DEF StartProgram, PromiseInv, ExclusiveAward, Claims
  <2> QED BY <1>1, <2>2 DEF StartProgram, PromiseInv
<1>2. ASSUME NEW f \in Findings, NEW p \in Programs, Seal(f, p) PROVE PromiseInv'
  <2>1. /\ outcome[f] = "none" /\ outcome'[f] = "sealed" /\ f \notin accepted
        /\ \A g \in Findings \ {f} : outcome'[g] = outcome[g] /\ program'[g] = program[g]
        /\ program' \in [Findings -> Programs] /\ outcome' \in [Findings -> Outcome]
    BY <1>2 DEF Seal, Move, PromiseInv, Outcome
  <2>2. accepted' = accepted /\ exclusive' = exclusive
    BY <1>2 DEF Seal
  <2>3. \A g \in Findings : (g \in accepted' \/ outcome'[g] \in Judging) => g # f /\ Claims(g)
    BY <2>1, <2>2 DEF Claims, Judging
  <2>4. ExclusiveAward'
    BY <2>1, <2>2, <2>3 DEF ExclusiveAward, PromiseInv, Claims
  <2> QED BY <2>1, <2>2, <2>4 DEF PromiseInv
<1>3. ASSUME NEW f \in Findings, Open(f) PROVE PromiseInv'
  <2>1. /\ outcome'[f] = "judged by verifier"
        /\ \A g \in Findings \ {f} : outcome'[g] = outcome[g]
        /\ outcome' \in [Findings -> Outcome]
    BY <1>3 DEF Open, Move, PromiseInv, Outcome
  <2>2. program' = program /\ accepted' = accepted /\ exclusive' = exclusive
    BY <1>3 DEF Open
  <2>3. program[f] \in exclusive => \A g \in Findings : program[g] = program[f] => ~Claims(g)
    BY <1>3 DEF Open, MayOpen, Claims
  <2>4. \A g \in Findings \ {f} : (g \in accepted' \/ outcome'[g] \in Judging) => Claims(g)
    BY <2>1, <2>2 DEF Claims
  <2>5. ExclusiveAward'
    BY <2>2, <2>3, <2>4 DEF ExclusiveAward, PromiseInv, Claims
  <2> QED BY <2>1, <2>2, <2>5 DEF PromiseInv
<1>4. ASSUME NEW f \in Findings, Escalate(f) PROVE PromiseInv'
  BY <1>4, MoveKeeps DEF Escalate, Move, Claims, Judging, Outcome
<1>5. ASSUME NEW f \in Findings, Accept(f) PROVE PromiseInv'
  BY <1>5, MoveKeeps DEF Accept, Move, Claims, Outcome
<1>6. ASSUME NEW f \in Findings, Reject(f) \/ Contest(f) \/ UpholdFinding(f) \/ Settle(f)
      PROVE  PromiseInv'
  BY <1>6, MoveKeeps DEF Reject, Contest, UpholdFinding, Settle, Judging, Outcome
<1>7. CASE UNCHANGED promiseVars
  BY <1>7 DEF promiseVars, PromiseInv, ExclusiveAward
<1> QED BY <1>1, <1>2, <1>3, <1>4, <1>5, <1>6, <1>7 DEF PromiseNext

(* Whatever the order of openings and verdicts, two findings of an         *)
(* exclusive program are never both open or accepted.  A contract that     *)
(* implements the promise inherits it (TakeCandidacy of _revealPoC).       *)
THEOREM ExclusiveAwardAlways == PromiseSpec => []ExclusiveAward
<1>1. PromiseInv => ExclusiveAward
  BY DEF PromiseInv
<1> QED BY <1>1, PromiseInit_Inv, PromiseNext_Inv, PTL DEF PromiseSpec

-----------------------------------------------------------------------------
(***************************************************************************)
(* Refinement.  The contract implements BountyPromise: its initial state   *)
(* is one of the promise, and each transaction is a step of the promise or *)
(* invisible to it.                                                        *)
(***************************************************************************)

\* What an outcome is, status by status
LEMMA OutcomeByStatus ==
  ASSUME NEW sub \in Submission, sub.auditor # NoAccount
  PROVE  /\ sub.status = "Committed" => OutcomeOf(sub) = "sealed"
         /\ sub.status = "Revealed" => OutcomeOf(sub) = "judged by verifier"
         /\ sub.status = "JuryPending" => OutcomeOf(sub) = "judged by jury"
         /\ sub.status = "AwaitingOwnerAdjudication" => OutcomeOf(sub) = "judged by owner"
         /\ sub.status = "Verified" /\ ~sub.challenged => OutcomeOf(sub) = "accepted"
         /\ sub.status = "Verified" /\ sub.challenged => OutcomeOf(sub) = "upheld"
         /\ sub.status = "Disputed" => OutcomeOf(sub) = "contested"
         /\ sub.status = "Finalized" => OutcomeOf(sub) = "settled"
         /\ sub.status = "Invalid" => OutcomeOf(sub) = "rejected"
BY DEF OutcomeOf

\* The flag of a challenge is set exactly once a challenge was made, and no verdict sets it.
ChallengesRecorded ==
  \A s \in SubmissionIds :
    /\ submissions[s].challenged => submissions[s].status \in {"Verified", "Disputed", "Finalized", "Invalid"}
    /\ submissions[s].status = "Disputed" => submissions[s].challenged

FlagKept(s) == submissions'[s].challenged = submissions[s].challenged

StandsStill ==
  /\ UNCHANGED <<submissions, nextSubmissionId, lifecycle>>
  /\ QuietStep \/ RulesKept

MovesOn(s) ==
  /\ EscalationStep(s)
  /\ FlagKept(s)
  /\ \/ submissions[s].status = "Revealed" /\ submissions'[s].status = "JuryPending"
     \/ submissions[s].status = "JuryPending" /\ submissions'[s].status = "AwaitingOwnerAdjudication"

Settles(s) ==
  /\ SettlementStep(s)
  /\ \/ /\ submissions[s].status = "Verified" /\ ~submissions[s].challenged
        /\ submissions'[s].status = "Disputed" /\ submissions'[s].challenged
     \/ /\ submissions[s].status = "Disputed" /\ submissions'[s].status \in {"Verified", "Invalid"}
        /\ FlagKept(s)
     \/ submissions'[s].status = "Finalized" /\ FlagKept(s)

\* The kinds of step, with what they do to the stage of a finding
StageStep ==
  \/ StandsStill
  \/ CommitStep
  \/ \E s \in SubmissionIds : \/ RevealStep(s) \/ MovesOn(s) \/ Settles(s)
                              \/ VerdictStep(s) /\ FlagKept(s)

\* A step that changes no submission and no verdict moves no finding.
LEMMA QuietStandsStill ==
  ASSUME TypeOK, StepKind, UNCHANGED <<submissions, nextSubmissionId, lifecycle>>
  PROVE  StandsStill
<1>1. ~CommitStep
  <2>1. ASSUME NEW a, NEW p, NEW h, Commit(a, p, h)  PROVE FALSE
    <3>1. nextSubmissionId' = nextSubmissionId + 1 /\ nextSubmissionId \in 0 .. MaxSubmissions
      BY <2>1 DEF Commit, TypeOK
    <3>2. QED
      BY <3>1, ConstantsAssumption
  <2>2. QED
    BY <2>1 DEF CommitStep
<1>2. ASSUME NEW s \in SubmissionIds, RevealStep(s)  PROVE RulesKept
  BY <1>2 DEF RevealStep, Reveal, RulesKept, Rules
<1>3. QED
  BY <1>1, <1>2 DEF StepKind, StandsStill, VerdictStep, EscalationStep, SettlementStep, OnlyTouches

\* A payout leaves the flag of a challenge alone.
LEMMA PayoutKeepsFlag ==
  ASSUME TypeOK, NEW s \in SubmissionIds, NEW sub \in Submission, NEW pool, ExecutePayout(s, sub, pool)
  PROVE  submissions'[s].challenged = sub.challenged /\ submissions'[s].status = "Finalized"
<1> DEFINE paid == Payable(sub.payoutAmount, ConfigOf(s).maxPayoutPerBug, pool)
<1>1. submissions' = [submissions EXCEPT ![s] = [sub EXCEPT !.payoutAmount = paid, !.status = "Finalized"]]
  BY DEF ExecutePayout
<1> HIDE DEF paid
<1>2. submissions'[s] = [sub EXCEPT !.payoutAmount = paid, !.status = "Finalized"]
  BY <1>1 DEF TypeOK
<1>3. QED
  BY <1>2 DEF Submission

\* A verdict leaves the flag of a challenge alone.
LEMMA VerdictKeepsFlag ==
  ASSUME TypeOK, NEW s \in SubmissionIds, NEW v \in Verdict,
         NEW source \in {"Verification", "Jury", "Owner"}, NEW base,
         CommitFinalVerdict(s, source, v, base)
  PROVE  FlagKept(s)
<1> DEFINE c == ConfigOf(s)
           p == submissions[s].projectId
           severity == IF source = "Verification" THEN CalculateSeverity(v.drain, c) ELSE v.adjudicated
           awarded == [submissions[s] EXCEPT !.severity = severity,
                          !.payoutAmount = CalculatePayout(severity, c.maxPayoutPerBug)]
<1>1. c \in Config /\ submissions[s] \in Submission
  BY ConfigType
<1>2. severity \in Severity
  BY <1>1, SeverityType, ConstantsAssumption DEF Verdict
<1>3. CalculatePayout(severity, c.maxPayoutPerBug) \in Nat
  BY <1>1, <1>2, CalculatePayoutIsNat DEF Config
<1>4. awarded \in Submission /\ awarded.challenged = submissions[s].challenged
  <2> HIDE DEF severity, c
  <2> QED  BY <1>1, <1>2, <1>3 DEF Submission
<1>5. ASSUME AcceptFinding(s, source, v)  PROVE FlagKept(s)
  <2>1. \/ ExecutePayout(s, awarded, projects[p].bountyPool)
        \/ submissions' = [submissions EXCEPT ![s] =
                [awarded EXCEPT !.status = "Verified", !.disputeDeadline = now + c.disputeWindow]]
    BY <1>5 DEF AcceptFinding
  <2> HIDE DEF awarded
  <2>2. CASE ExecutePayout(s, awarded, projects[p].bountyPool)
    BY <1>4, <2>2, PayoutKeepsFlag DEF FlagKept
  <2>3. CASE submissions' = [submissions EXCEPT ![s] =
                  [awarded EXCEPT !.status = "Verified", !.disputeDeadline = now + c.disputeWindow]]
    <3>1. submissions'[s] = [awarded EXCEPT !.status = "Verified", !.disputeDeadline = now + c.disputeWindow]
      BY <2>3 DEF TypeOK
    <3>2. QED
      BY <1>4, <3>1 DEF FlagKept, Submission
  <2>4. QED
    BY <2>1, <2>2, <2>3
<1>6. ASSUME RejectFinding(s, v)  PROVE FlagKept(s)
  <2>1. submissions'[s] = [submissions[s] EXCEPT !.status = "Invalid", !.severity = "NONE", !.payoutAmount = 0]
    BY <1>6 DEF RejectFinding, TypeOK
  <2>2. QED
    BY <1>1, <2>1 DEF FlagKept, Submission
<1>7. QED
  BY <1>5, <1>6 DEF CommitFinalVerdict

\* Which stages a transaction connects
LEMMA EveryStepHasAStage ==
  ASSUME Inv, ChallengesRecorded, [Next]_vars
  PROVE  StageStep
<1>1. TypeOK /\ StepKind
  BY NextInv DEF Inv
<1>2. ASSUME UNCHANGED <<submissions, nextSubmissionId, lifecycle>>  PROVE StageStep
  BY <1>1, <1>2, QuietStandsStill DEF StageStep
<1>3. CASE UNCHANGED vars \/ Tick \/ AdminNext
  BY <1>2, <1>3 DEF vars, idVars, verdictVars, Tick, AdminNext, SetAuthorizedWorkflow,
     SetLegacyReportFallbackEnabled, RegisterProject, TopUpBounty
<1>4. CASE AuditorNext
  <2>1. CASE \/ \E g \in QueueSignatures : QueueRevealBySig(g)
             \/ \E a \in Auditors, s \in SubmissionIds : CancelQueuedReveal(a, s)
    BY <1>2, <2>1 DEF QueueRevealBySig, CancelQueuedReveal, idVars, verdictVars
  <2>2. ASSUME NEW a \in Auditors, NEW p \in ProjectIds, NEW h \in CommitHash, Commit(a, p, h)
        PROVE  StageStep
    BY <2>2 DEF StageStep, CommitStep
  <2>3. ASSUME NEW a \in Auditors \cup {NoAccount}, NEW s \in SubmissionIds,
               NEW salt \in Salts \cup {NoSalt}, Reveal(a, s, salt)
        PROVE  StageStep
    BY <2>3 DEF StageStep, RevealStep
  <2>4. /\ \A g \in CommitSignatures : g.auditor \in Auditors /\ g.projectId \in ProjectIds
                                       /\ g.commitHash \in CommitHash
        /\ \A g \in RevealSignatures : g.auditor \in Auditors /\ g.submissionId \in SubmissionIds
                                       /\ g.salt \in Salts
        /\ \A s \in SubmissionIds : /\ queuedReveals[s].auditor \in Auditors \cup {NoAccount}
                                     /\ queuedReveals[s].salt \in Salts \cup {NoSalt}
    BY <1>1, ConstantsAssumption DEF CommitSignature, RevealSignature, TypeOK, QueuedReveal
  <2>5. CASE \/ \E a \in Auditors, p \in ProjectIds, h \in CommitHash : CommitPoC(a, p, h)
             \/ \E g \in CommitSignatures : CommitPoCBySig(g)
    BY <2>2, <2>4, <2>5 DEF CommitPoC, CommitPoCBySig
  <2>6. CASE \/ \E a \in Auditors, s \in SubmissionIds, salt \in Salts : RevealPoC(a, s, salt)
             \/ \E g \in RevealSignatures : RevealPoCBySig(g)
             \/ \E s \in SubmissionIds : ExecuteQueuedReveal(s)
    BY <2>3, <2>4, <2>6 DEF RevealPoC, RevealPoCBySig, ExecuteQueuedReveal
  <2>7. QED
    BY <1>4, <2>1, <2>5, <2>6 DEF AuditorNext
<1>5. CASE ReportNext
  <2>1. ASSUME NEW s \in SubmissionIds, NEW source \in {"Verification", "Jury", "Owner"}, NEW v \in Verdict,
               NEW base \in SubmissionLifecycle, CommitFinalVerdict(s, source, v, base)
        PROVE  StageStep
    BY <1>1, <2>1, VerdictKind, VerdictKeepsFlag DEF StageStep
  <2>2. ASSUME NEW w, NEW s \in SubmissionIds, NEW next \in {"JuryPending", "AwaitingOwnerAdjudication"},
               ProcessAdjudicationTransition(w, s, next)
        PROVE  StageStep
    <3>1. /\ submissions[s].status = AdjudicationStep[next] /\ submissions[s] \in Submission
          /\ submissions'[s] = [submissions[s] EXCEPT !.status = next]
      BY <1>1, <2>2 DEF ProcessAdjudicationTransition, TypeOK
    <3>2. submissions'[s].status = next /\ FlagKept(s)
      BY <3>1 DEF Submission, FlagKept
    <3>3. EscalationStep(s)
      BY <1>1, <2>2, EscalationKind
    <3>4. MovesOn(s)
      BY <3>1, <3>2, <3>3 DEF MovesOn, AdjudicationStep
    <3>5. QED
      BY <3>4 DEF StageStep
  <2>3. \A s \in SubmissionIds : lifecycle[s] \in SubmissionLifecycle /\ WithDerivedDeadlines(s) \in SubmissionLifecycle
    BY <1>1, DeadlinesTypeOK DEF TypeOK
  <2>4. PICK w \in Reporters, s \in SubmissionIds :
          \/ \E source \in {"Verification", "Jury", "Owner"}, v \in Verdict, base \in SubmissionLifecycle :
                CommitFinalVerdict(s, source, v, base)
          \/ \E next \in {"JuryPending", "AwaitingOwnerAdjudication"} :
                ProcessAdjudicationTransition(w, s, next)
    BY <1>5, <2>3 DEF ReportNext, ProcessVerificationReport, ProcessTypedVerificationReport,
       ProcessFinalLifecycleReport
  <2>5. QED
    BY <2>1, <2>2, <2>4
<1>6. CASE SettlementNext
  <2>1. ASSUME NEW s \in SubmissionIds, NEW bond \in Bonds, Challenge(s, bond)  PROVE Settles(s)
    <3>1. /\ submissions[s].status = "Verified" /\ ~submissions[s].challenged
          /\ submissions'[s] = [submissions[s] EXCEPT !.challenged = TRUE, !.challengeBond = bond,
                                                     !.status = "Disputed"]
      BY <1>1, <2>1 DEF Challenge, TypeOK
    <3>2. submissions[s] \in Submission
      BY <1>1, ConfigType
    <3>3. submissions'[s].status = "Disputed" /\ submissions'[s].challenged
      BY <3>1, <3>2 DEF Submission
    <3>4. SettlementStep(s)
      BY <1>1, <2>1, ChallengeKind, ConstantsAssumption
    <3>5. QED
      BY <3>1, <3>3, <3>4 DEF Settles
  <2>2. ASSUME NEW s \in SubmissionIds, NEW o \in Owners, ResolveDispute(o, s)  PROVE Settles(s)
    <3>1. submissions[s].status = "Disputed" /\ submissions[s] \in Submission
      BY <1>1, <2>2 DEF ResolveDispute, TypeOK
    <3>2. \/ submissions'[s] = [submissions[s] EXCEPT !.status = "Invalid", !.payoutAmount = 0]
          \/ submissions'[s] = [submissions[s] EXCEPT !.status = "Verified", !.challengeBond = 0]
      BY <1>1, <2>2 DEF ResolveDispute, Overturn, Uphold, TypeOK
    <3>3. submissions'[s].status \in {"Verified", "Invalid"} /\ FlagKept(s)
      BY <3>1, <3>2 DEF Submission, FlagKept
    <3>4. SettlementStep(s)
      BY <1>1, <2>2, ResolveDisputeKind
    <3>5. QED
      BY <3>1, <3>3, <3>4 DEF Settles
  <2>3. ASSUME NEW s \in SubmissionIds, Finalize(s)  PROVE Settles(s)
    <3> DEFINE sub     == submissions[s]
               pool    == projects[sub.projectId].bountyPool + ForfeitedBond(sub)
               penalty == AffordablePenalty(sub, pool)
               settled == [sub EXCEPT !.payoutAmount = @ + penalty,
                                      !.challengeBond = @ - ForfeitedBond(sub)]
    <3>1. sub \in Submission /\ projects[sub.projectId].bountyPool \in Nat
      BY <1>1, ConfigType DEF Project
    <3>2. ForfeitedBond(sub) \in Nat /\ sub.challengeBond - ForfeitedBond(sub) \in Nat
      BY <3>1 DEF ForfeitedBond, Submission
    <3>3. penalty \in Nat
      BY <3>1, <3>2, TimeoutPenaltyIsNat DEF AffordablePenalty
    <3>4. ExecutePayout(s, settled, pool - penalty)
      BY <2>3 DEF Finalize
    <3>5. settled \in Submission /\ settled.challenged = submissions[s].challenged
      <4> HIDE DEF penalty
      <4>1. sub.payoutAmount + penalty \in Nat
        BY <3>1, <3>3 DEF Submission
      <4>2. QED
        BY <3>1, <3>2, <4>1 DEF Submission
    <3>6. SettlementStep(s)
      BY <1>1, <2>3, FinalizeKind
    <3> HIDE DEF settled, pool, penalty
    <3>7. submissions'[s].status = "Finalized" /\ FlagKept(s)
      BY <1>1, <3>4, <3>5, PayoutKeepsFlag DEF FlagKept
    <3>8. QED
      BY <3>6, <3>7 DEF Settles
  <2>4. QED
    BY <1>6, <2>1, <2>2, <2>3 DEF SettlementNext, StageStep
<1>7. QED
  BY <1>3, <1>4, <1>5, <1>6 DEF Next

\* Every transaction keeps the flag and the status of a challenge together.
LEMMA NextChallenges ==
  ASSUME Inv, ChallengesRecorded, StageStep
  PROVE  ChallengesRecorded'
<1>1. TypeOK
  BY DEF Inv
<1>2. CASE StandsStill
  BY <1>2 DEF StandsStill, ChallengesRecorded
<1>3. CASE CommitStep
  <2>1. PICK a \in Auditors, p \in ProjectIds, h \in CommitHash : Commit(a, p, h)
    BY <1>3 DEF CommitStep
  <2>2. nextSubmissionId \in SubmissionIds
    BY <1>1, <2>1, ConstantsAssumption DEF Commit, TypeOK, SubmissionIds
  <2>3. /\ submissions'[nextSubmissionId].status = "Committed"
        /\ submissions'[nextSubmissionId].challenged = submissions[nextSubmissionId].challenged
        /\ \A t \in SubmissionIds \ {nextSubmissionId} : submissions'[t] = submissions[t]
    BY <1>1, <2>1, <2>2 DEF Commit, TypeOK, Submission
  <2>4. ~submissions[nextSubmissionId].challenged
    BY <2>2 DEF Inv, StatusMatchesRecord, RecordOK, EmptySubmission, SubmissionIds
  <2>5. QED
    BY <2>3, <2>4 DEF ChallengesRecorded
<1>4. ASSUME NEW s \in SubmissionIds, RevealStep(s)  PROVE ChallengesRecorded'
  <2>1. PICK a \in Auditors \cup {NoAccount}, salt \in Salts \cup {NoSalt} : Reveal(a, s, salt)
    BY <1>4 DEF RevealStep
  <2>2. /\ submissions[s].status = "Committed" /\ submissions[s] \in Submission
        /\ submissions'[s] = [submissions[s] EXCEPT !.salt = salt, !.revealTimestamp = now, !.status = "Revealed"]
        /\ \A t \in SubmissionIds \ {s} : submissions'[t] = submissions[t]
    BY <1>1, <2>1 DEF Reveal, TypeOK
  <2>3. submissions'[s].status = "Revealed" /\ submissions'[s].challenged = submissions[s].challenged
    BY <2>2 DEF Submission
  <2>4. QED
    BY <2>2, <2>3 DEF ChallengesRecorded
<1>5. ASSUME NEW s \in SubmissionIds, MovesOn(s) \/ Settles(s) \/ (VerdictStep(s) /\ FlagKept(s))
      PROVE  ChallengesRecorded'
  <2>1. \A t \in SubmissionIds \ {s} : submissions'[t] = submissions[t]
    BY <1>5 DEF MovesOn, Settles, VerdictStep, EscalationStep, SettlementStep, OnlyTouches
  <2>2. /\ submissions'[s].challenged =>
             submissions'[s].status \in {"Verified", "Disputed", "Finalized", "Invalid"}
        /\ submissions'[s].status = "Disputed" => submissions'[s].challenged
    BY <1>5 DEF ChallengesRecorded, MovesOn, Settles, VerdictStep, SettlementStep, InFlight, FlagKept
  <2>3. QED
    BY <2>1, <2>2 DEF ChallengesRecorded
<1>6. QED
  BY <1>2, <1>3, <1>4, <1>5 DEF StageStep

-----------------------------------------------------------------------------
(* The mapping of the states and of the steps *)

\* A deployed contract is the promise before anything happened.
LEMMA MapsInit == Init => Promise!PromiseInit
<1> SUFFICES ASSUME Init  PROVE Promise!PromiseInit
  OBVIOUS
<1>1. ExclusivePrograms = ProjectIds
  BY DEF Init, ExclusivePrograms, EmptyProject, EmptyConfig
<1>2. ProgramOf \in [SubmissionIds -> ProjectIds]
  BY ConstantsAssumption DEF Init, ProgramOf, EmptySubmission, ProjectIds
<1>3. Outcomes = [s \in SubmissionIds |-> "none"]
  BY DEF Init, Outcomes, OutcomeOf, EmptySubmission
<1>4. AcceptedFindings = {}
  BY DEF Init, AcceptedFindings, Accepted, EmptyLifecycle
<1>5. QED
  BY <1>1, <1>2, <1>3, <1>4 DEF Promise!PromiseInit

\* A step that touches one submission moves at most its outcome.
LEMMA OneOutcomeMoves ==
  ASSUME NEW s \in SubmissionIds, \A t \in SubmissionIds \ {s} : submissions'[t] = submissions[t]
  PROVE  /\ Outcomes' = [Outcomes EXCEPT ![s] = OutcomeOf(submissions'[s])]
         /\ ProgramOf' = [ProgramOf EXCEPT ![s] = submissions'[s].projectId]
         /\ Outcomes[s] = OutcomeOf(submissions[s]) /\ ProgramOf[s] = submissions[s].projectId
BY DEF Outcomes, ProgramOf

\* What is exclusive depends on the rules of the projects only.
LEMMA SameRules ==
  ASSUME RulesKept
  PROVE  ExclusivePrograms' = ExclusivePrograms
BY DEF RulesKept, Rules, ExclusivePrograms

\* At most a program starts.
LEMMA StandsStillMaps ==
  ASSUME Inv, Inv', StandsStill
  PROVE  (\E p \in ProjectIds : Promise!StartProgram(p)) \/ UNCHANGED Promise!promiseVars
<1>1. Outcomes' = Outcomes /\ ProgramOf' = ProgramOf /\ AcceptedFindings' = AcceptedFindings
  BY DEF StandsStill, Outcomes, ProgramOf, AcceptedFindings, Accepted
<1>2. CASE RulesKept
  BY <1>1, <1>2, SameRules DEF Promise!promiseVars
<1>3. CASE nextProjectId' = nextProjectId + 1 /\ QuietStep
  <2> DEFINE n == nextProjectId
  <2>1. n \in ProjectIds /\ n \in Nat
    BY <1>3, ConstantsAssumption DEF Inv, TypeOK, ProjectIds
  <2>2. \A p \in ProjectIds \ {n} : projects'[p].config = projects[p].config
    BY <1>3 DEF QuietStep, Rules
  <2>3. ExclusivePrograms' \in {ExclusivePrograms \cup {n}, ExclusivePrograms \ {n}}
    <3>1. \A p \in ProjectIds \ {n} : p \in ExclusivePrograms' <=> p \in ExclusivePrograms
      BY <2>2 DEF ExclusivePrograms
    <3>2. ExclusivePrograms \subseteq ProjectIds /\ ExclusivePrograms' \subseteq ProjectIds
      BY DEF ExclusivePrograms
    <3>3. QED
      BY <2>1, <3>1, <3>2
  <2>4. \A s \in SubmissionIds : ProgramOf[s] = n => Outcomes[s] = "none"
    <3>1. ASSUME NEW s \in SubmissionIds, submissions[s].projectId = n  PROVE OutcomeOf(submissions[s]) = "none"
      <4>1. s >= nextSubmissionId
        BY <2>1, <3>1 DEF Inv, StatusMatchesRecord, RecordOK, TypeOK, SubmissionIds
      <4>2. submissions[s].auditor = NoAccount
        BY <4>1 DEF Inv, StatusMatchesRecord, RecordOK, EmptySubmission
      <4>3. QED
        BY <4>2 DEF OutcomeOf
    <3>2. QED
      BY <3>1 DEF ProgramOf, Outcomes
  <2>5. Promise!StartProgram(n)
    BY <1>1, <2>3, <2>4 DEF Promise!StartProgram
  <2>6. QED
    BY <2>1, <2>5
<1>4. QED
  BY <1>2, <1>3 DEF StandsStill, QuietStep

\* A commit seals a finding.
LEMMA CommitMaps ==
  ASSUME Inv, Inv', CommitStep
  PROVE  \E s \in SubmissionIds, p \in ProjectIds : Promise!Seal(s, p)
<1> DEFINE n == nextSubmissionId
<1>1. PICK a \in Auditors, p \in ProjectIds, h \in CommitHash : Commit(a, p, h)
  BY DEF CommitStep
<1>2. TypeOK /\ n \in SubmissionIds
  <2>1. TypeOK /\ n \in 0 .. MaxSubmissions /\ n < MaxSubmissions
    BY <1>1 DEF Inv, Commit, TypeOK
  <2>2. QED
    BY <2>1, ConstantsAssumption DEF SubmissionIds
<1>3. /\ submissions'[n] = [submissions[n] EXCEPT !.auditor = a, !.projectId = p, !.commitHash = h,
                                                !.status = "Committed"]
      /\ \A t \in SubmissionIds \ {n} : submissions'[t] = submissions[t]
      /\ lifecycle' = lifecycle /\ projects' = projects
  BY <1>1, <1>2 DEF Commit, TypeOK, verdictVars
<1>4. submissions'[n].auditor = a /\ submissions'[n].projectId = p /\ submissions'[n].status = "Committed"
  BY <1>2, <1>3 DEF TypeOK, Submission
<1>5. OutcomeOf(submissions'[n]) = "sealed"
  <2>1. a # NoAccount
    BY ConstantsAssumption
  <2>2. QED
    BY <1>4, <2>1 DEF OutcomeOf
<1>6. OutcomeOf(submissions[n]) = "none"
  <2>1. submissions[n].auditor = NoAccount
    BY <1>2 DEF Inv, StatusMatchesRecord, RecordOK, EmptySubmission, SubmissionIds
  <2>2. QED
    BY <2>1 DEF OutcomeOf
<1>7. ExclusivePrograms' = ExclusivePrograms /\ AcceptedFindings' = AcceptedFindings
  BY <1>3 DEF ExclusivePrograms, AcceptedFindings, Accepted
<1>8. Promise!Seal(n, p)
  <2>1. /\ Outcomes' = [Outcomes EXCEPT ![n] = "sealed"] /\ Outcomes[n] = "none"
        /\ ProgramOf' = [ProgramOf EXCEPT ![n] = p]
    BY <1>2, <1>3, <1>4, <1>5, <1>6, OneOutcomeMoves
  <2>2. QED
    BY <1>7, <2>1 DEF Promise!Seal, Promise!Move
<1>9. QED
  BY <1>2, <1>8

\* A submission past Committed was sent by somebody.
LEMMA Sent ==
  ASSUME Inv, NEW s \in SubmissionIds, submissions[s].status # "Committed" \/ s < nextSubmissionId
  PROVE  submissions[s].auditor # NoAccount
<1>1. s < nextSubmissionId
  BY ConstantsAssumption DEF Inv, StatusMatchesRecord, RecordOK, EmptySubmission, TypeOK, SubmissionIds
<1>2. QED
  BY <1>1, ConstantsAssumption DEF Inv, StatusMatchesRecord, RecordOK

\* A finding under judgement is in flight.
LEMMA JudgedIsInFlight ==
  ASSUME NEW sub \in Submission, OutcomeOf(sub) \in Promise!Judging
  PROVE  sub.status \in {"Revealed", "JuryPending", "AwaitingOwnerAdjudication"}
<1>1. sub.auditor # NoAccount
  BY DEF OutcomeOf, Promise!Judging
<1>2. QED
  BY <1>1, OutcomeByStatus DEF Promise!Judging, Submission, SubmissionStatus

\* A reveal opens a finding, which an exclusive program must be free to judge.
LEMMA RevealMaps ==
  ASSUME Inv, Inv', NEW s \in SubmissionIds, RevealStep(s)
  PROVE  Promise!Open(s)
<1>1. /\ TypeOK /\ submissions[s] \in Submission /\ submissions'[s] \in Submission
      /\ s < nextSubmissionId
      /\ submissions[s].status = "Committed" /\ submissions'[s].status = "Revealed"
      /\ submissions'[s].auditor = submissions[s].auditor
      /\ submissions'[s].projectId = submissions[s].projectId
      /\ \A t \in SubmissionIds \ {s} : submissions'[t] = submissions[t]
      /\ projects' = projects /\ lifecycle' = lifecycle
  BY RevealEffect DEF Inv, TypeOK
<1>2. submissions[s].auditor # NoAccount
  BY <1>1, Sent
<1>3. OutcomeOf(submissions[s]) = "sealed" /\ OutcomeOf(submissions'[s]) = "judged by verifier"
  BY <1>1, <1>2, OutcomeByStatus
<1>4. /\ ExclusivePrograms' = ExclusivePrograms /\ AcceptedFindings' = AcceptedFindings
      /\ ProgramOf' = ProgramOf
  BY <1>1 DEF ExclusivePrograms, AcceptedFindings, Accepted, ProgramOf
<1>5. ASSUME ProgramOf[s] \in ExclusivePrograms, NEW g \in SubmissionIds, ProgramOf[g] = ProgramOf[s]
      PROVE  g \notin AcceptedFindings /\ Outcomes[g] \notin Promise!Judging
  <2> DEFINE p == submissions[s].projectId
  <2>1. p \in ProjectIds /\ projects[p].config.mode = "UNIQUE" /\ submissions[g].projectId = p
    BY <1>5 DEF ProgramOf, ExclusivePrograms
  <2>2. ~uniqueRevealState[p].winnerLocked
        /\ (uniqueRevealState[p].hasCandidate => uniqueRevealState[p].candidateSubmissionId = s)
    BY <2>1 DEF RevealStep, Reveal, TakeCandidacy, ConfigOf
  <2>3. ArbitrationOK(p) /\ g \in SubmissionsOf(p) /\ s \in SubmissionsOf(p)
    BY <2>1 DEF Inv, UniqueArbitration, SubmissionsOf
  <2>4. ~Accepted(g) /\ (InFlight(g) => g = s)
    BY <2>2, <2>3 DEF ArbitrationOK
  <2>5. ~InFlight(g)
    BY <1>1, <2>4 DEF InFlight
  <2>6. submissions[g] \in Submission /\ Outcomes[g] = OutcomeOf(submissions[g])
    BY <1>1 DEF TypeOK, Outcomes
  <2>7. QED
    BY <2>4, <2>5, <2>6, JudgedIsInFlight DEF InFlight, AcceptedFindings
<1>6. /\ Outcomes' = [Outcomes EXCEPT ![s] = "judged by verifier"] /\ Outcomes[s] = "sealed"
  BY <1>1, <1>3, OneOutcomeMoves
<1>7. QED
  BY <1>4, <1>5, <1>6 DEF Promise!Open, Promise!MayOpen, Promise!Move

\* What the steps that follow a reveal have in common
LEMMA LaterStep ==
  ASSUME Inv, Inv', NEW s \in SubmissionIds, OnlyTouches(s), SameCommitment(submissions'[s], submissions[s]),
         submissions[s].status # "Committed"
  PROVE  /\ submissions[s] \in Submission /\ submissions'[s] \in Submission
         /\ submissions[s].auditor # NoAccount /\ submissions'[s].auditor # NoAccount
         /\ ExclusivePrograms' = ExclusivePrograms /\ ProgramOf' = ProgramOf
         /\ Outcomes[s] = OutcomeOf(submissions[s])
         /\ Outcomes' = [Outcomes EXCEPT ![s] = OutcomeOf(submissions'[s])]
<1>1. submissions[s] \in Submission /\ submissions'[s] \in Submission
  BY DEF Inv, TypeOK
<1>2. submissions[s].auditor # NoAccount /\ submissions'[s].auditor # NoAccount
  BY Sent DEF SameCommitment
<1>3. \A t \in SubmissionIds \ {s} : submissions'[t] = submissions[t]
  BY DEF OnlyTouches
<1>4. ProgramOf' = ProgramOf
  BY <1>3 DEF ProgramOf, SameCommitment
<1>5. ExclusivePrograms' = ExclusivePrograms
  BY SameRules DEF OnlyTouches
<1>6. QED
  BY <1>1, <1>2, <1>3, <1>4, <1>5, OneOutcomeMoves

\* An adjudication report escalates a finding.
LEMMA MovesOnMaps ==
  ASSUME Inv, Inv', NEW s \in SubmissionIds, MovesOn(s)
  PROVE  Promise!Escalate(s)
<1>1. /\ OnlyTouches(s) /\ SameCommitment(submissions'[s], submissions[s])
      /\ submissions[s].status # "Committed"
      /\ lifecycle'[s].finalValidity = "None" /\ lifecycle[s].finalValidity = "None"
  BY DEF MovesOn, EscalationStep, InFlight, Inv, StatusMatchesRecord, RecordOK
<1>2. AcceptedFindings' = AcceptedFindings
  BY <1>1 DEF AcceptedFindings, Accepted, OnlyTouches
<1>3. \/ OutcomeOf(submissions[s]) = "judged by verifier" /\ OutcomeOf(submissions'[s]) = "judged by jury"
      \/ OutcomeOf(submissions[s]) = "judged by jury" /\ OutcomeOf(submissions'[s]) = "judged by owner"
  BY <1>1, LaterStep, OutcomeByStatus DEF MovesOn
<1>4. QED
  BY <1>1, <1>2, <1>3, LaterStep DEF Promise!Escalate, Promise!Move

\* A verdict accepts or rejects a finding.
LEMMA VerdictMaps ==
  ASSUME Inv, Inv', ChallengesRecorded, NEW s \in SubmissionIds, VerdictStep(s), FlagKept(s)
  PROVE  Promise!Accept(s) \/ Promise!Reject(s)
<1>1. /\ OnlyTouches(s) /\ SameCommitment(submissions'[s], submissions[s])
      /\ submissions[s].status # "Committed" /\ InFlight(s)
      /\ ~submissions'[s].challenged
  BY DEF VerdictStep, InFlight, FlagKept, ChallengesRecorded
<1>2. OutcomeOf(submissions[s]) \in Promise!Judging
  BY <1>1, LaterStep, OutcomeByStatus DEF InFlight, Promise!Judging
<1>3. CASE submissions'[s].status \in {"Verified", "Finalized"} /\ lifecycle'[s].finalValidity = "Valid"
  <2>1. AcceptedFindings' = AcceptedFindings \cup {s}
    BY <1>1, <1>3 DEF AcceptedFindings, Accepted, OnlyTouches
  <2>2. OutcomeOf(submissions'[s]) \in {"accepted", "settled"}
    BY <1>1, <1>3, LaterStep, OutcomeByStatus
  <2>3. QED
    BY <1>1, <1>2, <2>1, <2>2, LaterStep DEF Promise!Accept, Promise!Move
<1>4. CASE submissions'[s].status = "Invalid" /\ lifecycle'[s].finalValidity = "Invalid"
  <2>1. lifecycle[s].finalValidity = "None"
    BY <1>1 DEF Inv, StatusMatchesRecord, RecordOK
  <2>2. AcceptedFindings' = AcceptedFindings
    BY <1>1, <1>4, <2>1 DEF AcceptedFindings, Accepted, OnlyTouches
  <2>3. OutcomeOf(submissions'[s]) = "rejected"
    BY <1>1, <1>4, LaterStep, OutcomeByStatus
  <2>4. QED
    BY <1>1, <1>2, <2>2, <2>3, LaterStep DEF Promise!Reject, Promise!Move
<1>5. QED
  BY <1>3, <1>4 DEF VerdictStep

\* Disputes and finalizations contest, uphold, reject or settle a finding.
LEMMA SettlesMaps ==
  ASSUME Inv, Inv', ChallengesRecorded, NEW s \in SubmissionIds, Settles(s)
  PROVE  Promise!Contest(s) \/ Promise!UpholdFinding(s) \/ Promise!Reject(s) \/ Promise!Settle(s)
<1>1. /\ OnlyTouches(s) /\ SameCommitment(submissions'[s], submissions[s])
      /\ submissions[s].status \in {"Verified", "Disputed"}
      /\ AcceptedFindings' = AcceptedFindings
  BY DEF Settles, SettlementStep, AcceptedFindings, Accepted
<1>2. /\ ExclusivePrograms' = ExclusivePrograms /\ ProgramOf' = ProgramOf
      /\ Outcomes[s] = OutcomeOf(submissions[s])
      /\ Outcomes' = [Outcomes EXCEPT ![s] = OutcomeOf(submissions'[s])]
      /\ submissions[s] \in Submission /\ submissions'[s] \in Submission
      /\ submissions[s].auditor # NoAccount /\ submissions'[s].auditor # NoAccount
  BY <1>1, LaterStep
<1>3. CASE submissions[s].status = "Verified" /\ ~submissions[s].challenged
           /\ submissions'[s].status = "Disputed"
  <2>1. OutcomeOf(submissions[s]) = "accepted" /\ OutcomeOf(submissions'[s]) = "contested"
    BY <1>2, <1>3, OutcomeByStatus
  <2>2. QED
    BY <1>1, <1>2, <2>1 DEF Promise!Contest, Promise!Move
<1>4. CASE submissions[s].status = "Disputed" /\ submissions'[s].status \in {"Verified", "Invalid"} /\ FlagKept(s)
  <2>1. submissions'[s].challenged /\ OutcomeOf(submissions[s]) = "contested"
    BY <1>2, <1>4, OutcomeByStatus DEF FlagKept, ChallengesRecorded
  <2>2. OutcomeOf(submissions'[s]) \in {"upheld", "rejected"}
    BY <1>2, <1>4, <2>1, OutcomeByStatus
  <2>3. QED
    BY <1>1, <1>2, <2>1, <2>2 DEF Promise!UpholdFinding, Promise!Reject, Promise!Move
<1>5. CASE submissions'[s].status = "Finalized"
  <2>1. OutcomeOf(submissions[s]) \in {"accepted", "contested", "upheld"}
    BY <1>1, <1>2, OutcomeByStatus
  <2>2. OutcomeOf(submissions'[s]) = "settled"
    BY <1>2, <1>5, OutcomeByStatus
  <2>3. QED
    BY <1>1, <1>2, <2>1, <2>2 DEF Promise!Settle, Promise!Move
<1>6. QED
  BY <1>3, <1>4, <1>5 DEF Settles

\* However transactions interleave, each finding keeps to the road promised to its auditor and
\* an exclusive program accepts one: the contract refines the promise.
THEOREM ImplementsPromiseAlways == Spec => ImplementsPromise
<1>1. Init => ChallengesRecorded
  BY DEF Init, ChallengesRecorded, EmptySubmission
<1>2. Inv /\ ChallengesRecorded /\ [Next]_vars => ChallengesRecorded'
  BY EveryStepHasAStage, NextChallenges
<1>3. Inv /\ Inv' /\ ChallengesRecorded /\ [Next]_vars => [Promise!PromiseNext]_Promise!promiseVars
  <2> SUFFICES ASSUME Inv, Inv', ChallengesRecorded, [Next]_vars
               PROVE  Promise!PromiseNext \/ UNCHANGED Promise!promiseVars
    OBVIOUS
  <2>1. StageStep
    BY EveryStepHasAStage
  <2>2. CASE StandsStill
    BY <2>2, StandsStillMaps DEF Promise!PromiseNext
  <2>3. CASE CommitStep
    BY <2>3, CommitMaps DEF Promise!PromiseNext
  <2>4. ASSUME NEW s \in SubmissionIds,
               RevealStep(s) \/ MovesOn(s) \/ Settles(s) \/ (VerdictStep(s) /\ FlagKept(s))
        PROVE  Promise!PromiseNext
    BY <2>4, RevealMaps, MovesOnMaps, SettlesMaps, VerdictMaps DEF Promise!PromiseNext
  <2>5. QED
    BY <2>1, <2>2, <2>3, <2>4 DEF StageStep
<1>4. QED
  BY <1>1, <1>2, <1>3, MapsInit, Invariance, PTL DEF Spec, ImplementsPromise, Promise!PromiseSpec

-----------------------------------------------------------------------------
(***************************************************************************)
(* Submission pages.  A page holds answers of different ages.  What a      *)
(* case has been through is only ever added to, so an old answer still     *)
(* says something true: the invariant pairs what is on record of a case    *)
(* with what an answer about it, however old, lets one conclude.           *)
(***************************************************************************)

\* What has happened to a case and stays so: it came before the jury, and the owner
ToJury(s)  == \/ submissions[s].status \in InAdjudication
              \/ lifecycle[s].verdictSource \in {"Jury", "Owner"}
ToOwner(s) == \/ submissions[s].status = "AwaitingOwnerAdjudication"
              \/ lifecycle[s].verdictSource = "Owner"

\* The deadlines of a case count from its reveal.
Dated(s) ==
  /\ lifecycle[s].juryDeadline = submissions[s].revealTimestamp + ConfigOf(s).juryWindow
  /\ lifecycle[s].adjudicationDeadline = lifecycle[s].juryDeadline + ConfigOf(s).adjudicationWindow

\* The times, the source and the validity on record agree with the status.
CaseOK(s) ==
  LET sub    == submissions[s]
      record == lifecycle[s]
  IN  /\ sub.status = "Committed" => sub.revealTimestamp = 0
      /\ sub.status \in {"Committed", "Revealed"} => record = EmptyLifecycle
      /\ sub.status = "Committed" \/ InFlight(s) => sub.disputeDeadline = 0
      /\ record.verdictSource = "None" <=> record.finalValidity = "None"
      /\ ToJury(s) \/ record.juryDeadline # 0 \/ record.adjudicationDeadline # 0 => Dated(s)
      /\ sub.status = "Finalized" => now > sub.disputeDeadline
      /\ sub.status = "Invalid" /\ sub.disputeDeadline > 0 => sub.challenged

Cases == \A s \in SubmissionIds : CaseOK(s)

\* What a status read at some time says of the case from then on
StatusOK(status, s) ==
  /\ status \in SubmissionStatus
  /\ status # "Committed" => submissions[s].status # "Committed"
  /\ status \in InAdjudication => ToJury(s)
  /\ status = "AwaitingOwnerAdjudication" => ToOwner(s)
  /\ status \in {"Finalized", "Invalid"} => submissions[s].status = status
  /\ status \in {"Verified", "Disputed", "Finalized"} => Accepted(s)
  /\ status = "Disputed" => submissions[s].challenged

\* What an answer to submissions(s), and one to getSubmissionLifecycle(s), says of it
SeenOK(sub, s) ==
  /\ sub \in Submission
  /\ StatusOK(sub.status, s)
  /\ sub.revealTimestamp \in {0, submissions[s].revealTimestamp}
  /\ sub.disputeDeadline \in {0, submissions[s].disputeDeadline}
  /\ sub.challenged => submissions[s].challenged

ViewOK(view, s) ==
  /\ StatusOK(view.status, s)
  /\ view.status = "Committed" => view.source = "None"
  /\ view.source \in {"None", lifecycle[s].verdictSource}
  /\ view.juryDeadline \in {0, lifecycle[s].juryDeadline}
  /\ view.adjudicationDeadline \in {0, lifecycle[s].adjudicationDeadline}

\* What a draft says of it
DraftOK(e, s) ==
  /\ ToJury(s)
  /\ e.adjudication.revealTimestampSec \in {0, submissions[s].revealTimestamp}
  /\ \/ e.adjudication.juryWindow = DefaultJuryWindow
     \/ /\ e.adjudication.juryWindow = ConfigOf(s).juryWindow
        /\ e.adjudication.adjudicationWindow = ConfigOf(s).adjudicationWindow

PageFields == {"seen", "known", "hasLifecycle", "hasProject", "rendered", "mounted", "draft"}

IsPage(p) ==
  /\ p = [f \in PageFields |-> p[f]]
  /\ {p.hasLifecycle, p.hasProject, p.mounted} \subseteq BOOLEAN

PageOK(s) ==
  LET p == page[s]
  IN  /\ IsPage(p)
      /\ p.seen # Unread => SeenOK(p.seen, s)
      /\ p.known # Unread \/ p.hasLifecycle => ViewOK(p.known, s)
      /\ p.mounted => p.seen # Unread
      /\ p.draft # Unread => DraftOK(p.draft, s)
      /\ p.rendered \in Int /\ p.rendered <= now + ClockLead

Pages == page = [s \in SubmissionIds |-> page[s]] /\ \A s \in SubmissionIds : PageOK(s)

-----------------------------------------------------------------------------
(* What a transaction does to a case *)

Still(s) == submissions'[s] = submissions[s] /\ lifecycle'[s] = lifecycle[s]

\* The reveal and the end of the dispute window stay.
TimesKept(s) ==
  /\ submissions'[s].revealTimestamp = submissions[s].revealTimestamp
  /\ submissions'[s].disputeDeadline = submissions[s].disputeDeadline

DeadlinesKept(s) ==
  /\ lifecycle'[s].juryDeadline = lifecycle[s].juryDeadline
  /\ lifecycle'[s].adjudicationDeadline = lifecycle[s].adjudicationDeadline

DeadlinesSet(s) ==
  /\ lifecycle'[s].juryDeadline = submissions[s].revealTimestamp + ConfigOf(s).juryWindow
  /\ lifecycle'[s].adjudicationDeadline = lifecycle'[s].juryDeadline + ConfigOf(s).adjudicationWindow

Begun(s) ==
  /\ submissions[s].status = "Committed" /\ submissions'[s].status = "Committed"
  /\ lifecycle'[s] = lifecycle[s]
  /\ TimesKept(s) /\ FlagKept(s)

Opened(s) ==
  /\ submissions[s].status = "Committed" /\ submissions'[s].status = "Revealed"
  /\ lifecycle'[s] = lifecycle[s]
  /\ submissions'[s].revealTimestamp = now
  /\ submissions'[s].disputeDeadline = submissions[s].disputeDeadline
  /\ FlagKept(s)

Escalated(s) ==
  /\ \/ submissions[s].status = "Revealed" /\ submissions'[s].status = "JuryPending"
     \/ submissions[s].status = "JuryPending" /\ submissions'[s].status = "AwaitingOwnerAdjudication"
  /\ lifecycle'[s].verdictSource = "None" /\ lifecycle'[s].finalValidity = "None"
  /\ DeadlinesSet(s) /\ TimesKept(s) /\ FlagKept(s)

\* A window opens for a finding that is accepted and not paid at once.
Judged(s, source) ==
  /\ AwaitsVerdict(s, source)
  /\ submissions'[s].revealTimestamp = submissions[s].revealTimestamp
  /\ FlagKept(s)
  /\ lifecycle'[s].verdictSource = source
  /\ \/ DeadlinesSet(s)
     \/ source = "Verification" /\ DeadlinesKept(s)
  /\ \/ submissions'[s].status = "Verified" /\ lifecycle'[s].finalValidity = "Valid"
     \/ /\ submissions'[s].status = "Finalized" /\ lifecycle'[s].finalValidity = "Valid"
        /\ TimesKept(s)
     \/ /\ submissions'[s].status = "Invalid" /\ lifecycle'[s].finalValidity = "Invalid"
        /\ TimesKept(s)

Settled(s) ==
  /\ lifecycle'[s] = lifecycle[s]
  /\ TimesKept(s)
  /\ \/ /\ submissions[s].status = "Verified" /\ submissions'[s].status = "Disputed"
        /\ submissions'[s].challenged
     \/ /\ submissions[s].status = "Disputed" /\ submissions'[s].status \in {"Verified", "Invalid"}
        /\ FlagKept(s)
     \/ /\ submissions[s].status \in {"Verified", "Disputed"} /\ submissions'[s].status = "Finalized"
        /\ FlagKept(s) /\ now > submissions[s].disputeDeadline

CaseMoves(s) ==
  \/ Still(s) \/ Begun(s) \/ Opened(s) \/ Escalated(s) \/ Settled(s)
  \/ \E source \in {"Verification", "Jury", "Owner"} : Judged(s, source)

\* A payout changes the amount and the status of what it pays.
LEMMA PayoutRecord ==
  ASSUME TypeOK, NEW s \in SubmissionIds, NEW sub \in Submission, NEW pool, ExecutePayout(s, sub, pool)
  PROVE  /\ submissions'[s].status = "Finalized"
         /\ submissions'[s].revealTimestamp = sub.revealTimestamp
         /\ submissions'[s].disputeDeadline = sub.disputeDeadline
         /\ submissions'[s].challenged = sub.challenged
         /\ \A t \in SubmissionIds \ {s} : submissions'[t] = submissions[t]
<1> DEFINE paid == Payable(sub.payoutAmount, ConfigOf(s).maxPayoutPerBug, pool)
<1>1. submissions' = [submissions EXCEPT ![s] = [sub EXCEPT !.payoutAmount = paid, !.status = "Finalized"]]
  BY DEF ExecutePayout
<1> HIDE DEF paid
<1>2. submissions'[s] = [sub EXCEPT !.payoutAmount = paid, !.status = "Finalized"]
  BY <1>1 DEF TypeOK
<1>3. QED
  BY <1>1, <1>2 DEF Submission, TypeOK

\* The fields of the record a verdict leaves
LEMMA VerdictRecord ==
  ASSUME TypeOK, NEW s \in SubmissionIds, NEW v \in Verdict,
         NEW source \in {"Verification", "Jury", "Owner"},
         AcceptFinding(s, source, v) \/ RejectFinding(s, v)
  PROVE  /\ submissions'[s].revealTimestamp = submissions[s].revealTimestamp
         /\ FlagKept(s)
         /\ \/ submissions'[s].status = "Verified" /\ v.isValid
            \/ submissions'[s].status = "Finalized" /\ v.isValid /\ TimesKept(s)
            \/ submissions'[s].status = "Invalid" /\ ~v.isValid /\ TimesKept(s)
         /\ \A t \in SubmissionIds \ {s} : submissions'[t] = submissions[t]
<1> DEFINE c == ConfigOf(s)
           p == submissions[s].projectId
           severity == IF source = "Verification" THEN CalculateSeverity(v.drain, c) ELSE v.adjudicated
           awarded == [submissions[s] EXCEPT !.severity = severity,
                          !.payoutAmount = CalculatePayout(severity, c.maxPayoutPerBug)]
<1>1. c \in Config /\ submissions[s] \in Submission
  BY ConfigType
<1>2. severity \in Severity
  BY <1>1, SeverityType, ConstantsAssumption DEF Verdict
<1>3. CalculatePayout(severity, c.maxPayoutPerBug) \in Nat
  BY <1>1, <1>2, CalculatePayoutIsNat DEF Config
<1>4. /\ awarded \in Submission
      /\ awarded.revealTimestamp = submissions[s].revealTimestamp
      /\ awarded.disputeDeadline = submissions[s].disputeDeadline
      /\ awarded.challenged = submissions[s].challenged
  <2> HIDE DEF severity, c
  <2> QED  BY <1>1, <1>2, <1>3 DEF Submission
<1>5. CASE AcceptFinding(s, source, v)
  <2>1. /\ v.isValid
        /\ \/ ExecutePayout(s, awarded, projects[p].bountyPool)
           \/ submissions' = [submissions EXCEPT ![s] =
                [awarded EXCEPT !.status = "Verified", !.disputeDeadline = now + c.disputeWindow]]
    BY <1>5 DEF AcceptFinding
  <2> HIDE DEF awarded
  <2>2. CASE ExecutePayout(s, awarded, projects[p].bountyPool)
    BY <1>4, <2>1, <2>2, PayoutRecord DEF FlagKept, TimesKept
  <2>3. CASE submissions' = [submissions EXCEPT ![s] =
                  [awarded EXCEPT !.status = "Verified", !.disputeDeadline = now + c.disputeWindow]]
    <3>1. submissions'[s] = [awarded EXCEPT !.status = "Verified", !.disputeDeadline = now + c.disputeWindow]
      BY <2>3 DEF TypeOK
    <3>2. /\ submissions'[s].status = "Verified"
          /\ submissions'[s].revealTimestamp = awarded.revealTimestamp
          /\ submissions'[s].challenged = awarded.challenged
      BY <1>4, <3>1 DEF Submission
    <3>3. \A t \in SubmissionIds \ {s} : submissions'[t] = submissions[t]
      BY <2>3 DEF TypeOK
    <3>4. QED
      BY <1>4, <2>1, <3>2, <3>3 DEF FlagKept
  <2>4. QED
    BY <2>1, <2>2, <2>3
<1>6. CASE RejectFinding(s, v)
  <2>1. /\ ~v.isValid
        /\ submissions' = [submissions EXCEPT ![s] =
             [@ EXCEPT !.status = "Invalid", !.severity = "NONE", !.payoutAmount = 0]]
    BY <1>6 DEF RejectFinding
  <2>2. submissions'[s] = [submissions[s] EXCEPT !.status = "Invalid", !.severity = "NONE", !.payoutAmount = 0]
    BY <2>1 DEF TypeOK
  <2>3. \A t \in SubmissionIds \ {s} : submissions'[t] = submissions[t]
    BY <2>1 DEF TypeOK
  <2>4. QED
    BY <1>1, <2>1, <2>2, <2>3 DEF FlagKept, TimesKept, Submission
<1>7. QED
  BY <1>5, <1>6

\* What a verdict does to its case, and to the others
LEMMA VerdictMoves ==
  ASSUME TypeOK, NEW s \in SubmissionIds, NEW v \in Verdict,
         NEW source \in {"Verification", "Jury", "Owner"},
         NEW base, CommitFinalVerdict(s, source, v, base),
         \/ base = WithDerivedDeadlines(s)
         \/ source = "Verification" /\ base = lifecycle[s]
  PROVE  /\ Judged(s, source)
         /\ \A t \in SubmissionIds \ {s} : Still(t)
<1>1. base \in SubmissionLifecycle
  BY DeadlinesTypeOK DEF TypeOK
<1>2. lifecycle' = [lifecycle EXCEPT ![s] =
                     [base EXCEPT !.verdictSource = source,
                                  !.finalValidity = IF v.isValid THEN "Valid" ELSE "Invalid"]]
  BY DEF CommitFinalVerdict
<1>3. lifecycle'[s] = [base EXCEPT !.verdictSource = source,
                                   !.finalValidity = IF v.isValid THEN "Valid" ELSE "Invalid"]
  BY <1>2 DEF TypeOK
<1>4. /\ lifecycle'[s].verdictSource = source
      /\ lifecycle'[s].finalValidity = IF v.isValid THEN "Valid" ELSE "Invalid"
      /\ lifecycle'[s].juryDeadline = base.juryDeadline
      /\ lifecycle'[s].adjudicationDeadline = base.adjudicationDeadline
  BY <1>1, <1>3 DEF SubmissionLifecycle
<1>5. DeadlinesSet(s) \/ (source = "Verification" /\ DeadlinesKept(s))
  <2>1. CASE base = WithDerivedDeadlines(s)
    <3> DEFINE jury == submissions[s].revealTimestamp + ConfigOf(s).juryWindow
    <3>1. base = [lifecycle[s] EXCEPT !.juryDeadline = jury,
                                      !.adjudicationDeadline = jury + ConfigOf(s).adjudicationWindow]
      BY <2>1 DEF WithDerivedDeadlines
    <3>2. lifecycle[s] \in SubmissionLifecycle
      BY DEF TypeOK
    <3> HIDE DEF jury
    <3>3. base.juryDeadline = jury /\ base.adjudicationDeadline = jury + ConfigOf(s).adjudicationWindow
      BY <3>1, <3>2 DEF SubmissionLifecycle
    <3>4. QED
      BY <1>4, <3>3 DEF DeadlinesSet, jury
  <2>2. CASE source = "Verification" /\ base = lifecycle[s]
    BY <1>4, <2>2 DEF DeadlinesKept
  <2>3. QED
    BY <2>1, <2>2
<1>6. AwaitsVerdict(s, source) /\ (AcceptFinding(s, source, v) \/ RejectFinding(s, v))
  BY DEF CommitFinalVerdict
<1>7. \A t \in SubmissionIds \ {s} : lifecycle'[t] = lifecycle[t]
  BY <1>2 DEF TypeOK
<1>8. QED
  BY <1>4, <1>5, <1>6, <1>7, VerdictRecord DEF Judged, Still

\* What a step to the jury or to the owner does to its case, and to the others
LEMMA EscalationMoves ==
  ASSUME TypeOK, NEW w, NEW s \in SubmissionIds,
         NEW next \in {"JuryPending", "AwaitingOwnerAdjudication"},
         ProcessAdjudicationTransition(w, s, next)
  PROVE  /\ Escalated(s)
         /\ \A t \in SubmissionIds \ {s} : Still(t)
<1> DEFINE jury == submissions[s].revealTimestamp + ConfigOf(s).juryWindow
           last == jury + ConfigOf(s).adjudicationWindow
           base == [lifecycle[s] EXCEPT !.juryDeadline = jury, !.adjudicationDeadline = last]
<1>1. /\ submissions[s].status = AdjudicationStep[next]
      /\ submissions' = [submissions EXCEPT ![s].status = next]
      /\ lifecycle' = [lifecycle EXCEPT ![s] =
           [WithDerivedDeadlines(s) EXCEPT !.verdictSource = "None", !.finalValidity = "None"]]
  BY DEF ProcessAdjudicationTransition
<1>2. WithDerivedDeadlines(s) = base /\ lifecycle[s] \in SubmissionLifecycle
  BY DEF WithDerivedDeadlines, TypeOK
<1>3. DeadlinesSet(s) <=> lifecycle'[s].juryDeadline = jury
                          /\ lifecycle'[s].adjudicationDeadline = lifecycle'[s].juryDeadline
                                                                 + ConfigOf(s).adjudicationWindow
  BY DEF DeadlinesSet
<1>4. last = jury + ConfigOf(s).adjudicationWindow
  OBVIOUS
<1>5. base = [lifecycle[s] EXCEPT !.juryDeadline = jury, !.adjudicationDeadline = last]
  OBVIOUS
<1> HIDE DEF jury, last, base
<1>6. /\ base \in [{"juryDeadline", "adjudicationDeadline", "verdictSource", "finalValidity"}
                   -> {base[f] : f \in {"juryDeadline", "adjudicationDeadline", "verdictSource", "finalValidity"}}]
      /\ base.juryDeadline = jury /\ base.adjudicationDeadline = last
  BY <1>2, <1>5 DEF SubmissionLifecycle
<1>7. lifecycle'[s] = [base EXCEPT !.verdictSource = "None", !.finalValidity = "None"]
  BY <1>1, <1>2 DEF TypeOK
<1>8. /\ lifecycle'[s].verdictSource = "None" /\ lifecycle'[s].finalValidity = "None"
      /\ lifecycle'[s].juryDeadline = jury /\ lifecycle'[s].adjudicationDeadline = last
  BY <1>6, <1>7
<1>9. submissions[s] \in Submission /\ submissions'[s] = [submissions[s] EXCEPT !.status = next]
  BY <1>1 DEF TypeOK
<1>10. submissions'[s].status = next /\ TimesKept(s) /\ FlagKept(s)
  BY <1>9 DEF Submission, TimesKept, FlagKept
<1>11. \A t \in SubmissionIds \ {s} : Still(t)
  BY <1>1 DEF Still, TypeOK
<1>12. QED
  BY <1>1, <1>3, <1>4, <1>8, <1>10, <1>11 DEF Escalated, AdjudicationStep

\* A challenge, a resolution and a finalization settle one submission.
LEMMA ChallengeMoves ==
  ASSUME TypeOK, NEW s \in SubmissionIds, NEW bond \in Nat, Challenge(s, bond)
  PROVE  Settled(s) /\ \A t \in SubmissionIds \ {s} : Still(t)
<1>1. /\ submissions[s].status = "Verified" /\ submissions[s] \in Submission
      /\ submissions'[s] = [submissions[s] EXCEPT !.challenged = TRUE, !.challengeBond = bond, !.status = "Disputed"]
  BY DEF Challenge, TypeOK
<1>2. submissions'[s].status = "Disputed" /\ submissions'[s].challenged /\ TimesKept(s)
  BY <1>1 DEF Submission, TimesKept
<1>3. lifecycle' = lifecycle /\ \A t \in SubmissionIds \ {s} : submissions'[t] = submissions[t]
  BY DEF Challenge, TypeOK, verdictVars
<1>4. QED
  BY <1>1, <1>2, <1>3 DEF Settled, Still

LEMMA ResolveDisputeMoves ==
  ASSUME TypeOK, NEW caller, NEW s \in SubmissionIds, ResolveDispute(caller, s)
  PROVE  Settled(s) /\ \A t \in SubmissionIds \ {s} : Still(t)
<1>1. submissions[s].status = "Disputed" /\ submissions[s] \in Submission
  BY DEF ResolveDispute, TypeOK
<1>2. /\ \/ submissions'[s] = [submissions[s] EXCEPT !.status = "Invalid", !.payoutAmount = 0]
         \/ submissions'[s] = [submissions[s] EXCEPT !.status = "Verified", !.challengeBond = 0]
      /\ \A t \in SubmissionIds \ {s} : submissions'[t] = submissions[t]
  BY DEF ResolveDispute, Overturn, Uphold, TypeOK
<1>3. submissions'[s].status \in {"Verified", "Invalid"} /\ TimesKept(s) /\ FlagKept(s)
  BY <1>1, <1>2 DEF Submission, TimesKept, FlagKept
<1>4. lifecycle' = lifecycle
  BY DEF ResolveDispute, verdictVars
<1>5. QED
  BY <1>1, <1>2, <1>3, <1>4 DEF Settled, Still

LEMMA FinalizeMoves ==
  ASSUME TypeOK, NEW s \in SubmissionIds, Finalize(s)
  PROVE  Settled(s) /\ \A t \in SubmissionIds \ {s} : Still(t)
<1> DEFINE sub     == submissions[s]
           pool    == projects[sub.projectId].bountyPool + ForfeitedBond(sub)
           penalty == AffordablePenalty(sub, pool)
           settled == [sub EXCEPT !.payoutAmount = @ + penalty,
                                  !.challengeBond = @ - ForfeitedBond(sub)]
<1>1. sub \in Submission /\ projects[sub.projectId].bountyPool \in Nat
  BY ConfigType DEF Project
<1>2. ForfeitedBond(sub) \in Nat /\ sub.challengeBond - ForfeitedBond(sub) \in Nat
  BY <1>1 DEF ForfeitedBond, Submission
<1>3. penalty \in Nat
  BY <1>1, <1>2, TimeoutPenaltyIsNat DEF AffordablePenalty
<1>4. /\ ExecutePayout(s, settled, pool - penalty)
      /\ sub.status \in {"Verified", "Disputed"}
      /\ now > sub.disputeDeadline
      /\ lifecycle' = lifecycle
  BY DEF Finalize, DisputeWindowOver, verdictVars
<1>5. /\ settled \in Submission
      /\ settled.revealTimestamp = sub.revealTimestamp
      /\ settled.disputeDeadline = sub.disputeDeadline
      /\ settled.challenged = sub.challenged
  <2> HIDE DEF penalty
  <2>1. sub.payoutAmount + penalty \in Nat
    BY <1>1, <1>3 DEF Submission
  <2>2. QED
    BY <1>1, <1>2, <2>1 DEF Submission
<1> HIDE DEF settled, pool, penalty
<1>6. /\ submissions'[s].status = "Finalized"
      /\ submissions'[s].revealTimestamp = sub.revealTimestamp
      /\ submissions'[s].disputeDeadline = sub.disputeDeadline
      /\ submissions'[s].challenged = sub.challenged
      /\ \A t \in SubmissionIds \ {s} : submissions'[t] = submissions[t]
  BY <1>4, <1>5, PayoutRecord
<1>7. QED
  BY <1>4, <1>6 DEF Settled, TimesKept, FlagKept, Still

LEMMA CommitMoves ==
  ASSUME Inv, NEW a, NEW p, NEW h, Commit(a, p, h)
  PROVE  \A s \in SubmissionIds : Still(s) \/ Begun(s)
<1>1. TypeOK
  BY DEF Inv
<1>2. nextSubmissionId \in SubmissionIds
  BY <1>1, ConstantsAssumption DEF Commit, TypeOK, SubmissionIds
<1>3. submissions[nextSubmissionId].status = "Committed"
  BY <1>2 DEF Inv, StatusMatchesRecord, RecordOK, EmptySubmission, SubmissionIds
<1>4. /\ submissions[nextSubmissionId] \in Submission
      /\ submissions'[nextSubmissionId] = [submissions[nextSubmissionId] EXCEPT
           !.auditor = a, !.projectId = p, !.commitHash = h, !.status = "Committed"]
  BY <1>1, <1>2 DEF Commit, TypeOK
<1>5. lifecycle' = lifecycle /\ \A t \in SubmissionIds \ {nextSubmissionId} : submissions'[t] = submissions[t]
  BY <1>1 DEF Commit, TypeOK, verdictVars
<1>6. /\ submissions'[nextSubmissionId].status = "Committed"
      /\ TimesKept(nextSubmissionId) /\ FlagKept(nextSubmissionId)
  BY <1>4 DEF Submission, TimesKept, FlagKept
<1>7. QED
  BY <1>3, <1>5, <1>6 DEF Still, Begun

LEMMA RevealMoves ==
  ASSUME TypeOK, NEW a, NEW s \in SubmissionIds, NEW salt, Reveal(a, s, salt)
  PROVE  Opened(s) /\ \A t \in SubmissionIds \ {s} : Still(t)
<1>1. /\ submissions[s].status = "Committed" /\ submissions[s] \in Submission
      /\ submissions'[s] = [submissions[s] EXCEPT !.salt = salt, !.revealTimestamp = now, !.status = "Revealed"]
  BY DEF Reveal, TypeOK
<1>2. /\ submissions'[s].status = "Revealed" /\ submissions'[s].revealTimestamp = now
      /\ submissions'[s].disputeDeadline = submissions[s].disputeDeadline
      /\ FlagKept(s)
  BY <1>1 DEF Submission, FlagKept
<1>3. lifecycle' = lifecycle /\ \A t \in SubmissionIds \ {s} : submissions'[t] = submissions[t]
  BY DEF Reveal, TypeOK, verdictVars
<1>4. QED
  BY <1>1, <1>2, <1>3 DEF Opened, Still

\* Every transaction moves every case in one of these ways.
LEMMA EveryCaseMoves ==
  ASSUME Inv, [Next]_vars, NEW s \in SubmissionIds
  PROVE  CaseMoves(s)
<1>1. TypeOK
  BY DEF Inv
<1>2. ASSUME UNCHANGED <<submissions, lifecycle>>  PROVE CaseMoves(s)
  BY <1>2 DEF CaseMoves, Still
<1>3. ASSUME NEW t \in SubmissionIds, Opened(t) \/ Escalated(t) \/ Settled(t)
                \/ \E source \in {"Verification", "Jury", "Owner"} : Judged(t, source),
             \A u \in SubmissionIds \ {t} : Still(u)
      PROVE  CaseMoves(s)
  BY <1>3 DEF CaseMoves
<1>4. CASE UNCHANGED vars \/ Tick \/ AdminNext
  BY <1>2, <1>4 DEF vars, verdictVars, Tick, AdminNext, SetAuthorizedWorkflow,
     SetLegacyReportFallbackEnabled, RegisterProject, TopUpBounty
<1>5. CASE AuditorNext
  <2>1. CASE \/ \E g \in QueueSignatures : QueueRevealBySig(g)
             \/ \E a \in Auditors, t \in SubmissionIds : CancelQueuedReveal(a, t)
    BY <1>2, <2>1 DEF QueueRevealBySig, CancelQueuedReveal, verdictVars
  <2>2. ASSUME NEW a, NEW p, NEW h, Commit(a, p, h)  PROVE CaseMoves(s)
    BY <2>2, CommitMoves DEF CaseMoves
  <2>3. ASSUME NEW a, NEW t \in SubmissionIds, NEW salt, Reveal(a, t, salt)  PROVE CaseMoves(s)
    BY <1>1, <1>3, <2>3, RevealMoves
  <2>4. \A g \in RevealSignatures : g.submissionId \in SubmissionIds
    BY ConstantsAssumption DEF RevealSignature
  <2>5. CASE \/ \E a \in Auditors, p \in ProjectIds, h \in CommitHash : CommitPoC(a, p, h)
             \/ \E g \in CommitSignatures : CommitPoCBySig(g)
    BY <2>2, <2>5 DEF CommitPoC, CommitPoCBySig
  <2>6. CASE \/ \E a \in Auditors, t \in SubmissionIds, salt \in Salts : RevealPoC(a, t, salt)
             \/ \E g \in RevealSignatures : RevealPoCBySig(g)
             \/ \E t \in SubmissionIds : ExecuteQueuedReveal(t)
    BY <2>3, <2>4, <2>6 DEF RevealPoC, RevealPoCBySig, ExecuteQueuedReveal
  <2>7. QED
    BY <1>5, <2>1, <2>5, <2>6 DEF AuditorNext
<1>6. CASE ReportNext
  <2>1. ASSUME NEW t \in SubmissionIds, NEW source \in {"Verification", "Jury", "Owner"}, NEW v \in Verdict,
               NEW base, CommitFinalVerdict(t, source, v, base),
               \/ base = WithDerivedDeadlines(t)
               \/ source = "Verification" /\ base = lifecycle[t]
        PROVE  CaseMoves(s)
    BY <1>1, <1>3, <2>1, VerdictMoves
  <2>2. ASSUME NEW w, NEW t \in SubmissionIds, NEW next \in {"JuryPending", "AwaitingOwnerAdjudication"},
               ProcessAdjudicationTransition(w, t, next)
        PROVE  CaseMoves(s)
    BY <1>1, <1>3, <2>2, EscalationMoves
  <2>3. PICK w \in Reporters, t \in SubmissionIds :
          \/ \E v \in Verdict : CommitFinalVerdict(t, "Verification", v, lifecycle[t])
          \/ \E source \in {"Verification", "Jury", "Owner"}, v \in Verdict :
                CommitFinalVerdict(t, source, v, WithDerivedDeadlines(t))
          \/ \E next \in {"JuryPending", "AwaitingOwnerAdjudication"} :
                ProcessAdjudicationTransition(w, t, next)
    BY <1>6 DEF ReportNext, ProcessVerificationReport, ProcessTypedVerificationReport,
       ProcessFinalLifecycleReport
  <2>4. QED
    BY <2>1, <2>2, <2>3
<1>7. CASE SettlementNext
  <2>1. ASSUME NEW t \in SubmissionIds, NEW bond \in Bonds, Challenge(t, bond)  PROVE CaseMoves(s)
    BY <1>1, <1>3, <2>1, ChallengeMoves, ConstantsAssumption
  <2>2. ASSUME NEW t \in SubmissionIds, NEW o \in Owners, ResolveDispute(o, t)  PROVE CaseMoves(s)
    BY <1>1, <1>3, <2>2, ResolveDisputeMoves
  <2>3. ASSUME NEW t \in SubmissionIds, Finalize(t)  PROVE CaseMoves(s)
    BY <1>1, <1>3, <2>3, FinalizeMoves
  <2>4. QED
    BY <1>7, <2>1, <2>2, <2>3 DEF SettlementNext
<1>8. QED
  BY <1>4, <1>5, <1>6, <1>7 DEF Next

-----------------------------------------------------------------------------
(* The cases stay in order, and what has happened to one stays so *)

\* The rules of a case that has been opened stay.
LEMMA RulesOfOpened ==
  ASSUME Inv, [Next]_vars, NEW s \in SubmissionIds, submissions[s].status # "Committed"
  PROVE  ConfigOf(s)' = ConfigOf(s)
BY OpenedExists, SubmissionRulesStay

LEMMA CaseKept ==
  ASSUME Inv, ChallengesRecorded, [Next]_vars, NEW s \in SubmissionIds, CaseOK(s)
  PROVE  CaseOK(s)'
<1> USE DEF CaseOK
<1>1. TypeOK
  BY DEF Inv
<1>2. /\ now \in Nat /\ now' \in Nat /\ now' >= now /\ now > 0
      /\ submissions[s] \in Submission
  BY <1>1, NowGrows, ConfigType, ConstantsAssumption DEF TypeOK
<1>3. submissions[s].disputeDeadline \in Nat /\ submissions[s].revealTimestamp \in Nat
  BY <1>2 DEF Submission
<1>4. CASE submissions[s].status = "Committed" /\ (Still(s) \/ Begun(s) \/ Opened(s))
  <2>1. lifecycle'[s] = EmptyLifecycle /\ submissions'[s].status \in {"Committed", "Revealed"}
    BY <1>4 DEF Still, Begun, Opened
  <2>2. submissions'[s].status = "Committed" => submissions'[s].revealTimestamp = 0
    BY <1>4 DEF Still, Begun, Opened, TimesKept
  <2>3. submissions'[s].disputeDeadline = 0
    BY <1>4 DEF Still, Begun, Opened, TimesKept
  <2>4. QED
    BY <2>1, <2>2, <2>3 DEF ToJury, InAdjudication, EmptyLifecycle, InFlight
<1>5. ASSUME submissions[s].status # "Committed", Still(s) \/ Settled(s)  PROVE CaseOK(s)'
  <2>1. ConfigOf(s)' = ConfigOf(s) /\ lifecycle'[s] = lifecycle[s] /\ TimesKept(s)
    BY <1>5, RulesOfOpened DEF Still, Settled, TimesKept
  <2>2. Dated(s) => Dated(s)'
    BY <2>1 DEF Dated, TimesKept
  <2>3. CASE Still(s)
    <3>1. submissions'[s] = submissions[s]
      BY <2>3 DEF Still
    <3>2. submissions'[s].status = "Finalized" => now' > submissions'[s].disputeDeadline
      BY <1>2, <1>3, <3>1
    <3>3. ToJury(s)' <=> ToJury(s)
      BY <2>1, <3>1 DEF ToJury
    <3>4. QED
      BY <2>1, <2>2, <3>1, <3>2, <3>3 DEF InFlight
  <2>4. CASE Settled(s)
    <3>1. submissions'[s].status \in {"Verified", "Disputed", "Finalized", "Invalid"}
      BY <2>4 DEF Settled
    <3>2. submissions'[s].status = "Finalized" => now' > submissions'[s].disputeDeadline
      BY <1>2, <1>3, <2>1, <2>4 DEF Settled, TimesKept
    <3>3. submissions'[s].status = "Invalid" => submissions'[s].challenged
      BY <2>4 DEF Settled, FlagKept, ChallengesRecorded
    <3>4. ToJury(s)' => ToJury(s)
      BY <2>1, <3>1 DEF ToJury, InAdjudication
    <3>5. QED
      BY <2>1, <2>2, <3>1, <3>2, <3>3, <3>4 DEF InFlight
  <2>5. QED
    BY <1>5, <2>3, <2>4
<1>6. CASE Escalated(s)
  <2>1. ConfigOf(s)' = ConfigOf(s) /\ TimesKept(s) /\ DeadlinesSet(s)
        /\ submissions'[s].status \in InAdjudication /\ InFlight(s)
    BY <1>6, RulesOfOpened DEF Escalated, InAdjudication, InFlight
  <2>2. Dated(s)'
    BY <2>1 DEF Dated, DeadlinesSet, TimesKept
  <2>3. QED
    BY <1>6, <2>1, <2>2 DEF Escalated, TimesKept, InAdjudication
<1>7. ASSUME NEW source \in {"Verification", "Jury", "Owner"}, Judged(s, source)  PROVE CaseOK(s)'
  <2>1. /\ InFlight(s) /\ submissions[s].status # "Committed"
        /\ source = "Verification" => submissions[s].status = "Revealed"
    BY <1>7 DEF Judged, AwaitsVerdict, PendingStatus, InFlight
  <2>2. ConfigOf(s)' = ConfigOf(s) /\ submissions'[s].revealTimestamp = submissions[s].revealTimestamp
    BY <1>7, <2>1, RulesOfOpened DEF Judged
  <2>3. /\ lifecycle'[s].verdictSource = source
        /\ lifecycle'[s].finalValidity \in {"Valid", "Invalid"}
        /\ submissions'[s].status \in {"Verified", "Finalized", "Invalid"}
        /\ submissions'[s].status # "Verified" => submissions'[s].disputeDeadline = 0
    BY <1>7, <2>1 DEF Judged, TimesKept
  <2>4. DeadlinesSet(s) => Dated(s)'
    BY <2>2 DEF DeadlinesSet, Dated
  <2>5. (source = "Verification" /\ DeadlinesKept(s)) =>
          ~ToJury(s)' /\ lifecycle'[s].juryDeadline = 0 /\ lifecycle'[s].adjudicationDeadline = 0
    BY <2>1, <2>3 DEF DeadlinesKept, ToJury, InAdjudication, EmptyLifecycle
  <2>6. ToJury(s)' \/ lifecycle'[s].juryDeadline # 0 \/ lifecycle'[s].adjudicationDeadline # 0 => Dated(s)'
    BY <1>7, <2>4, <2>5 DEF Judged
  <2>7. now' > 0
    BY <1>2
  <2>8. QED
    BY <2>3, <2>6, <2>7 DEF InFlight
<1>8. CaseMoves(s)
  BY EveryCaseMoves
<1>9. QED
  BY <1>4, <1>5, <1>6, <1>7, <1>8 DEF CaseMoves, Begun, Opened, Settled

\* What has happened to a case and has been recorded of it stays.
LEMMA CaseForward ==
  ASSUME Inv, [Next]_vars, NEW s \in SubmissionIds, CaseOK(s)
  PROVE  /\ ToJury(s) => ToJury(s)' /\ ConfigOf(s)' = ConfigOf(s)
         /\ ToOwner(s) => ToOwner(s)'
         /\ submissions[s].status # "Committed" => submissions'[s].status # "Committed"
         /\ submissions[s].status \in {"Finalized", "Invalid"} =>
              submissions'[s].status = submissions[s].status
         /\ Accepted(s) => Accepted(s)'
         /\ submissions[s].challenged => submissions'[s].challenged
         /\ submissions[s].revealTimestamp # 0 =>
              submissions'[s].revealTimestamp = submissions[s].revealTimestamp
         /\ submissions[s].disputeDeadline # 0 =>
              submissions'[s].disputeDeadline = submissions[s].disputeDeadline
         /\ lifecycle[s].verdictSource # "None" =>
              lifecycle'[s].verdictSource = lifecycle[s].verdictSource
         /\ lifecycle[s].juryDeadline # 0 => lifecycle'[s].juryDeadline = lifecycle[s].juryDeadline
         /\ lifecycle[s].adjudicationDeadline # 0 =>
              lifecycle'[s].adjudicationDeadline = lifecycle[s].adjudicationDeadline
<1>1. CaseMoves(s)
  BY EveryCaseMoves
<1>2. VerdictKept
  BY NextInv, StepKeepsVerdict DEF Inv
<1>3. /\ lifecycle[s].verdictSource # "None" => lifecycle'[s] = lifecycle[s]
      /\ Accepted(s) => Accepted(s)'
      /\ submissions[s].status \in {"Finalized", "Invalid"} =>
           submissions'[s].status = submissions[s].status
  BY <1>2 DEF VerdictKept, CaseOK, Accepted
<1>4. submissions[s].challenged => submissions'[s].challenged
  BY <1>1 DEF CaseMoves, Still, Begun, Opened, Escalated, Settled, Judged, FlagKept
<1>5. submissions[s].revealTimestamp # 0 => submissions'[s].revealTimestamp = submissions[s].revealTimestamp
  BY <1>1 DEF CaseOK, CaseMoves, Still, Begun, Opened, Escalated, Settled, Judged, TimesKept
<1>6. ASSUME submissions[s].disputeDeadline # 0
      PROVE  submissions'[s].disputeDeadline = submissions[s].disputeDeadline
  <2>1. submissions[s].status \notin {"Committed", "Revealed", "JuryPending", "AwaitingOwnerAdjudication"}
    BY <1>6 DEF CaseOK, InFlight
  <2>2. QED
    BY <1>1, <2>1 DEF CaseMoves, Still, Begun, Opened, Escalated, Settled, Judged, TimesKept,
       AwaitsVerdict, PendingStatus
<1>7. ToJury(s) => submissions[s].status # "Committed"
  BY DEF ToJury, InAdjudication, CaseOK, EmptyLifecycle
<1>8. ToJury(s) => ToJury(s)'
  BY <1>1, <1>3 DEF ToJury, InAdjudication, CaseMoves, Still, Begun, Opened, Escalated, Settled, Judged,
     AwaitsVerdict, PendingStatus
<1>9. ToOwner(s) => ToOwner(s)'
  BY <1>1, <1>3 DEF ToOwner, CaseMoves, Still, Begun, Opened, Escalated, Settled, Judged,
     AwaitsVerdict, PendingStatus
<1>10. ASSUME lifecycle[s].juryDeadline # 0 \/ lifecycle[s].adjudicationDeadline # 0
       PROVE  DeadlinesKept(s)
  <2>1. Dated(s)
    BY <1>10 DEF CaseOK
  <2>2. DeadlinesSet(s) => DeadlinesKept(s)
    BY <2>1 DEF DeadlinesSet, DeadlinesKept, Dated
  <2>3. lifecycle'[s] = lifecycle[s] => DeadlinesKept(s)
    BY DEF DeadlinesKept
  <2>4. QED
    BY <1>1, <2>2, <2>3 DEF CaseMoves, Still, Begun, Opened, Escalated, Settled, Judged
<1>11. submissions[s].status # "Committed" => submissions'[s].status # "Committed"
  BY <1>1 DEF CaseMoves, Still, Begun, Opened, Escalated, Settled, Judged, AwaitsVerdict, PendingStatus
<1>12. QED
  BY <1>3, <1>4, <1>5, <1>6, <1>7, <1>8, <1>9, <1>10, <1>11, RulesOfOpened DEF DeadlinesKept

-----------------------------------------------------------------------------
(* What a page has read stays true of the case, however late it is looked at *)

LEMMA StatusForward ==
  ASSUME Inv, [Next]_vars, NEW s \in SubmissionIds, CaseOK(s), NEW status, StatusOK(status, s)
  PROVE  StatusOK(status, s)'
BY CaseForward DEF StatusOK

LEMMA PageForward ==
  ASSUME Inv, [Next]_vars, NEW s \in SubmissionIds, CaseOK(s), PageOK(s), page' = page
  PROVE  PageOK(s)'
<1> DEFINE p == page[s]
<1>1. ASSUME SeenOK(p.seen, s)  PROVE SeenOK(p.seen, s)'
  <2>1. StatusOK(p.seen.status, s)'
    BY <1>1, StatusForward DEF SeenOK
  <2>2. QED
    BY <1>1, <2>1, CaseForward DEF SeenOK
<1>2. ASSUME ViewOK(p.known, s)  PROVE ViewOK(p.known, s)'
  <2>1. StatusOK(p.known.status, s)'
    BY <1>2, StatusForward DEF ViewOK
  <2>2. QED
    BY <1>2, <2>1, CaseForward DEF ViewOK
<1>3. ASSUME DraftOK(p.draft, s)  PROVE DraftOK(p.draft, s)'
  BY <1>3, CaseForward DEF DraftOK
<1>4. now' >= now /\ now \in Nat /\ now' \in Nat /\ ClockLead \in Nat
  BY NowGrows, NextInv, PageAssumption DEF Inv, TypeOK
<1>5. QED
  BY <1>1, <1>2, <1>3, <1>4 DEF PageOK

\* A fresh answer says what the contract holds.
LEMMA FreshStatus ==
  ASSUME Inv, ChallengesRecorded, NEW s \in SubmissionIds
  PROVE  StatusOK(submissions[s].status, s)
<1>1. RecordOK(s) /\ submissions[s] \in Submission
  BY ConfigType DEF Inv, StatusMatchesRecord
<1>2. QED
  BY <1>1 DEF StatusOK, RecordOK, ChallengesRecorded, ToJury, ToOwner, Submission, InAdjudication

LEMMA FreshSeen ==
  ASSUME Inv, ChallengesRecorded, NEW s \in SubmissionIds
  PROVE  SeenOK(submissions[s], s)
BY FreshStatus, ConfigType DEF SeenOK, Inv

LEMMA FreshView ==
  ASSUME Inv, ChallengesRecorded, NEW s \in SubmissionIds, CaseOK(s)
  PROVE  ViewOK(LifecycleView(s), s)
BY FreshStatus DEF ViewOK, LifecycleView, CaseOK, EmptyLifecycle

\* What the page takes the status for is the status read with one of the two answers.
LEMMA ShownStatus ==
  ASSUME NEW s \in SubmissionIds, PageOK(s), page[s].seen # Unread
  PROVE  StatusOK(ActualStatus(page[s]), s)
BY DEF PageOK, SeenOK, ViewOK, ActualStatus

\* The source it shows is the one on record.
LEMMA SourceShown ==
  ASSUME NEW s \in SubmissionIds, PageOK(s)
  PROVE  ShownSource(page[s]) \in {"None", lifecycle[s].verdictSource}
BY DEF PageOK, ViewOK, ShownSource

\* A draft is put together from what was read.
LEMMA FreshDraft ==
  ASSUME NEW s \in SubmissionIds, PageOK(s), page[s].seen # Unread,
         NEW e, e = ManualJuryDraft(page[s], s), e # Unread
  PROVE  DraftOK(e, s)
<1> DEFINE p     == page[s]
           times == [juryWindow |-> IF p.hasProject THEN ConfigOf(s).juryWindow ELSE DefaultJuryWindow,
                     adjudicationWindow |-> IF p.hasProject THEN ConfigOf(s).adjudicationWindow
                                                           ELSE DefaultAdjudicationWindow,
                     committed |-> StartTime, revealed |-> p.seen.revealTimestamp]
           drain == IF p.seen.severity = "NONE" THEN 0 ELSE 1
<1>1. /\ ActualStatus(p) \in InAdjudication
      /\ e = Report!StrictFail(s, FALSE, drain, times, SeverityIndex[p.seen.severity], "NONE")
  BY DEF ManualJuryDraft
<1>2. ToJury(s)
  BY <1>1, ShownStatus DEF StatusOK
<1>3. times.revealed \in {0, submissions[s].revealTimestamp}
  BY DEF PageOK, SeenOK
<1>4. \/ times.juryWindow = DefaultJuryWindow
      \/ times.juryWindow = ConfigOf(s).juryWindow /\ times.adjudicationWindow = ConfigOf(s).adjudicationWindow
  OBVIOUS
<1> HIDE DEF times, drain
<1>5. /\ e.adjudication.revealTimestampSec = times.revealed
      /\ e.adjudication.juryWindow = times.juryWindow
      /\ e.adjudication.adjudicationWindow = times.adjudicationWindow
  BY <1>1 DEF Report!StrictFail, Report!Adjudication
<1>6. QED
  BY <1>2, <1>3, <1>4, <1>5 DEF DraftOK

\* Every step of a page leaves what it holds true of the case.
LEMMA PageStepKeeps ==
  ASSUME Inv, ChallengesRecorded, Cases, Pages, PageStep
  PROVE  Pages'
<1>1. PICK s \in SubmissionIds : \/ OpenPage(s) \/ ShowLifecycle(s) \/ ShowProject(s)
                                 \/ Mount(s) \/ Refresh(s) \/ Rerender(s)
  BY DEF PageStep
<1> DEFINE p == page[s]
<1>2. /\ page = [t \in SubmissionIds |-> page[t]] /\ PageOK(s) /\ IsPage(p) /\ CaseOK(s)
      /\ Unread \notin Submission
      /\ submissions[s] # Unread
  BY PageAssumption, ConfigType DEF Pages, PageOK, Cases, Inv
<1>3. UNCHANGED vars
  BY <1>1 DEF OpenPage, ShowLifecycle, ShowProject, Mount, Refresh, Rerender
<1>4. UNCHANGED <<submissions, lifecycle, projects, now>>
  BY <1>3 DEF vars, verdictVars
<1>5. /\ \A t : \A sub : SeenOK(sub, t)' <=> SeenOK(sub, t)
      /\ \A t : \A view : ViewOK(view, t)' <=> ViewOK(view, t)
      /\ \A t : \A e : DraftOK(e, t)' <=> DraftOK(e, t)
  BY <1>4 DEF SeenOK, ViewOK, DraftOK, StatusOK, ToJury, ToOwner, Accepted, ConfigOf
<1>6. ASSUME NEW q, Renders(s, q), IsPage(q),
             q.seen # Unread => SeenOK(q.seen, s),
             q.known # Unread \/ q.hasLifecycle => ViewOK(q.known, s),
             q.mounted => q.seen # Unread,
             q.draft # Unread => DraftOK(q.draft, s)
      PROVE  Pages'
  <2>1. PICK clock \in (now - ClockLag) .. (now + ClockLead) :
          page' = [page EXCEPT ![s] = [q EXCEPT !.rendered = clock]]
    BY <1>6 DEF Renders
  <2> DEFINE r == [q EXCEPT !.rendered = clock]
  <2>2. /\ IsPage(r) /\ r.rendered = clock /\ r.seen = q.seen /\ r.known = q.known
        /\ r.hasLifecycle = q.hasLifecycle /\ r.mounted = q.mounted /\ r.draft = q.draft
    BY <1>6 DEF IsPage, PageFields
  <2>3. clock \in Int /\ clock <= now + ClockLead
    BY <2>1, PageAssumption DEF Inv, TypeOK
  <2>4. page' = [page EXCEPT ![s] = r]
    BY <2>1
  <2> HIDE DEF r
  <2>5. page'[s] = r /\ page' = [t \in SubmissionIds |-> page'[t]]
        /\ \A t \in SubmissionIds \ {s} : page'[t] = page[t]
    BY <1>2, <2>4
  <2>6. PageOK(s)'
    BY <1>4, <1>5, <1>6, <2>2, <2>3, <2>5 DEF PageOK
  <2>7. ASSUME NEW t \in SubmissionIds \ {s}  PROVE PageOK(t)'
    <3>1. PageOK(t) /\ page'[t] = page[t]
      BY <2>5 DEF Pages
    <3>2. QED
      BY <1>4, <1>5, <3>1 DEF PageOK
  <2>8. QED
    BY <2>5, <2>6, <2>7 DEF Pages
<1>7. CASE OpenPage(s)
  <2>1. PICK sub \in Answers(submissions[s], p.seen) :
          Renders(s, [NoPage EXCEPT !.seen = sub, !.known = p.known])
    BY <1>7 DEF OpenPage
  <2> DEFINE q == [NoPage EXCEPT !.seen = sub, !.known = p.known]
  <2>2. /\ IsPage(q) /\ q.seen = sub /\ q.known = p.known /\ ~q.hasLifecycle
        /\ ~q.mounted /\ q.draft = Unread
    BY DEF NoPage, IsPage, PageFields
  <2>3. SeenOK(sub, s)
    BY <1>2, FreshSeen DEF Answers, PageOK
  <2>4. Renders(s, q)
    BY <2>1
  <2> HIDE DEF q
  <2>5. QED
    BY <1>2, <1>6, <2>2, <2>3, <2>4 DEF PageOK
<1>8. CASE ShowLifecycle(s)
  <2>1. PICK view \in Answers(LifecycleView(s), p.known) :
          Renders(s, [p EXCEPT !.known = view, !.hasLifecycle = TRUE])
    BY <1>8 DEF ShowLifecycle
  <2>2. ViewOK(view, s)
    BY <1>2, FreshView DEF Answers, PageOK
  <2> DEFINE q == [p EXCEPT !.known = view, !.hasLifecycle = TRUE]
  <2>3. Renders(s, q)
    BY <2>1
  <2>4. /\ IsPage(q) /\ q.seen = p.seen /\ q.known = view /\ q.hasLifecycle
        /\ q.mounted = p.mounted /\ q.draft = p.draft
    BY <1>2 DEF IsPage, PageFields
  <2> HIDE DEF q
  <2>5. QED
    BY <1>2, <1>6, <2>2, <2>3, <2>4 DEF PageOK
<1>9. CASE ShowProject(s)
  <2> DEFINE q == [p EXCEPT !.hasProject = TRUE]
  <2>1. Renders(s, q)
    BY <1>9 DEF ShowProject
  <2>2. /\ IsPage(q) /\ q.seen = p.seen /\ q.known = p.known /\ q.hasLifecycle = p.hasLifecycle
        /\ q.mounted = p.mounted /\ q.draft = p.draft
    BY <1>2 DEF IsPage, PageFields
  <2> HIDE DEF q
  <2>3. QED
    BY <1>2, <1>6, <2>1, <2>2 DEF PageOK
<1>10. CASE Mount(s)
  <2> DEFINE d == ViewModel(p, s).manualJury
             q == [p EXCEPT !.mounted = TRUE, !.draft = d]
  <2>1. Renders(s, q) /\ p.seen # Unread
    BY <1>10 DEF Mount
  <2>2. d = ManualJuryDraft(p, s)
    BY DEF ViewModel
  <2> HIDE DEF d
  <2>3. /\ IsPage(q) /\ q.seen = p.seen /\ q.known = p.known /\ q.hasLifecycle = p.hasLifecycle
        /\ q.mounted /\ q.draft = d
    BY <1>2 DEF IsPage, PageFields
  <2>4. d # Unread => DraftOK(d, s)
    BY <1>2, <2>1, <2>2, FreshDraft
  <2> HIDE DEF q
  <2>5. QED
    BY <1>2, <1>6, <2>1, <2>3, <2>4 DEF PageOK
<1>11. CASE Refresh(s)
  <2> DEFINE q == [p EXCEPT !.seen = submissions[s], !.known = Unread, !.hasLifecycle = FALSE]
  <2>1. Renders(s, q)
    BY <1>11 DEF Refresh
  <2>2. /\ IsPage(q) /\ q.seen = submissions[s] /\ q.known = Unread /\ ~q.hasLifecycle
        /\ q.mounted = p.mounted /\ q.draft = p.draft
    BY <1>2 DEF IsPage, PageFields
  <2> HIDE DEF q
  <2>3. QED
    BY <1>2, <1>6, <2>1, <2>2, FreshSeen DEF PageOK
<1>12. CASE Rerender(s)
  BY <1>2, <1>6, <1>12 DEF Rerender, PageOK
<1>13. QED
  BY <1>1, <1>7, <1>8, <1>9, <1>10, <1>11, <1>12

-----------------------------------------------------------------------------
(* What the page shows and offers *)

\* A case that was accepted, or came before the jury, has been opened, and may be settled.
LEMMA WhereACaseStands ==
  ASSUME Inv, NEW s \in SubmissionIds, CaseOK(s)
  PROVE  /\ Accepted(s) => submissions[s].status \in {"Verified", "Disputed", "Finalized", "Invalid"}
         /\ ToJury(s) => /\ submissions[s].status \notin {"Committed", "Revealed"}
                         /\ lifecycle[s].juryDeadline > 0
<1>1. RecordOK(s) /\ submissions[s] \in Submission /\ ConfigOf(s) \in Config
  BY ConfigType DEF Inv, StatusMatchesRecord
<1>2. Accepted(s) => submissions[s].status \in {"Verified", "Disputed", "Finalized", "Invalid"}
  BY <1>1 DEF RecordOK, Accepted, InFlight, Submission, SubmissionStatus
<1>3. ASSUME ToJury(s)
      PROVE  submissions[s].status \notin {"Committed", "Revealed"} /\ lifecycle[s].juryDeadline > 0
  <2>1. submissions[s].status \notin {"Committed", "Revealed"}
    BY <1>3 DEF CaseOK, ToJury, InAdjudication, EmptyLifecycle
  <2>2. /\ submissions[s].revealTimestamp \in Nat /\ submissions[s].revealTimestamp > 0
        /\ ConfigOf(s).juryWindow \in Nat
    BY <1>1, <2>1 DEF RecordOK, Submission, Config
  <2>3. lifecycle[s].juryDeadline = submissions[s].revealTimestamp + ConfigOf(s).juryWindow
    BY <1>3 DEF CaseOK, Dated
  <2>4. QED
    BY <2>1, <2>2, <2>3
<1>4. QED
  BY <1>2, <1>3

LEMMA OffersFollow ==
  ASSUME Inv, ChallengesRecorded, NEW s \in SubmissionIds, CaseOK(s), PageOK(s), page[s].mounted
  PROVE  OffersRight(s)
<1> DEFINE p   == page[s]
           sub == submissions[s]
<1>1. /\ now \in Nat /\ now > 0 /\ ClockLead \in Nat /\ sub.disputeDeadline \in Nat
      /\ p.rendered \in Int /\ p.rendered <= now + ClockLead
      /\ SeenOK(p.seen, s) /\ StatusOK(ActualStatus(p), s)
  BY ConfigType, ConstantsAssumption, PageAssumption, ShownStatus DEF Inv, TypeOK, Submission, PageOK
<1>2. p.seen.disputeDeadline > 0 => sub.disputeDeadline = p.seen.disputeDeadline
  BY <1>1 DEF SeenOK
<1>3. ActualStatus(p) \in {"Verified", "Disputed"} =>
        sub.status \in {"Verified", "Disputed", "Finalized", "Invalid"}
  BY <1>1, WhereACaseStands DEF StatusOK
<1>4. OffersFinalize(p) =>
        \/ sub.status \in {"Verified", "Disputed"} /\ now + ClockLead > sub.disputeDeadline
        \/ sub.status \in {"Finalized", "Invalid"}
  BY <1>1, <1>2, <1>3 DEF OffersFinalize, DisputeWindowClosed
<1>5. ASSUME OffersChallenge(p)
      PROVE  \/ sub.challenged
             \/ sub.status = "Verified"
             \/ sub.status = "Finalized" /\ now > sub.disputeDeadline
  <2>1. sub.status \in {"Verified", "Disputed", "Finalized", "Invalid"}
    BY <1>3, <1>5 DEF OffersChallenge
  <2>2. sub.disputeDeadline > 0
    BY <1>2, <1>5 DEF OffersChallenge, DisputeWindowOpen
  <2>3. sub.status = "Finalized" => now > sub.disputeDeadline
    BY <1>1, <2>2 DEF CaseOK
  <2>4. sub.status \in {"Disputed", "Invalid"} => sub.challenged
    BY <2>2 DEF CaseOK, ChallengesRecorded
  <2>5. QED
    BY <2>1, <2>3, <2>4
<1>6. OffersResolve(p) => sub.challenged
  BY <1>1 DEF OffersResolve, SeenOK
<1>7. QED
  BY <1>4, <1>5, <1>6 DEF OffersRight

LEMMA StagesFollow ==
  ASSUME Inv, NEW s \in SubmissionIds, CaseOK(s), PageOK(s), page[s].mounted
  PROVE  StagesTrue(s)
<1> DEFINE p      == page[s]
           view   == ViewModel(p, s)
           nodes  == view.nodes
           cards  == view.cards
           record == lifecycle[s]
           status == ActualStatus(p)
           source == ShownSource(p)
<1>1. StatusOK(status, s) /\ source \in {"None", record.verdictSource}
  BY ShownStatus, SourceShown DEF PageOK
<1>2. source \in VerdictSource
  BY <1>1 DEF Inv, TypeOK, SubmissionLifecycle, VerdictSource
<1>3. /\ view.headline = Headline(p) /\ view.juryAggregate = JuryAggregate(p)
      /\ view.autoReveal = OffersAutoReveal(p) /\ view.owner = OwnerDraft(p)
      /\ nodes.verifyPoc = VerifyStage(p) /\ nodes.jury = JuryStage(p)
      /\ nodes.owner = OwnerStage(p) /\ nodes.writeBack = WriteBackNode(p)
      /\ cards.verification = IF status \in InAdjudication THEN "moved on"
                              ELSE IF source = "Verification" THEN "settled" ELSE "idle"
      /\ cards.owner = IF status = "AwaitingOwnerAdjudication" THEN "open"
                       ELSE IF source = "Owner" THEN "settled" ELSE "idle"
      /\ cards.final = IF source # "None" THEN "packaged" ELSE "idle"
      /\ view.stages.revealed = IF status # "Committed" THEN "completed" ELSE "active"
      /\ view.stages.final = FinalStage(p)
  BY DEF ViewModel, NodeStatuses, Stages, Cards
<1> HIDE DEF view
<1>4. /\ JuryStage(p) \in {"active", "completed"} =>
           status \in InAdjudication \/ source \in {"Jury", "Owner"}
      /\ JuryStage(p) = "skipped" => source = "Verification"
      /\ OwnerStage(p) \in {"active", "completed"} =>
           status = "AwaitingOwnerAdjudication" \/ source = "Owner"
      /\ OwnerStage(p) = "skipped" => source \in {"Verification", "Jury"}
  BY <1>2 DEF JuryStage, OwnerStage, InAdjudication, VerdictSource
<1>5. /\ WriteBackNode(p) = "completed" => source # "None"
      /\ WriteBackNode(p) = "active" =>
           status \notin {"Committed", "Revealed", "JuryPending", "AwaitingOwnerAdjudication"}
      /\ VerifyStage(p) = "completed" => status \notin {"Committed", "Revealed"}
  BY DEF WriteBackNode, VerifyStage, InAdjudication
<1>6. /\ Headline(p) = "verification decided" => source = "Verification"
      /\ Headline(p) = "jury decided" => source = "Jury"
      /\ Headline(p) = "owner decided" => source = "Owner"
      /\ Headline(p) = "in verification" => status = "Revealed"
      /\ Headline(p) = "jury is open" => status = "JuryPending"
      /\ Headline(p) = "owner is asked" => status = "AwaitingOwnerAdjudication"
      /\ Headline(p) = "disputed" => status = "Disputed"
      /\ Headline(p) = "invalid" => status = "Invalid"
  <2> DEFINE told == [None |-> "final", Verification |-> "verification decided",
                      Jury |-> "jury decided", Owner |-> "owner decided"]
  <2>1. \/ Headline(p) = "in verification" /\ status = "Revealed"
        \/ Headline(p) = "jury is open" /\ status = "JuryPending"
        \/ Headline(p) = "owner is asked" /\ status = "AwaitingOwnerAdjudication"
        \/ Headline(p) = "disputed" /\ status = "Disputed"
        \/ Headline(p) = "invalid" /\ status = "Invalid"
        \/ Headline(p) = told[source]
    BY DEF Headline
  <2>2. /\ told["None"] = "final" /\ told["Verification"] = "verification decided"
        /\ told["Jury"] = "jury decided" /\ told["Owner"] = "owner decided"
    OBVIOUS
  <2> HIDE DEF told
  <2>3. QED
    BY ONLY <1>2, <2>1, <2>2 DEF VerdictSource
<1>7. /\ Timeline(p) \cap {"Finalized", "Invalid"} \subseteq {status} \cap {"Finalized", "Invalid"}
      /\ "Verified" \in Timeline(p) => status \in {"Verified", "Finalized"}
  BY DEF Timeline
<1>8. source \in {"Jury", "Owner"} \/ status \in InAdjudication => ToJury(s)
  BY <1>1 DEF ToJury, StatusOK
<1>9. nodes.jury \in {"active", "completed"} => record.juryDeadline > 0
  BY <1>3, <1>4, <1>8, WhereACaseStands
<1>10. nodes.owner \in {"active", "completed"} =>
         submissions[s].status = "AwaitingOwnerAdjudication" \/ record.verdictSource = "Owner"
  BY <1>1, <1>3, <1>4 DEF StatusOK, ToOwner
<1>11. nodes.verifyPoc = "completed" => submissions[s].status \notin {"Committed", "Revealed"}
  BY <1>1, <1>3, <1>5, <1>8, WhereACaseStands DEF StatusOK, InAdjudication, SubmissionStatus
<1>12. Timeline(p) \cap {"Finalized", "Invalid"} \subseteq {submissions[s].status}
  BY <1>1, <1>7 DEF StatusOK
<1>13. "Verified" \in Timeline(p) => record.finalValidity = "Valid"
  BY <1>1, <1>7 DEF StatusOK, Accepted
<1>14. view.headline = "disputed" => submissions[s].challenged
  BY <1>1, <1>3, <1>6 DEF StatusOK
<1>15. /\ ShownDeadlines(p).jury \in {0, record.juryDeadline}
       /\ ShownDeadlines(p).owner \in {0, record.adjudicationDeadline}
  BY DEF ShownDeadlines, PageOK, ViewOK
<1>16. /\ view.juryAggregate # Unread => view.juryAggregate.deadline \in {0, record.juryDeadline}
       /\ view.owner # Unread => view.owner.deadline \in {0, record.adjudicationDeadline}
  <2>1. /\ JuryAggregate(p) # Unread => JuryAggregate(p).deadline = ShownDeadlines(p).jury
        /\ OwnerDraft(p) # Unread => OwnerDraft(p).deadline = ShownDeadlines(p).owner
    BY DEF JuryAggregate, OwnerDraft
  <2>2. view.juryAggregate = JuryAggregate(p) /\ view.owner = OwnerDraft(p)
    BY <1>3
  <2>3. QED
    BY <1>15, <2>1, <2>2
<1>17. ASSUME OffersAutoReveal(p)  PROVE JuryAggregate(p) = Unread /\ WriteBackNode(p) = "upcoming"
  <2>1. status = "Committed"
    BY <1>17 DEF OffersAutoReveal
  <2>2. source = "None"
    BY <2>1 DEF ActualStatus, ShownSource, PageOK, ViewOK
  <2>3. QED
    BY <2>1, <2>2 DEF JuryAggregate, WriteBackNode, InAdjudication
<1>18. /\ nodes.jury = "skipped" => record.verdictSource = "Verification"
       /\ nodes.owner = "skipped" => record.verdictSource \in {"Verification", "Jury"}
       /\ nodes.writeBack = "completed" => record.verdictSource # "None"
       /\ view.headline = "verification decided" => record.verdictSource = "Verification"
       /\ view.headline = "jury decided" => record.verdictSource = "Jury"
       /\ view.headline = "owner decided" => record.verdictSource = "Owner"
  BY <1>1, <1>3, <1>4, <1>5, <1>6
<1>19. view.autoReveal => view.juryAggregate = Unread /\ nodes.writeBack = "upcoming"
  BY <1>3, <1>17
<1>20. ASSUME nodes.writeBack = "active"  PROVE record.verdictSource # "None"
  <2>1. status \in {"Verified", "Disputed", "Finalized", "Invalid"}
    BY <1>1, <1>3, <1>5, <1>20 DEF StatusOK, SubmissionStatus
  <2>2. status # "Invalid" => record.finalValidity = "Valid"
    BY <1>1, <2>1 DEF StatusOK, Accepted
  <2>3. status = "Invalid" => submissions[s].status = "Invalid"
    BY <1>1 DEF StatusOK
  <2>4. QED
    BY <2>1, <2>2, <2>3 DEF CaseOK, Inv, StatusMatchesRecord, RecordOK, InFlight
<1>21. /\ view.stages.revealed = "completed" => submissions[s].status # "Committed"
       /\ view.headline = "in verification" => submissions[s].status # "Committed"
       /\ view.headline = "invalid" => submissions[s].status = "Invalid"
  BY <1>1, <1>3, <1>6 DEF StatusOK
<1>22. /\ view.stages.final = "upcoming" => record.juryDeadline > 0
       /\ view.headline = "jury is open" => record.juryDeadline > 0
       /\ cards.verification = "moved on" => record.juryDeadline > 0
  <2>1. /\ FinalStage(p) = "upcoming" => status \in InAdjudication
        /\ cards.verification = "moved on" => status \in InAdjudication
    BY ONLY <1>3 DEF FinalStage
  <2>2. view.headline = "jury is open" => status \in InAdjudication
    BY <1>3, <1>6 DEF InAdjudication
  <2>3. status \in InAdjudication => record.juryDeadline > 0
    BY <1>8, WhereACaseStands
  <2>4. QED
    BY <1>3, <2>1, <2>2, <2>3
<1>23. view.headline = "owner is asked" =>
         submissions[s].status = "AwaitingOwnerAdjudication" \/ record.verdictSource = "Owner"
  BY <1>1, <1>3, <1>6 DEF StatusOK, ToOwner
<1>24. /\ cards.verification = "settled" => record.verdictSource = "Verification"
       /\ cards.owner = "settled" => record.verdictSource = "Owner"
       /\ cards.final = "packaged" => record.verdictSource # "None"
  <2>1. /\ cards.verification = "settled" => source = "Verification"
        /\ cards.owner = "settled" => source = "Owner"
        /\ cards.final = "packaged" => source # "None"
    BY ONLY <1>3
  <2>2. QED
    BY <1>1, <2>1
<1>25. QED
  BY <1>9, <1>10, <1>11, <1>12, <1>13, <1>14, <1>16, <1>18, <1>19, <1>20, <1>21, <1>22, <1>23, <1>24
  DEF StagesTrue, view

LEMMA DraftsFollow ==
  ASSUME Inv, NEW s \in SubmissionIds, CaseOK(s), PageOK(s),
         NEW e, e = page[s].draft, e # Unread, Report!OpensCase(e)
  PROVE  /\ e.adjudication.revealTimestampSec = submissions[s].revealTimestamp
         /\ \/ e.adjudication.juryWindow = DefaultJuryWindow
            \/ Report!Deadlines(e) = [jury |-> lifecycle[s].juryDeadline,
                                      adjudication |-> lifecycle[s].adjudicationDeadline]
<1>1. DraftOK(e, s) /\ Dated(s)
  BY DEF PageOK, DraftOK, CaseOK
<1>2. e.adjudication.revealTimestampSec # 0
  BY DEF Report!OpensCase, Report!JuryReads, Report!JuryReadsAdjudication, Report!Positive
<1>3. e.adjudication.revealTimestampSec = submissions[s].revealTimestamp
  BY <1>1, <1>2 DEF DraftOK
<1>4. ASSUME e.adjudication.juryWindow = ConfigOf(s).juryWindow,
             e.adjudication.adjudicationWindow = ConfigOf(s).adjudicationWindow
      PROVE  Report!Deadlines(e) = [jury |-> lifecycle[s].juryDeadline,
                                    adjudication |-> lifecycle[s].adjudicationDeadline]
  BY <1>1, <1>3, <1>4 DEF Report!Deadlines, Dated
<1>5. QED
  BY <1>1, <1>3, <1>4 DEF DraftOK

-----------------------------------------------------------------------------
(* The pages beside the contract *)

PageInv == Inv /\ ChallengesRecorded /\ Cases /\ Pages

LEMMA InitPageInv == PageInit => PageInv
<1> SUFFICES ASSUME PageInit  PROVE PageInv
  OBVIOUS
<1>1. Inv
  BY InitInv DEF PageInit
<1>2. ChallengesRecorded
  BY DEF PageInit, Init, ChallengesRecorded, EmptySubmission
<1>3. Cases
  BY DEF PageInit, Init, Cases, CaseOK, EmptySubmission, EmptyLifecycle, ToJury, InAdjudication, InFlight
<1>4. Pages
  <2>1. /\ NoPage = [f \in PageFields |-> NoPage[f]]
        /\ {NoPage.hasLifecycle, NoPage.hasProject, NoPage.mounted} \subseteq BOOLEAN
        /\ NoPage.seen = Unread /\ NoPage.known = Unread /\ ~NoPage.hasLifecycle
        /\ ~NoPage.mounted /\ NoPage.draft = Unread /\ NoPage.rendered = 0
    BY DEF NoPage, PageFields
  <2>2. now \in Nat /\ ClockLead \in Nat
    BY PageAssumption, ConstantsAssumption DEF PageInit, Init
  <2>3. page = [s \in SubmissionIds |-> NoPage]
    BY DEF PageInit
  <2> HIDE DEF NoPage
  <2>4. QED
    BY <2>1, <2>2, <2>3 DEF Pages, PageOK, IsPage
<1>5. QED
  BY <1>1, <1>2, <1>3, <1>4 DEF PageInv

LEMMA NextPageInv == PageInv /\ [PageNext]_pageVars => PageInv'
<1> SUFFICES ASSUME PageInv, [PageNext]_pageVars  PROVE PageInv'
  OBVIOUS
<1> USE DEF PageInv
<1>1. [Next]_vars /\ (page' = page \/ PageStep)
  BY DEF PageNext, PageStep, pageVars, OpenPage, ShowLifecycle, ShowProject, Mount, Refresh,
     Rerender
<1>2. Inv' /\ ChallengesRecorded'
  BY <1>1, NextInv, EveryStepHasAStage, NextChallenges
<1>3. Cases'
  BY <1>1, CaseKept DEF Cases
<1>4. ASSUME page' = page  PROVE Pages'
  BY <1>1, <1>4, PageForward DEF Pages, Cases
<1>5. QED
  BY <1>1, <1>2, <1>3, <1>4, PageStepKeeps

LEMMA PagesRight == PageInv => OffersFollowTheCase /\ StagesNeverLie /\ DraftDatesTheCase
<1> SUFFICES ASSUME PageInv  PROVE OffersFollowTheCase /\ StagesNeverLie /\ DraftDatesTheCase
  OBVIOUS
<1>1. Inv /\ ChallengesRecorded /\ \A s \in SubmissionIds : CaseOK(s) /\ PageOK(s)
  BY DEF PageInv, Cases, Pages
<1>2. OffersFollowTheCase
  BY <1>1, OffersFollow DEF OffersFollowTheCase, Shown
<1>3. StagesNeverLie
  BY <1>1, StagesFollow DEF StagesNeverLie, Shown
<1>4. DraftDatesTheCase
  BY <1>1, DraftsFollow DEF DraftDatesTheCase
<1>5. QED
  BY <1>2, <1>3, <1>4

(* However old the reads of a page are, and in whichever order they were   *)
(* answered, what it offers is accepted by the contract or has been done.  *)
THEOREM OffersFollowTheCaseAlways == PageSpec => []OffersFollowTheCase
  BY InitPageInv, NextPageInv, PagesRight, PTL DEF PageSpec

(* Nothing is shown as reached, passed over or settled that is not, and a  *)
(* deadline the page shows is the one on record.                           *)
THEOREM StagesNeverLieAlways == PageSpec => []StagesNeverLie
  BY InitPageInv, NextPageInv, PagesRight, PTL DEF PageSpec

(* A drafted report that opens a jury case counts from the reveal and sets *)
(* the deadlines on record, unless its windows are the page's guess.       *)
THEOREM DraftDatesTheCaseAlways == PageSpec => []DraftDatesTheCase
  BY InitPageInv, NextPageInv, PagesRight, PTL DEF PageSpec

-----------------------------------------------------------------------------
(***************************************************************************)
(* Solvency.  A change of one pool or one bond changes the sum of all by   *)
(* the same difference, so every transaction adds to the balance at least  *)
(* what it adds to the pools and the bonds.                                *)
(***************************************************************************)

\* The pool of every project, and the bond at stake on every submission
Pools  == [p \in ProjectIds |-> projects[p].bountyPool]
AtStake(sub) == IF sub.status = "Disputed" THEN sub.challengeBond ELSE 0
Stakes == [s \in SubmissionIds |-> AtStake(submissions[s])]

\* Solvent, over sums of functions
Covered == balance >= Total(Pools, ProjectIds) + Total(Stakes, SubmissionIds)

LEMMA CoveredIsSolvent == Covered <=> Solvent
<1>1. BountyPools = (CHOOSE g : g = [s \in SUBSET ProjectIds |->
                       IF s = {} THEN 0 ELSE projects[Pick(s)].bountyPool + g[s \ {Pick(s)}]])[ProjectIds]
  BY DEF BountyPools, MapThenSumSet, MapThenFoldSet, Pick
<1>2. OpenBonds = (CHOOSE g : g = [s \in SUBSET SubmissionIds |->
                       IF s = {} THEN 0 ELSE AtStake(submissions[Pick(s)]) + g[s \ {Pick(s)}]])[SubmissionIds]
  BY DEF OpenBonds, MapThenSumSet, MapThenFoldSet, Pick, AtStake
<1>3. IsFiniteSet(ProjectIds) /\ IsFiniteSet(SubmissionIds)
  BY ConstantsAssumption, FS_Interval DEF ProjectIds, SubmissionIds
<1>4. BountyPools = Total(Pools, ProjectIds)
  <2> DEFINE Adds(g) == g = [s \in SUBSET ProjectIds |->
                       IF s = {} THEN 0 ELSE projects[Pick(s)].bountyPool + g[s \ {Pick(s)}]]
  <2>1. ASSUME NEW g  PROVE Adds(g) <=> IsSum(g, Pools, ProjectIds)
    <3>1. ASSUME NEW s \in SUBSET ProjectIds, s # {}
          PROVE  Pools[Pick(s)] = projects[Pick(s)].bountyPool
      BY <3>1, PickIn DEF Pools
    <3>2. QED
      BY <3>1 DEF IsSum
  <2>2. Adds(SumOf(Pools, ProjectIds))
    BY <1>3, <2>1, SumExists
  <2>3. IsSum(CHOOSE g : Adds(g), Pools, ProjectIds)
    <3> HIDE DEF Adds
    <3> QED  BY <2>1, <2>2
  <2>4. QED
    BY <1>1, <1>3, <2>3, SumExists, SumsAgree DEF Total
<1>5. OpenBonds = Total(Stakes, SubmissionIds)
  <2> DEFINE Adds(g) == g = [s \in SUBSET SubmissionIds |->
                       IF s = {} THEN 0 ELSE AtStake(submissions[Pick(s)]) + g[s \ {Pick(s)}]]
  <2>1. ASSUME NEW g  PROVE Adds(g) <=> IsSum(g, Stakes, SubmissionIds)
    <3>1. ASSUME NEW s \in SUBSET SubmissionIds, s # {}
          PROVE  Stakes[Pick(s)] = AtStake(submissions[Pick(s)])
      BY <3>1, PickIn DEF Stakes
    <3>2. QED
      BY <3>1 DEF IsSum
  <2>2. Adds(SumOf(Stakes, SubmissionIds))
    BY <1>3, <2>1, SumExists
  <2>3. IsSum(CHOOSE g : Adds(g), Stakes, SubmissionIds)
    <3> HIDE DEF Adds
    <3> QED  BY <2>1, <2>2
  <2>4. QED
    BY <1>2, <1>3, <2>3, SumExists, SumsAgree DEF Total
<1>6. QED
  BY <1>4, <1>5 DEF Covered, Solvent

OnlyPool(p)  == \A q \in ProjectIds \ {p} : Pools'[q] = Pools[q]
OnlyStake(s) == \A t \in SubmissionIds \ {s} : Stakes'[t] = Stakes[t]

\* A step that adds to the balance at least what it adds to one pool and one stake
LedgerStep ==
  \/ /\ Stakes' = Stakes
     /\ \E p \in ProjectIds : OnlyPool(p) /\ balance' + Pools[p] >= balance + Pools'[p]
  \/ \E s \in SubmissionIds, p \in ProjectIds :
       /\ OnlyPool(p) /\ OnlyStake(s)
       /\ balance' + Pools[p] + Stakes[s] >= balance + Pools'[p] + Stakes'[s]

\* What is held and what is owed are amounts.
LEMMA LedgerTypes ==
  ASSUME TypeOK
  PROVE  Pools \in [ProjectIds -> Nat] /\ Stakes \in [SubmissionIds -> Nat] /\ balance \in Nat
BY DEF TypeOK, Pools, Stakes, AtStake, Project, Submission

LEMMA LedgerTypesNext ==
  ASSUME TypeOK'
  PROVE  Pools' \in [ProjectIds -> Nat] /\ Stakes' \in [SubmissionIds -> Nat] /\ balance' \in Nat
BY DEF TypeOK, Pools, Stakes, AtStake, Project, Submission

\* The totals move by what the pool and the stake of the step move by.
LEMMA LedgerKeepsCover ==
  ASSUME TypeOK, TypeOK', Covered, LedgerStep
  PROVE  Covered'
<1> DEFINE P  == Total(Pools, ProjectIds)
           Q  == Total(Pools', ProjectIds)
           B  == Total(Stakes, SubmissionIds)
           C  == Total(Stakes', SubmissionIds)
<1>1. IsFiniteSet(ProjectIds) /\ IsFiniteSet(SubmissionIds)
  BY ConstantsAssumption, FS_Interval DEF ProjectIds, SubmissionIds
<1>2. /\ Pools \in [ProjectIds -> Nat] /\ Pools' \in [ProjectIds -> Nat]
      /\ Stakes \in [SubmissionIds -> Nat] /\ Stakes' \in [SubmissionIds -> Nat]
      /\ balance \in Nat /\ balance' \in Nat
  BY LedgerTypes, LedgerTypesNext
<1>3. P \in Nat /\ Q \in Nat /\ B \in Nat /\ C \in Nat /\ balance >= P + B
  BY <1>1, <1>2, TotalIsNat DEF Covered
<1>4. ASSUME NEW p \in ProjectIds, OnlyPool(p)  PROVE Q + Pools[p] = P + Pools'[p]
  BY <1>1, <1>2, <1>4, TotalChanges DEF OnlyPool
<1>5. ASSUME NEW s \in SubmissionIds, OnlyStake(s)  PROVE C + Stakes[s] = B + Stakes'[s]
  BY <1>1, <1>2, <1>5, TotalChanges DEF OnlyStake
<1>6. Covered' <=> balance' >= Q + C
  BY DEF Covered
<1> HIDE DEF P, Q, B, C
<1>7. ASSUME Stakes' = Stakes => B = C,
             Stakes' = Stakes, NEW p \in ProjectIds, OnlyPool(p),
             balance' + Pools[p] >= balance + Pools'[p]
      PROVE  Covered'
  <2>1. Pools[p] \in Nat /\ Pools'[p] \in Nat /\ Q + Pools[p] = P + Pools'[p]
    BY <1>2, <1>4, <1>7
  <2>2. QED
    BY <1>2, <1>3, <1>6, <1>7, <2>1
<1>8. ASSUME NEW s \in SubmissionIds, NEW p \in ProjectIds, OnlyPool(p), OnlyStake(s),
             balance' + Pools[p] + Stakes[s] >= balance + Pools'[p] + Stakes'[s]
      PROVE  Covered'
  <2>1. /\ Pools[p] \in Nat /\ Pools'[p] \in Nat /\ Q + Pools[p] = P + Pools'[p]
        /\ Stakes[s] \in Nat /\ Stakes'[s] \in Nat /\ C + Stakes[s] = B + Stakes'[s]
    BY <1>2, <1>4, <1>5, <1>8
  <2>2. QED
    BY <1>2, <1>3, <1>6, <1>8, <2>1
<1>9. Stakes' = Stakes => B = C
  BY DEF B, C
<1>10. QED
  BY <1>7, <1>8, <1>9 DEF LedgerStep

\* A step that touches one pool and no submission
LEMMA PoolBooks ==
  ASSUME TypeOK, NEW p \in ProjectIds, submissions' = submissions,
         \A q \in ProjectIds \ {p} : projects'[q] = projects[q],
         balance' + projects[p].bountyPool >= balance + projects'[p].bountyPool
  PROVE  LedgerStep
<1>1. Stakes' = Stakes
  BY DEF Stakes
<1>2. \A q \in ProjectIds : Pools[q] = projects[q].bountyPool /\ Pools'[q] = projects'[q].bountyPool
  BY DEF Pools
<1>3. QED
  BY <1>1, <1>2 DEF LedgerStep, OnlyPool

\* A step that touches one submission and the pool of its project
LEMMA SettlementBooks ==
  ASSUME TypeOK, NEW s \in SubmissionIds,
         \A t \in SubmissionIds \ {s} : submissions'[t] = submissions[t],
         NEW p \in ProjectIds, \A q \in ProjectIds \ {p} : projects'[q] = projects[q],
         balance' + projects[p].bountyPool + AtStake(submissions[s])
           >= balance + projects'[p].bountyPool + AtStake(submissions'[s])
  PROVE  LedgerStep
<1>1. \A t \in SubmissionIds : Stakes[t] = AtStake(submissions[t]) /\ Stakes'[t] = AtStake(submissions'[t])
  BY DEF Stakes
<1>2. \A q \in ProjectIds : Pools[q] = projects[q].bountyPool /\ Pools'[q] = projects'[q].bountyPool
  BY DEF Pools
<1>3. QED
  BY <1>1, <1>2 DEF LedgerStep, OnlyPool, OnlyStake

\* What is at stake and in the pool of a submission
LEMMA AmountsAreNat ==
  ASSUME TypeOK, NEW s \in SubmissionIds
  PROVE  /\ balance \in Nat /\ submissions[s].projectId \in ProjectIds
         /\ projects[submissions[s].projectId].bountyPool \in Nat
         /\ AtStake(submissions[s]) \in Nat
BY DEF TypeOK, Project, Submission, AtStake

\* A step that moves no ether and leaves its submission undisputed
LEMMA NoEther ==
  ASSUME TypeOK, projects' = projects, balance' = balance, NEW s \in SubmissionIds,
         submissions'[s].status # "Disputed",
         \A t \in SubmissionIds \ {s} : submissions'[t] = submissions[t]
  PROVE  LedgerStep
<1>1. AtStake(submissions'[s]) = 0
  BY DEF AtStake
<1>2. QED
  BY <1>1, AmountsAreNat, SettlementBooks

\* _executePayout from a pool that holds at most what was there and at stake
LEMMA PayoutBooks ==
  ASSUME TypeOK, NEW s \in SubmissionIds, NEW sub \in Submission, NEW pool \in Nat,
         sub.projectId = submissions[s].projectId, ExecutePayout(s, sub, pool),
         pool <= projects[sub.projectId].bountyPool + AtStake(submissions[s])
  PROVE  LedgerStep
<1> DEFINE paid == Payable(sub.payoutAmount, ConfigOf(s).maxPayoutPerBug, pool)
           p    == sub.projectId
<1>1. /\ projects' = [projects EXCEPT ![p].bountyPool = pool - paid]
      /\ submissions' = [submissions EXCEPT ![s] =
                           [sub EXCEPT !.payoutAmount = paid, !.status = "Finalized"]]
      /\ balance' = balance - paid
  BY DEF ExecutePayout
<1>2. paid \in Nat /\ paid <= pool
  BY ConfigType, PayableBounds DEF Submission, Config
<1> HIDE DEF paid
<1>3. submissions'[s] = [sub EXCEPT !.payoutAmount = paid, !.status = "Finalized"]
  BY <1>1 DEF TypeOK
<1>4. submissions'[s].status = "Finalized"
  BY <1>3 DEF Submission
<1>5. AtStake(submissions'[s]) = 0
  BY <1>4 DEF AtStake
<1>6. /\ \A t \in SubmissionIds \ {s} : submissions'[t] = submissions[t]
      /\ \A q \in ProjectIds \ {p} : projects'[q] = projects[q]
      /\ p \in ProjectIds
  BY <1>1, AmountsAreNat DEF TypeOK
<1>7. projects'[p].bountyPool = pool - paid
  BY <1>1, <1>6 DEF TypeOK, Project
<1>8. balance' + projects[p].bountyPool + AtStake(submissions[s])
        >= balance + projects'[p].bountyPool + AtStake(submissions'[s])
  BY <1>1, <1>2, <1>5, <1>7, AmountsAreNat
<1>9. QED
  BY <1>6, <1>8, SettlementBooks

\* A verdict pays at most what the pool holds, or moves no ether.
LEMMA VerdictBooks ==
  ASSUME TypeOK, NEW s \in SubmissionIds, NEW v \in Verdict,
         NEW source \in {"Verification", "Jury", "Owner"}, NEW base,
         CommitFinalVerdict(s, source, v, base)
  PROVE  LedgerStep
<1> DEFINE c == ConfigOf(s)
           p == submissions[s].projectId
           severity == IF source = "Verification" THEN CalculateSeverity(v.drain, c) ELSE v.adjudicated
           awarded == [submissions[s] EXCEPT !.severity = severity,
                          !.payoutAmount = CalculatePayout(severity, c.maxPayoutPerBug)]
<1>1. c \in Config /\ submissions[s] \in Submission
  BY ConfigType
<1>2. severity \in Severity
  BY <1>1, SeverityType, ConstantsAssumption DEF Verdict
<1>3. CalculatePayout(severity, c.maxPayoutPerBug) \in Nat
  BY <1>1, <1>2, CalculatePayoutIsNat DEF Config
<1>4. awarded \in Submission /\ awarded.projectId = p
  <2> HIDE DEF severity, c
  <2> QED  BY <1>1, <1>2, <1>3 DEF Submission
<1>5. ASSUME AcceptFinding(s, source, v)  PROVE LedgerStep
  <2>1. \/ ExecutePayout(s, awarded, projects[p].bountyPool)
        \/ /\ submissions' = [submissions EXCEPT ![s] =
                [awarded EXCEPT !.status = "Verified", !.disputeDeadline = now + c.disputeWindow]]
           /\ UNCHANGED <<projects, ledgerVars>>
    BY <1>5 DEF AcceptFinding
  <2> HIDE DEF awarded
  <2>2. CASE ExecutePayout(s, awarded, projects[p].bountyPool)
    <3>1. projects[p].bountyPool <= projects[p].bountyPool + AtStake(submissions[s])
      BY AmountsAreNat
    <3>2. QED
      BY <1>4, <2>2, <3>1, AmountsAreNat, PayoutBooks
  <2>3. CASE /\ submissions' = [submissions EXCEPT ![s] =
                  [awarded EXCEPT !.status = "Verified", !.disputeDeadline = now + c.disputeWindow]]
             /\ UNCHANGED <<projects, ledgerVars>>
    <3>1. submissions'[s] = [awarded EXCEPT !.status = "Verified", !.disputeDeadline = now + c.disputeWindow]
      BY <2>3 DEF TypeOK
    <3>2. submissions'[s].status = "Verified"
      BY <1>4, <3>1 DEF Submission
    <3>3. \A t \in SubmissionIds \ {s} : submissions'[t] = submissions[t]
      BY <2>3 DEF TypeOK
    <3>4. QED
      BY <2>3, <3>2, <3>3, NoEther DEF ledgerVars
  <2>4. QED
    BY <2>1, <2>2, <2>3
<1>6. ASSUME RejectFinding(s, v)  PROVE LedgerStep
  <2>1. /\ submissions' = [submissions EXCEPT ![s] =
             [@ EXCEPT !.status = "Invalid", !.severity = "NONE", !.payoutAmount = 0]]
        /\ projects' = projects /\ balance' = balance
    BY <1>6 DEF RejectFinding, ledgerVars
  <2>2. submissions'[s] = [submissions[s] EXCEPT !.status = "Invalid", !.severity = "NONE", !.payoutAmount = 0]
    BY <2>1 DEF TypeOK
  <2>3. submissions'[s].status = "Invalid"
    BY <1>1, <2>2 DEF Submission
  <2>4. \A t \in SubmissionIds \ {s} : submissions'[t] = submissions[t]
    BY <2>1 DEF TypeOK
  <2>5. QED
    BY <2>1, <2>3, <2>4, NoEther
<1>7. QED
  BY <1>5, <1>6 DEF CommitFinalVerdict

\* finalize pays out of the pool and of the bond it forfeits.
LEMMA FinalizeBooks ==
  ASSUME TypeOK, NEW s \in SubmissionIds, Finalize(s)
  PROVE  LedgerStep
<1> DEFINE sub     == submissions[s]
           pool    == projects[sub.projectId].bountyPool + ForfeitedBond(sub)
           penalty == AffordablePenalty(sub, pool)
           settled == [sub EXCEPT !.payoutAmount = @ + penalty,
                                  !.challengeBond = @ - ForfeitedBond(sub)]
<1>1. sub \in Submission /\ projects[sub.projectId].bountyPool \in Nat
  BY ConfigType DEF Project
<1>2. /\ ForfeitedBond(sub) \in Nat /\ sub.challengeBond - ForfeitedBond(sub) \in Nat
      /\ ForfeitedBond(sub) <= AtStake(sub)
  BY <1>1 DEF ForfeitedBond, Submission, AtStake
<1>3. penalty \in Nat /\ pool - penalty \in Nat
  BY <1>1, <1>2, TimeoutPenaltyIsNat DEF AffordablePenalty
<1>4. ExecutePayout(s, settled, pool - penalty)
  BY DEF Finalize
<1>5. settled \in Submission /\ settled.projectId = sub.projectId
  <2> HIDE DEF penalty
  <2>1. sub.payoutAmount + penalty \in Nat
    BY <1>1, <1>3 DEF Submission
  <2>2. QED
    BY <1>1, <1>2, <2>1 DEF Submission
<1> HIDE DEF penalty
<1>6. pool - penalty <= projects[sub.projectId].bountyPool + AtStake(sub)
  BY <1>1, <1>2, <1>3, AmountsAreNat
<1> HIDE DEF settled, pool
<1>7. QED
  BY <1>3, <1>4, <1>5, <1>6, PayoutBooks

\* A challenge brings its bond; a resolution returns it or feeds it to the pool.
LEMMA DisputeBooks ==
  ASSUME TypeOK, NEW s \in SubmissionIds,
         \/ \E bond \in Bonds : Challenge(s, bond)
         \/ \E caller \in Owners : ResolveDispute(caller, s)
  PROVE  LedgerStep
<1> DEFINE p == submissions[s].projectId
<1>1. /\ submissions[s] \in Submission /\ p \in ProjectIds /\ projects[p] \in Project
      /\ submissions[s].challengeBond \in Nat
  BY ConfigType DEF Submission
<1>2. ASSUME NEW bond \in Bonds, Challenge(s, bond)  PROVE LedgerStep
  <2>1. submissions'[s] = [submissions[s] EXCEPT !.challenged = TRUE, !.challengeBond = bond,
                                                 !.status = "Disputed"]
    BY <1>2 DEF Challenge, TypeOK
  <2>2. submissions'[s].challengeBond = bond /\ submissions'[s].status = "Disputed" /\ bond \in Nat
    BY <1>1, <2>1, ConstantsAssumption DEF Submission
  <2>3. AtStake(submissions'[s]) = bond
    BY <2>2 DEF AtStake
  <2>4. /\ projects' = projects /\ balance' = balance + bond
        /\ \A t \in SubmissionIds \ {s} : submissions'[t] = submissions[t]
    BY <1>2 DEF Challenge, TypeOK
  <2>5. QED
    BY <1>1, <2>2, <2>3, <2>4, AmountsAreNat, SettlementBooks
<1>3. ASSUME NEW caller \in Owners, ResolveDispute(caller, s)  PROVE LedgerStep
  <2>1. AtStake(submissions[s]) = submissions[s].challengeBond
    BY <1>3 DEF ResolveDispute, AtStake
  <2>2. CASE Overturn(s)
    <3>1. submissions'[s] = [submissions[s] EXCEPT !.status = "Invalid", !.payoutAmount = 0]
      BY <2>2 DEF Overturn, TypeOK
    <3>2. submissions'[s].status = "Invalid"
      BY <1>1, <3>1 DEF Submission
    <3>3. AtStake(submissions'[s]) = 0
      BY <3>2 DEF AtStake
    <3>4. /\ projects' = projects /\ balance' = balance - submissions[s].challengeBond
          /\ \A t \in SubmissionIds \ {s} : submissions'[t] = submissions[t]
      BY <2>2 DEF Overturn, TypeOK
    <3>5. QED
      BY <1>1, <2>1, <3>3, <3>4, AmountsAreNat, SettlementBooks
  <2>3. CASE Uphold(s)
    <3>1. submissions'[s] = [submissions[s] EXCEPT !.status = "Verified", !.challengeBond = 0]
      BY <2>3 DEF Uphold, TypeOK
    <3>2. submissions'[s].status = "Verified"
      BY <1>1, <3>1 DEF Submission
    <3>3. AtStake(submissions'[s]) = 0
      BY <3>2 DEF AtStake
    <3>4. /\ balance' = balance
          /\ \A t \in SubmissionIds \ {s} : submissions'[t] = submissions[t]
          /\ projects'[p] = [projects[p] EXCEPT !.bountyPool = @ + submissions[s].challengeBond]
          /\ \A q \in ProjectIds \ {p} : projects'[q] = projects[q]
      BY <1>1, <2>3 DEF Uphold, TypeOK
    <3>5. projects'[p].bountyPool = projects[p].bountyPool + submissions[s].challengeBond
      BY <1>1, <3>4 DEF Project
    <3>6. balance' + projects[p].bountyPool + AtStake(submissions[s])
            >= balance + projects'[p].bountyPool + AtStake(submissions'[s])
      BY <1>1, <2>1, <3>3, <3>4, <3>5, AmountsAreNat
    <3>7. QED
      BY <1>1, <3>4, <3>6, SettlementBooks
  <2>4. QED
    BY <1>3, <2>2, <2>3 DEF ResolveDispute
<1>4. QED
  BY <1>2, <1>3

\* A registration or a top up brings the ether it adds to a pool.
LEMMA FundingBooks ==
  ASSUME TypeOK, AdminNext
  PROVE  LedgerStep
<1>1. 0 \in ProjectIds /\ (\A p \in ProjectIds : projects[p].bountyPool \in Nat) /\ balance \in Nat
  BY ConstantsAssumption, PoolsAreNat DEF ProjectIds, TypeOK
<1>2. CASE \/ \E w \in Workflows, b \in BOOLEAN : SetAuthorizedWorkflow(w, b)
           \/ \E b \in FallbackSettings : SetLegacyReportFallbackEnabled(b)
  <2>1. projects' = projects /\ submissions' = submissions /\ balance' = balance
    BY <1>2 DEF SetAuthorizedWorkflow, SetLegacyReportFallbackEnabled, ledgerVars
  <2>2. QED
    BY <1>1, <2>1, PoolBooks
<1>3. ASSUME NEW o \in Owners, NEW c \in ProjectConfigs, NEW value \in Deposits,
             RegisterProject(o, c, value)
      PROVE  LedgerStep
  <2> DEFINE new == [owner |-> o, bountyPool |-> value, active |-> TRUE, config |-> c]
  <2>1. /\ nextProjectId \in ProjectIds
        /\ projects' = [projects EXCEPT ![nextProjectId] = new]
        /\ balance' = balance + value /\ submissions' = submissions
    BY <1>3, ConstantsAssumption DEF RegisterProject, TypeOK, ProjectIds
  <2>2. new.bountyPool = value /\ value \in Nat
    BY ConstantsAssumption
  <2> HIDE DEF new
  <2>3. /\ projects'[nextProjectId] = new
        /\ \A p \in ProjectIds \ {nextProjectId} : projects'[p] = projects[p]
    BY <2>1 DEF TypeOK
  <2>4. QED
    BY <1>1, <2>1, <2>2, <2>3, PoolBooks
<1>4. ASSUME NEW o \in Owners, NEW p \in ProjectIds, NEW value \in TopUps, TopUpBounty(o, p, value)
      PROVE  LedgerStep
  <2>1. /\ value \in Nat /\ projects[p] \in Project
        /\ projects' = [projects EXCEPT ![p].bountyPool = @ + value]
        /\ balance' = balance + value /\ submissions' = submissions
    BY <1>4, ConstantsAssumption DEF TopUpBounty, TypeOK
  <2>2. /\ projects'[p] = [projects[p] EXCEPT !.bountyPool = @ + value]
        /\ \A q \in ProjectIds \ {p} : projects'[q] = projects[q]
    BY <2>1 DEF TypeOK
  <2>3. projects'[p].bountyPool = projects[p].bountyPool + value
    BY <2>1, <2>2 DEF Project
  <2>4. QED
    BY <1>1, <2>1, <2>2, <2>3, PoolBooks
<1>5. QED
  BY <1>2, <1>3, <1>4 DEF AdminNext

\* Commits, reveals and the queue move no ether.
LEMMA AuditorBooks ==
  ASSUME TypeOK, AuditorNext
  PROVE  LedgerStep
<1>1. ASSUME NEW a \in Auditors, NEW p \in ProjectIds, NEW h \in CommitHash, Commit(a, p, h)
      PROVE  LedgerStep
  <2>1. nextSubmissionId \in SubmissionIds
    BY <1>1, ConstantsAssumption DEF Commit, TypeOK, SubmissionIds
  <2>2. /\ submissions'[nextSubmissionId].status = "Committed"
        /\ \A t \in SubmissionIds \ {nextSubmissionId} : submissions'[t] = submissions[t]
    BY <1>1, <2>1 DEF Commit, TypeOK, Submission
  <2>3. balance' = balance /\ projects' = projects
    BY <1>1 DEF Commit, ledgerVars
  <2>4. QED
    BY <2>1, <2>2, <2>3, NoEther
<1>2. ASSUME NEW a, NEW s \in SubmissionIds, NEW salt, Reveal(a, s, salt)
      PROVE  LedgerStep
  <2>1. /\ submissions[s] \in Submission
        /\ submissions'[s] = [submissions[s] EXCEPT !.salt = salt, !.revealTimestamp = now, !.status = "Revealed"]
        /\ \A t \in SubmissionIds \ {s} : submissions'[t] = submissions[t]
    BY <1>2 DEF Reveal, TypeOK
  <2>2. submissions'[s].status = "Revealed"
    BY <2>1 DEF Submission
  <2>3. balance' = balance /\ projects' = projects
    BY <1>2 DEF Reveal, ledgerVars
  <2>4. QED
    BY <2>1, <2>2, <2>3, NoEther
<1>3. CASE \/ \E g \in QueueSignatures : QueueRevealBySig(g)
           \/ \E a \in Auditors, s \in SubmissionIds : CancelQueuedReveal(a, s)
  <2>1. submissions' = submissions /\ projects' = projects /\ balance' = balance
    BY <1>3 DEF QueueRevealBySig, CancelQueuedReveal, ledgerVars
  <2>2. 0 \in ProjectIds /\ projects[0].bountyPool \in Nat /\ balance \in Nat
    BY ConstantsAssumption, PoolsAreNat DEF ProjectIds, TypeOK
  <2>3. QED
    BY <2>1, <2>2, PoolBooks
<1>4. /\ \A g \in CommitSignatures : g.auditor \in Auditors /\ g.projectId \in ProjectIds
                                     /\ g.commitHash \in CommitHash
      /\ \A g \in RevealSignatures : g.submissionId \in SubmissionIds
  BY ConstantsAssumption DEF CommitSignature, RevealSignature
<1>5. QED
  BY <1>1, <1>2, <1>3, <1>4
     DEF AuditorNext, CommitPoC, CommitPoCBySig, RevealPoC, RevealPoCBySig, ExecuteQueuedReveal

\* Every transaction adds to the balance at least what it adds to the debts.
LEMMA EveryStepBooks ==
  ASSUME TypeOK, [Next]_vars
  PROVE  LedgerStep
<1>1. CASE UNCHANGED vars \/ Tick
  <2>1. submissions' = submissions /\ projects' = projects /\ balance' = balance
    BY <1>1 DEF vars, Tick, ledgerVars
  <2>2. 0 \in ProjectIds /\ projects[0].bountyPool \in Nat /\ balance \in Nat
    BY ConstantsAssumption, PoolsAreNat DEF ProjectIds, TypeOK
  <2>3. QED
    BY <2>1, <2>2, PoolBooks
<1>2. CASE AdminNext \/ AuditorNext
  BY <1>2, FundingBooks, AuditorBooks
<1>3. CASE SettlementNext
  BY <1>3, FinalizeBooks, DisputeBooks DEF SettlementNext
<1>4. ASSUME NEW w, NEW s \in SubmissionIds, NEW next \in {"JuryPending", "AwaitingOwnerAdjudication"},
             ProcessAdjudicationTransition(w, s, next)
      PROVE  LedgerStep
  <2>1. /\ submissions[s] \in Submission
        /\ submissions'[s] = [submissions[s] EXCEPT !.status = next]
        /\ \A t \in SubmissionIds \ {s} : submissions'[t] = submissions[t]
    BY <1>4 DEF ProcessAdjudicationTransition, TypeOK
  <2>2. submissions'[s].status = next
    BY <2>1 DEF Submission
  <2>3. balance' = balance /\ projects' = projects
    BY <1>4 DEF ProcessAdjudicationTransition, ledgerVars
  <2>4. QED
    BY <2>1, <2>2, <2>3, NoEther
<1>5. CASE ReportNext
  <2>1. PICK w \in Reporters, s \in SubmissionIds :
          \/ \E source \in {"Verification", "Jury", "Owner"}, v \in Verdict : \E base :
                CommitFinalVerdict(s, source, v, base)
          \/ \E next \in {"JuryPending", "AwaitingOwnerAdjudication"} :
                ProcessAdjudicationTransition(w, s, next)
    BY <1>5 DEF ReportNext, ProcessVerificationReport, ProcessTypedVerificationReport,
       ProcessFinalLifecycleReport
  <2>2. QED
    BY <1>4, <2>1, VerdictBooks
<1>6. QED
  BY <1>1, <1>2, <1>3, <1>5 DEF Next

\* A deployed contract holds nothing and owes nothing.
LEMMA InitCovered == Init => Covered
<1> SUFFICES ASSUME Init  PROVE Covered
  OBVIOUS
<1>1. TypeOK /\ balance = 0
  BY InitTypeOK DEF Init
<1>2. /\ \A p \in ProjectIds : Pools[p] = 0
      /\ \A s \in SubmissionIds : Stakes[s] = 0
  BY DEF Init, Pools, Stakes, AtStake, EmptyProject, EmptySubmission
<1>3. Total(Pools, ProjectIds) = 0 /\ Total(Stakes, SubmissionIds) = 0
  <2>1. IsFiniteSet(ProjectIds) /\ IsFiniteSet(SubmissionIds)
    BY ConstantsAssumption, FS_Interval DEF ProjectIds, SubmissionIds
  <2>2. QED
    BY <1>2, <2>1, TotalOfNothing
<1>4. QED
  BY <1>1, <1>3 DEF Covered

\* Through every payout, penalty, forfeited, returned and upheld bond, the contract holds at
\* least all the pools and all the bonds still at stake: no transfer fails for want of ether.
THEOREM SolventAlways == Spec => []Solvent
<1>1. TypeOK /\ TypeOK' /\ Covered /\ [Next]_vars => Covered'
  BY EveryStepBooks, LedgerKeepsCover
<1>2. QED
  BY <1>1, InitCovered, CoveredIsSolvent, TypeCorrect, PTL DEF Spec

=============================================================================
