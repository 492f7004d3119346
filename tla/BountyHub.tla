------------------------------ MODULE BountyHub ------------------------------
(***************************************************************************)
(* contracts/src/BountyHub.sol: bounty projects, the commit-reveal of      *)
(* submissions, the arbitration of UNIQUE projects, verdict reports,       *)
(* disputes and payouts.  One action is one successful transaction; a      *)
(* transaction that reverts leaves the state alone, so it is no step.      *)
(*                                                                         *)
(* A Solidity mapping is a total function whose untouched entries hold the *)
(* zero value of their type, exactly as in the contract.                   *)
(***************************************************************************)
EXTENDS Integers, FiniteSets

CONSTANTS
  Owners,             \* accounts that register projects
  Auditors,           \* accounts that submit findings
  NoAccount,          \* address(0)
  Salts,              \* reveal salts in use; may contain NoSalt
  NoSalt,             \* bytes32(0)
  NoHash,             \* the commit hash of an empty submission
  NoWorkflow,         \* the workflow id bytes32(0)
  Workflows,          \* workflow ids the contract owner may authorise
  FallbackSettings,   \* values the contract owner gives legacyReportFallbackEnabled
  ProjectConfigs,     \* registration parameters in use
  Deposits,           \* msg.value of a registration
  TopUps,             \* msg.value of a top up
  Drains,             \* drain amounts the verifier reports
  Bonds,              \* msg.value of a challenge
  CommitSignatures,   \* EIP-712 messages the auditors have signed, by type;
  RevealSignatures,   \*   anyone may relay them, in any order
  QueueSignatures,
  COOLDOWN, MIN_CHALLENGE_BOND, TIMEOUT_PENALTY_BPS,
  MaxProjects,        \* bound on nextProjectId
  MaxSubmissions,     \* bound on nextSubmissionId
  StartTime,          \* block.timestamp of the first block of a behaviour
  MaxTime,            \* bound on block.timestamp
  MaxBalance          \* bound on the ether that enters the contract

VARIABLES
  now,                \* block.timestamp
  nextProjectId, projects,
  nextSubmissionId, submissions,
  uniqueRevealState,  \* uniqueRevealStateByProject
  queuedReveals,
  lifecycle,          \* s_submissionLifecycle
  grouping,           \* s_submissionGroupingMetadata[s].present
  commitHashUsed,     \* the hashes mapped to true
  lastCommitTime,
  sigNonces,
  authorizedWorkflows,          \* the workflow ids mapped to true
  legacyReportFallbackEnabled,
  balance,            \* address(this).balance
  paidOut,            \* ether sent to the auditor of each submission
  relayed             \* how often each signature has been accepted

commitVars  == <<commitHashUsed, lastCommitTime>>
sigVars     == <<sigNonces, relayed>>
adminVars   == <<authorizedWorkflows, legacyReportFallbackEnabled>>
verdictVars == <<lifecycle, grouping>>
ledgerVars  == <<balance, paidOut>>
idVars      == <<nextProjectId, nextSubmissionId>>
vars == <<now, idVars, projects, submissions, uniqueRevealState, queuedReveals,
          verdictVars, commitVars, sigVars, adminVars, ledgerVars>>

ProjectIds    == 0 .. MaxProjects - 1
SubmissionIds == 0 .. MaxSubmissions - 1

SubmissionStatus == {"Committed", "Revealed", "Verified", "Disputed", "Finalized",
                     "Invalid", "JuryPending", "AwaitingOwnerAdjudication"}
VerdictSource    == {"None", "Verification", "Jury", "Owner"}
FinalValidity    == {"None", "Valid", "Invalid"}
CompetitionMode  == {"UNIQUE", "MULTI"}
Severity         == {"NONE", "LOW", "MEDIUM", "HIGH", "CRITICAL"}

VERIFY_POC        == "verify-poc"
JURY_ORCHESTRATOR == "jury-orchestrator"

(* A commit hash is keccak256(keccak256(cipherURI), auditor, salt).  It is *)
(* known by whom it opens for and with which salt; anybody may commit it.  *)
CommitHash == [auditor : Auditors, salt : Salts]

Config == [mode : CompetitionMode, maxPayoutPerBug : Nat,
           commitDeadline : Nat, revealDeadline : Nat, disputeWindow : Nat,
           juryWindow : Nat, adjudicationWindow : Nat,
           criticalDrainWei : Nat, highDrainWei : Nat,
           mediumDrainWei : Nat, lowDrainWei : Nat]

EmptyConfig ==
  [mode |-> "UNIQUE", maxPayoutPerBug |-> 0, commitDeadline |-> 0, revealDeadline |-> 0,
   disputeWindow |-> 0, juryWindow |-> 0, adjudicationWindow |-> 0,
   criticalDrainWei |-> 0, highDrainWei |-> 0, mediumDrainWei |-> 0, lowDrainWei |-> 0]

(* The VNet fields of a project are read by nothing on chain and are left  *)
(* to the VNet component; addresses, URLs and digests are payload.         *)
Project == [owner : Owners \cup {NoAccount}, bountyPool : Nat, active : BOOLEAN, config : Config]

EmptyProject ==
  [owner |-> NoAccount, bountyPool |-> 0, active |-> FALSE, config |-> EmptyConfig]

Submission ==
  [auditor : Auditors \cup {NoAccount}, projectId : ProjectIds,
   commitHash : CommitHash \cup {NoHash}, salt : Salts \cup {NoSalt},
   revealTimestamp : Nat, status : SubmissionStatus, severity : Severity,
   payoutAmount : Nat, disputeDeadline : Nat, challenged : BOOLEAN, challengeBond : Nat]

EmptySubmission ==
  [auditor |-> NoAccount, projectId |-> 0, commitHash |-> NoHash, salt |-> NoSalt,
   revealTimestamp |-> 0, status |-> "Committed", severity |-> "NONE",
   payoutAmount |-> 0, disputeDeadline |-> 0, challenged |-> FALSE, challengeBond |-> 0]

SubmissionLifecycle ==
  [juryDeadline : Nat, adjudicationDeadline : Nat,
   verdictSource : VerdictSource, finalValidity : FinalValidity]

EmptyLifecycle ==
  [juryDeadline |-> 0, adjudicationDeadline |-> 0,
   verdictSource |-> "None", finalValidity |-> "None"]

QueuedReveal ==
  [auditor : Auditors \cup {NoAccount}, salt : Salts \cup {NoSalt},
   deadline : Nat, queued : BOOLEAN]

NoQueuedReveal == [auditor |-> NoAccount, salt |-> NoSalt, deadline |-> 0, queued |-> FALSE]

UniqueRevealState ==
  [hasCandidate : BOOLEAN, candidateSubmissionId : Nat,
   winnerLocked : BOOLEAN, winnerSubmissionId : Nat]

EmptyUniqueState ==
  [hasCandidate |-> FALSE, candidateSubmissionId |-> 0,
   winnerLocked |-> FALSE, winnerSubmissionId |-> 0]

CommitSignature == [type : {"commit"}, auditor : Auditors, projectId : ProjectIds, commitHash : CommitHash,
                    nonce : Nat, deadline : Nat]
RevealSignature == [type : {"reveal"}, auditor : Auditors, submissionId : SubmissionIds,
                    salt : Salts, nonce : Nat, deadline : Nat]
QueueSignature  == [type : {"queue"}, auditor : Auditors, submissionId : SubmissionIds,
                    salt : Salts, nonce : Nat, deadline : Nat]
Signatures == CommitSignatures \cup RevealSignatures \cup QueueSignatures

(* block.timestamp is far above COOLDOWN on a real chain, so the first     *)
(* commit of an auditor, whose lastCommitTime is 0, is never throttled.    *)
ASSUME ConstantsAssumption ==
  /\ NoAccount \notin Auditors \cup Owners
  /\ NoHash \notin [auditor : Auditors \cup {NoAccount}, salt : Salts \cup {NoSalt}]
  /\ ProjectConfigs \subseteq Config
  /\ Deposits \subseteq Nat /\ TopUps \subseteq Nat /\ Drains \subseteq Nat /\ Bonds \subseteq Nat
  /\ CommitSignatures \subseteq CommitSignature
  /\ RevealSignatures \subseteq RevealSignature
  /\ QueueSignatures \subseteq QueueSignature
  /\ FallbackSettings \subseteq BOOLEAN
  /\ COOLDOWN \in Nat /\ MIN_CHALLENGE_BOND \in Nat /\ TIMEOUT_PENALTY_BPS \in Nat
  /\ MaxProjects \in Nat \ {0} /\ MaxSubmissions \in Nat
  /\ StartTime \in Nat /\ StartTime > 0 /\ StartTime >= COOLDOWN
  /\ MaxTime \in Nat /\ MaxBalance \in Nat

-----------------------------------------------------------------------------
Init ==
  /\ now = StartTime
  /\ nextProjectId = 0
  /\ nextSubmissionId = 0
  /\ projects = [p \in ProjectIds |-> EmptyProject]
  /\ submissions = [s \in SubmissionIds |-> EmptySubmission]
  /\ uniqueRevealState = [p \in ProjectIds |-> EmptyUniqueState]
  /\ queuedReveals = [s \in SubmissionIds |-> NoQueuedReveal]
  /\ lifecycle = [s \in SubmissionIds |-> EmptyLifecycle]
  /\ grouping = [s \in SubmissionIds |-> FALSE]
  /\ commitHashUsed = {}
  /\ lastCommitTime = [a \in Auditors |-> [p \in ProjectIds |-> 0]]
  /\ sigNonces = [a \in Auditors |-> 0]
  /\ authorizedWorkflows = {}
  /\ legacyReportFallbackEnabled = TRUE
  /\ balance = 0
  /\ paidOut = [s \in SubmissionIds |-> 0]
  /\ relayed = [g \in Signatures |-> 0]

(* Operators of this module with one fault each.  Nothing below uses them: *)
(* put in the place of the operator it varies, each makes a property fail. *)
CommitAgain(a, p, h) == now >= lastCommitTime[a][p] + COOLDOWN

TakeOverCandidacy(p, s) ==
  /\ ~uniqueRevealState[p].winnerLocked
  /\ uniqueRevealState' = [uniqueRevealState EXCEPT ![p] =
                             [@ EXCEPT !.hasCandidate = TRUE, !.candidateSubmissionId = s]]

RevealWindowTouchesCommit(c) ==
  /\ c.commitDeadline > 0 /\ now >= c.commitDeadline
  /\ c.revealDeadline > 0 => now <= c.revealDeadline

KeepQueuedReveal(s) == UNCHANGED queuedReveals

UncappedPayable(amount, maxPayout, pool) == IF amount <= pool THEN amount ELSE pool

TakesAnyVerdict(s, source) == submissions[s].auditor # NoAccount

JurySkipped == [JuryPending |-> "Revealed", AwaitingOwnerAdjudication |-> "Revealed"]

AdmittedFromAny(w, required) == authorizedWorkflows # {} => w \in authorizedWorkflows

CheckSignature(g) ==
  /\ now <= g.deadline
  /\ sigNonces[g.auditor] = g.nonce
  /\ relayed' = [relayed EXCEPT ![g] = @ + 1]
  /\ UNCHANGED sigNonces

OverturnForfeitingBond(s) ==
  /\ submissions[s].challengeBond <= balance
  /\ submissions' = [submissions EXCEPT ![s] = [@ EXCEPT !.status = "Invalid", !.payoutAmount = 0]]
  /\ balance' = balance - submissions[s].challengeBond
  /\ projects' = [projects EXCEPT ![submissions[s].projectId].bountyPool =
                    @ + submissions[s].challengeBond]

UncheckedPenalty(sub, pool) == (sub.payoutAmount * TIMEOUT_PENALTY_BPS) \div 10000

DisputeWindowEnding(s) == now >= submissions[s].disputeDeadline

-----------------------------------------------------------------------------
(* A later block.                                                          *)
Tick ==
  /\ now < MaxTime
  /\ now' = now + 1
  /\ UNCHANGED <<idVars, projects, submissions, uniqueRevealState, queuedReveals,
                 verdictVars, commitVars, sigVars, adminVars, ledgerVars>>

-----------------------------------------------------------------------------
(* Projects and report configuration.                                      *)

SetAuthorizedWorkflow(w, authorized) ==
  /\ authorizedWorkflows' = IF authorized THEN authorizedWorkflows \cup {w}
                                          ELSE authorizedWorkflows \ {w}
  /\ authorizedWorkflows' # authorizedWorkflows
  /\ UNCHANGED <<now, idVars, projects, submissions, uniqueRevealState, queuedReveals,
                 verdictVars, commitVars, sigVars, legacyReportFallbackEnabled, ledgerVars>>

SetLegacyReportFallbackEnabled(enabled) ==
  /\ legacyReportFallbackEnabled' = enabled
  /\ UNCHANGED <<now, idVars, projects, submissions, uniqueRevealState, queuedReveals,
                 verdictVars, commitVars, sigVars, authorizedWorkflows, ledgerVars>>

ValidDeadlines(c) ==
  /\ c.commitDeadline = 0 \/ c.commitDeadline > now
  /\ c.revealDeadline = 0 \/ c.revealDeadline > c.commitDeadline

(* registerProjectV2 and registerProjectV3: the second also stores the     *)
(* repository URL and the contract scopes, which nothing on chain reads.   *)
RegisterProject(o, c, value) ==
  /\ nextProjectId < MaxProjects
  /\ balance + value <= MaxBalance
  /\ value > 0
  /\ ValidDeadlines(c)
  /\ nextProjectId' = nextProjectId + 1
  /\ projects' = [projects EXCEPT ![nextProjectId] =
                    [owner |-> o, bountyPool |-> value, active |-> TRUE, config |-> c]]
  /\ balance' = balance + value
  /\ UNCHANGED <<now, nextSubmissionId, submissions, uniqueRevealState, queuedReveals,
                 verdictVars, commitVars, sigVars, adminVars, paidOut>>

TopUpBounty(caller, p, value) ==
  /\ balance + value <= MaxBalance
  /\ projects[p].owner = caller
  /\ projects' = [projects EXCEPT ![p].bountyPool = @ + value]
  /\ balance' = balance + value
  /\ UNCHANGED <<now, idVars, submissions, uniqueRevealState, queuedReveals,
                 verdictVars, commitVars, sigVars, adminVars, paidOut>>

-----------------------------------------------------------------------------
(* Commit.                                                                 *)

ConfigOf(s) == projects[submissions[s].projectId].config

FreshCommit(a, p, h) ==
  /\ h \notin commitHashUsed
  /\ now >= lastCommitTime[a][p] + COOLDOWN

(* _commitPoC, shared by the direct and the relayed entry points           *)
Commit(a, p, h) ==
  /\ nextSubmissionId < MaxSubmissions
  /\ projects[p].active
  /\ projects[p].bountyPool > 0
  /\ FreshCommit(a, p, h)
  /\ (projects[p].config.mode = "MULTI" /\ projects[p].config.commitDeadline > 0)
        => now <= projects[p].config.commitDeadline
  /\ commitHashUsed' = commitHashUsed \cup {h}
  /\ lastCommitTime' = [lastCommitTime EXCEPT ![a][p] = now]
  /\ nextSubmissionId' = nextSubmissionId + 1
  /\ submissions' = [submissions EXCEPT ![nextSubmissionId] =
                       [@ EXCEPT !.auditor = a, !.projectId = p, !.commitHash = h,
                                 !.status = "Committed"]]
  /\ UNCHANGED <<now, nextProjectId, projects, uniqueRevealState, queuedReveals,
                 verdictVars, adminVars, ledgerVars>>

CommitPoC(a, p, h) ==
  /\ Commit(a, p, h)
  /\ UNCHANGED sigVars

(* A signature is good once: it carries the signer's nonce, which the      *)
(* commit, reveal and queue messages of an auditor share.                  *)
SpendSignature(g) ==
  /\ now <= g.deadline
  /\ sigNonces[g.auditor] = g.nonce
  /\ sigNonces' = [sigNonces EXCEPT ![g.auditor] = g.nonce + 1]
  /\ relayed' = [relayed EXCEPT ![g] = @ + 1]

CommitPoCBySig(g) ==
  /\ SpendSignature(g)
  /\ Commit(g.auditor, g.projectId, g.commitHash)

-----------------------------------------------------------------------------
(* Reveal.                                                                 *)

(* keccak256(abi.encodePacked(cipherHash, _auditor, _salt))                *)
CommitmentTo(a, salt) == [auditor |-> a, salt |-> salt]

(* UNIQUE: the first reveal becomes the candidate, the others wait.        *)
TakeCandidacy(p, s) ==
  /\ ~uniqueRevealState[p].winnerLocked
  /\ \/ /\ ~uniqueRevealState[p].hasCandidate
        /\ uniqueRevealState' = [uniqueRevealState EXCEPT ![p] =
                                   [@ EXCEPT !.hasCandidate = TRUE, !.candidateSubmissionId = s]]
     \/ /\ uniqueRevealState[p].hasCandidate
        /\ uniqueRevealState[p].candidateSubmissionId = s
        /\ UNCHANGED uniqueRevealState

RevealWindowOpen(c) ==
  /\ c.commitDeadline > 0 /\ now > c.commitDeadline
  /\ c.revealDeadline > 0 => now <= c.revealDeadline

DropQueuedReveal(s) == queuedReveals' = [queuedReveals EXCEPT ![s] = NoQueuedReveal]

(* _revealPoC, shared by the direct, the relayed and the queued entry points *)
Reveal(a, s, salt) ==
  /\ submissions[s].auditor = a
  /\ submissions[s].status = "Committed"
  /\ submissions[s].commitHash = CommitmentTo(a, salt)
  /\ salt # NoSalt
  /\ \/ /\ ConfigOf(s).mode = "UNIQUE"
        /\ TakeCandidacy(submissions[s].projectId, s)
     \/ /\ ConfigOf(s).mode = "MULTI"
        /\ RevealWindowOpen(ConfigOf(s))
        /\ UNCHANGED uniqueRevealState
  /\ submissions' = [submissions EXCEPT ![s] =
                       [@ EXCEPT !.salt = salt, !.revealTimestamp = now, !.status = "Revealed"]]
  /\ DropQueuedReveal(s)
  /\ UNCHANGED <<now, idVars, projects, verdictVars, commitVars, adminVars, ledgerVars>>

RevealPoC(a, s, salt) ==
  /\ Reveal(a, s, salt)
  /\ UNCHANGED sigVars

RevealPoCBySig(g) ==
  /\ SpendSignature(g)
  /\ Reveal(g.auditor, g.submissionId, g.salt)

(* The salt is not checked against the commitment when it is queued.       *)
QueueRevealBySig(g) ==
  /\ submissions[g.submissionId].auditor = g.auditor
  /\ submissions[g.submissionId].status = "Committed"
  /\ ~queuedReveals[g.submissionId].queued
  /\ SpendSignature(g)
  /\ queuedReveals' = [queuedReveals EXCEPT ![g.submissionId] =
                         [auditor |-> g.auditor, salt |-> g.salt,
                          deadline |-> g.deadline, queued |-> TRUE]]
  /\ UNCHANGED <<now, idVars, projects, submissions, uniqueRevealState,
                 verdictVars, commitVars, adminVars, ledgerVars>>

ExecuteQueuedReveal(s) ==
  /\ queuedReveals[s].queued
  /\ now <= queuedReveals[s].deadline
  /\ Reveal(queuedReveals[s].auditor, s, queuedReveals[s].salt)
  /\ UNCHANGED sigVars

CancelQueuedReveal(caller, s) ==
  /\ submissions[s].auditor = caller
  /\ queuedReveals[s].queued
  /\ DropQueuedReveal(s)
  /\ UNCHANGED <<now, idVars, projects, submissions, uniqueRevealState,
                 verdictVars, commitVars, sigVars, adminVars, ledgerVars>>

-----------------------------------------------------------------------------
(* Verdicts.  A report reaches the contract through the forwarder with the *)
(* id of the workflow that produced it; the id is looked at only while     *)
(* some workflow is authorised.                                            *)

(* _enforceWorkflowProvenance and the two workflow semantics: while the    *)
(* allowlist is in force the report comes from a workflow on it, and from  *)
(* the required one unless its id is bytes32(0), which may be on it too.   *)
ReportAdmitted(w, required) ==
  authorizedWorkflows # {} => w \in authorizedWorkflows /\ w \in {NoWorkflow, required}

CalculateSeverity(drain, c) ==
  IF drain >= c.criticalDrainWei THEN "CRITICAL"
  ELSE IF drain >= c.highDrainWei THEN "HIGH"
  ELSE IF drain >= c.mediumDrainWei THEN "MEDIUM"
  ELSE IF drain >= c.lowDrainWei THEN "LOW"
  ELSE "NONE"

PayoutPercent == [NONE |-> 0, LOW |-> 10, MEDIUM |-> 30, HIGH |-> 60, CRITICAL |-> 100]

CalculatePayout(severity, maxPayout) == (maxPayout * PayoutPercent[severity]) \div 100

Least(a, b) == IF a <= b THEN a ELSE b

(* _executePayout: what is paid for an amount owed from the pool           *)
Payable(amount, maxPayout, pool) == Least(Least(amount, maxPayout), pool)

(* sub is the record of s as the caller has left it, pool the bounty pool. *)
ExecutePayout(s, sub, pool) ==
  LET paid == Payable(sub.payoutAmount, ConfigOf(s).maxPayoutPerBug, pool)
  IN  /\ paid <= balance
      /\ projects' = [projects EXCEPT ![sub.projectId].bountyPool = pool - paid]
      /\ submissions' = [submissions EXCEPT ![s] =
                           [sub EXCEPT !.payoutAmount = paid, !.status = "Finalized"]]
      /\ balance' = balance - paid
      /\ paidOut' = [paidOut EXCEPT ![s] = @ + paid]

(* The content of a verdict.  A report whose validity, drain and final     *)
(* validity contradict each other reverts, so one flag stands for them.    *)
Verdict == [isValid : BOOLEAN, drain : Drains, adjudicated : Severity]

AcceptFinding(s, source, v) ==
  LET c        == ConfigOf(s)
      p        == submissions[s].projectId
      severity == IF source = "Verification" THEN CalculateSeverity(v.drain, c) ELSE v.adjudicated
      accepted == [submissions[s] EXCEPT !.severity = severity,
                     !.payoutAmount = CalculatePayout(severity, c.maxPayoutPerBug)]
  IN  /\ v.isValid /\ v.drain > 0
      /\ source # "Verification" => v.adjudicated \in {"HIGH", "MEDIUM"}
      /\ \/ /\ c.disputeWindow = 0
            /\ ExecutePayout(s, accepted, projects[p].bountyPool)
         \/ /\ c.disputeWindow > 0
            /\ submissions' = [submissions EXCEPT ![s] =
                 [accepted EXCEPT !.status = "Verified", !.disputeDeadline = now + c.disputeWindow]]
            /\ UNCHANGED <<projects, ledgerVars>>
      /\ uniqueRevealState' = IF c.mode = "UNIQUE"
           THEN [uniqueRevealState EXCEPT ![p] =
                   [@ EXCEPT !.hasCandidate = FALSE, !.winnerLocked = TRUE, !.winnerSubmissionId = s]]
           ELSE uniqueRevealState

RejectFinding(s, v) ==
  LET p == submissions[s].projectId
  IN  /\ ~v.isValid
      /\ v.adjudicated = "NONE"
      /\ submissions' = [submissions EXCEPT ![s] =
                           [@ EXCEPT !.status = "Invalid", !.severity = "NONE", !.payoutAmount = 0]]
      /\ uniqueRevealState' = IF ConfigOf(s).mode = "UNIQUE"
           THEN [uniqueRevealState EXCEPT ![p] =
                   [@ EXCEPT !.hasCandidate = FALSE, !.candidateSubmissionId = 0]]
           ELSE uniqueRevealState
      /\ UNCHANGED <<projects, ledgerVars>>

PendingStatus == [Verification |-> "Revealed", Jury |-> "JuryPending",
                  Owner |-> "AwaitingOwnerAdjudication"]

AwaitsVerdict(s, source) == submissions[s].status = PendingStatus[source]

IsActiveCandidate(s) ==
  LET u == uniqueRevealState[submissions[s].projectId]
  IN  u.hasCandidate /\ u.candidateSubmissionId = s

(* _commitFinalVerdict; base is the lifecycle record before the verdict    *)
CommitFinalVerdict(s, source, v, base) ==
  /\ AwaitsVerdict(s, source)
  /\ (ConfigOf(s).mode = "UNIQUE" /\ submissions[s].salt # NoSalt) => IsActiveCandidate(s)
  /\ AcceptFinding(s, source, v) \/ RejectFinding(s, v)
  /\ lifecycle' = [lifecycle EXCEPT ![s] =
                     [base EXCEPT !.verdictSource = source,
                                  !.finalValidity = IF v.isValid THEN "Valid" ELSE "Invalid"]]
  /\ UNCHANGED <<now, idVars, queuedReveals, commitVars, sigVars, adminVars>>

(* _applySubmissionMetadata, reduced to its grouping part                  *)
ApplySubmissionMetadata(s, hasGrouping) ==
  /\ hasGrouping => lifecycle'[s].finalValidity = "Valid"
  /\ grouping' = [grouping EXCEPT ![s] = hasGrouping]

WithDerivedDeadlines(s) ==
  LET juryDeadline == submissions[s].revealTimestamp + ConfigOf(s).juryWindow
  IN  [lifecycle[s] EXCEPT !.juryDeadline = juryDeadline,
                           !.adjudicationDeadline = juryDeadline + ConfigOf(s).adjudicationWindow]

(* The untyped (submissionId, isValid, drainAmountWei) report              *)
ProcessVerificationReport(w, s, v) ==
  /\ ReportAdmitted(w, VERIFY_POC)
  /\ legacyReportFallbackEnabled
  /\ v.adjudicated = "NONE"
  /\ CommitFinalVerdict(s, "Verification", v, lifecycle[s])
  /\ UNCHANGED grouping

(* The typed report in its layout without lifecycle fields                 *)
ProcessTypedVerificationReport(w, s, v, hasGrouping) ==
  /\ ReportAdmitted(w, VERIFY_POC)
  /\ v.adjudicated = "NONE"
  /\ CommitFinalVerdict(s, "Verification", v, lifecycle[s])
  /\ ApplySubmissionMetadata(s, hasGrouping)

(* The typed lifecycle report with a final verdict                         *)
ProcessFinalLifecycleReport(w, s, source, v, hasGrouping) ==
  /\ ReportAdmitted(w, JURY_ORCHESTRATOR)
  /\ submissions[s].revealTimestamp > 0
  /\ CommitFinalVerdict(s, source, v, WithDerivedDeadlines(s))
  /\ ApplySubmissionMetadata(s, hasGrouping)

(* The typed lifecycle report that moves a submission to the jury or on to *)
(* the owner                                                               *)
AdjudicationStep == [JuryPending |-> "Revealed", AwaitingOwnerAdjudication |-> "JuryPending"]

ProcessAdjudicationTransition(w, s, next) ==
  /\ ReportAdmitted(w, VERIFY_POC)
  /\ submissions[s].revealTimestamp > 0
  /\ submissions[s].status = AdjudicationStep[next]
  /\ submissions' = [submissions EXCEPT ![s].status = next]
  /\ lifecycle' = [lifecycle EXCEPT ![s] =
       [WithDerivedDeadlines(s) EXCEPT !.verdictSource = "None", !.finalValidity = "None"]]
  /\ ApplySubmissionMetadata(s, FALSE)
  /\ UNCHANGED <<now, idVars, projects, uniqueRevealState, queuedReveals,
                 commitVars, sigVars, adminVars, ledgerVars>>

-----------------------------------------------------------------------------
(* Disputes and settlement.  A challenge is made by whoever pays a bond.   *)

Challenge(s, bond) ==
  /\ balance + bond <= MaxBalance
  /\ submissions[s].status = "Verified"
  /\ now <= submissions[s].disputeDeadline
  /\ ~submissions[s].challenged
  /\ bond >= MIN_CHALLENGE_BOND
  /\ submissions' = [submissions EXCEPT ![s] =
                       [@ EXCEPT !.challenged = TRUE, !.challengeBond = bond, !.status = "Disputed"]]
  /\ balance' = balance + bond
  /\ UNCHANGED <<now, idVars, projects, uniqueRevealState, queuedReveals,
                 verdictVars, commitVars, sigVars, adminVars, paidOut>>

Overturn(s) ==
  /\ submissions[s].challengeBond <= balance
  /\ submissions' = [submissions EXCEPT ![s] = [@ EXCEPT !.status = "Invalid", !.payoutAmount = 0]]
  /\ balance' = balance - submissions[s].challengeBond
  /\ UNCHANGED projects

Uphold(s) ==
  /\ submissions' = [submissions EXCEPT ![s] = [@ EXCEPT !.status = "Verified", !.challengeBond = 0]]
  /\ projects' = [projects EXCEPT ![submissions[s].projectId].bountyPool =
                    @ + submissions[s].challengeBond]
  /\ UNCHANGED balance

ResolveDispute(caller, s) ==
  /\ projects[submissions[s].projectId].owner = caller
  /\ submissions[s].status = "Disputed"
  /\ now <= submissions[s].disputeDeadline
  /\ Overturn(s) \/ Uphold(s)
  /\ UNCHANGED <<now, idVars, uniqueRevealState, queuedReveals,
                 verdictVars, commitVars, sigVars, adminVars, paidOut>>

(* The bond a finalization takes: a dispute nobody resolved forfeits it.   *)
ForfeitedBond(sub) ==
  IF sub.status = "Disputed" /\ sub.challenged THEN sub.challengeBond ELSE 0

(* The 5% penalty is owed whether or not the submission was challenged.    *)
TimeoutPenalty(sub) ==
  IF sub.status = "Verified" \/ sub.challenged
  THEN (sub.payoutAmount * TIMEOUT_PENALTY_BPS) \div 10000 ELSE 0

AffordablePenalty(sub, pool) == IF TimeoutPenalty(sub) <= pool THEN TimeoutPenalty(sub) ELSE 0

DisputeWindowOver(s) == now > submissions[s].disputeDeadline

Finalize(s) ==
  LET sub     == submissions[s]
      pool    == projects[sub.projectId].bountyPool + ForfeitedBond(sub)
      penalty == AffordablePenalty(sub, pool)
      settled == [sub EXCEPT !.payoutAmount = @ + penalty,
                             !.challengeBond = @ - ForfeitedBond(sub)]
  IN  /\ sub.status \in {"Verified", "Disputed"}
      /\ DisputeWindowOver(s)
      /\ ExecutePayout(s, settled, pool - penalty)
      /\ UNCHANGED <<now, idVars, uniqueRevealState, queuedReveals,
                     verdictVars, commitVars, sigVars, adminVars>>

CanFinalize(s) ==
  /\ submissions[s].status \in {"Verified", "Disputed"}
  /\ DisputeWindowOver(s)

-----------------------------------------------------------------------------
Reporters == Workflows \cup {NoWorkflow}

AdminNext ==
  \/ \E w \in Workflows, b \in BOOLEAN : SetAuthorizedWorkflow(w, b)
  \/ \E b \in FallbackSettings : SetLegacyReportFallbackEnabled(b)
  \/ \E o \in Owners, c \in ProjectConfigs, value \in Deposits : RegisterProject(o, c, value)
  \/ \E o \in Owners, p \in ProjectIds, value \in TopUps : TopUpBounty(o, p, value)

AuditorNext ==
  \/ \E a \in Auditors, p \in ProjectIds, h \in CommitHash : CommitPoC(a, p, h)
  \/ \E g \in CommitSignatures : CommitPoCBySig(g)
  \/ \E a \in Auditors, s \in SubmissionIds, salt \in Salts : RevealPoC(a, s, salt)
  \/ \E g \in RevealSignatures : RevealPoCBySig(g)
  \/ \E g \in QueueSignatures : QueueRevealBySig(g)
  \/ \E s \in SubmissionIds : ExecuteQueuedReveal(s)
  \/ \E a \in Auditors, s \in SubmissionIds : CancelQueuedReveal(a, s)

ReportNext ==
  \E w \in Reporters, s \in SubmissionIds :
    \/ \E v \in Verdict : ProcessVerificationReport(w, s, v)
    \/ \E v \in Verdict, g \in BOOLEAN : ProcessTypedVerificationReport(w, s, v, g)
    \/ \E source \in {"Verification", "Jury", "Owner"}, v \in Verdict, g \in BOOLEAN :
          ProcessFinalLifecycleReport(w, s, source, v, g)
    \/ \E next \in {"JuryPending", "AwaitingOwnerAdjudication"} :
          ProcessAdjudicationTransition(w, s, next)

SettlementNext ==
  \/ \E s \in SubmissionIds, bond \in Bonds : Challenge(s, bond)
  \/ \E o \in Owners, s \in SubmissionIds : ResolveDispute(o, s)
  \/ \E s \in SubmissionIds : Finalize(s)

Next == Tick \/ AdminNext \/ AuditorNext \/ ReportNext \/ SettlementNext

Spec == Init /\ [][Next]_vars

-----------------------------------------------------------------------------
(* Type invariant: every mapping keeps the types the contract declares.    *)
TypeOK ==
  /\ now \in Nat /\ now >= StartTime
  /\ nextProjectId \in 0 .. MaxProjects
  /\ nextSubmissionId \in 0 .. MaxSubmissions
  /\ projects \in [ProjectIds -> Project]
  /\ submissions \in [SubmissionIds -> Submission]
  /\ uniqueRevealState \in [ProjectIds -> UniqueRevealState]
  /\ queuedReveals \in [SubmissionIds -> QueuedReveal]
  /\ lifecycle \in [SubmissionIds -> SubmissionLifecycle]
  /\ grouping \in [SubmissionIds -> BOOLEAN]
  /\ commitHashUsed \subseteq CommitHash
  /\ lastCommitTime \in [Auditors -> [ProjectIds -> Nat]]
  /\ sigNonces \in [Auditors -> Nat]
  /\ authorizedWorkflows \subseteq Workflows
  /\ legacyReportFallbackEnabled \in BOOLEAN
  /\ balance \in Nat
  /\ paidOut \in [SubmissionIds -> Nat]
  /\ relayed \in [Signatures -> Nat]

InFlight(s) == submissions[s].status \in {"Revealed", "JuryPending", "AwaitingOwnerAdjudication"}
Accepted(s) == lifecycle[s].finalValidity = "Valid"
SubmissionsOf(p) == {s \in SubmissionIds : submissions[s].projectId = p}

ArbitrationOK(p) ==
  LET u == uniqueRevealState[p]
  IN  /\ \A s \in SubmissionsOf(p) :
           /\ InFlight(s) <=> (u.hasCandidate /\ u.candidateSubmissionId = s)
           /\ Accepted(s) <=> (u.winnerLocked /\ u.winnerSubmissionId = s)
      /\ u.hasCandidate => ~u.winnerLocked /\ u.candidateSubmissionId \in SubmissionsOf(p)
      /\ u.winnerLocked => u.winnerSubmissionId \in SubmissionsOf(p)

(* In a UNIQUE project the arbitration record says exactly which of the    *)
(* submissions is being judged and which has won: one candidate in flight  *)
(* at a time, never beside a winner, one winner for good, and no candidate *)
(* that is not really in flight (it would block every other auditor).      *)
UniqueArbitration ==
  \A p \in ProjectIds : projects[p].config.mode = "UNIQUE" => ArbitrationOK(p)

RecordOK(s) ==
  /\ s >= nextSubmissionId => submissions[s] = EmptySubmission
  /\ s < nextSubmissionId => /\ submissions[s].auditor \in Auditors
                            /\ submissions[s].projectId < nextProjectId
  /\ submissions[s].status # "Committed" =>
       submissions[s].salt # NoSalt /\ submissions[s].revealTimestamp > 0
  /\ lifecycle[s].finalValidity = "None" <=> (submissions[s].status = "Committed" \/ InFlight(s))
  /\ submissions[s].status \in {"Verified", "Disputed", "Finalized"} => Accepted(s)

(* What a status says about the rest of the record: ids beyond the counter *)
(* are untouched, a submission past Committed has a salt and a reveal time *)
(* (a zero salt would skip the candidate check of the verdict), and a      *)
(* verdict is on record exactly for the statuses that follow one.          *)
StatusMatchesRecord == \A s \in SubmissionIds : RecordOK(s)

(* A queued reveal belongs to the auditor of a submission that has yet to  *)
(* be revealed, by whichever of the three entry points the reveal came.    *)
QueueOnlyForCommitted ==
  \A s \in SubmissionIds : queuedReveals[s].queued =>
    /\ submissions[s].status = "Committed"
    /\ submissions[s].auditor = queuedReveals[s].auditor

(* A signed message takes effect at most once, and of the messages an      *)
(* auditor signed with one nonce, whatever their type, at most one does:   *)
(* neither a replay nor a relay in another order gets a second effect.     *)
SignatureSpentOnce ==
  \A g, h \in Signatures :
    /\ relayed[g] <= 1
    /\ (relayed[g] = 1 /\ relayed[h] = 1 /\ g.auditor = h.auditor /\ g.nonce = h.nonce) => g = h

(* A revealed submission opened a commitment made to its own auditor, and  *)
(* no two submissions share a commitment: a copied commit is never opened. *)
RevealProvesAuthorship ==
  \A s \in 0 .. nextSubmissionId - 1 :
    /\ submissions[s].status # "Committed" =>
         submissions[s].commitHash = CommitmentTo(submissions[s].auditor, submissions[s].salt)
    /\ \A t \in 0 .. nextSubmissionId - 1 :
         submissions[t].commitHash = submissions[s].commitHash => s = t

(* What the auditor of a submission has received is what the record says   *)
(* was paid, at most the cap of the project, and nothing before the        *)
(* submission is finalized: no path pays twice or pays a rejected finding. *)
PaidOnceAsRecorded ==
  \A s \in SubmissionIds :
    /\ paidOut[s] = IF submissions[s].status = "Finalized" THEN submissions[s].payoutAmount ELSE 0
    /\ paidOut[s] <= ConfigOf(s).maxPayoutPerBug

VerdictKept ==
  \A s \in SubmissionIds :
    /\ lifecycle[s].finalValidity # "None" => lifecycle'[s] = lifecycle[s]
    /\ submissions[s].status \in {"Finalized", "Invalid"} => submissions'[s] = submissions[s]

(* A late or repeated report changes neither a committed verdict nor a     *)
(* submission that is finalized or invalid.                                *)
VerdictIsFinal == [][VerdictKept]_vars

(* In a MULTI project nobody can commit once some finding has been opened. *)
NoCommitAfterReveal ==
  [][\A s \in SubmissionIds :
       (submissions[s].status # "Committed" /\ ConfigOf(s).mode = "MULTI"
          /\ nextSubmissionId' # nextSubmissionId)
       => submissions'[nextSubmissionId].projectId # submissions[s].projectId]_vars

(* A bounty pool shrinks only by finalizing one of its own submissions, at *)
(* once if the project has no dispute window, else after the window.       *)
PoolSpentOnlyByFinalization ==
  [][\A p \in ProjectIds : projects'[p].bountyPool < projects[p].bountyPool =>
       \E s \in SubmissionsOf(p) :
         /\ submissions[s].status # "Finalized" /\ submissions'[s].status = "Finalized"
         /\ projects[p].config.disputeWindow = 0 \/ now > submissions[s].disputeDeadline]_vars

(* While an allowlist is in force with neither the jury orchestrator nor   *)
(* bytes32(0) on it, no jury or owner verdict is committed.  The id        *)
(* bytes32(0), which the contract's owner may authorise, is not held to a  *)
(* kind of report: with it on the list the jury's verdicts need no jury.   *)
JuryVerdictsFromJuryWorkflow ==
  [][\A s \in SubmissionIds :
       (lifecycle[s].verdictSource = "None" /\ lifecycle'[s].verdictSource \in {"Jury", "Owner"})
       => \/ authorizedWorkflows = {}
          \/ {JURY_ORCHESTRATOR, NoWorkflow} \cap authorizedWorkflows # {}]_vars

=============================================================================
