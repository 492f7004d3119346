# Formal model of anti-soon

anti-soon is a bounty platform: auditors commit to a finding, reveal it, a
verification workflow executes it against a fork of the target, a jury and the
project owner adjudicate what the workflow cannot decide, and the finding is
disputed and paid on chain. This directory holds TLA+ modules that model the
program, TLC configurations that check them on small instances, and TLAPS proofs.

Paths below are relative to the repository.

## 1. The system

| Component | Code | State it keeps | Operations |
|---|---|---|---|
| BountyHub | `contracts/src/BountyHub.sol` | projects, submissions, arbitration record per UNIQUE project, queued reveals, lifecycle and grouping records, used commit hashes, cooldowns, signature nonces, workflow allowlist, ether | register, top up, commit, reveal, queue/execute/cancel a reveal, reports, challenge, resolve, finalize |
| ReceiverTemplate | `contracts/src/ReceiverTemplate.sol` | forwarder, optional expected workflow | `onReport` |
| Project VNet | `BountyHub.sol:400-444`, `workflow/vnet-init` | VNet status of a project | success / failure report |
| OasisPoCStore | `contracts/src/OasisPoCStore.sol`, `CompatSiweAuth.sol` | slots with writer, version, read grants | write, grant, read |
| auto-reveal-relayer | `workflow/auto-reveal-relayer` | a cursor file: last block, pending items, status per idempotency key | scan UNIQUE commits, scan MULTI queue, execute due reveals, retry, quarantine |
| cre-simulator triggers | `backend/cre-simulator/src/triggers`, the workers | one state file: execution records, cursors, deadline jobs | HTTP, cron and log triggers; claim, complete, quarantine |
| cre-simulator adapters | `backend/cre-simulator/src/*.ts`, `operator/` | none of their own | run a workflow, read and write the contract |
| verify-poc | `workflow/verify-poc` | idempotency file | verify a revealed PoC, reconcile, group MULTI findings, report |
| jury-orchestrator | `workflow/jury-orchestrator` | none between runs | collect opinions, reach consensus, report |
| frontend | `frontend/src` | browser storage for the recovery of a commit-reveal | UI, commit-reveal, Oasis upload |

How they interact: the auditor (through the frontend) writes the encrypted PoC to
OasisPoCStore and the commitment to BountyHub. BountyHub's events wake the
trigger workers and the relayer; both call back into the contract (reveals) or
start verify-poc and jury-orchestrator, whose signed reports reach
`BountyHub.onReport` through the forwarder. Everything off chain may be late,
repeated or crash half way; the contract is the one place that arbitrates, so it
is the core of this project.

What makes it hard, and where:

* **Interleaving** of auditors in a UNIQUE project: one candidate is judged at a
  time and a rejected candidate frees the place (`BountyHub.sol:673-683`, `1219-1268`).
* **Delivery** of reports: late, duplicated, out of order, from the wrong workflow.
* **Relayed signatures** in any order, one nonce for three kinds of message.
* **Boundaries** in time: commit and reveal windows, dispute window, cooldown.
* **Money**: several promises against one pool, bonds, forfeits, a penalty, a cap.
* **Stale state** off chain: a snapshot of a state file written back after an
  `await`; a queue item that was cancelled and queued again.
* **Crash and restart** between a claim and its completion.

`PROJECT.json` lists each hazard at its line with the properties that cover it.

What makes each component correct, and what the properties below therefore say:

* BountyHub - one winner and one candidate per UNIQUE project; a verdict is final;
  a reveal proves authorship; no commit in a MULTI project after a reveal; a
  signature acts once; a finding is paid once, what the record says; the contract
  can always pay what it holds for others.
* Project VNet and vnet-init - the base snapshot the contract records is one of
  the untouched target, however often a registration is handled.
* OasisPoCStore - a grant opens the payload it was given for and no later one.
* frontend submission flow - what is committed is stored, is bound to the account
  that commits, is committed once, and success is reported only of what is on chain.
* frontend submission page - it offers nothing before its case and its clock allow it
  and shows no branch of the workflow the case has not reached.
* auto-reveal-relayer - a queued reveal that becomes due is executed or left
  visible, never skipped silently; no item is executed twice; one in doubt stops it.
* trigger store - an event's adapter runs at most once; an accepted opinion is not
  lost; a deadline job that was put down is run.
* verify-poc - a submission is judged there or handed to the jury, not both; a
  drain is what the PoC did; completed means that the report was delivered; evidence
  handed out can be read by those who need it.
* jury-orchestrator - a jury verdict has its majority in the panel that sits, dated
  in time; the owner decides only after a deadlock; nobody has two seats.
* grouping of MULTI findings - a group is all that a chain of similar findings
  connects, its id is its own, and ranks have no ties and no gaps.

## 2. Plan

The modules in the order they were written, the most important behaviour first.

1. `BountyHub`, `BountyHubLedger`; the abstract `BountyPromise` and the mapping
   `BountyHubRefinement`; `MCBountyHub`.
2. `AutoRevealRelayer`: the cursor file, the two scanners, retries, crash and
   restart, against a chain that mines blocks, queues, cancels and reveals.
3. `TriggerStore`: the state file of the simulator as a register that workers load,
   hold over an `await` and write back.
4. `SubmissionClient`: the browser's submission flow with OasisPoCStore and its
   recovery after reloads.
5. `VerifyPoc`: verify-poc and vnet-init around one shared VNet.
6. `ReportEnvelope` and `JuryRound`: what the workflows hand each other, and the
   jury. `VerifyPoc`, `JuryRound` and `SubmissionPage` use `ReportEnvelope`.
7. `SubmissionPage`: the page composed with the whole of `BountyHub`.
8. `MultiGrouping`: the grouping of the findings of a MULTI project.
9. Proofs: the contract (types, arbitration, all its other safety properties, the
   refinement, solvency), the trigger store, the submission client, the relayer, the
   jury, verify-poc, the grouping and the submission page.

Every safety property that a passing run checks is proved for all values of the
constants that a named assumption allows (section 6).
What could come next, in this order: a composition of `VerifyPoc`, `JuryRound` and
`BountyHub` in which the reports of the first two are the transactions of the third,
so that `EvidenceOpensCase`, `VerdictFollowsBallot` and `VerdictIsFinal` become one
statement about a finding; two cycles of the relayer over one cursor file
(`Cycles` may have two members already); several projects in `TriggerStore`.

## 3. Modules

### BountyHub

One action is one successful transaction. A transaction that reverts changes
nothing, so every `require` on its path is a conjunct of the action. Variables
carry the names of the contract's state variables (`lifecycle` is
`s_submissionLifecycle`, `uniqueRevealState` is `uniqueRevealStateByProject`,
`grouping` is the `present` flag of the grouping record). Mappings are total
functions that start with the zero values of Solidity; a direct consequence is that
an unregistered project is UNIQUE and an unused submission is `Committed`, as on
chain.

| Actions | Code |
|---|---|
| `RegisterProject`, `TopUpBounty` | `registerProjectV2`/`V3`, `topUpBounty` |
| `CommitPoC`, `CommitPoCBySig` over `Commit` | `_commitPoC` and its two entry points |
| `RevealPoC`, `RevealPoCBySig`, `ExecuteQueuedReveal` over `Reveal` | `_revealPoC` and its three entry points |
| `QueueRevealBySig`, `CancelQueuedReveal` | the queue |
| `ProcessVerificationReport` | the legacy untyped report |
| `ProcessTypedVerificationReport` | the typed report without lifecycle fields |
| `ProcessFinalLifecycleReport`, `ProcessAdjudicationTransition` | the typed lifecycle report, by its status field |
| `Challenge`, `ResolveDispute`, `Finalize` | disputes and settlement |
| `SetAuthorizedWorkflow`, `SetLegacyReportFallbackEnabled` | provenance settings |
| `Tick` | `block.timestamp` |

Abstractions, each with its reason:

* A commit hash is the pair (auditor, salt) it opens for. Hashing is injective in
  the model; the cipher URI is folded into the salt. Anybody may commit any hash,
  so copied commitments are behaviours of the model.
* EIP-712 messages are records in a constant set of messages that the auditors
  have signed. Anybody relays them, in any order, as often as it likes. `relayed`
  is a history variable that counts accepted relays.
* Addresses other than owners and auditors carry no state: a challenger is
  whoever pays the bond. `paidOut` is a history variable of ether sent to the
  auditor of a submission; a transfer succeeds when the balance covers it.
* The raw lifecycle fields of a report that must agree with each other, or the
  transaction reverts, are represented by the one agreeing combination.
* Jury texts, digests, URLs, scopes, rules hashes and events are payload.
* A report comes in the name of a workflow, possibly of the empty id `bytes32(0)`
  (`NoWorkflow`), which the owner can authorise like any other and which the contract
  then exempts from the check of the report's type (`BountyHub.sol:852-854`, `878`;
  `ReportAdmitted`).
* The optional expected author, name and workflow id of ReceiverTemplate are unset.

The section of operators "with one fault each" is not used by the specification.
Each varies one operator the way a plausible slip would and shows that a property
notices.

### BountyHubLedger

`Solvent`, the property over sums of pools and open bonds.

### BountyPromise and BountyHubRefinement

`BountyPromise` is what a bounty program promises, without time, salts,
signatures, reports or money: a finding goes from *sealed* through judgement to
*accepted* or *rejected*, may be *contested* once, is *settled* once, and an
exclusive program opens a finding only while no other is open or accepted.
`BountyHubRefinement` maps the records of the contract to it (`OutcomeOf`,
`AcceptedFindings` and the other mapped variables) and states `ImplementsPromise`. That a submission upheld after a challenge cannot be
challenged again shows as the two outcomes `accepted` and `upheld`, both of
status `Verified` in the code.

### AutoRevealRelayer

The chain is reduced to what the relayer sees of BountyHub: statuses, queued
reveals, the arbitration record of one UNIQUE project, the deadlines of one MULTI
project, and the events `PoCCommitted` and `RevealQueued`. Its transactions are
the guards and effects of the BountyHub actions on that state. There is one
transaction per block, so a log is named by its submission and its block, which
is also what an idempotency key hashes; the number of a block is its timestamp.

A cycle is a record in `cycle` with a `phase`: it is a sequence of steps that end
at an `await` or at a save of the cursor file, and a crash or a failing call may
come after each of them. `store` is the copy of the file the cycle holds, `file`
what is on disk; every save writes the whole copy (`Save`).

| Actions | Code |
|---|---|
| `Start`, `Refuse` | `runAutoRevealRelayerCycle`, `loadAutoRevealCursorStore`, `buildRunOncePlan` |
| `FetchCommits`, `SaveCandidate`, `JudgeCandidates`, `JudgeCandidate`, `AdvanceAfterCandidates` | `runUniqueCommittedCandidateScanner` |
| `ReadClock`, `FetchQueued`, `SaveQueued`, `ListItems` | the scan of `runMultiDeadlineScanner` |
| `DropItem`, `SkipItem`, `Claim`, `Complete`, `CompleteOnRefresh`, `Quarantine`, `DequeueCompleted`, `FinishCycle` | its execution loop and its `catch` |
| `Simulate`, `Send`, `Receipt` | `executeQueuedReveal` of `live-runtime.ts` |
| `Retry`, `GiveUp` | `runAutoRevealWithRetry` |
| `Abort`, `Crash` | a read that throws, the death of the process |

`passed`, `claims`, `crashes` and the field `seen` are history.

The relayer reads the contract through an ABI of its own, and the one
`live-runtime.ts:20-49` ships is not the contract's. `RevealQueued(uint256)` has
another topic than the event of `BountyHub.sol:219`, so that a request for its logs
finds none; `projects()` and `submissions()` decode the first words of other records,
so that every mode is read as MULTI. The constant `LiveAbi` says which runtime a cycle
has: TRUE is the shipped one (`FoundQueueLogs`, `ModeOf`, `ReadsCommitted`), FALSE one
that answers as the types the engine is written against declare
(`UniqueCandidateRuntime`, `MultiDeadlineRuntime`). What the engine makes of correct
answers is checked and proved with `LiveAbi = FALSE`; with the shipped runtime no queued
reveal is ever found and every UNIQUE candidate is dropped as `NOT_UNIQUE` (run
`relay_shipped`, section 5).

Abstractions:

* The reads that judge one item are one step: each fact that makes an item
  terminal is irreversible, or the queue entry, which is read last. The clock is
  read once per cycle, before the scan, as in the code.
* A range that reaches beyond the head returns the logs up to the head. A node
  that answers it with an error instead would end every cycle near the head.
* A receipt is waited for; its status is not looked at, as in the code.
* Selected UNIQUE candidates only go to the caller, so selection itself leaves no
  trace. A reveal of a UNIQUE submission takes the candidacy, a verdict locks or
  frees it.
* Whether a failed call is classified as retriable is a choice (`Retry`, `GiveUp`).
* The cursor is not distinguished above `MaxCursor`: from there a cycle starts
  beyond `MaxBlock`, the last block there is.

### TriggerStore

The HTTP server, the cron worker and the EVM-log worker of `backend/cre-simulator`
share one state file (`file`) and the pocstore of the demo jury (`pocstore`). A
record in `worker` is what an event handler, a request or a cron tick is doing; it
has a `phase` because every `await` of an adapter is a point at which others run,
and `copy` and `votes` are what it read before that. Loading the file turns every
record in progress into a quarantined one (`Recovered`), and nobody starts unless
every record is completed (`Healthy`).

| Actions | Code |
|---|---|
| `LoadOnly` | `GET /triggers/status`, and every start that is refused |
| `StartEvent`, `RunEvent`, `Bootstrap`, `FinishEvent`, `FailEvent` | `triggers/evmLog.ts` `dispatchEvmLogTriggerEvent` |
| `StartDispatch`, `Relay`, `FinishDispatch`, `FailDispatch` | `triggers/dispatch.ts` |
| `StoreOpinion`, `OpenRound`, `StoreRound`, `RevealDeadline` | the phases of `demo-adjudication.ts` |
| `RunJob`, `RunInterval`, `EndCronRun` | `triggers/cron.ts`: a job that was run is deleted; the relay that is due by its interval deletes none |
| `Crash` | the death of one of the three processes |

Abstractions: one project with one submission, hence one job of each kind; when a
job falls due is left open; a tick that runs several jobs is several steps; a load
and the claim that follows it without yielding are one step, also across processes
(two processes that load within the same instant are outside the model); what a
cycle of the relayer does is in `AutoRevealRelayer`. `runs`, `ran`, `kept` and
`accepted` are history.

### SubmissionClient

A tab (`tab`) takes its flow from `Submit` through an upload to Sapphire and a
commit on Sepolia; `phase` names the `await` it stands at. The tabs of a browser
share the wallet, whose chain and account change at any time (`SwitchWallet`), and
one recovery entry in localStorage (`stored`). `slot` and `canRead` are
OasisPoCStore, `commits` and `pending` BountyHub with its transactions on the way.

| Actions | Code |
|---|---|
| `Submit`, `Catch`, `Reset`, `Reload` | `hooks/usePoCSubmission.ts`, a reload of the page |
| `Post`, `JoinSapphire`, `PickPointer`, `SendWrite`, `WriteNotAuthorized`, `RetryWrite`, `WriteReceipt`, `Readback`, `Prove`, `RestoreChain`, `UploadFails` | `uploadEncryptedPoC` and its helpers in `lib/oasisUpload.ts` |
| `Simulate`, `SendCommit`, `MineCommit`, `CommitReceipt`, `CommitTimesOut` | the commit, its receipt and the search for it (`recover`) |
| `Expire`, `Usable`, `Context` | `lib/commitRevealRecovery.ts` |
| `Write`, `GrantReadAccess`, `Readable`, `WriteElsewhere` | `OasisPoCStore.sol` |

A slot id and a salt are random and modelled by the choice of one not used before;
a digest is what it is taken of; strangers write payloads of their own, because
nobody else has the envelope a flow encrypted. Signatures and the SIWE login are
left out. A receipt may come without a `logs` array, and then proves the write on
whichever chain it was sent (`ReceiptProves`, `oasisUpload.ts:132-135`). The history
`onTrust` is what was taken for stored for that reason alone.

### VerifyPoc

`fork` is the one Tenderly VNet of the project: what is left in the target, what
each snapshot took, and which snapshots it keeps. `init` holds the handlers of
ProjectRegistered (vnet-init), `handler` those of PoCRevealed (verify-poc), each
stopping at its calls. `file` and `mem` are the idempotency store and the copy the
process has loaded; `vnet`, `status` and `verdict` belong to BountyHub.

| Actions | Code |
|---|---|
| `CreateVnet`, `CreateVnetFails`, `CreateSnapshot`, `InitThrows`, `ReportVnet` | `workflow/vnet-init/main.ts`; `ReportVnet` ends in `_applyProjectVnet` or `_applyVnetFailed` of BountyHub |
| `OnPoCRevealed` | the claim (`main.ts:3048-3140`), with the mapping version and the payload hash |
| `ReadPoC` | the read of the PoC with its endpoints and retries (`rpcReadRetry.ts`), its validation and parsing |
| `Refuse`, `Execute`, `ExecuteLost` | `verifyPoC`: fork check, `evm_revert`, `evm_snapshot`, setup, balances, the attack |
| `GateRetries`, `GateEmits`, `EmitEvidence`, `GateWrites` | the strict-fail gate and the evidence for the jury |
| `WriteReport`, `MarkCompleted`, `HandlerThrows` | the report and the mark, the `catch` |
| `OpenJury`, `Overwrite`, `Crash` | the jury takes the evidence, the slot's writer rewrites it, the process dies and restarts, perhaps with another mapping version |

A PoC is how much it takes (`Takes`) and a list of setup steps; what its transaction
does inside the EVM is nothing but that. A call of an endpoint ends in one of
eight ways (`CallEnds`), of which the code retries four. BountyHub takes a report or
refuses it inside a transaction that succeeds, because of the submission's status or, by
choice of the model, for the allowlist, the type or the gas (`HubTakes`,
`BountyHub.sol:834-881`); the history `refused` is of whom it refused one. `exact` marks a drain for which no balance
read was missing and the snapshot restored.

### ReportEnvelope

Operators without state: the parsers of verify-poc, of the simulator and of
jury-orchestrator, each by the fields it requires and refuses, and the envelopes
the workflows make. An envelope is a record; a missing optional field is missing
from its domain. The deadlines of a case (`Deadlines`) are here too.

### JuryRound

`main.ts` of jury-orchestrator keeps no state between calls: each mode takes
artefacts from its caller and returns one. The artefacts that circulate are
therefore the state: `cases`, `ingests` and `finals`; a caller combines any of
them, also old ones, dates the votes it hands in as it likes, in time or late
(`OpinionDates`, `ingestTimestampSec` of `main.ts:2168-2171`), and writes verdict
candidates of its own (`Claims`).

| Actions | Code |
|---|---|
| `OpenCase` | case-initialization, with the roster commitment |
| `ReissueHumanJurorSlot` | the replacement of a human juror |
| `IngestOpinions` | opinion-ingest |
| `PackageVerdict` over `JuryDecisions`, `OwnerDecisions`, `LegacyDecisions` | aggregate-opinions and final-package |
| `Derived`, `Aggregated`, `Testified` | derive-recommendation, aggregate-recommendations, owner-testimony; what they return is a `LegacyDecisions` candidate |
| `DeliverVerdict`, `IncludeReport` | the report reaching BountyHub |
| `PrepareRound`, `WriteOpinion`, `ReadBackOpinion`, `RunIngest`, `AggregateRound`, `Simulate`, `AbortRound` | `run-once.ts` |

`Aggregate`, `Consensus` and `Qualifies` are the counting, `Served` and
`InferredMode` the dispatch by the keys of a request. A case package carries the
committed roster, whom the draw gave each human seat (`drawn`), the trail of
replacements and the roster they lead to (`seated`).

### SubmissionPage

EXTENDS `BountyHub` with `page`: per submission what the page last fetched and what
of it is on screen. The submission, its lifecycle and its project are three reads,
each answered by the chain or by the read cache (`Answers`), so the page may join
values of different times. `ActualStatus`, the stages, the timeline, the headline,
the offers and the drafts are `pages/SubmissionDetail.tsx` and
`components/shared/VerificationWorkflowPanel.tsx`, as operators on that record;
`OpenPage`, `ShowLifecycle`, `ShowProject`, `Mount` and `Refresh` are the moments at
which a read is answered or a panel appears; a page that is opened again may be
answered from the cache with what it showed before, the lifecycle included.
`ViewModel` collects what is computed for one submission: the headline, the stages,
the final one included, the timeline, the cards, the offers and the drafts. The texts of a
stage's metadata are left out.

The page has a clock of its own. It reads it once per rendering (`rendered`, by
`Renders`) and judges the dispute window by what it read; nothing renders it again as
time passes. The clock may be up to `ClockLag` behind the chain's and up to `ClockLead`
ahead of it. `Rerender` is a rendering for any other reason, at any time.

### MultiGrouping

`buildPostVerdictMultiSubmissionGroups` of `workflow/verify-poc/src/multiGrouping.ts`.
The workflow imports its version constant and its cohort type; the functions
themselves are only called by tests, but they define the grouping records whose
presence BountyHub stores. The function is pure. Its search for the connected
components of the similarity graph is taken step by step (`StartComponent`,
`VisitNext`, `CloseComponent`), because that is where it could go wrong; similarity,
scores, order and ranks are operators on its argument and result (`SimilarityScore`,
`MemberScore`, `GroupBefore`, `GroupRank` and their like).

Abstractions: a word, a selector, a target and an impact type are model values, and
`tokenOf` is what `normalizeToken` makes of a word; a hash is what it is taken of, so
the truncation of a group id to 40 bits is not seen; scores are thousandths.

### SumsAndPlaces

No model: lemmas about sums over finite sets and about the places of an ordered set,
which the proofs about the contract's money, about ranks and about rosters share.

### Proof modules

`BountyHubProofs` (in seven parts: types; arbitration and verdicts; commit-reveal,
signatures, provenance and payments; the promise; the refinement; submission pages;
solvency), `TriggerStoreProofs`, `SubmissionClientProofs`, `AutoRevealRelayerProofs`,
`JuryRoundProofs`, `VerifyPocProofs` and `MultiGroupingProofs`: see section 6.

## 4. Runs

Constants are listed in the `.cfg` files; the sets of configurations and
messages are defined in the `MC` modules. Every property has a mutant of a mapped
definition, listed in `PROJECT.json`, for which the same run fails.

| Run | Instance | Shows |
|---|---|---|
| `windows` | 1 MULTI project with both deadlines, the commit deadline only or none, 2 auditors, 2 submissions, commit, reveal and queue messages that share nonces, some with deadlines before the reveal opens | `RevealProvesAuthorship`, `QueueOnlyForCommitted`, `SignatureSpentOnce`, `NoCommitAfterReveal` |
| `settlement` | 1 project, UNIQUE with and without dispute window or MULTI without, 1 auditor, 2 submissions, a zero salt among the salts, cap 40, deposit 1, a top up of 45, drains and bonds on both sides of their thresholds | `TypeOK`, `UniqueArbitration`, `Solvent`, `PaidOnceAsRecorded`, `ImplementsPromise`, `VerdictIsFinal`, `PoolSpentOnlyByFinalization` |
| `admission` | 1 UNIQUE project, 1 submission, every verdict delivered in the name of each workflow and of the empty id while the owner edits an allowlist of all three | `JuryVerdictsFromJuryWorkflow` |
| `page` | 1 UNIQUE project with and without dispute window, 1 auditor, 1 submission, default windows that differ from the project's, a browser clock up to 1 ahead and renderings of any age | `OffersFollowTheCase`, `StagesNeverLie`, `DraftDatesTheCase` |
| `relay_faults` | 2 queued MULTI reveals, a salt that may not open, cancels and new queue entries, failing calls, 2 attempts, 1 crash | `ClaimedOnce`, `ClaimBeforeSend`, `FailClosed` |
| `relay_progress` | 4 blocks, window 3, overlap 1, chunk 2, batch 1; a queued MULTI reveal, 2 UNIQUE submissions, direct reveals, verdicts | `NothingSkipped`, `CandidatesKept`, `RememberedRevealsHappen` |
| `relay_shipped` | 1 queued MULTI reveal, the shipped ABI | `NothingSkipped` is violated (section 5) |
| `triggers` | 3 events, one a registration, one with and one without strict failure, 2 handlers, 1 client, 2 opinions of which 1 is needed, 2 crashes | `EventRunsOnce`, `OpinionsKept`, `JobsRun` |
| `verify` | 2 submissions, 2 handlers, 2 initializations, 2 deliveries, 2 endpoints and 2 read attempts, 1 crash, 1 overwrite, 2 mapping versions, reports taken and refused | `ExactDrain`, `VerdictOnCommittedPayload`, `OneOutcome`, `CompletedIsReported`, `EvidenceOpensCase` |
| `jury` | 1 LLM seat and 2 human seats, 3 human jurors, a consensus of 2 with 1 of each cohort, 1 replacement, 1 ingest with votes dated in time or late, 2 final packages, 1 run-once process | `OneSeatPerJuror`, `JuryVerdictBacked`, `OwnerOnlyAfterDeadlock`, `OneVerdictPerBallot` |
| `client` | 2 tabs, 2 accounts, 2 projects, 1 PoC, 2 slots, 2 submissions, 1 change of the wallet, 1 grant, 1 slot write by a stranger, receipts with and without logs, sealed calldata | `CommittedIsStored`, `ReportedIsCommitted`, `ContextCommittedOnce` |
| `grouping` | 4 submissions, each with one of 7 reports that differ in calldata, words and severity, and requests the gate refuses | `GroupsAreClusters`, `GroupIdsDistinct`, `RanksArePlaces` |

### The contract

The bounds are `MaxProjects`, `MaxSubmissions`, `MaxTime`, `MaxBalance`; at a bound
the model stops, so these configurations do not check for deadlock (a contract may
also simply not be used).

Why the bounds are enough: the arbitration of a project touches no other project,
so one suffices; two submissions are a candidate and the rival that waits for its
rejection, commits late or finds the project won. Two findings also suffice for
money, because a third only repeats the second's competition for the rest of the
pool. A deposit of 1 covers neither a payout nor a penalty; topped up it covers one
payout of 40 with its penalty of 2, not two, so that both the cap and the pool bind.
`MaxTime` lets every window of the configuration open, close and be overrun by one
block. Symmetry permutes auditors, or salts, which no constant of those runs tells
apart; only safety properties are checked under it. The theorems of section 6 cover
any number of projects, submissions and auditors.

Fairness: none is assumed and no liveness property is stated for the contract. The
contract moves only when somebody sends a transaction and nothing in it obliges
anybody to; a candidate whose verdict never comes blocks its project for ever, and
the code has no step that would end it. Liveness belongs to the relayer and the
workers, which do retry.

### The relayer

Deadlock is checked: a relayer that is refused or idle can always be started. Why
the bounds are enough: the state of an item depends on another item only through
the order of the list, a quarantine and the batch limit. Two items in `relay_faults` show
the first two; the batch limit only puts an item off to the next cycle, where it is met
like any pending item, and no run has more items than it allows. A
second crash meets what the first left: the file is either as before or has the
quarantine, and a refused start changes nothing. The window, chunk and overlap are
chosen so that cycles start inside, at the edge of and beyond what earlier cycles
read.

`relay_progress` has no crashes, failing calls or cancels. `NothingSkipped` counts the
blocks that were on the chain when the cycle started; section 5 says what happens
otherwise. The window is longer than the overlap, so that the cursor does run beyond the
chain: `RememberedRevealsHappen` speaks of the reveals a cycle has put down, which are then
executed wherever the cursor is. An item that can never succeed, or one whose cancellation
races its execution, is quarantined and stops the relayer for everybody, which is its
documented behaviour (fail closed); therefore the salts are correct and the cancels are in
`relay_faults`. The theorem about `NothingSkipped` includes them.

Fairness: `Start` is weakly fair because the cron trigger fires every minute
(`backend/cre-simulator/triggers.json`), the steps of a cycle because a running
process goes on, and `Include` because a transaction that passed its simulation is
mined. Blocks, auditors, verdicts, failures and crashes are not fair: time may
stop, and the property only promises what the open window allows.

### The trigger store

Two handlers are what two open subscriptions give; with the cron worker and a
client that is one worker of each kind and a second of the kind that repeats
itself. Two crashes let a worker die in the aftermath of another's death. A fourth
event would only come after a completed one, which the third does already. Deadlock
is checked.

Fairness: each worker's current step, or its failure, is weakly fair: the adapters
are assumed to end, well or badly. The simulator has no timeout for them, so this is
an assumption about the workflow CLI and the RPC endpoints they call; an adapter that
hung for ever would keep the whole simulator waiting, as nobody else may start. `RunJob` is strongly fair: the cron worker
tries every minute, and a tick that finds another execution in progress is over
without effect, so that the job is startable again and again but not all the time.
Events, requests and crashes are not fair. `JobsRun` allows for the simulator being
stuck: after a crash the record of the dead worker stays unhealthy until an
operator deletes it, which is what the code wants (fail closed).

### verify-poc, the jury, the browser, the grouping

These systems may stop when nothing is delivered any more, or a bound is reached,
so deadlock is not checked; no fairness is assumed and no liveness stated.

* `verify`: two submissions share the VNet, of which one takes all the target holds
  and the other all its setup put there; two initializations race with two handlers
  of the same delivery. One crash may fall between any two steps, and the restart
  may bring another mapping version; a second crash would find what the first one may. Any report may be refused.
* `jury`: the quorum is scaled from 8 of 10 with 3 of each cohort to 2 of 3 with 1
  of each, which keeps `SeatAssumption`: a majority cannot be all LLM jurors. One
  replacement gives two panels of one case, which is all a combination of artefacts
  needs. Two dates, the jury deadline and one second more, are all the code tells apart. `MaxTime` is the adjudication deadline, one second past the jury's.
* `client`: two tabs with one submission each; a second change of the wallet's
  chain or account is not needed between two chains and two accounts because every
  flow switches by itself as well. Two slots let the slot a flow wants be taken before it
  writes. `ReadersOfThisPayload` needs several writes of one slot by its owner, which beside
  two tabs is too large an instance; it is proved and not run.
* `page`: everything on it is per submission, one is enough; `MaxTime` lets the
  dispute window close, and a clock that is ahead by one or a rendering that is old by one
  is on the other side of its deadline. A lag shows the page what an old rendering does. The default windows differ from the project's so that a
  draft that used them could be told.
* `grouping`: four submissions are enough for a chain whose ends are not similar to
  each other, for two groups of two, and for groups that only their scores or their
  representatives order.

## 5. Where the code differs from what it says

One run ends in a counterexample to a sentence of the repository.

* `relay_shipped` - "The system waits through the commit-only period, then scans
  committed submissions and auto-reveals them in batch once the commit deadline is
  reached" (`frontend/src/reference/content/pages/data-flow.ts:57`). The runtime that
  ships asks for logs of `RevealQueued(uint256)` (`live-runtime.ts:20-23`), the contract
  emits `RevealQueued(uint256,address,uint256)` (`BountyHub.sol:219`): the cursor moves over
  every queued reveal and none is put down. The getters are mistaken as well
  (`live-runtime.ts:30-49`), so that no UNIQUE candidate is ever kept.

The rest of this section was read in the code while modelling it. It is not claimed
by any run unless it says so; what is in the models is marked with the operator.

### The contract

* "Deduct penalty from bounty pool and add to payout" (`BountyHub.sol:1397`): for a
  payout at the cap, `_executePayout` caps the sum again, and the penalty leaves the
  pool and reaches nobody. The ether stays in the contract, outside every pool
  (`Finalize`).
* "Set dispute deadline and escrow" (`BountyHub.sol:1244`): a verdict reserves
  nothing, so two accepted findings can be promised more than the pool holds and
  whoever is finalized last gets the rest. `PaidOnceAsRecorded` and `Solvent` hold
  all the same: the record is lowered to what is paid.
* "If true, overturn the verification result" (`BountyHub.sol:1341`): the lifecycle
  record keeps `Valid` and a UNIQUE project keeps its winner lock (`Overturn`).
* Once the owner authorises the empty workflow id, a report in its name is admitted
  whatever its type (`BountyHub.sol:852-854`, `878`): a jury verdict then need not be the
  jury's. `JuryVerdictsFromJuryWorkflow` says just as much as holds.
* `canReveal` (`BountyHub.sol:1412-1438`), a view that is not modelled, ignores
  `revealDeadline` and a missing `commitDeadline`, so it may say yes where a reveal
  reverts.

### Lost verdicts

A submission can stay `Revealed`, which blocks a UNIQUE project for its candidate's
rivals, in more ways than by a workflow that never answers:

* Registration does not check `juryWindow` and `adjudicationWindow`. With a zero
  window the strict-fail evidence is made, its event is marked, and the jury's
  parser refuses the evidence. `VerifyPoc` takes positive windows only.
* `strict_failed` is marked before the evidence is returned; a crash in between
  loses it for good, as a marked event is not claimed again (`GateEmits`,
  `EmitEvidence`, `Claimable`).
* The report of verify-poc counts as sent when its transaction did not revert; that
  the receiver inside it did is not looked at (`verify-poc/main.ts:3277`). When BountyHub
  refuses it there, for the allowlist, the type or the gas, the event is completed for good
  and line 3296 logs "Result written on-chain", while the submission stays `Revealed`. So
  `CompletedIsReported` says delivered, and that a completed submission is verified is false.
* run-once names no `finalDrainAmountWei` and strict-fail evidence has drain 0, so
  a consensus on HIGH or MEDIUM always ends in an error (`RunEndsWithoutVerdict`).
* An HTTP error of the fork-block read, or a refusal of an endpoint, is recorded as
  `BINDING_MISMATCH`, and so an honest PoC goes to the jury (`Refuse`, `ReadPoC`).
* `RETRY_SYNC` is quarantined and nothing retries it (`GateRetries`).

### auto-reveal-relayer

* The ABI of the runtime is not the contract's: run `relay_shipped`, above. Nothing holds
  the two against each other, and the tests of the relayer bring runtimes of their own.
* `toBlock` is not clamped to the head (`run-once-core.ts:222`) and the cursor is
  set to it. Cycles that run faster than blocks come move the cursor beyond the
  chain; a reveal queued later in a block below it, farther than the overlap, is
  never seen.
* Both scanners move one cursor and the UNIQUE one goes first
  (`unique-orchestration.ts:225`); a crash before the MULTI scan loses the range.
* The CRE entrypoint starts every cycle from an empty store (`entrypoint.ts:130`)
  and so reads the first `lookbackBlocks` blocks for ever (`Durable = FALSE`).
* A cancelled queue entry is taken for an executed one (`multi-deadline.ts:348`): the
  item is completed, and when the auditor queues the reveal again it is skipped as
  `ALREADY_COMPLETED` (`DropItem`, `CompleteOnRefresh`).
* Two cycles over one cursor file, which the adapter endpoint and the cron worker
  may start: a save writes back a stale copy (`cursor-store.ts:165`) and erases the
  quarantine of the other. `Cycles` may have two members, but the runs have one.

### cre-simulator

* A direct `POST` to an adapter bypasses the store and may overwrite the pocstore.
* The completion of a dispatch writes the copy of the file it loaded, so that an
  HTTP request for the commit-deadline phase loses the reveal-deadline job it has
  put down itself (`FinishDispatch` after `StoreRound`). `JobsRun` counts only jobs
  of the event handlers (`kept`).
* An event that comes while another execution is in progress is refused and not
  kept; events between two subscriptions are never fetched; `close` and `error` of a
  subscription both reconnect, so that one loss may open two.
* The reveal-deadline phase throws with too few opinions, or when the verdict is on
  chain already; its record is quarantined and the whole simulator stops for the
  operator (`FailDispatch`, `Stuck`). `GET /triggers/status` quarantines the record of a
  busy worker, until that worker ends (`LoadOnly`).
* The first opinions by time sit in for the human jurors, whoever wrote them.

### verify-poc and vnet-init

* The result of `evm_revert` and the id of the new snapshot are not used
  (`main.ts:2930`, `2938`). A snapshot that fails in vnet-init is reported as success
  with a zero id (`CreateSnapshot`), and every later revert restores nothing; the
  drains of such a VNet are not `exact`.
* A missing balance after the attack counts as 0, and the whole balance as drained.
* A setup may set the balance of the target itself, which adds to the drain.
* A late failure report overwrites an active VNet (`VnetFailedAfter`).
* With more than one node the snapshot ids differ and initialization throws.
* Without the file operations nothing is durable (`Durable = FALSE`).

### jury-orchestrator

* The owner's deadline is checked against a time its caller names; run-once takes the
  jury deadline plus one as the current time.
* The date of a vote is its caller's too (`main.ts:2168-2171`, `4311`): a vote cast late and
  dated back counts. `JuryVerdictBacked` is about the dates as given.
* run-once writes the opinions of a second run over those of the first, although its
  schema is called append-only (`main.ts:813`).
* Recommendations carry no juror, so one juror may fill a quorum of the legacy path
  (`Recommended`).
* The two parsers of a v2 report differ in the key `grouping`.

### frontend

* With `VITE_OASIS_TX_ENCRYPTION=false` (`Encrypted = FALSE`) `CommittedIsStored` does
  not hold: when the wallet is switched to Sepolia between the check of the chain and
  the write, the transaction of the write is found there and proves an upload that
  did not happen (`TransactionProves`). The default is TRUE, the runs and the theorem
  assume it.
* A receipt whose `logs` is not an array proves the write on whichever chain it was sent
  (`oasisUpload.ts:132-135`), so that a write sent on Sepolia, where it did nothing, passes
  for stored; the test of failing closed (`oasis-upload.spec.ts:1005`) has an empty array
  only. `CommittedIsStored` exempts what only such a receipt proved (`onTrust`).
* The glossary (`frontend/src/reference/content/pages/glossary.ts:28`) describes a
  commit-reveal in which the auditor "later reveals the salt". Once a flow has found its
  commit it clears the recovery entry (`usePoCSubmission.ts:356`), the only stored copy of
  the salt. The tab keeps it in memory, no page calls `revealPoC` or `queueRevealBySig`, and
  after a reload nothing that was left behind opens the commitment.
* The dispute window is judged by the browser's clock at the last rendering
  (`SubmissionDetail.tsx:407`, `459-464`): with a clock ahead Finalize is offered too early,
  and a page nobody renders again offers a challenge after the deadline.
  `OffersFollowTheCase` says how far this goes: by `ClockLead`, and for a case that was there.
* The headline starts as "Final protocol result is now visible to settlement-facing readers."
  (`verificationWorkflow.ts:615`) and stays so for a committed submission and while no
  lifecycle has been read; the Final Result stage is active from the commit on (`332-334`).
  `StagesNeverLie` says nothing of these two, which are wrong.
* The headline of an invalid submission names strict verification although the jury or the
  owner rejected it or a challenge overturned it (`638-642`), and the final card speaks of
  acceptance for a rejected one too (`654-690`). `StagesNeverLie` reads them as "rejected" and
  "packaged".
* A retry after the PoC was edited commits the PoC of the recovered context.
* One localStorage entry serves all projects and accounts; a second flow overwrites
  the context of the first.
* `architecture.ts:54` has the context persisted after PoCCommitted; it is persisted
  before the commit is sent, which is what makes the recovery work.
* The manual draft of the panel is computed once, when the panel first appears, and
  never again (`Mount`); when the project was not read by then it keeps the default
  windows, and a case opened from it has other deadlines than the contract.
  `DraftDatesTheCase` exempts such drafts.
* An overturned submission whose lifecycle says `Valid` counts as valid in the lists.

## 6. Proofs

Each theorem holds for every value of the constants that the named assumption of its
module allows: `ConstantsAssumption` for the contract, with `PageAssumption` for the
pages; `TriggerAssumption`, `ClientAssumption`, `RelayerConstants`,
`VerifyAssumption` and `GroupingAssumption` for the modules they stand in;
`SeatAssumption`, `JurorAssumption` and `TimeAssumption` for the jury. They are types
and distinctness, and for the jury that its quorum cannot be met by LLM jurors alone.
TLC evaluates them in the runs. A theorem that needs more says so in an ASSUME of its
own, and this section says why.

### The contract

* `TypeCorrect` - `Spec => []TypeOK`. The content is arithmetic: no pool, payout,
  bond or balance goes below zero on any path, which needs the guards on the
  penalty and on the bond, and that a payout is at most the pool (`PayableBounds`).
* `StatusMatchesRecordAlways`, `UniqueArbitrationAlways` - the two invariants of
  the arbitration. `UniqueArbitration` alone is not inductive: the verdict skips
  the candidate check for a submission without a salt, so one needs to know that
  a submission in flight has one (`StatusMatchesRecord`), that an unused
  submission id has an untouched record, and that a project id still free has the
  zero rules (`FreeProjectsAreEmpty`), because registering sets the mode.
  `Inv` is the conjunction, and `Invariance` its theorem.
* `VerdictIsFinalAlways` - the action property, from the same invariant.
* `RevealProvesAuthorshipAlways` - needs that every hash of a submission is in
  `commitHashUsed` (`Committed`), so that no later commit can share it.
* `QueueOnlyForCommittedAlways` - every way out of `Committed` drops the queue entry.
* `SignatureSpentOnceAlways` - an accepted message lies below its signer's nonce.
* `NoCommitAfterRevealAlways` - a finding of a MULTI project is opened only after the
  commit deadline (`OpenedLate`), and time does not go back.
* `JuryVerdictsFromJuryWorkflowAlways` - of the step that commits the verdict: once there
  is an allowlist, the jury's workflow or the empty id is on it. Any id may be authorised.
* `PaidOnceAsRecordedAlways`, `PoolSpentOnlyByFinalizationAlways` - every step pays one
  submission (`Pays`) or nobody (`PaysNobody`), and unused projects have no money
  (`FreePools`).
* `ImplementsPromiseAlways` - the refinement: the initial state maps to an initial
  state of `BountyPromise`, and every transaction to a step of it or a stutter.
  `ChallengesRecorded` is the extra invariant: whether a submission was challenged
  tells `upheld` from `accepted`, and a verdict must not change it.
* `ExclusiveAwardAlways` - about `PromiseSpec` of `BountyPromise`, without
  assumptions: two findings of an exclusive program are never both open or
  accepted, so neither are those of an implementation. `PromiseInv` adds that an
  accepted finding is past "none", which is needed where a program may still
  become exclusive.

The argument has two layers. Each action is first reduced to one of six kinds of
step (`QuietStep`, `CommitStep`, `RevealStep`, `VerdictStep`, `EscalationStep`,
`SettlementStep`) that say only what the action does to the record of a submission,
its verdict and its project's arbitration; `EveryStepHasAKind` does that once. The
invariants of the arbitration and the refinement are then proved from the kinds, with
no money, signatures or time in sight. The guarantees about money and signatures have
step predicates of their own (`PaymentStep` and others).

`StatusMatchesRecord` is proved and used, but no run checks it by itself: it says of
every submission which fields its status allows, and most of it is seen through the
properties that rest on it.

### Solvency

`SolventAlways` - the balance covers all pools and all bonds at stake. The property
adds up over every project and submission with `MapThenSumSet`, which adds in an
order nobody knows, and no prover here instantiates an induction theorem. Instead
`SumsAndPlaces` treats a sum as a function on all subsets (`IsSum`) and argues from a
smallest counterexample, which the well-foundedness of strict inclusion on a finite
set provides: two sums of one function agree (`SumsAgree`), and if a function changes
in one place its total changes by that difference (`TotalChanges`). `Covered` is
`Solvent` in these terms. No strengthening but `TypeOK` is needed: `EveryStepBooks`
shows that each transaction touches at most one pool and one bond and adds to the
balance at least what it adds to the two (`LedgerStep`). It adds more where
a penalty is capped away (section 5).

### The submission page

The page shows three reads of different age, some from a cache. What makes that safe is
that a case is only ever added to: a status once reached says something that stays true.
`CaseOK` is what is on record of a case, `StatusOK`, `SeenOK`, `ViewOK` and `DraftOK` what a
status, a submission, a lifecycle answer and a draft say about the case from then on,
whenever they were read and whatever the clock said. Each transaction is reduced to what it does to a case
(`CaseMoves`), which yields that the facts are never withdrawn, and the page's own
steps only copy. `OffersFollowTheCaseAlways`, `StagesNeverLieAlways` and
`DraftDatesTheCaseAlways` follow from `PageInv`.

### The trigger store

The state file has no lock, and every dispatch writes back a copy it read before an
`await`. What keeps the workers apart is the rule that an unhealthy record stops
everybody: whoever starts leaves a record in progress, a load of anybody turns it at
worst into a quarantined one, and either keeps others out until its own worker
replaces it. `IInv` says so: at most one worker is live (`Mutex`), its key is the only
unhealthy one (`ClaimHeld`), and therefore the stale copies of the file (`CopyFresh`)
and of the pocstore (`VotesFresh`) are not stale. `Exclusion` proves it invariant;
`EventRunsOnceAlways` and `OpinionsKeptAlways` follow. Without `Healthy` in the guard of a
start both would fail.

### The submission client

`SubmissionClientProofs`: a hash is held by a flow that commits, the recovery entry, a
transaction or a commit (`Held`); it is made in one place, at the end of an upload, with
a salt nobody else has. The invariant says that the salt names the hash and the hash its
sender, slot and project. `CommitBindsSenderAlways` (which no run checks by itself),
`ContextCommittedOnceAlways` and `ReportedIsCommittedAlways` follow.

The second half: a slot written by an account or the service is not written again,
because no flow picks one its author has, the store refuses the others, and no two flows
are about to write the same (`WritesApart`). What an upload has seen written is therefore
there when its hash is made, unless all that was seen was a receipt without logs
(`onTrust`). `CommittedIsStoredAlways` assumes `Encrypted`, without which
it is false (section 5). `ReadersOfThisPayloadAlways` needs that grants name a version
and versions only grow.

### The relayer

The theorems are about one cycle at a time (`Cycles = {c0}`) over a file that is kept
(`Durable`); nothing is claimed for two cycles or without the file, and section 5 says
what can happen then. `CandidatesKeptAlways` and `NothingSkippedAlways` assume `~LiveAbi`: they
say what the engine does with correct answers, and are false of the shipped ABI (run
`relay_shipped`). Otherwise they hold for every window, chunk, overlap and batch size, any
number of retries and crashes.

* `SlotInvariance` - a cycle between two awaits works on the file it last saved, and
  the only item in doubt is the one it is executing (`OneInDoubt`); what was claimed and
  what is in the mempool is on record (`ClaimsOnRecord`, `SentOnRecord`).
  `ClaimedOnceAlways`, `ClaimBeforeSendAlways` and `FailClosedAlways` follow: after a crash the
  item in doubt is still marked in the file, and a start that finds it is refused.
* `CandidatesKeptAlways` - the blocks of `passed` have their UNIQUE commits among the
  candidates, unless they can never be selected (`PassedRemembered`); during a scan what
  was read and not yet saved counts too (`CommitsScanned`). It holds through crashes,
  since candidates are saved before the cursor moves.
* `NothingSkippedAlways` - the same for queued reveals, but the UNIQUE scan moves the
  cursor first, so the range is unscanned for a while (`Unscanned`). A crash or a failed
  call in that while loses it, hence the hypotheses `~Flaky` and `MaxCrashes = 0`, those of
  `relay_progress`. The newest log of a submission decides, because a reveal that was
  cancelled waits again only with a log of its own (`ChainMoves`).

### verify-poc

* `BaseSnapshotPristineAlways` - nothing runs on the VNet before its report, and the one
  report taken names a snapshot of the untouched target (`Untouched`). It is no longer
  checked by a run, because `ExactDrain` fails whenever it does.
* `ExactDrainAlways`, `VerdictOnCommittedPayloadAlways` - what a handler holds is sound at each
  of its awaits (`Sound`): the payload it runs is the copy that was validated, not the
  slot, and the revert, the setup and the attack are one batch.
* `EvidenceOpensCaseAlways` - assumes positive windows (section 5): all evidence ever handed
  out is of one form, and that form lies in what both parsers accept.
* `OneOutcomeAlways`, `CompletedIsReportedAlways` - assume `Durable`. `Ledger` ties the store, the
  chain and the evidence together: one handler works on a submission at a time, and what
  it is about to do has not been done.

### The jury

* `OneSeatPerJurorAlways` - a replacement seats someone who sits nowhere, whatever copy of
  the case it starts from (`CaseInv`).
* `RostersReplay` - every mode replays the trail of replacements before it lets anybody
  vote, and refuses a package whose seats come out otherwise; none that circulates is
  refused, so nobody seated is shut out. The replay is a fold, studied like the sums
  above: two replays agree wherever both are defined (`ReplaysAgree`), so one replacement
  more is one step more (`ReplayAppend`).
* `FinalsFollowBallots` - a final package names the consensus of its own ballot, or the
  owner where that ballot has none, although callers write verdict candidates
  themselves (`FollowsBallot`), with votes dated in time. `JuryVerdictBackedAlways`, `OwnerOnlyAfterDeadlockAlways` and
  `OneVerdictPerBallotAlways` follow.
* `VerdictFollowsBallot` - the verdict on the contract is that of such a package, however
  many processes race to report.
* `ConsensusIsUnique` - assumes `2 * RequiredConsensus > LlmCount + HumanCount`, as in 8 of
  10: no two validities qualify, so the order in which the code tries them is irrelevant.

### The grouping

* `GroupsAreClustersHolds` - for any graph: the search invariant `SearchInv` says that what
  was visited is finished or open, that open nodes lie in one cluster, and that what is
  finished is a cluster. Symmetry of similarity (`NeighborsSymmetric`) is needed where a
  cluster is shown to be the cluster of each of its members.
* `GroupIdsDistinctHolds` - an id hashes what members report, so two groups could share one;
  they do not, because equal reports are similar, even with no words and no selectors
  (`JaccardOfEqual`).
* `GroupsAreUniform` - the cohort, target and impact of a representative are those of all.
* `RanksArePlacesAlways` - the order of members and that of groups are strict and total
  (`MembersAreOrdered`, `GroupsAreOrdered`), since ids and representatives differ; one plus
  the number of those before numbers any finite set so ordered (`PlacesAreNumbered`: places are
  distinct, hence an injection into as many numbers, hence onto).

### Only model-checked

Liveness: `RememberedRevealsHappen` and `JobsRun` need fairness and ENABLED, which the provers do
not handle.

## 7. Not modelled

* Deployment scripts and CI; they run by hand, once, and keep no state.
* ABI encoding, but for where the relayer's differs from the contract's (`LiveAbi`),
  signature recovery, digests, encryption and the SIWE login: messages,
  hashes and tokens are values, and only what they bind is modelled.
* What happens inside the EVM of a VNet when a PoC runs; the services of Tenderly, IPFS
  and the LLMs beyond that their calls succeed, fail or repeat.
* Pages that only list or register projects, their wording and layout, and the stored
  preview of a PoC.
* The modules only tests call, but for `multiGrouping.ts`: the reconciliation of
  `reconciliation.ts`, `juryLedgerSchema.ts`, `oasisClient.ts`, the attestation
  validators and `transitionVerifyPocSyncState`.
* Of the relayer its configuration, secrets and metrics, chain reorganisations, and the
  operator who repairs the cursor file; likewise the operator of the simulator.
* The optional expected author, name and workflow id of ReceiverTemplate and their
  setters; the deployment leaves them unset.
* Overflow: arithmetic is on natural numbers. Amounts are ether in wei and timestamps,
  far from 2^256, and Solidity 0.8 reverts rather than wraps.
* Re-entrance: a transfer's recipient runs no code in the model, so every call is one
  atomic step. Most transfers come last in their call, but on a project without a
  dispute window `_executePayout` calls the auditor before `winnerLocked` and the
  lifecycle record are written (`BountyHub.sol` 1241-1272), and what a recipient could
  see or do at that point is outside the model.
