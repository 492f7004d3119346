----------------------------- MODULE VerifyPoc -----------------------------
(***************************************************************************)
(* workflow/vnet-init and workflow/verify-poc with the part of BountyHub   *)
(* they report to: one project, its Tenderly VNet, and the submissions     *)
(* revealed for it.                                                        *)
(*                                                                         *)
(* vnet-init answers ProjectRegisteredV2: it creates the VNet, takes the   *)
(* base snapshot every verification is to start from, and reports both.    *)
(* verify-poc answers PoCRevealed: it claims the event in its idempotency  *)
(* store, reads the PoC from Oasis, runs it on the VNet and either reports *)
(* a pass on chain or hands out strict-fail evidence for the jury.         *)
(*                                                                         *)
(* A target contract holds Balance; PoC s moves at most Takes[s] out of    *)
(* it.  Events may be delivered again, HTTP answers may be lost, and the   *)
(* verify-poc process may crash between any two calls.  In node mode the   *)
(* nodes must agree; here one node answers for all of them, or they do not *)
(* agree and the handler throws.                                           *)
(***************************************************************************)
EXTENDS ReportEnvelope, SequencesExt

CONSTANTS
  Subs,                   \* revealed submissions of the project
  Handlers,               \* verify-poc handlers of one process
  Inits,                  \* deliveries of ProjectRegisteredV2 to vnet-init
  Balance, Takes,         \* what the target holds, what each PoC can move out of it
  PoCs,                   \* what may have been submitted: submission -> [hashed (its cipherURI
                          \* names the envelope hash), stored, form, chain, setup]
  Rules,                  \* of the configuration: [seed, warp, impersonation]
  Signer,                 \* account of the Oasis read key: none, writer, or another one
  Admits,                 \* whom a slot lets read: a plain "call" in the name of its
                          \* writer, a "token" of the signer
  Urls,                   \* Sapphire RPC endpoints as configured, the primary first
  MaxAttempts,            \* rpcReadRetry.maxAttempts
  MaxRetries,             \* MAX_RETRIES of vnet-init
  Durable,                \* the runtime has file operations for the store
  Versions,               \* idempotency mapping versions deployed over time
  NoSnapshot,             \* the all-zero snapshot id
  Times,                  \* windows of the project, timestamps of its submissions
  MaxDeliveries, MaxCrashes, MaxOverwrites

ASSUME VerifyAssumption ==
  /\ Balance \in Nat /\ Takes \in [Subs -> Nat]
  /\ PoCs \subseteq [Subs -> [hashed : BOOLEAN, stored : BOOLEAN, form : STRING, chain : STRING,
                             setup : Seq([type : STRING, who : STRING, value : Nat])]]
  /\ Urls # <<>> /\ MaxAttempts \in Int /\ MaxRetries \in Nat \ {0}
  /\ Rules \in [seed : Nat, warp : Nat, impersonation : BOOLEAN]
  /\ Signer \in {"none", "writer", "other"} /\ Admits \in [Subs -> SUBSET {"call", "token"}]
  /\ Durable \in BOOLEAN
  /\ NoSnapshot \notin Inits
  /\ Times \in [juryWindow : Nat, adjudicationWindow : Nat, committed : Nat, revealed : Nat]

VARIABLES
  vnet,        \* BountyHub: [status, snapshot] of the project's VNet
  status,      \* BountyHub: submission -> Revealed, Verified, JuryPending
  verdict,     \* BountyHub: the verdicts verify-poc gave
  refused,     \* history: submissions with a report that BountyHub refused
  poc,         \* the PoCs submitted; nothing changes them
  fork,        \* Tenderly: [left, taken, keeps]
  init,        \* vnet-init: the handler of each delivery
  oasis,       \* Oasis: the payload in the slot a submission points to
  file, mem,   \* the idempotency store, and the copy the process loaded
  loaded,      \* whether it has loaded one
  version,     \* the mapping version of the running code
  handler,     \* the handlers of PoCRevealed
  evidence,    \* strict-fail evidence packages handed out
  deliveries,  \* of PoCRevealed events
  crashes      \* of the verify-poc process

hubVars   == <<vnet, status, verdict, refused, poc>>
storeVars == <<file, mem, loaded, version>>
vars == <<hubVars, fork, init, oasis, storeVars, handler, evidence, deliveries, crashes>>

NoOutcome == [isValid |-> FALSE, drain |-> 0, exact |-> FALSE, reason |-> "NONE"]
NoVerdict == [drain |-> 0, exact |-> FALSE, payload |-> "none"]
EmptyStore == [status |-> [s \in Subs |-> "none"], mapping |-> [s \in Subs |-> 0]]
Resting == [phase |-> "idle", sub |-> CHOOSE s \in Subs : TRUE,
            info |-> [status |-> "Pending", snapshot |-> NoSnapshot],
            payload |-> "none", outcome |-> NoOutcome]

Lesser(a, b) == IF a <= b THEN a ELSE b

-----------------------------------------------------------------------------
(* vnet-init *)

Started  == [phase |-> "create", attempt |-> 1, snapshot |-> NoSnapshot]
Finished == [Started EXCEPT !.phase = "done"]

\* createVnet: a 409 reuses the VNet that has the project's slug, so that every delivery
\* ends with the same VNet.
CreateVnet(i) ==
  /\ init[i].phase = "create"
  /\ init' = [init EXCEPT ![i].phase = "snapshot"]
  /\ UNCHANGED <<hubVars, fork, oasis, storeVars, handler, evidence, deliveries, crashes>>

\* An attempt fails, before Tenderly created the VNet or after.
CreateVnetFails(i) ==
  /\ init[i].phase = "create"
  /\ init' = [init EXCEPT ![i] =
       IF @.attempt < MaxRetries THEN [@ EXCEPT !.attempt = init[i].attempt + 1]
       ELSE [@ EXCEPT !.phase = "failed"]]
  /\ UNCHANGED <<hubVars, fork, oasis, storeVars, handler, evidence, deliveries, crashes>>

\* createSnapshot: a failure is reported as success, with the zero id.
CreateSnapshot(i) ==
  /\ init[i].phase = "snapshot"
  /\ \/ /\ fork' = [fork EXCEPT !.taken[i] = fork.left]
        /\ init' = [init EXCEPT ![i].phase = "made", ![i].snapshot = i]
     \/ /\ init' = [init EXCEPT ![i].phase = "made"]
        /\ UNCHANGED fork
  /\ UNCHANGED <<hubVars, oasis, storeVars, handler, evidence, deliveries, crashes>>

\* The nodes' results differ (each takes a snapshot of its own), or the write fails.
InitThrows(i) ==
  /\ init[i].phase \in {"made", "failed"}
  /\ init' = [init EXCEPT ![i] = Finished]
  /\ UNCHANGED <<hubVars, fork, oasis, storeVars, handler, evidence, deliveries, crashes>>

\* BountyHub _applyProjectVnet reverts unless the status is None or Pending.
ProjectVnetAfter(v, snapshot) ==
  IF v.status = "Pending" THEN [status |-> "Active", snapshot |-> snapshot] ELSE v

\* _applyVnetFailed asks nothing about the status.
VnetFailedAfter(v) == [v EXCEPT !.status = "Failed"]

\* encodeVnetSuccessTypedReport and encodeVnetFailedTypedReport; _dispatchTypedReport goes
\* by the type.
VnetReport(i) ==
  [type |-> IF init[i].phase = "made" THEN "VNET_SUCCESS" ELSE "VNET_FAILED",
   snapshot |-> init[i].snapshot]
VnetAfter(v, report) ==
  IF report.type = "VNET_SUCCESS" THEN ProjectVnetAfter(v, report.snapshot)
  ELSE VnetFailedAfter(v)

ReportVnet(i) ==
  /\ init[i].phase \in {"made", "failed"}
  /\ vnet' = VnetAfter(vnet, VnetReport(i))
  /\ init' = [init EXCEPT ![i] = Finished]
  /\ UNCHANGED <<status, verdict, refused, poc, fork, oasis, storeVars, handler, evidence, deliveries,
                 crashes>>

-----------------------------------------------------------------------------
(* The idempotency store *)

\* loadVerifyPocIdempotencyStore: what was in flight when the process died is quarantined.
Recovered(store) ==
  [store EXCEPT !.status = [s \in Subs |-> IF @[s] = "processing" THEN "quarantined" ELSE @[s]]]

\* getVerifyPocIdempotencyStore: loaded once per process
Store == IF loaded THEN mem ELSE IF Durable THEN Recovered(file) ELSE EmptyStore

\* persistVerifyPocIdempotencyStore: nothing happens without file operations.
Persist(store) ==
  /\ mem' = store
  /\ file' = IF Durable THEN store ELSE file
  /\ loaded' = TRUE /\ UNCHANGED version

\* assertVerifyPocIdempotencyMappingStable, by source event
Mapped(store, s) ==
  IF store.mapping[s] = 0 THEN [store EXCEPT !.mapping[s] = version] ELSE store
MappingStable(store, s) == store.mapping[s] \in {0, version}

\* Variant: an event whose evidence was given may be claimed again.
ClaimableAgain(st) == st \in {"none", "strict_failed"}

\* claimVerifyPocIdempotencySlot: nothing calls it with allowQuarantinedReclaim.
Claimable(st) == st = "none"

Mark(s, st) == Persist([mem EXCEPT !.status[s] = st])

-----------------------------------------------------------------------------
(* verify-poc: onPoCRevealed up to the claim *)

\* The handler throws before anything is claimed: no envelope hash, or the mapping drifted.
Rejects(s) == ~poc[s].hashed \/ ~MappingStable(Store, s)

\* readProjectVnetInfoWithEvmClient
VnetInfo == [status |-> vnet.status, snapshot |-> vnet.snapshot]

OnPoCRevealed(h, s) ==
  /\ handler[h].phase = "idle"
  /\ deliveries < MaxDeliveries /\ deliveries' = deliveries + 1
  /\ IF ~Rejects(s) /\ Claimable(Mapped(Store, s).status[s])
     THEN /\ Persist([Mapped(Store, s) EXCEPT !.status[s] = "processing"])
          /\ handler' = [handler EXCEPT ![h] =
                [Resting EXCEPT !.phase = "read", !.sub = s, !.info = VnetInfo]]
     ELSE /\ Persist(IF Rejects(s) THEN Store ELSE Mapped(Store, s))
          /\ UNCHANGED handler
  /\ UNCHANGED <<hubVars, fork, init, oasis, evidence, crashes>>

-----------------------------------------------------------------------------
(* Reading the PoC from Oasis *)

\* buildRpcEndpointPool: every endpoint once, in the order of the configuration
Pool == FoldLeft(LAMBDA pool, url : IF url \in ToSet(pool) THEN pool ELSE Append(pool, url),
                 <<>>, Urls)
Attempts == IF MaxAttempts < 1 THEN 1 ELSE MaxAttempts    \* normalizeRetryPolicy

\* How an eth_call ends; runRpcReadWithRetry goes round the pool while the failure is of a
\* kind that may pass.
CallEnds == {"ok", "timeout", "network", "http_busy", "rpc_busy",
             "http_refused", "rpc_error", "bad_payload"}
Retriable == {"timeout", "network", "http_busy", "rpc_busy"}
Health == [ToSet(Pool) -> CallEnds]
Endpoint(attempt) == Pool[((attempt - 1) % Len(Pool)) + 1]
Settles(health, a) == /\ health[Endpoint(a)] \notin Retriable
                      /\ \A b \in 1 .. (a - 1) : health[Endpoint(b)] \in Retriable
CallAnswer(health) ==
  IF \E a \in 1 .. Attempts : Settles(health, a)
  THEN health[Endpoint(CHOOSE a \in 1 .. Attempts : Settles(health, a))] ELSE "exhausted"
Answers == {CallAnswer(health) : health \in Health}

\* decodeAuthorizedReadMeta: a slot nobody wrote has no writer.
Written(s) == oasis[s] # "nothing"

\* hasMatchingOasisReadSigner
SignsForWriter == Signer = "writer"

\* buildOasisSiweReadToken: there is one for any key, or, when the writer of the slot is
\* known, for the key of the writer.
HasToken(writerKnown) == Signer # "none" /\ (writerKnown => SignsForWriter)

\* readStoredPayloadFromOasisContract: with a key the token read comes first, and nothing
\* follows when it is refused; without one the slot is read in the writer's name, and the
\* token read meant as a fallback has no key to sign with.
Readable(s) ==
  /\ Written(s)
  /\ IF Signer # "none" THEN HasToken(FALSE) /\ "token" \in Admits[s]
     ELSE "call" \in Admits[s] \/ (HasToken(TRUE) /\ "token" \in Admits[s])

\* normalizePoCChainId: numbers, in figures or not, and the names of two chains
Numbers == {"1", "11155111"}
ChainId(chain) ==
  CASE chain \in Numbers -> chain [] chain \in {"ethereum", "mainnet"} -> "1"
    [] chain = "sepolia" -> "11155111" [] OTHER -> "none"

\* normalizeFrontendPoCData: a PoC as the frontend writes it
FromFrontend(p) == p.form = "frontend" /\ ChainId(p.chain) # "none"

\* parsePoCData: the workflow's own form, or the frontend's translated into it
Parses(p) == (p.form = "workflow" /\ p.chain \in Numbers) \/ FromFrontend(p)

\* Variant: any payload that parses.
AnyPayload(payload) == payload \in {"own", "other"}

\* validateOasisRpcPayload: the payload is the one whose hash the reference names.
Validated(payload) == payload = "own"

Fail(reason) == [NoOutcome EXCEPT !.reason = reason]
Judged(hd, o) == [hd EXCEPT !.phase = "gate", !.outcome = o]

\* readPoCFromOasisRpc
Obtained(s) == Readable(s) /\ Validated(oasis[s]) /\ Parses(poc[s])

\* classifyVerifyPocSyncReasonCode takes every error that is not a retriable one for a
\* mismatch, the refusal of an endpoint too.
ReadPoC(h, answer) ==
  LET s == handler[h].sub
  IN  /\ handler[h].phase = "read"
      /\ handler' = [handler EXCEPT ![h] =
           IF answer = "exhausted" THEN Judged(@, Fail("RETRY_EXHAUSTED"))
           ELSE IF answer = "ok" /\ Obtained(s)
                THEN [@ EXCEPT !.phase = "execute", !.payload = oasis[s]]
           ELSE Judged(@, Fail("BINDING_MISMATCH"))]
      /\ UNCHANGED <<hubVars, fork, init, oasis, storeVars, evidence, deliveries, crashes>>

-----------------------------------------------------------------------------
(* Running the PoC on the VNet *)

\* A setup is a sequence of [type, who, value]: whose balance is set, if anybody's, and to
\* what, or how far the clock is moved.
\* validateSetupOps: how far evm_increaseTime moves the clock is not asked (nor is it done).
ValidSetup(setup) ==
  \A i \in DOMAIN setup :
    /\ setup[i].type = "setBalance" /\ setup[i].who # "nobody" => setup[i].value <= Rules.seed
    /\ setup[i].type \in {"setTimestamp", "evm_increaseTime"} => Rules.warp # 0
    /\ setup[i].type = "setTimestamp" => setup[i].value <= Rules.warp
    /\ setup[i].type \in {"impersonate", "prank"} => Rules.impersonation

\* verifyForkState: a PoC for mainnet has its block compared with the source chain; for any
\* other it is enough that the VNet has the block.
Hashes == {"missing", "one", "another"}
ForkVerified(p, forkHash, sourceHash) ==
  forkHash # "missing" /\ (ChainId(p.chain) = "1" => forkHash = sourceHash)

\* What verifyPoC asks before it touches the VNet
Admissible(hd, forkHash, sourceHash) ==
  /\ ValidSetup(poc[hd.sub].setup) /\ hd.info.status = "Active"
  /\ ForkVerified(poc[hd.sub], forkHash, sourceHash)

Refuse(h, forkHash, sourceHash) ==
  /\ handler[h].phase = "execute" /\ ~Admissible(handler[h], forkHash, sourceHash)
  /\ handler' = [handler EXCEPT ![h] = Judged(@, Fail("BINDING_MISMATCH"))]
  /\ UNCHANGED <<hubVars, fork, init, oasis, storeVars, evidence, deliveries, crashes>>

\* evm_revert works for a snapshot the node still has; nothing looks at its result.
Restores(id) == id # NoSnapshot /\ fork.taken[id] # -1

\* Variant: the VNet is not reverted.
AsLeft(id) == fork.left
Base(id) == IF Restores(id) THEN fork.taken[id] ELSE fork.left

\* The setup is run before the first balance is read: of all its steps only a balance set
\* for the target shows in it.
Funds(setup) == {i \in DOMAIN setup : setup[i].type = "setBalance" /\ setup[i].who = "target"}
AfterSetup(base, setup) ==
  IF Funds(setup) = {} THEN base
  ELSE setup[CHOOSE i \in Funds(setup) : \A j \in Funds(setup) : j <= i].value
Prepared(id, s) == AfterSetup(Base(id), poc[s].setup)

\* The snapshot taken right after the revert would replace a consumed one, but its id is
\* thrown away.
ForkAfter(id, s) ==
  [fork EXCEPT !.left = Prepared(id, s) - Lesser(Takes[s], Prepared(id, s)),
               !.taken = IF Restores(id) /\ ~fork.keeps THEN [fork.taken EXCEPT ![id] = -1]
                         ELSE fork.taken]

\* A balance that is missing from the batch answer counts as zero.
Drained(pre, post) == IF pre > post THEN pre - post ELSE 0
Measured(base, s, gap) ==
  Drained(IF gap = "pre" THEN 0 ELSE base,
          IF gap = "post" THEN 0 ELSE base - Lesser(Takes[s], base))

\* Variant: what an invalid PoC moved is recorded all the same.
RecordedAlways(isValid, drain) == drain
Recorded(isValid, drain) == IF isValid THEN drain ELSE 0

\* One of the PoC's transactions may fail: what it moves is left where it is, and the PoC is
\* not valid whatever the rest drained.
Execute(h) ==
  LET hd == handler[h]
      s  == hd.sub
      id == hd.info.snapshot
  IN  /\ hd.phase = "execute"
      /\ \E forkHash, sourceHash \in Hashes : Admissible(hd, forkHash, sourceHash)
      /\ \E gap \in {"none", "pre", "post"}, ok \in BOOLEAN :
           LET drain   == Measured(Prepared(id, s), s, gap)
               isValid == ok /\ drain > 0
           IN  /\ fork' \in {ForkAfter(id, s)} \cup
                            (IF ok THEN {} ELSE {[ForkAfter(id, s) EXCEPT !.left = Prepared(id, s)]})
               /\ handler' = [handler EXCEPT ![h] = Judged(@,
                    [isValid |-> isValid, drain |-> Recorded(isValid, drain),
                     reason |-> "NONE", exact |-> Restores(id) /\ gap = "none"])]
      /\ UNCHANGED <<hubVars, init, oasis, storeVars, evidence, deliveries, crashes>>

\* The batch is answered with an HTTP error, before it was run or after.
ExecuteLost(h) ==
  LET hd == handler[h]
  IN  /\ hd.phase = "execute"
      /\ \E forkHash, sourceHash \in Hashes : Admissible(hd, forkHash, sourceHash)
      /\ fork' \in {fork, ForkAfter(hd.info.snapshot, hd.sub)}
      /\ handler' = [handler EXCEPT ![h] = Judged(@, Fail("RETRYABLE_RPC"))]
      /\ UNCHANGED <<hubVars, init, oasis, storeVars, evidence, deliveries, crashes>>

-----------------------------------------------------------------------------
(* The strict gate and what follows it *)

StrictGate(h) == Gate(handler[h].outcome.isValid, handler[h].outcome.reason)

\* With the times read from BountyHub; the severity the auditor claimed is left out.
EvidenceOf(h) ==
  StrictFail(handler[h].sub, handler[h].outcome.isValid, handler[h].outcome.drain, Times, 0,
             handler[h].outcome.reason)
ReportOf(h) ==
  StrictPass(handler[h].sub, handler[h].outcome.isValid, handler[h].outcome.drain)

Rest(h) == handler' = [handler EXCEPT ![h] = Resting]

\* The catch block: the event is quarantined, which nothing undoes: "retry" is in name only.
Quarantine(h) ==
  /\ Mark(handler[h].sub, "quarantined") /\ Rest(h)
  /\ UNCHANGED <<hubVars, fork, init, oasis, evidence, deliveries, crashes>>

GateRetries(h)  == /\ handler[h].phase = "gate" /\ StrictGate(h) = "RETRY_SYNC"
                   /\ Quarantine(h)

\* Any later call throws: VNet or window reads, disagreement of the nodes, the write.
HandlerThrows(h) == handler[h].phase \in {"read", "gate", "write"} /\ Quarantine(h)

\* The evidence is encoded, then counts as given, then is returned.
GateEmits(h) ==
  /\ handler[h].phase = "gate" /\ StrictGate(h) = "EMIT_EVIDENCE"
  /\ DecodesTyped(EvidenceOf(h))
  /\ Mark(handler[h].sub, "strict_failed")
  /\ handler' = [handler EXCEPT ![h].phase = "emit"]
  /\ UNCHANGED <<hubVars, fork, init, oasis, evidence, deliveries, crashes>>

EmitEvidence(h) ==
  /\ handler[h].phase = "emit"
  /\ evidence' = [evidence EXCEPT ![handler[h].sub] = Append(@, EvidenceOf(h))]
  /\ Rest(h)
  /\ UNCHANGED <<hubVars, fork, init, oasis, storeVars, deliveries, crashes>>

\* Variant: the event is completed before its report is written.
GateMarksFirst(h) ==
  /\ handler[h].phase = "gate" /\ StrictGate(h) = "WRITE_REPORT"
  /\ Mark(handler[h].sub, "completed")
  /\ handler' = [handler EXCEPT ![h].phase = "write"]
  /\ UNCHANGED <<hubVars, fork, init, oasis, evidence, deliveries, crashes>>

GateWrites(h) ==
  /\ handler[h].phase = "gate" /\ StrictGate(h) = "WRITE_REPORT"
  /\ Writable(ReportOf(h))
  /\ handler' = [handler EXCEPT ![h].phase = "write"]
  /\ UNCHANGED <<hubVars, fork, init, oasis, storeVars, evidence, deliveries, crashes>>

\* BountyHub takes a Verification verdict for a revealed submission only, and only if the
\* report is admitted: if its workflow is in the owner's allowlist and is the one for its
\* type, and the gas that is left for the call is enough.
HubTakes(s, admitted) == admitted /\ status[s] = "Revealed"

\* The forwarder's transaction succeeds whether or not BountyHub takes the report, and
\* only its own status is looked at.
WriteReport(h) ==
  LET s == handler[h].sub
  IN  /\ handler[h].phase = "write"
      /\ \E admitted \in BOOLEAN :
           IF HubTakes(s, admitted)
           THEN /\ status' = [status EXCEPT ![s] = "Verified"]
                /\ verdict' = [verdict EXCEPT ![s] =
                     [drain |-> ContractReport(ReportOf(h)).drainAmountWei,
                      exact |-> handler[h].outcome.exact, payload |-> handler[h].payload]]
                /\ UNCHANGED refused
           ELSE refused' = refused \cup {s} /\ UNCHANGED <<status, verdict>>
      /\ handler' = [handler EXCEPT ![h].phase = "mark"]
      /\ UNCHANGED <<vnet, poc, fork, init, oasis, storeVars, evidence, deliveries, crashes>>

MarkCompleted(h) ==
  /\ handler[h].phase = "mark"
  /\ Mark(handler[h].sub, "completed") /\ Rest(h)
  /\ UNCHANGED <<hubVars, fork, init, oasis, evidence, deliveries, crashes>>

-----------------------------------------------------------------------------
(* The world around *)

\* The simulator passes strict-fail evidence on, and a case opens the jury phase.
OpenJury(s) ==
  /\ \E i \in DOMAIN evidence[s] : Dispatches(evidence[s][i]) /\ OpensCase(evidence[s][i])
  /\ status[s] = "Revealed"
  /\ status' = [status EXCEPT ![s] = "JuryPending"]
  /\ UNCHANGED <<vnet, verdict, refused, poc, fork, init, oasis, storeVars, handler, evidence,
                 deliveries, crashes>>

\* The writer of the slot writes it again.
Overwrite(s) ==
  /\ Cardinality({t \in Subs : oasis[t] = "other"}) < MaxOverwrites
  /\ oasis' = [oasis EXCEPT ![s] = "other"]
  /\ UNCHANGED <<hubVars, fork, init, storeVars, handler, evidence, deliveries, crashes>>

\* The process dies; the next one may run another release.
Crash(v) ==
  /\ crashes < MaxCrashes /\ crashes' = crashes + 1
  /\ loaded' = FALSE /\ mem' = EmptyStore /\ version' = v
  /\ handler' = [h \in Handlers |-> Resting]
  /\ UNCHANGED <<hubVars, fork, init, oasis, file, evidence, deliveries>>

-----------------------------------------------------------------------------
Init ==
  /\ vnet = [status |-> "Pending", snapshot |-> NoSnapshot]    \* _setVnetPending
  /\ status = [s \in Subs |-> "Revealed"] /\ verdict = [s \in Subs |-> NoVerdict]
  /\ refused = {}
  /\ \E keeps \in BOOLEAN :       \* whether a snapshot survives being reverted to
       fork = [left |-> Balance, taken |-> [i \in Inits |-> -1], keeps |-> keeps]
  /\ init = [i \in Inits |-> Started]
  /\ poc \in PoCs /\ oasis = [s \in Subs |-> IF poc[s].stored THEN "own" ELSE "nothing"]
  /\ file = EmptyStore /\ mem = EmptyStore /\ loaded = FALSE
  /\ version = CHOOSE v \in Versions : \A w \in Versions : v <= w
  /\ handler = [h \in Handlers |-> Resting]
  /\ evidence = [s \in Subs |-> <<>>] /\ deliveries = 0 /\ crashes = 0

VnetInit(i) == CreateVnet(i) \/ CreateVnetFails(i) \/ CreateSnapshot(i)
               \/ InitThrows(i) \/ ReportVnet(i)

HandlerStep(h) ==
  \/ Execute(h) \/ ExecuteLost(h)
  \/ GateRetries(h) \/ GateEmits(h) \/ EmitEvidence(h) \/ GateWrites(h)
  \/ WriteReport(h) \/ MarkCompleted(h) \/ HandlerThrows(h)
  \/ \E answer \in Answers : ReadPoC(h, answer)
  \/ \E forkHash, sourceHash \in Hashes : Refuse(h, forkHash, sourceHash)

Next ==
  \/ \E i \in Inits : VnetInit(i)
  \/ \E h \in Handlers : HandlerStep(h) \/ \E s \in Subs : OnPoCRevealed(h, s)
  \/ \E s \in Subs : OpenJury(s) \/ Overwrite(s)
  \/ \E v \in Versions : Crash(v)

Spec == Init /\ [][Next]_vars

-----------------------------------------------------------------------------
(* Properties *)

\* However often the registration event is handled, and whatever ran on the VNet, the base
\* snapshot BountyHub recorded is one of the untouched target.
BaseSnapshotPristine ==
  vnet.snapshot # NoSnapshot => fork.taken[vnet.snapshot] \in {Balance, -1}

\* A drain measured from the base snapshot, with no balance missing, is what the PoC takes
\* from the target as its own setup leaves it, whichever PoCs ran before or are being
\* verified; and no drain is more than the target held or the rules let a setup give it.
ExactDrain ==
  \A s \in Subs :
    /\ verdict[s].exact =>
         verdict[s].drain = Lesser(Takes[s], AfterSetup(Balance, poc[s].setup))
    /\ verdict[s].drain <= Balance \/ verdict[s].drain <= Rules.seed

\* A verdict is about the payload the submission committed to, although its slot may be
\* rewritten while it is verified.
VerdictOnCommittedPayload ==
  \A s \in Subs : status[s] = "Verified" => verdict[s].payload = "own"

\* A submission is judged here or handed to the jury, never both, and handed over at most
\* once: through redeliveries, crashes and reloads of the store.
OneOutcome ==
  \A s \in Subs : Len(evidence[s]) <= 1 /\ ~(evidence[s] # <<>> /\ status[s] = "Verified")

\* An event recorded as completed had its report delivered, through crashes, reloads and
\* redeliveries: its verdict is on chain, or BountyHub refused it.
CompletedIsReported ==
  \A s \in Subs : file.status[s] = "completed" => status[s] = "Verified" \/ s \in refused

\* Whatever evidence is handed out is read alike by the three programs it passes through:
\* the simulator passes it on and the jury opens a case on it.
EvidenceOpensCase ==
  \A s \in Subs : \A i \in DOMAIN evidence[s] :
    Dispatches(evidence[s][i]) /\ OpensCase(evidence[s][i])
=============================================================================
