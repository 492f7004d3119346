-------------------------- MODULE SubmissionClient --------------------------
(***************************************************************************)
(* The frontend's submission flow: hooks/usePoCSubmission.ts,              *)
(* lib/oasisUpload.ts and lib/commitRevealRecovery.ts, with the part of    *)
(* OasisPoCStore.sol and BountyHub.sol it talks to.                        *)
(*                                                                         *)
(* A tab writes the PoC to a slot of OasisPoCStore on Sapphire, switches   *)
(* the wallet back to Sepolia and commits to the slot.  What a retry needs *)
(* is kept in one entry of localStorage.  The tabs of a browser share that *)
(* entry and the wallet, whose chain and account anyone may change between *)
(* any two steps; every await of the code ends a step here.                *)
(*                                                                         *)
(* A slot id and a salt are random: the slots a pointer may name are those *)
(* not yet written by its author, and every salt is new.  A digest is      *)
(* modelled by what it is taken of.                                        *)
(***************************************************************************)
EXTENDS Integers, FiniteSets

CONSTANTS
  Tabs, Accounts,         \* of one browser and its wallet
  Stranger,               \* anyone else who writes to OasisPoCStore
  Service,                \* the upload service, which writes in its own name
  UploadApi,              \* whether a page has VITE_OASIS_UPLOAD_API_URL, or its override
  Projects, PoCs, Slots,
  OtherPoCs,              \* what others write: no one else has the envelope of a flow
  Encrypted,              \* VITE_OASIS_TX_ENCRYPTION: calldata on Sapphire is sealed
  FirstId,                \* the id BountyHub gives to the first commit
  None,                   \* no context, no value
  Unreadable,             \* an entry of localStorage of another version, or damaged
  MaxSubmits, MaxSwitches, MaxGrants, MaxVersions

ASSUME ClientAssumption ==
  /\ {Stranger, Service} \cap Accounts = {} /\ Stranger # Service
  /\ None \notin Accounts \cup {Stranger, Service}
  /\ UploadApi \subseteq BOOLEAN /\ Encrypted \in BOOLEAN /\ FirstId \in Nat
  /\ MaxSubmits \in Nat /\ MaxSwitches \in Nat /\ MaxGrants \in Nat /\ MaxVersions \in Nat
  /\ OtherPoCs \cap PoCs = {}

VARIABLES
  wallet,    \* [chain, account], shared by the tabs
  stored,    \* the recovery context in localStorage, or None
  tab,       \* each tab's flow
  slot,      \* OasisPoCStore: the record of each slot
  canRead,   \* OasisPoCStore: the grants, by slot, version and principal
  granted,   \* history: the writer's grants, by slot, payload and principal
  onTrust,   \* history: what was taken for stored because its receipt had no logs to look at
  commits,   \* BountyHub: the submissions
  pending,   \* commit transactions that were sent and are not mined
  submits, switches   \* flows that were started, changes of the wallet's chain or account

vars == <<wallet, stored, tab, slot, canRead, granted, onTrust, commits, pending, submits,
          switches>>

Writers == Accounts \cup {Stranger, Service}
Chains  == {"sepolia", "sapphire"}
Empty   == [writer |-> None, payload |-> None, version |-> 0]
Salts   == 1 .. MaxSubmits

\* An envelope, and the cipherURI that names it
Payload(poc, project) == [poc |-> poc, project |-> project]
Uri(s, payload)       == [slot |-> s, payload |-> payload]
Hash(uri, sender, salt) == [uri |-> uri, sender |-> sender, salt |-> salt]

Resting == [phase |-> "idle", project |-> None, poc |-> None, wallet |-> None, salt |-> 0,
            from |-> None, slot |-> None, retried |-> FALSE, sentOn |-> None,
            uri |-> None, hash |-> None, result |-> None, id |-> 0]

-----------------------------------------------------------------------------
(* OasisPoCStore.sol *)

NextVersion(record) == record.version + 1
MayWrite(w, s) == slot[s].writer \in {None, w}

\* write: the first writer of a slot owns it; each write makes a new version, which only
\* the writer may read.
Write(w, s, payload) ==
  LET version == NextVersion(slot[s])
  IN  /\ slot' = [slot EXCEPT ![s] = [writer |-> w, payload |-> payload, version |-> version]]
      /\ canRead' = canRead \cup {<<s, version, w>>}

\* _read, for a caller in whose own name the call is made
Readable(s, reader) == <<s, slot[s].version, reader>> \in canRead

\* Another client takes a slot, or writes its own again.
WriteElsewhere(w, s, payload) ==
  /\ MayWrite(w, s) /\ slot[s].version < MaxVersions /\ slot[s].payload # payload
  /\ Write(w, s, payload)
  /\ UNCHANGED <<wallet, stored, tab, granted, onTrust, commits, pending, submits, switches>>

GrantReadAccess(w, s, principal) ==
  /\ slot[s].writer = w /\ Cardinality(granted) < MaxGrants
  /\ canRead' = canRead \cup {<<s, slot[s].version, principal>>}
  /\ granted' = granted \cup {<<s, slot[s].payload, principal>>}
  /\ UNCHANGED <<wallet, stored, tab, slot, onTrust, commits, pending, submits, switches>>

-----------------------------------------------------------------------------
(* lib/commitRevealRecovery.ts *)

Context(flow) == [project |-> flow.project, auditor |-> flow.wallet, salt |-> flow.salt,
                  uri |-> flow.uri, hash |-> flow.hash]

\* parseStoredContext: an entry that is not one of this version counts for nothing.
Parsed == IF stored = Unreadable THEN None ELSE stored

\* persistCommitRevealRecoveryContext: the entry is overwritten, whoever's it was.
Persist(flow) == stored' = Context(flow)

\* loadCommitRevealRecoveryContext: for this project and account, or else it is deleted.
Usable(project, account) ==
  Parsed # None /\ Parsed.project = project /\ Parsed.auditor = account

\* The time of the context is up (half an hour), or the user disconnects the wallet.
Expire ==
  /\ stored # None /\ stored' = None
  /\ UNCHANGED <<wallet, tab, slot, canRead, granted, onTrust, commits, pending, submits,
                 switches>>

-----------------------------------------------------------------------------
(* hooks/usePoCSubmission.ts: submitPoC up to the upload *)

\* With an upload service the PoC is posted to it, else the wallet writes.
FirstPhases == {IF api THEN "post" ELSE "switch" : api \in UploadApi}

Started(project, poc, account) ==
  [Resting EXCEPT !.project = project, !.poc = poc, !.wallet = account]

\* A context that can be used is used as it stands, whatever the PoC of this submission is.
Submit(t, project, poc) ==
  LET fresh == Started(project, poc, wallet.account)
  IN  /\ tab[t].phase \in {"idle", "failed"}
      /\ wallet.chain = "sepolia"
      /\ submits < MaxSubmits /\ submits' = submits + 1
      /\ IF Usable(project, wallet.account)
         THEN /\ tab' = [tab EXCEPT ![t] = [fresh EXCEPT !.phase = "simulate",
                   !.salt = stored.salt, !.uri = stored.uri, !.hash = stored.hash]]
              /\ UNCHANGED stored
         ELSE /\ \E phase \in FirstPhases :
                   tab' = [tab EXCEPT ![t] = [fresh EXCEPT !.phase = phase, !.salt = submits + 1]]
              /\ stored' = None
      /\ UNCHANGED <<wallet, slot, canRead, granted, onTrust, commits, pending, switches>>

-----------------------------------------------------------------------------
(* lib/oasisUpload.ts *)

storeVars == <<slot, canRead, granted, onTrust>>
hubVars   == <<commits, pending>>

Goto(t, phase) == tab' = [tab EXCEPT ![t].phase = phase]
Failed(t) == tab' = [tab EXCEPT ![t] = [Resting EXCEPT !.phase = "failed"]]
\* However the upload ends, the wallet is switched back.
UploadEnds(t, result) == tab' = [tab EXCEPT ![t].phase = "restore", ![t].result = result]

\* A call of the provider fails, the user declines, or nothing comes for 90 seconds.
UploadFails(t) ==
  /\ tab[t].phase \in {"post", "posted", "switch", "pointer", "write", "refused",
                       "receipt", "rejoin", "read", "proof"}
  /\ UploadEnds(t, "failed")
  /\ UNCHANGED <<wallet, stored, storeVars, hubVars, submits, switches>>

\* ensureChain, before the write and again before the readback
JoinSapphire(t, from, to) ==
  /\ tab[t].phase = from /\ Goto(t, to)
  /\ wallet' = [wallet EXCEPT !.chain = "sapphire"]
  /\ UNCHANGED <<stored, storeVars, hubVars, submits, switches>>

\* uploadViaRelayerApi: the service answers with a URI and a transaction.  The page looks
\* at their form only; the slot is named by the URI, when it names one.
Post(t, s) ==
  /\ tab[t].phase = "post"
  /\ slot[s].writer = None /\ Write(Service, s, Payload(tab[t].poc, tab[t].project))
  /\ \E named \in {s, None} :
       tab' = [tab EXCEPT ![t].phase = "posted", ![t].sentOn = "sapphire", ![t].slot = named]
  /\ UNCHANGED <<wallet, stored, granted, onTrust, hubVars, submits, switches>>

\* resolveProviderAddress: the wallet's account of this moment, or, when it does not tell,
\* the account the flow was started with
ProviderAddress(t) == {wallet.account, tab[t].wallet}

\* The pointer names a slot the author has not used; one that is seen to be taken is
\* replaced by another, which may be taken too.  A retry keeps the address.
PickPointer(t, s) ==
  /\ tab[t].phase = "pointer"
  /\ \A u \in Tabs \ {t} : tab[u].slot # s
  /\ \E from \in IF tab[t].retried THEN {tab[t].from} ELSE ProviderAddress(t) :
       /\ slot[s].writer # from
       /\ tab' = [tab EXCEPT ![t].phase = "write", ![t].from = from, ![t].slot = s]
  /\ UNCHANGED <<wallet, stored, storeVars, hubVars, submits, switches>>

\* The write is sent on whichever chain the wallet is; the same call on Sepolia does nothing.
SendWrite(t) ==
  LET hd == tab[t]
  IN  /\ hd.phase = "write"
      /\ \/ /\ wallet.chain = "sapphire" /\ MayWrite(hd.from, hd.slot)
            /\ Write(hd.from, hd.slot, Payload(hd.poc, hd.project))
         \/ wallet.chain = "sepolia" /\ UNCHANGED <<slot, canRead>>
      /\ tab' = [tab EXCEPT ![t].phase = "receipt", ![t].sentOn = wallet.chain]
      /\ UNCHANGED <<wallet, stored, granted, onTrust, hubVars, submits, switches>>

\* Refused because another owns the slot
WriteNotAuthorized(t) ==
  /\ tab[t].phase = "write" /\ wallet.chain = "sapphire"
  /\ ~MayWrite(tab[t].from, tab[t].slot)
  /\ IF tab[t].retried THEN UploadEnds(t, "failed") ELSE Goto(t, "refused")
  /\ UNCHANGED <<wallet, stored, storeVars, hubVars, submits, switches>>

\* readSapphireWriter: on the chain the wallet is on now
WriterRead(t) == IF wallet.chain = "sapphire" THEN slot[tab[t].slot].writer ELSE None

\* shouldRetryWriteAfterNotAuthorized: one more try, with another pointer, if the slot is
\* seen to be another's
RetryWrite(t) ==
  /\ tab[t].phase = "refused"
  /\ IF WriterRead(t) \notin {None, tab[t].from}
     THEN tab' = [tab EXCEPT ![t].phase = "pointer", ![t].retried = TRUE]
     ELSE UploadEnds(t, "failed")
  /\ UNCHANGED <<wallet, stored, storeVars, hubVars, submits, switches>>

\* waitForReceipt asks the chain the wallet is on.
WriteReceipt(t) ==
  /\ tab[t].phase = "receipt" /\ wallet.chain = tab[t].sentOn
  /\ Goto(t, "rejoin")
  /\ UNCHANGED <<wallet, stored, storeVars, hubVars, submits, switches>>

\* parseCipherURI
Parses(t) == tab[t].slot # None

\* readSapphirePayloadJson, when the call is answered.  It may be made in the caller's name,
\* in the writer's, or in nobody's; on Sepolia there is nothing to call.
ReadPayload(t) ==
  {slot[s].payload : s \in {r \in {tab[t].slot} : wallet.chain = "sapphire" /\ slot[r].writer # None}}

Matches(t, payload) == payload = Payload(tab[t].poc, tab[t].project)

\* validateSapphireReadback: only a refusal of the flow's own write leads to the proof.
Readback(t) ==
  /\ tab[t].phase = "read" /\ Parses(t)
  /\ \/ \E payload \in ReadPayload(t) : Matches(t, payload) /\ UploadEnds(t, "stored")
     \/ wallet.chain = "sapphire" /\ tab[t].from # None /\ Goto(t, "proof")
  /\ UNCHANGED <<wallet, stored, storeVars, hubVars, submits, switches>>

\* The cipherURI the flow goes on with
UploadUri(t) == Uri(tab[t].slot, Payload(tab[t].poc, tab[t].project))

\* Variant: the logs of a receipt are not looked at.
AnyReceipt(t, bare) == TRUE

\* receiptProvesPoCStoredWrite, of the receipt that was waited for: its logs have to hold
\* the event of the write, but a receipt that comes without logs (bare) will do.
ReceiptProves(t, bare) == bare \/ tab[t].sentOn = "sapphire"

\* validateWriteTxProof: the transaction is looked up on the chain the wallet is on; it
\* counts when its calldata can be read and is the write, else its receipt has to prove it.
TransactionProves(t) == wallet.chain = tab[t].sentOn /\ ~Encrypted

\* Nothing before looks at the logs: whether there are any is settled here.
Prove(t) ==
  /\ tab[t].phase = "proof"
  /\ \E bare \in BOOLEAN :
       /\ UploadEnds(t, IF TransactionProves(t) \/ ReceiptProves(t, bare)
                        THEN "stored" ELSE "failed")
       /\ onTrust' = IF bare /\ ~TransactionProves(t) /\ ~ReceiptProves(t, FALSE)
                     THEN onTrust \cup {UploadUri(t)} ELSE onTrust
  /\ UNCHANGED <<wallet, stored, slot, canRead, granted, hubVars, submits, switches>>

\* The finally block switches back, or fails to; then the commit is prepared and kept.
Prepared(t) ==
  LET uri == UploadUri(t)
  IN  [Started(tab[t].project, tab[t].poc, tab[t].wallet) EXCEPT !.phase = "simulate",
         !.salt = tab[t].salt, !.uri = uri, !.hash = Hash(uri, tab[t].wallet, tab[t].salt)]

RestoreChain(t) ==
  /\ tab[t].phase = "restore"
  /\ \E chain \in {"sepolia", wallet.chain} : wallet' = [wallet EXCEPT !.chain = chain]
  /\ IF tab[t].result = "stored"
     THEN /\ tab' = [tab EXCEPT ![t] = Prepared(t)]
          /\ Persist(Prepared(t))
     ELSE Failed(t) /\ UNCHANGED stored
  /\ UNCHANGED <<storeVars, hubVars, submits, switches>>

-----------------------------------------------------------------------------
(* hooks/usePoCSubmission.ts: the commit *)

\* Variant: a hash may be committed again.
NeverUsed(hash) == FALSE

Used(hash) == \E c \in commits : c.hash = hash

\* The simulation reverts for a hash that is used, among other reasons.
Simulate(t) ==
  /\ tab[t].phase = "simulate"
  /\ \/ ~Used(tab[t].hash) /\ Goto(t, "send")
     \/ Goto(t, "catch")
  /\ UNCHANGED <<wallet, stored, storeVars, hubVars, submits, switches>>

\* The wallet refuses on another chain, and the user may decline.
SendCommit(t) ==
  /\ tab[t].phase = "send"
  /\ \/ /\ wallet.chain = "sepolia"
        /\ pending' = pending \cup {[hash |-> tab[t].hash, auditor |-> tab[t].wallet,
                       project |-> tab[t].project, uri |-> tab[t].uri, from |-> t]}
        /\ Goto(t, "wait")
     \/ Goto(t, "catch") /\ UNCHANGED pending
  /\ UNCHANGED <<wallet, stored, storeVars, commits, submits, switches>>

\* BountyHub _commitPoC
MineCommit(tx) ==
  /\ tx \in pending /\ pending' = pending \ {tx}
  /\ commits' = IF Used(tx.hash) THEN commits
       ELSE commits \cup {[id |-> FirstId + Cardinality(commits), hash |-> tx.hash,
              auditor |-> tx.auditor, project |-> tx.project, uri |-> tx.uri, from |-> tx.from]}
  /\ UNCHANGED <<wallet, stored, tab, storeVars, submits, switches>>

\* An id counts as found when it is not zero.
Found(c) == c.id # 0

\* Variant: after an error the commit is taken to be in, under the next id.
Assumed(t) == {[id |-> FirstId + Cardinality(commits)]}

\* recoverCommittedSubmissionId: the auditor's submissions on chain, by project and hash
Recovered(t) ==
  {c \in commits : /\ c.auditor = tab[t].wallet /\ c.project = tab[t].project
                   /\ c.hash = tab[t].hash}

Committed(t, c) ==
  /\ tab' = [tab EXCEPT ![t].phase = "committed", ![t].id = c.id]
  /\ stored' = None

\* The receipt is there.  That the transaction reverted shows in its missing event only;
\* then the chain is searched, which may fail, and a search without result gives up.
CommitReceipt(t) ==
  /\ tab[t].phase = "wait"
  /\ \A tx \in pending : tx.from # t
  /\ \/ \E c \in commits : c.from = t /\ c.hash = tab[t].hash /\ Found(c) /\ Committed(t, c)
     \/ /\ \A c \in commits : c.from = t /\ c.hash = tab[t].hash => ~Found(c)
        /\ \/ \E c \in Recovered(t) : Found(c) /\ Committed(t, c)
           \/ Failed(t) /\ stored' = None
  /\ UNCHANGED <<wallet, storeVars, hubVars, submits, switches>>

\* waitForTransactionReceipt gives up.
CommitTimesOut(t) ==
  /\ tab[t].phase = "wait" /\ Goto(t, "catch")
  /\ UNCHANGED <<wallet, stored, storeVars, hubVars, submits, switches>>

\* The catch block: a commit that can be found counts, else the context stays for a retry.
Catch(t) ==
  /\ tab[t].phase = "catch"
  /\ \/ \E c \in Recovered(t) : Found(c) /\ Committed(t, c)
     \/ Failed(t) /\ UNCHANGED stored
  /\ UNCHANGED <<wallet, storeVars, hubVars, submits, switches>>

-----------------------------------------------------------------------------
(* The user *)

\* RESET of a failed flow
Reset(t) ==
  /\ tab[t].phase = "failed"
  /\ tab' = [tab EXCEPT ![t] = Resting] /\ stored' = None
  /\ UNCHANGED <<wallet, storeVars, hubVars, submits, switches>>

\* The page is left or loaded again, whatever it is doing.
Reload(t) ==
  /\ tab[t].phase # "idle"
  /\ tab' = [tab EXCEPT ![t] = Resting]
  /\ UNCHANGED <<wallet, stored, storeVars, hubVars, submits, switches>>

SwitchWallet(chain, account) ==
  /\ switches < MaxSwitches /\ switches' = switches + 1
  /\ wallet' = [chain |-> chain, account |-> account] /\ wallet' # wallet
  /\ UNCHANGED <<stored, tab, storeVars, hubVars, submits>>

-----------------------------------------------------------------------------
Init ==
  /\ \E a \in Accounts : wallet = [chain |-> "sepolia", account |-> a]
  /\ stored \in {None, Unreadable} /\ tab = [t \in Tabs |-> Resting]
  /\ slot = [s \in Slots |-> Empty] /\ canRead = {} /\ granted = {} /\ onTrust = {}
  /\ commits = {} /\ pending = {} /\ submits = 0 /\ switches = 0

Upload(t) ==
  \/ JoinSapphire(t, "switch", "pointer") \/ JoinSapphire(t, "posted", "receipt")
  \/ JoinSapphire(t, "rejoin", "read")
  \/ \E s \in Slots : Post(t, s) \/ PickPointer(t, s)
  \/ SendWrite(t) \/ WriteNotAuthorized(t) \/ RetryWrite(t) \/ WriteReceipt(t)
  \/ Readback(t) \/ Prove(t) \/ UploadFails(t) \/ RestoreChain(t)

Commit(t) == Simulate(t) \/ SendCommit(t) \/ CommitReceipt(t) \/ CommitTimesOut(t) \/ Catch(t)

Next ==
  \/ \E t \in Tabs : Upload(t) \/ Commit(t) \/ Reset(t) \/ Reload(t)
  \/ \E t \in Tabs, project \in Projects, poc \in PoCs : Submit(t, project, poc)
  \/ \E tx \in pending : MineCommit(tx)
  \/ Expire
  \/ \E chain \in Chains, a \in Accounts : SwitchWallet(chain, a)
  \/ \E s \in Slots, poc \in OtherPoCs : WriteElsewhere(Stranger, s, Payload(poc, None))
  \/ \E s \in Slots, p \in Accounts : GrantReadAccess(Stranger, s, p)

Spec == Init /\ [][Next]_vars

-----------------------------------------------------------------------------
(* Properties *)

\* Whatever the other tabs and the user do to the wallet's chain meanwhile, and although
\* the readback may be refused, what is committed to is in its slot, unless all there was
\* to prove it was a receipt without logs.
CommittedIsStored ==
  \A c \in commits : c.uri \in onTrust \/ slot[c.uri.slot].payload = c.uri.payload

\* A commitment can be opened by its sender only: through recovered contexts, other tabs
\* and changes of account, it binds the account and the project it is committed for.
CommitBindsSender ==
  \A c \in commits : /\ c.hash.sender = c.auditor /\ c.hash.uri = c.uri
                     /\ c.uri.payload.project = c.project

\* A flow that reports success names a submission on chain that is its own, however it
\* learned of it: by the receipt, after a revert, or by a search after an error.
ReportedIsCommitted ==
  \A t \in Tabs : tab[t].phase = "committed" =>
    \E c \in commits : /\ c.id = tab[t].id /\ c.hash = tab[t].hash
                       /\ c.auditor = tab[t].wallet /\ c.project = tab[t].project

\* A context retried, in any tab and while its first transaction is still on its way, is
\* committed once.
ContextCommittedOnce ==
  \A c, d \in commits : c.hash.salt = d.hash.salt => c = d

\* Who may read what is in a slot now, its writer let read this very payload.
ReadersOfThisPayload ==
  \A s \in Slots, p \in Writers :
    Readable(s, p) /\ p # slot[s].writer => <<s, slot[s].payload, p>> \in granted
=============================================================================
