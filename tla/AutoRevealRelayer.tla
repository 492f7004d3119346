-------------------------- MODULE AutoRevealRelayer --------------------------
(***************************************************************************)
(* workflow/auto-reveal-relayer: cycles that scan the logs of BountyHub,   *)
(* remember queued reveals in a cursor file and execute them when a MULTI  *)
(* project opens its reveal window.  Every await of a cycle ends an atomic *)
(* step, and so does every save of the file.                               *)
(*                                                                         *)
(* The chain is what the relayer sees of BountyHub: one transaction per    *)
(* block, the number of a block standing for its timestamp too.  There is  *)
(* one MULTI project and one UNIQUE project.  LiveAbi tells whose answers   *)
(* the relayer gets: those of live-runtime.ts, whose ABI is not the one of *)
(* BountyHub, or those that the runtime interfaces declare.                *)
(***************************************************************************)
EXTENDS Integers, FiniteSets

CONSTANTS
  Cycles,          \* relayer cycles that may run at once, over one cursor file
  Subs,            \* submissions
  UniqueSubs,      \* those of the UNIQUE project
  Precommitted,    \* those committed before the first block of a behaviour
  Requeuers,       \* those whose auditor may cancel a queued reveal
  Revealers,       \* those whose auditor may reveal without the relayer
  SigDeadlines,    \* deadlines the auditors sign queued reveals with
  Openings,        \* whether the salt they queue opens the commitment
  commitDeadline, revealDeadline,   \* of the MULTI project
  lookbackBlocks, replayOverlapBlocks, logChunkBlocks, maxExecutionBatchSize,
  maxAttempts,     \* of the retry policy
  LiveAbi,         \* TRUE: live-runtime.ts as shipped; FALSE: a runtime as declared
  Durable,         \* TRUE: the cursor file; FALSE: the store of entrypoint.ts
  Flaky,           \* whether calls to the RPC endpoints may fail
  MaxCrashes,      \* bound on crashes
  MaxBlock,        \* bound on the chain head
  MaxCursor        \* the cursor is not distinguished beyond this block

VARIABLES
  head, status, queue,      \* BountyHub: latest block, submissions, queuedReveals
  arbitration,              \* uniqueRevealStateByProject of the UNIQUE project
  commitLogs, queueLogs,    \* PoCCommitted and RevealQueued events
  mempool,                  \* submissions with an executeQueuedReveal in flight
  file,                     \* the cursor file; a missing one is EmptyStore
  cycle,                    \* what each running cycle holds in memory
  passed,                   \* blocks a cursor moved over that its cycle found on the chain
  claims,                   \* how often each submission was claimed
  crashes

chainVars == <<head, status, queue, arbitration, commitLogs, queueLogs>>
histVars  == <<passed, claims, crashes>>
vars == <<chainVars, mempool, file, cycle, histVars>>

Blocks == 1 .. MaxBlock
Log    == [sub : Subs, block : Blocks]    \* also the identity an idempotency key hashes
Slot   == {"none", "processing", "completed", "quarantined"}

Store == [cursor : 0 .. MaxCursor, slot : [Log -> Slot],
          pending : SUBSET Log, candidates : SUBSET Log]

EmptyStore == [cursor |-> 0, slot |-> [k \in Log |-> "none"], pending |-> {}, candidates |-> {}]

NotQueued == [deadline |-> 0, opens |-> FALSE, queued |-> FALSE]
Queued    == [deadline : SigDeadlines, opens : Openings, queued : {TRUE}]

Phase == {"idle", "commits", "judge", "clock", "queued", "items",
          "simulate", "send", "wait", "refresh", "complete", "dequeue"}

Cycle == [phase : Phase, store : Store, from : Nat, to : Nat, next : Nat,
          logs : SUBSET Log, now : 0 .. MaxBlock, todo : SUBSET Log,
          attempt : 0 .. maxAttempts, executed : 0 .. maxExecutionBatchSize,
          seen : 0 .. MaxBlock]     \* history: the head when the cycle started

Idle == [phase |-> "idle", store |-> EmptyStore, from |-> 0, to |-> 0, next |-> 0,
         logs |-> {}, now |-> 0, todo |-> {}, attempt |-> 0, executed |-> 0,
         seen |-> 0]

(* What a run accepts of its flags and environment.                        *)
ParsedPositiveInt == Nat \ {0}

RunOnceConfig == [lookbackBlocks : ParsedPositiveInt, replayOverlapBlocks : ParsedPositiveInt,
                  logChunkBlocks : ParsedPositiveInt, maxExecutionBatchSize : ParsedPositiveInt]

ASSUME RelayerConstants ==
  /\ UniqueSubs \subseteq Subs /\ Precommitted \subseteq Subs
  /\ Requeuers \subseteq Subs /\ Revealers \subseteq Subs
  /\ SigDeadlines \subseteq Nat \ {0} /\ Openings \subseteq BOOLEAN
  /\ commitDeadline \in Nat \ {0} /\ revealDeadline \in Nat
  /\ [lookbackBlocks |-> lookbackBlocks, replayOverlapBlocks |-> replayOverlapBlocks,
      logChunkBlocks |-> logChunkBlocks, maxExecutionBatchSize |-> maxExecutionBatchSize]
       \in RunOnceConfig
  /\ maxAttempts \in Nat \ {0}
  /\ LiveAbi \in BOOLEAN /\ Durable \in BOOLEAN /\ Flaky \in BOOLEAN /\ MaxCrashes \in Nat
  /\ MaxBlock \in Nat \ {0}
  /\ MaxCursor \in Nat /\ MaxCursor >= MaxBlock + replayOverlapBlocks

Init ==
  /\ head = 0
  /\ status = [s \in Subs |-> IF s \in Precommitted THEN "Committed" ELSE "None"]
  /\ queue = [s \in Subs |-> NotQueued]
  /\ arbitration = "free"
  /\ commitLogs = {} /\ queueLogs = {} /\ mempool = {}
  /\ file = EmptyStore
  /\ cycle = [c \in Cycles |-> Idle]
  /\ passed = {} /\ claims = [s \in Subs |-> 0] /\ crashes = 0

-----------------------------------------------------------------------------
(* The chain.  At its last block time stands still, and only transactions  *)
(* that log nothing the relayer reads are still included.                  *)

NextBlock == IF head < MaxBlock THEN head + 1 ELSE head

(* The conditions of BountyHub._revealPoC at block time t.                 *)
WindowOpen(t) == t > commitDeadline /\ (revealDeadline > 0 => t <= revealDeadline)

Revealable(s, t) ==
  /\ status[s] = "Committed"
  /\ IF s \in UniqueSubs THEN arbitration = "free" ELSE WindowOpen(t)

Executable(s, t) ==
  /\ queue[s].queued /\ queue[s].opens /\ t <= queue[s].deadline
  /\ Revealable(s, t)

Revealed(s) ==
  /\ status' = [status EXCEPT ![s] = "Revealed"]
  /\ queue' = [queue EXCEPT ![s] = NotQueued]
  /\ arbitration' = IF s \in UniqueSubs THEN "pending" ELSE arbitration

EmptyBlock ==
  /\ head < MaxBlock
  /\ head' = head + 1
  /\ UNCHANGED <<status, queue, arbitration, commitLogs, queueLogs, mempool, file, cycle, histVars>>

CommitPoC(s) ==
  /\ head < MaxBlock
  /\ status[s] = "None"
  /\ s \notin UniqueSubs => head + 1 <= commitDeadline
  /\ head' = head + 1
  /\ status' = [status EXCEPT ![s] = "Committed"]
  /\ commitLogs' = commitLogs \cup {[sub |-> s, block |-> head + 1]}
  /\ UNCHANGED <<queue, arbitration, queueLogs, mempool, file, cycle, histVars>>

QueueRevealBySig(s, q) ==
  /\ head < MaxBlock
  /\ head + 1 <= q.deadline
  /\ status[s] = "Committed"
  /\ ~queue[s].queued
  /\ head' = head + 1
  /\ queue' = [queue EXCEPT ![s] = q]
  /\ queueLogs' = queueLogs \cup {[sub |-> s, block |-> head + 1]}
  /\ UNCHANGED <<status, arbitration, commitLogs, mempool, file, cycle, histVars>>

CancelQueuedReveal(s) ==
  /\ s \in Requeuers
  /\ queue[s].queued
  /\ head' = NextBlock
  /\ queue' = [queue EXCEPT ![s] = NotQueued]
  /\ UNCHANGED <<status, arbitration, commitLogs, queueLogs, mempool, file, cycle, histVars>>

RevealPoC(s) ==
  /\ s \in Revealers
  /\ Revealable(s, NextBlock)
  /\ head' = NextBlock
  /\ Revealed(s)
  /\ UNCHANGED <<commitLogs, queueLogs, mempool, file, cycle, histVars>>

(* A verdict on the candidate of the UNIQUE project locks it or frees it.  *)
Verdict(outcome) ==
  /\ arbitration = "pending"
  /\ head' = NextBlock
  /\ arbitration' = outcome
  /\ UNCHANGED <<status, queue, commitLogs, queueLogs, mempool, file, cycle, histVars>>

(* The transaction of a cycle is included; it reverts if it came too late. *)
Include(s) ==
  /\ s \in mempool
  /\ mempool' = mempool \ {s}
  /\ head' = NextBlock
  /\ IF Executable(s, NextBlock) THEN Revealed(s) ELSE UNCHANGED <<status, queue, arbitration>>
  /\ UNCHANGED <<commitLogs, queueLogs, file, cycle, histVars>>

-----------------------------------------------------------------------------
(* Operators of this module with one fault each.  Nothing below uses them: *)
(* put in the place of the operator it varies, each makes a property fail. *)

\* An item left in processing is taken for one nobody claimed.
ForgetInFlight(st) ==
  [st EXCEPT !.slot = [k \in Log |-> IF st.slot[k] = "processing" THEN "none" ELSE st.slot[k]]]

\* CANDIDATE_PENDING is treated as a terminal reason.
PendingIsSpent(k) ==
  k.sub \notin UniqueSubs \/ arbitration # "free" \/ status[k.sub] # "Committed"

\* COMMIT_DEADLINE_NOT_REACHED is treated as a terminal reason.
PrematureIsTerminal(c, k) ==
  status[k.sub] # "Committed" \/ k.sub \in UniqueSubs \/ cycle[c].now <= commitDeadline

\* The claim is kept in memory only.
SaveLater(st) == UNCHANGED file

-----------------------------------------------------------------------------
(* The cursor store.                                                       *)

Capped(b) == IF b < MaxCursor THEN b ELSE MaxCursor

Earliest(logs) == CHOOSE k \in logs : \A j \in logs : k.block <= j.block

(* A submission that is remembered keeps the key it was first seen under.  *)
Upsert(items, k) == IF \E j \in items : j.sub = k.sub THEN items ELSE items \cup {k}

RememberCandidate(st, k) == [st EXCEPT !.candidates = Upsert(@, k)]

RememberQueued(st, k) == [st EXCEPT !.pending = Upsert(@, k)]

Claimable(st, k) == st.slot[k] = "none"

Claimed(st, k)     == [st EXCEPT !.slot[k] = "processing"]
Quarantined(st, k) == [st EXCEPT !.slot[k] = "quarantined"]

Save(st) == file' = IF Durable THEN st ELSE file

Recovered(st) ==
  [st EXCEPT !.slot = [k \in Log |-> IF st.slot[k] = "processing" THEN "quarantined"
                                                                 ELSE st.slot[k]]]

Healthy(st) == \A k \in Log : st.slot[k] # "quarantined"

HasCompleted(st, s) == \E k \in Log : k.sub = s /\ st.slot[k] = "completed"

(* It holds wherever a cycle asks: a cycle starts without unresolved slots *)
(* and ends when it leaves one.                                            *)
CanAdvance(st, to) ==
  /\ to >= st.cursor
  /\ \A k \in Log : st.slot[k] \in {"processing", "quarantined"} => k.block > to

-----------------------------------------------------------------------------
(* One cycle.  Its phases are the places where it waits for the network or *)
(* has just written its file.                                              *)

At(c, phase) == cycle[c].phase = phase

(* The workflow of entrypoint.ts gives every cycle a store in memory.       *)
FreshStore == EmptyStore

Loaded == IF Durable THEN Recovered(file) ELSE FreshStore

FromBlock(st) ==
  IF st.cursor > replayOverlapBlocks THEN st.cursor - replayOverlapBlocks + 1 ELSE 1

(* The plan of a cycle; the head of the chain is not part of it.           *)
Plan(st) ==
  [Idle EXCEPT !.phase = "commits", !.store = st, !.seen = head,
               !.from = FromBlock(st), !.next = FromBlock(st),
               !.to = Capped(FromBlock(st) + lookbackBlocks - 1)]

Start(c) ==
  /\ At(c, "idle")
  /\ Healthy(Loaded)
  /\ Save(Loaded)
  /\ cycle' = [cycle EXCEPT ![c] = Plan(Loaded)]
  /\ UNCHANGED <<chainVars, mempool, histVars>>

(* What was in flight when the last cycle died is quarantined on load, and *)
(* no cycle starts over a quarantined item.                                *)
Refuse(c) ==
  /\ At(c, "idle")
  /\ ~Healthy(Loaded)
  /\ Save(Loaded)
  /\ UNCHANGED <<chainVars, mempool, cycle, histVars>>

(* Last block of the next chunk.  The RPC returns the logs of the blocks   *)
(* there are, also for a range that reaches beyond the head.               *)
ChunkEnd(c) ==
  LET end == cycle[c].next + logChunkBlocks - 1
  IN IF end <= cycle[c].to THEN end ELSE cycle[c].to

FetchLogs(c, logs) ==
  /\ cycle[c].logs = {}
  /\ cycle[c].next <= cycle[c].to
  /\ cycle' = [cycle EXCEPT ![c].next = ChunkEnd(c) + 1,
                            ![c].logs = {k \in logs : k.block \in cycle[c].next .. ChunkEnd(c)}]
  /\ UNCHANGED <<chainVars, mempool, file, histVars>>

Scanned(c) == cycle[c].logs = {} /\ cycle[c].next > cycle[c].to

FetchCommits(c) == At(c, "commits") /\ FetchLogs(c, commitLogs)

SaveCandidate(c) ==
  LET k  == Earliest(cycle[c].logs)
      st == RememberCandidate(cycle[c].store, k)
  IN /\ At(c, "commits")
     /\ cycle[c].logs # {}
     /\ Save(st)
     /\ cycle' = [cycle EXCEPT ![c].store = st, ![c].logs = @ \ {k}]
     /\ UNCHANGED <<chainVars, mempool, histVars>>

JudgeCandidates(c) ==
  /\ At(c, "commits")
  /\ Scanned(c)
  /\ cycle' = [cycle EXCEPT ![c].phase = "judge", ![c].todo = cycle[c].store.candidates]
  /\ UNCHANGED <<chainVars, mempool, file, histVars>>

(* What the two scans read of a submission before they judge it.  The ABI  *)
(* of live-runtime.ts decodes the first words of other types: of a         *)
(* submission the auditor as project id and the project id (1 of the       *)
(* UNIQUE project, 0 of the other) as status; of the project that has the  *)
(* auditor for id, which does not exist, the offset of its record as mode. *)
ModeOf(s) == IF s \in UniqueSubs /\ ~LiveAbi THEN "UNIQUE" ELSE "MULTI"

ReadsCommitted(s) == IF LiveAbi THEN s \notin UniqueSubs ELSE status[s] = "Committed"

UniqueRead(s) ==
  [mode |-> ModeOf(s), committed |-> ReadsCommitted(s),
   winnerLocked |-> arbitration = "locked" /\ ~LiveAbi]

MultiRead(s) ==
  [mode |-> ModeOf(s), committed |-> ReadsCommitted(s),
   queued |-> queue[s].queued, deadline |-> queue[s].deadline]

(* A candidate that is selected or has to wait stays remembered.           *)
CandidateIsSpent(k) ==
  LET read == UniqueRead(k.sub)
  IN read.mode # "UNIQUE" \/ read.winnerLocked \/ ~read.committed

JudgeCandidate(c) ==
  LET k  == Earliest(cycle[c].todo)
      st == [cycle[c].store EXCEPT !.candidates = IF CandidateIsSpent(k) THEN @ \ {k} ELSE @]
  IN /\ At(c, "judge")
     /\ cycle[c].todo # {}
     /\ Save(st)
     /\ cycle' = [cycle EXCEPT ![c].store = st, ![c].todo = @ \ {k}]
     /\ UNCHANGED <<chainVars, mempool, histVars>>

(* The cursor moves already here, before the queue has been scanned.       *)
AdvanceAfterCandidates(c) ==
  LET st == [cycle[c].store EXCEPT !.cursor = cycle[c].to]
  IN /\ At(c, "judge")
     /\ cycle[c].todo = {}
     /\ CanAdvance(cycle[c].store, cycle[c].to)
     /\ Save(st)
     /\ passed' = passed \cup {b \in cycle[c].from .. cycle[c].to : b <= cycle[c].seen}
     /\ cycle' = [cycle EXCEPT ![c].store = st, ![c].phase = "clock"]
     /\ UNCHANGED <<chainVars, mempool, claims, crashes>>

ReadClock(c) ==
  /\ At(c, "clock")
  /\ cycle' = [cycle EXCEPT ![c].phase = "queued", ![c].now = head, ![c].next = cycle[c].from]
  /\ UNCHANGED <<chainVars, mempool, file, histVars>>

(* The event live-runtime.ts asks for has one argument, and the topic of   *)
(* none that BountyHub emits.                                              *)
FoundQueueLogs == IF LiveAbi THEN {} ELSE queueLogs

FetchQueued(c) == At(c, "queued") /\ FetchLogs(c, FoundQueueLogs)

SaveQueued(c) ==
  LET k  == Earliest(cycle[c].logs)
      st == RememberQueued(cycle[c].store, k)
  IN /\ At(c, "queued")
     /\ cycle[c].logs # {}
     /\ Save(st)
     /\ cycle' = [cycle EXCEPT ![c].store = st, ![c].logs = @ \ {k}]
     /\ UNCHANGED <<chainVars, mempool, histVars>>

\* Variant: only what lies in the blocks of this cycle is listed.
ListWindow(c) ==
  /\ At(c, "queued")
  /\ Scanned(c)
  /\ cycle' = [cycle EXCEPT ![c].phase = "items",
                           ![c].todo = {k \in cycle[c].store.pending : k.block >= cycle[c].from}]
  /\ UNCHANGED <<chainVars, mempool, file, histVars>>

ListItems(c) ==
  /\ At(c, "queued")
  /\ Scanned(c)
  /\ cycle' = [cycle EXCEPT ![c].phase = "items", ![c].todo = cycle[c].store.pending]
  /\ UNCHANGED <<chainVars, mempool, file, histVars>>

Item(c) == Earliest(cycle[c].todo)

NextItem(c) ==
  /\ At(c, "items")
  /\ cycle[c].todo # {}
  /\ cycle[c].executed < maxExecutionBatchSize

IsPremature(c) == cycle[c].now <= commitDeadline

IsTerminal(c, k) ==
  LET read == MultiRead(k.sub)
  IN \/ ~read.committed \/ read.mode # "MULTI"
     \/ /\ ~IsPremature(c)
        /\ \/ ~read.queued
           \/ cycle[c].now > read.deadline
           \/ revealDeadline > 0 /\ cycle[c].now > revealDeadline

IsDropped(c, k) == HasCompleted(cycle[c].store, k.sub) \/ IsTerminal(c, k)

(* The item at hand leaves the pending items.                              *)
Dequeue(c, phase) ==
  LET st == [cycle[c].store EXCEPT !.pending = @ \ {Item(c)}]
  IN /\ Save(st)
     /\ cycle' = [cycle EXCEPT ![c].store = st, ![c].phase = phase, ![c].todo = @ \ {Item(c)}]
     /\ UNCHANGED <<chainVars, mempool, histVars>>

DropItem(c) ==
  /\ NextItem(c)
  /\ IsDropped(c, Item(c))
  /\ Dequeue(c, "items")

SkipItem(c) ==
  /\ NextItem(c)
  /\ ~IsDropped(c, Item(c))
  /\ IsPremature(c)
  /\ cycle' = [cycle EXCEPT ![c].todo = @ \ {Item(c)}]
  /\ UNCHANGED <<chainVars, mempool, file, histVars>>

(* A claim that is refused does not occur: a cycle that starts has no      *)
(* quarantined slot, ends when it makes one, and drops what is completed.  *)
Claim(c) ==
  LET st == Claimed(cycle[c].store, Item(c))
  IN /\ NextItem(c)
     /\ ~IsDropped(c, Item(c))
     /\ ~IsPremature(c)
     /\ Claimable(cycle[c].store, Item(c))
     /\ Save(st)
     /\ claims' = [claims EXCEPT ![Item(c).sub] = @ + 1]
     /\ cycle' = [cycle EXCEPT ![c].store = st, ![c].phase = "simulate", ![c].attempt = 1]
     /\ UNCHANGED <<chainVars, mempool, passed, crashes>>

(* A simulation that reverts is a terminal error.                          *)
Simulate(c) ==
  /\ At(c, "simulate")
  /\ cycle' = [cycle EXCEPT ![c].phase = IF Executable(Item(c).sub, head) THEN "send" ELSE "refresh"]
  /\ UNCHANGED <<chainVars, mempool, file, histVars>>

(* A second transaction for a submission that has one in flight can only   *)
(* revert, so the two are one member of mempool.                           *)
Send(c) ==
  /\ At(c, "send")
  /\ mempool' = mempool \cup {Item(c).sub}
  /\ cycle' = [cycle EXCEPT ![c].phase = "wait"]
  /\ UNCHANGED <<chainVars, file, histVars>>

(* The cycle waits for a receipt but does not look at its status.          *)
Receipt(c) ==
  /\ At(c, "wait")
  /\ Item(c).sub \notin mempool
  /\ cycle' = [cycle EXCEPT ![c].phase = "complete"]
  /\ UNCHANGED <<chainVars, mempool, file, histVars>>

Executing(c) == cycle[c].phase \in {"simulate", "send", "wait"}

AnotherAttempt(c) == cycle[c].attempt < maxAttempts

(* A call fails although what it asked for may have been done.             *)
Retry(c) ==
  /\ Flaky
  /\ Executing(c)
  /\ AnotherAttempt(c)
  /\ cycle' = [cycle EXCEPT ![c].phase = "simulate", ![c].attempt = @ + 1]
  /\ UNCHANGED <<chainVars, mempool, file, histVars>>

GiveUp(c) ==
  /\ Flaky
  /\ Executing(c)
  /\ cycle' = [cycle EXCEPT ![c].phase = "refresh"]
  /\ UNCHANGED <<chainVars, mempool, file, histVars>>

MarkCompleted(c, executed) ==
  LET st == [cycle[c].store EXCEPT !.slot[Item(c)] = "completed"]
  IN /\ Save(st)
     /\ cycle' = [cycle EXCEPT ![c].store = st, ![c].phase = "dequeue", ![c].attempt = 0,
                               ![c].executed = @ + executed]
     /\ UNCHANGED <<chainVars, mempool, histVars>>

Complete(c) == At(c, "complete") /\ MarkCompleted(c, 1)

SettledOnChain(s) == ~MultiRead(s).committed \/ ~MultiRead(s).queued

CompleteOnRefresh(c) ==
  /\ At(c, "refresh")
  /\ SettledOnChain(Item(c).sub)
  /\ MarkCompleted(c, 0)

(* Also when the reads that would tell fail.                               *)
Quarantine(c) ==
  /\ At(c, "refresh")
  /\ ~SettledOnChain(Item(c).sub) \/ Flaky
  /\ Save(Quarantined(cycle[c].store, Item(c)))
  /\ cycle' = [cycle EXCEPT ![c] = Idle]
  /\ UNCHANGED <<chainVars, mempool, histVars>>

DequeueCompleted(c) == At(c, "dequeue") /\ Dequeue(c, "items")

FinishCycle(c) ==
  /\ At(c, "items")
  /\ cycle[c].todo = {} \/ cycle[c].executed = maxExecutionBatchSize
  /\ CanAdvance(cycle[c].store, cycle[c].to)
  /\ Save([cycle[c].store EXCEPT !.cursor = cycle[c].to])
  /\ cycle' = [cycle EXCEPT ![c] = Idle]
  /\ UNCHANGED <<chainVars, mempool, histVars>>

Reading(c) ==
  \/ cycle[c].phase \in {"commits", "queued"} /\ ~Scanned(c)
  \/ At(c, "judge") /\ cycle[c].todo # {}
  \/ At(c, "clock")
  \/ NextItem(c)

(* A read that fails outside the execution of an item ends the cycle.      *)
Abort(c) ==
  /\ Flaky
  /\ Reading(c)
  /\ cycle' = [cycle EXCEPT ![c] = Idle]
  /\ UNCHANGED <<chainVars, mempool, file, histVars>>

Crash(c) ==
  /\ ~At(c, "idle")
  /\ crashes < MaxCrashes
  /\ crashes' = crashes + 1
  /\ cycle' = [cycle EXCEPT ![c] = Idle]
  /\ UNCHANGED <<chainVars, mempool, file, passed, claims>>

-----------------------------------------------------------------------------
Transaction ==
  \/ EmptyBlock
  \/ \E s \in Subs : CommitPoC(s) \/ CancelQueuedReveal(s) \/ RevealPoC(s) \/ Include(s)
  \/ \E s \in Subs, q \in Queued : QueueRevealBySig(s, q)
  \/ \E outcome \in {"free", "locked"} : Verdict(outcome)

Scan(c) ==
  \/ FetchCommits(c) \/ SaveCandidate(c) \/ JudgeCandidates(c) \/ JudgeCandidate(c)
  \/ AdvanceAfterCandidates(c)
  \/ ReadClock(c) \/ FetchQueued(c) \/ SaveQueued(c) \/ ListItems(c)

Execute(c) ==
  \/ DropItem(c) \/ SkipItem(c) \/ Claim(c) \/ Simulate(c) \/ Send(c) \/ Receipt(c)
  \/ Complete(c) \/ CompleteOnRefresh(c) \/ Quarantine(c) \/ DequeueCompleted(c)
  \/ FinishCycle(c)

Failure(c) == Retry(c) \/ GiveUp(c) \/ Abort(c) \/ Crash(c)

Next ==
  \/ Transaction
  \/ \E c \in Cycles : Start(c) \/ Refuse(c) \/ Scan(c) \/ Execute(c) \/ Failure(c)

(* The cron schedule starts a cycle every minute, a cycle that runs goes   *)
(* on, and a transaction that was sent is included.                        *)
Fairness ==
  /\ \A c \in Cycles : WF_vars(Start(c)) /\ WF_vars(Scan(c) \/ Execute(c))
  /\ \A s \in Subs : WF_vars(Include(s))

Spec == Init /\ [][Next]_vars /\ Fairness

-----------------------------------------------------------------------------
(* An item is claimed for execution once, whatever is retried, replayed,   *)
(* queued again or recovered after a crash.                                *)
ClaimedOnce == \A s \in Subs : claims[s] <= 1

(* A transaction in flight is on record in the file, so that a restart     *)
(* knows of it: the claim is saved before the first await of the execution.*)
ClaimBeforeSend == \A s \in mempool : \E k \in Log : k.sub = s /\ file.slot[k] # "none"

(* Nothing is sent while an item claimed earlier is not known to be done:  *)
(* an item in doubt stops the relayer, also across a crash.                *)
FailClosed ==
  [][\A s \in mempool' \ mempool : \A t \in Subs \ {s} :
       claims[t] > 0 => HasCompleted(file, t)]_vars

(* The reveal of s can still be executed, now or when the window opens.    *)
Waiting(s) ==
  /\ s \notin UniqueSubs
  /\ status[s] = "Committed"
  /\ queue[s].queued
  /\ head <= queue[s].deadline
  /\ revealDeadline > 0 => head <= revealDeadline

LastQueued(s) == CHOOSE b \in Blocks : /\ [sub |-> s, block |-> b] \in queueLogs
                                       /\ \A k \in queueLogs : k.sub = s => k.block <= b

Remembered(s) == \E k \in Log : k.sub = s /\ (k \in file.pending \/ file.slot[k] # "none")

Resting == \A c \in Cycles : At(c, "idle")

(* A queued reveal in a block that a cursor moved over is remembered or    *)
(* was claimed, once no cycle is between its two scans: what the two scans *)
(* and the file do with answers as declared.  The shipped runtime fails it.*)
NothingSkipped ==
  Resting => \A s \in Subs : (Waiting(s) /\ LastQueued(s) \in passed) => Remembered(s)

(* A candidate whose commit a cursor moved over is remembered for as long  *)
(* as it could be selected, with answers as declared.                      *)
CandidatesKept ==
  \A k \in commitLogs :
    (k.block \in passed /\ k.sub \in UniqueSubs /\ status[k.sub] = "Committed"
       /\ arbitration # "locked")
      => \E j \in file.candidates : j.sub = k.sub

(* A remembered reveal that opens its commitment is executed once the      *)
(* window is open, also when the cursor is far beyond its block, unless it *)
(* is cancelled or expires or the auditor reveals.                         *)
RememberedRevealsHappen ==
  \A s \in Subs \ UniqueSubs :
    (Waiting(s) /\ queue[s].opens /\ head > commitDeadline /\ \E k \in file.pending : k.sub = s)
      ~> ~Waiting(s)
=============================================================================
