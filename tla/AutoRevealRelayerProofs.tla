---------------------- MODULE AutoRevealRelayerProofs ----------------------
(***************************************************************************)
(* Safety of AutoRevealRelayer for one cycle at a time over a durable      *)
(* cursor file, whatever the submissions, windows, batches and retries.    *)
(***************************************************************************)
EXTENDS AutoRevealRelayer, WellFoundedInduction, NaturalsInduction, TLAPS

-----------------------------------------------------------------------------
(* Logs *)

\* A set of block numbers has a least one.
LEMMA SmallestExists ==
  ASSUME NEW T \in SUBSET Nat, T # {}
  PROVE  \E n \in T : \A m \in T : n <= m
<1> DEFINE R == {p \in Nat \X Nat : p[1] < p[2]}
<1>1. IsWellFoundedOn(R, Nat)
  BY NatLessThanWellFounded DEF OpToRel
<1>2. PICK n \in T : \A m \in T : ~(<<m, n>> \in R)
  BY <1>1, WFMin
<1>3. ASSUME NEW m \in T PROVE n <= m
  <2>1. ~(<<m, n>> \in R) /\ m \in Nat /\ n \in Nat
    BY <1>2
  <2>2. <<m, n>> \in Nat \X Nat /\ <<m, n>>[1] = m /\ <<m, n>>[2] = n
    BY <2>1
  <2>3. ~(m < n)
    BY <2>1, <2>2
  <2> QED BY <2>1, <2>3
<1> QED BY <1>3

\* Earliest names one of the logs it is asked about.
LEMMA EarliestIsIn ==
  ASSUME NEW L \in SUBSET Log, L # {}
  PROVE  Earliest(L) \in L
<1> DEFINE T == {k.block : k \in L}
<1>1. T \in SUBSET Nat /\ T # {}
  BY DEF Log, Blocks
<1>2. PICK n \in T : \A m \in T : n <= m
  BY <1>1, SmallestExists
<1>3. PICK k \in L : k.block = n
  OBVIOUS
<1>4. \A j \in L : k.block <= j.block
  BY <1>2, <1>3
<1> QED BY <1>4 DEF Earliest

-----------------------------------------------------------------------------
(* Types *)

Memory == [cursor : Nat, slot : [Log -> Slot], pending : SUBSET Log, candidates : SUBSET Log]

Held == [phase : Phase, store : Memory, from : Nat, to : Nat, next : Nat,
         logs : SUBSET Log, now : Nat, todo : SUBSET Log, attempt : Nat, executed : Nat,
         seen : Nat]

ChainTypes ==
  /\ head \in 0 .. MaxBlock
  /\ status \in [Subs -> {"None", "Committed", "Revealed"}]
  /\ queue \in [Subs -> Queued \cup {NotQueued}]
  /\ arbitration \in {"free", "pending", "locked"}
  /\ commitLogs \subseteq Log /\ queueLogs \subseteq Log
  /\ mempool \subseteq Subs

RelayTypes ==
  /\ file \in Memory
  /\ cycle \in [Cycles -> Held]
  /\ claims \in [Subs -> Nat]
  /\ passed \subseteq Nat

Types == ChainTypes /\ RelayTypes

LEMMA EmptyTypes == EmptyStore \in Memory /\ Idle \in Held
<1>1. EmptyStore \in Memory
  BY DEF EmptyStore, Memory, Slot
<1> QED BY <1>1 DEF Idle, Held, Phase

LEMMA TypesInit == Init => Types
BY EmptyTypes, RelayerConstants DEF Init, Types, ChainTypes, RelayTypes

\* The chain's own steps leave the relayer alone.
LEMMA ChainKeepsTypes ==
  ASSUME Types, Transaction
  PROVE  Types' /\ UNCHANGED <<file, cycle, claims, passed>>
<1> USE DEF Types, ChainTypes, RelayTypes
<1>1. /\ NextBlock \in 0 .. MaxBlock
      /\ head < MaxBlock => head + 1 \in 0 .. MaxBlock /\ head + 1 \in Blocks
  BY RelayerConstants DEF NextBlock, Blocks
<1>2. NotQueued \in Queued \cup {NotQueued}
  OBVIOUS
<1>3. CASE EmptyBlock
  BY <1>1, <1>3 DEF EmptyBlock, histVars
<1>4. ASSUME NEW s \in Subs, CommitPoC(s) PROVE Types' /\ UNCHANGED <<file, cycle, claims, passed>>
  BY <1>1, <1>4 DEF CommitPoC, histVars, Log
<1>5. ASSUME NEW s \in Subs, CancelQueuedReveal(s)
      PROVE  Types' /\ UNCHANGED <<file, cycle, claims, passed>>
  BY <1>1, <1>2, <1>5 DEF CancelQueuedReveal, histVars
<1>6. ASSUME NEW s \in Subs, RevealPoC(s) PROVE Types' /\ UNCHANGED <<file, cycle, claims, passed>>
  BY <1>1, <1>2, <1>6 DEF RevealPoC, Revealed, histVars
<1>7. ASSUME NEW s \in Subs, Include(s) PROVE Types' /\ UNCHANGED <<file, cycle, claims, passed>>
  BY <1>1, <1>2, <1>7 DEF Include, Revealed, histVars
<1>8. ASSUME NEW s \in Subs, NEW q \in Queued, QueueRevealBySig(s, q)
      PROVE  Types' /\ UNCHANGED <<file, cycle, claims, passed>>
  BY <1>1, <1>8 DEF QueueRevealBySig, histVars, Log
<1>9. ASSUME NEW outcome \in {"free", "locked"}, Verdict(outcome)
      PROVE  Types' /\ UNCHANGED <<file, cycle, claims, passed>>
  BY <1>1, <1>9 DEF Verdict, histVars
<1> QED BY <1>3, <1>4, <1>5, <1>6, <1>7, <1>8, <1>9 DEF Transaction

-----------------------------------------------------------------------------
(* The slots *)

Settled == {"none", "completed"}

Recorded(s) == \E k \in Log : k.sub = s /\ file.slot[k] # "none"

\* The cycle works on the file it last saved, and the only slot that is in
\* doubt is the one of the item whose reveal it is executing.
OneInDoubt(c) ==
  /\ ~At(c, "idle") => cycle[c].store = file
  /\ cycle[c].phase \in {"commits", "judge", "clock", "queued", "items", "dequeue"} =>
       \A k \in Log : file.slot[k] \in Settled
  /\ cycle[c].phase \in {"simulate", "send", "wait", "refresh", "complete"} =>
       /\ cycle[c].todo # {}
       /\ file.slot[Item(c)] = "processing"
       /\ \A k \in Log \ {Item(c)} : file.slot[k] \in Settled

ClaimsOnRecord ==
  \A s \in Subs : claims[s] <= 1 /\ (claims[s] > 0 => Recorded(s))

SentOnRecord == \A s \in mempool : Recorded(s)

SlotInv == Types /\ (\A c \in Cycles : OneInDoubt(c)) /\ ClaimsOnRecord /\ SentOnRecord

LEMMA SlotInit == Init => SlotInv
<1> SUFFICES ASSUME Init PROVE SlotInv
  OBVIOUS
<1>1. Types
  BY TypesInit
<1>2. \A c \in Cycles : OneInDoubt(c)
  BY DEF Init, OneInDoubt, Idle, At
<1> QED BY <1>1, <1>2 DEF Init, SlotInv, ClaimsOnRecord, SentOnRecord

LEMMA ChainKeepsSlots ==
  ASSUME SlotInv, Transaction
  PROVE  SlotInv'
<1>1. Types' /\ UNCHANGED <<file, cycle, claims, passed>>
  BY ChainKeepsTypes DEF SlotInv
<1>2. mempool' \subseteq mempool
  BY DEF Transaction, EmptyBlock, CommitPoC, CancelQueuedReveal, RevealPoC, Include,
         QueueRevealBySig, Verdict
<1>3. \A c \in Cycles : OneInDoubt(c)'
  BY <1>1 DEF SlotInv, OneInDoubt, At, Item
<1>4. ClaimsOnRecord' /\ SentOnRecord'
  BY <1>1, <1>2 DEF SlotInv, ClaimsOnRecord, SentOnRecord, Recorded
<1> QED BY <1>1, <1>3, <1>4 DEF SlotInv

-----------------------------------------------------------------------------
(* The steps of a cycle *)

ScanPhases == {"commits", "judge", "clock", "queued", "items", "dequeue"}

\* Loading a store resolves or quarantines what was in flight.
LEMMA RecoveredTypes ==
  ASSUME NEW st \in Memory
  PROVE  /\ Recovered(st) \in Memory
         /\ \A k \in Log : /\ Recovered(st).slot[k] = "none" <=> st.slot[k] = "none"
                           /\ Recovered(st).slot[k] # "processing"
         /\ Healthy(Recovered(st)) => \A k \in Log : Recovered(st).slot[k] \in Settled
BY DEF Recovered, Memory, Slot, Healthy, Settled

\* What the scans and the bookkeeping of a cycle write: not the slots.
LEMMA StoreTypes ==
  ASSUME NEW st \in Memory, NEW k \in Log
  PROVE  /\ RememberCandidate(st, k) \in Memory /\ RememberCandidate(st, k).slot = st.slot
         /\ RememberQueued(st, k) \in Memory /\ RememberQueued(st, k).slot = st.slot
BY DEF RememberCandidate, RememberQueued, Upsert, Memory

\* A cycle that only reads, or writes a file with the same slots.
LEMMA ScanKeepsSlots ==
  ASSUME Durable, SlotInv, NEW c \in Cycles, Cycles = {c}, NEW m \in Held,
         cycle' = [cycle EXCEPT ![c] = m], file' \in Memory, file'.slot = file.slot,
         m.phase \in ScanPhases => cycle[c].phase \in ScanPhases /\ m.store = file',
         m.phase \in ScanPhases \cup {"idle"},
         UNCHANGED <<head, status, queue, arbitration, commitLogs, queueLogs, mempool, claims>>,
         passed' \subseteq Nat
  PROVE  SlotInv'
<1>1. cycle'[c] = m /\ cycle' \in [Cycles -> Held]
  BY DEF SlotInv, Types, RelayTypes
<1>2. Types'
  BY <1>1 DEF SlotInv, Types, ChainTypes, RelayTypes
<1>3. OneInDoubt(c)'
  BY <1>1 DEF SlotInv, OneInDoubt, At, ScanPhases
<1>4. ClaimsOnRecord' /\ SentOnRecord'
  BY DEF SlotInv, ClaimsOnRecord, SentOnRecord, Recorded
<1> QED BY <1>2, <1>3, <1>4 DEF SlotInv

\* A cycle starts over a file without slots in doubt.
LEMMA StartKeepsSlots ==
  ASSUME Durable, SlotInv, NEW c \in Cycles, Cycles = {c}, Start(c) \/ Refuse(c)
  PROVE  SlotInv'
<1>1. /\ Loaded = Recovered(file) /\ Loaded \in Memory /\ file' = Loaded
      /\ \A k \in Log : Loaded.slot[k] = "none" <=> file.slot[k] = "none"
      /\ Healthy(Loaded) => \A k \in Log : Loaded.slot[k] \in Settled
  BY RecoveredTypes DEF SlotInv, Types, RelayTypes, Start, Refuse, Save, Loaded
<1>2. ClaimsOnRecord' /\ SentOnRecord'
  BY <1>1 DEF SlotInv, ClaimsOnRecord, SentOnRecord, Recorded, Start, Refuse, histVars
<1>3. CASE Start(c)
  <2>1. FromBlock(Loaded) \in Nat /\ Capped(FromBlock(Loaded) + lookbackBlocks - 1) \in Nat
    BY <1>1, RelayerConstants DEF FromBlock, Capped, Memory, RunOnceConfig, ParsedPositiveInt
  <2>0. head \in Nat
    BY RelayerConstants DEF SlotInv, Types, ChainTypes
  <2>2. Plan(Loaded) \in Held /\ Plan(Loaded).phase = "commits" /\ Plan(Loaded).store = Loaded
    BY <1>1, <2>1, <2>0, EmptyTypes DEF Plan, Held, Phase, Idle
  <2>3. cycle'[c] = Plan(Loaded) /\ cycle' \in [Cycles -> Held]
    BY <1>3, <2>2 DEF Start, SlotInv, Types, RelayTypes
  <2>4. Types'
    BY <1>1, <1>3, <2>3 DEF SlotInv, Types, ChainTypes, RelayTypes, Start, chainVars, histVars
  <2>5. OneInDoubt(c)'
    BY <1>1, <1>3, <2>2, <2>3 DEF OneInDoubt, At, Start
  <2> QED BY <1>2, <2>4, <2>5 DEF SlotInv
<1>4. CASE Refuse(c)
  <2>1. Types'
    BY <1>1, <1>4 DEF SlotInv, Types, ChainTypes, RelayTypes, Refuse, chainVars, histVars
  <2>2. OneInDoubt(c)'
    BY <1>4 DEF OneInDoubt, At, Refuse
  <2> QED BY <1>2, <2>1, <2>2 DEF SlotInv
<1> QED BY <1>3, <1>4

\* The item at hand is one of the items of the cycle.
LEMMA ItemIsTodo ==
  ASSUME Types, NEW c \in Cycles, cycle[c].todo # {}
  PROVE  Item(c) \in cycle[c].todo /\ Item(c) \in Log
BY EarliestIsIn DEF Types, RelayTypes, Held, Item

LEMMA FirstLogIsLog ==
  ASSUME Types, NEW c \in Cycles, cycle[c].logs # {}
  PROVE  Earliest(cycle[c].logs) \in cycle[c].logs /\ Earliest(cycle[c].logs) \in Log
BY EarliestIsIn DEF Types, RelayTypes, Held

\* The two scans, and the candidates judged between them.
LEMMA ScansKeepSlots ==
  ASSUME Durable, SlotInv, NEW c \in Cycles, Cycles = {c}, Scan(c)
  PROVE  SlotInv'
<1> DEFINE m == cycle[c]
<1>0. /\ m \in Held /\ file \in Memory /\ Types /\ head \in Nat /\ passed \subseteq Nat
      /\ (~At(c, "idle") => m.store = file)
      /\ m.to \in Nat /\ m.next \in Nat /\ m.from \in Nat
  BY RelayerConstants DEF SlotInv, Types, ChainTypes, RelayTypes, OneInDoubt, Held
<1> USE DEF ScanPhases
<1>1. ASSUME NEW logs \in SUBSET Log, FetchLogs(c, logs), m.phase \in {"commits", "queued"}
      PROVE  SlotInv'
  <2>1. ChunkEnd(c) + 1 \in Nat
    BY <1>0, RelayerConstants DEF ChunkEnd, RunOnceConfig, ParsedPositiveInt
  <2> DEFINE n == [m EXCEPT !.next = ChunkEnd(c) + 1,
                            !.logs = {k \in logs : k.block \in m.next .. ChunkEnd(c)}]
  <2>2. n \in Held /\ n.phase = m.phase /\ n.store = m.store
    BY <1>0, <2>1 DEF Held
  <2>3. cycle' = [cycle EXCEPT ![c] = n] /\ UNCHANGED <<chainVars, mempool, file, histVars>>
    BY <1>1 DEF FetchLogs
  <2>4. m.phase \in ScanPhases /\ m.store = file
    BY <1>0, <1>1 DEF At
  <2> HIDE DEF n
  <2> QED BY <1>0, <2>2, <2>3, <2>4, ScanKeepsSlots DEF chainVars, histVars
<1>2. CASE FetchCommits(c) \/ FetchQueued(c)
  BY <1>0, <1>1, <1>2 DEF FetchCommits, FetchQueued, FoundQueueLogs, At, Types, ChainTypes
<1>3. ASSUME m.logs # {}, m.phase \in {"commits", "queued"},
             NEW st \in Memory, st.slot = file.slot, NEW k, Save(st),
             cycle' = [cycle EXCEPT ![c].store = st, ![c].logs = @ \ {k}],
             UNCHANGED <<chainVars, mempool, histVars>>
      PROVE  SlotInv'
  <2> DEFINE n == [m EXCEPT !.store = st, !.logs = @ \ {k}]
  <2>1. n \in Held /\ n.phase = m.phase /\ n.store = st
    BY <1>0 DEF Held
  <2>2. cycle' = [cycle EXCEPT ![c] = n] /\ file' = st
    BY <1>3 DEF Save
  <2> HIDE DEF n
  <2> QED BY <1>0, <1>3, <2>1, <2>2, ScanKeepsSlots DEF chainVars, histVars
<1>4. CASE SaveCandidate(c)
  BY <1>0, <1>3, <1>4, FirstLogIsLog, StoreTypes DEF SaveCandidate, At
<1>5. CASE SaveQueued(c)
  BY <1>0, <1>3, <1>5, FirstLogIsLog, StoreTypes DEF SaveQueued, At
<1>6. ASSUME NEW n \in Held, m.phase \in ScanPhases, n.phase \in ScanPhases, n.store = m.store,
             cycle' = [cycle EXCEPT ![c] = n], UNCHANGED <<chainVars, mempool, file, histVars>>
      PROVE  SlotInv'
  BY <1>0, <1>6, ScanKeepsSlots DEF chainVars, histVars, At
<1>7. CASE JudgeCandidates(c)
  <2> DEFINE n == [m EXCEPT !.phase = "judge", !.todo = m.store.candidates]
  <2>1. n \in Held /\ n.phase = "judge" /\ n.store = m.store
    BY <1>0 DEF Held, Memory, Phase
  <2>2. cycle' = [cycle EXCEPT ![c] = n]
    BY <1>7 DEF JudgeCandidates
  <2> HIDE DEF n
  <2> QED BY <1>6, <1>7, <2>1, <2>2 DEF JudgeCandidates, At
<1>8. CASE ListItems(c)
  <2> DEFINE n == [m EXCEPT !.phase = "items", !.todo = m.store.pending]
  <2>1. n \in Held /\ n.phase = "items" /\ n.store = m.store
    BY <1>0 DEF Held, Memory, Phase
  <2>2. cycle' = [cycle EXCEPT ![c] = n]
    BY <1>8 DEF ListItems
  <2> HIDE DEF n
  <2> QED BY <1>6, <1>8, <2>1, <2>2 DEF ListItems, At
<1>9. CASE ReadClock(c)
  <2> DEFINE n == [m EXCEPT !.phase = "queued", !.now = head, !.next = m.from]
  <2>1. n \in Held /\ n.phase = "queued" /\ n.store = m.store
    BY <1>0 DEF Held, Phase
  <2>2. cycle' = [cycle EXCEPT ![c] = n]
    BY <1>9 DEF ReadClock
  <2> HIDE DEF n
  <2> QED BY <1>6, <1>9, <2>1, <2>2 DEF ReadClock, At
<1>10. CASE JudgeCandidate(c)
  <2> DEFINE k  == Earliest(m.todo)
             st == [m.store EXCEPT !.candidates = IF CandidateIsSpent(k) THEN @ \ {k} ELSE @]
             n  == [m EXCEPT !.store = st, !.todo = @ \ {k}]
  <2>0. m.store = file
    BY <1>0, <1>10 DEF JudgeCandidate, At
  <2>1. st \in Memory /\ st.slot = file.slot
    BY <1>0, <2>0 DEF Memory
  <2>2. n \in Held /\ n.phase = m.phase /\ n.store = st
    BY <1>0, <2>1 DEF Held
  <2>3. cycle' = [cycle EXCEPT ![c] = n] /\ file' = st
    BY <1>10 DEF JudgeCandidate, Save
  <2> HIDE DEF n, st
  <2> QED BY <1>0, <1>10, <2>1, <2>2, <2>3, ScanKeepsSlots DEF chainVars, histVars, JudgeCandidate, At
<1>11. CASE AdvanceAfterCandidates(c)
  <2> DEFINE st == [m.store EXCEPT !.cursor = m.to]
             n  == [m EXCEPT !.store = st, !.phase = "clock"]
  <2>0. m.store = file
    BY <1>0, <1>11 DEF AdvanceAfterCandidates, At
  <2>1. st \in Memory /\ st.slot = file.slot
    BY <1>0, <2>0 DEF Memory
  <2>2. n \in Held /\ n.phase = "clock" /\ n.store = st
    BY <1>0, <2>1 DEF Held, Phase
  <2>3. cycle' = [cycle EXCEPT ![c] = n] /\ file' = st
    BY <1>11 DEF AdvanceAfterCandidates, Save
  <2>4. passed' \subseteq Nat
    BY <1>0, <1>11 DEF AdvanceAfterCandidates
  <2> HIDE DEF n, st
  <2> QED BY <1>0, <1>11, <2>1, <2>2, <2>3, <2>4, ScanKeepsSlots
          DEF chainVars, AdvanceAfterCandidates, At
<1> QED BY <1>2, <1>4, <1>5, <1>7, <1>8, <1>9, <1>10, <1>11 DEF Scan

\* The execution of an item: its slot is claimed, settled or quarantined, and
\* no other slot changes.
LEMMA ItemKeepsSlots ==
  ASSUME Durable, SlotInv, NEW c \in Cycles, Cycles = {c}, NEW k \in Log, NEW v \in Slot \ {"none"},
         NEW st \in Memory, st = [file EXCEPT !.slot[k] = v], file' = st,
         NEW m \in Held, cycle' = [cycle EXCEPT ![c] = m],
         m.phase # "idle" => m.store = st,
         m.phase \in ScanPhases => v \in Settled /\ \A j \in Log \ {k} : file.slot[j] \in Settled,
         m.phase \notin ScanPhases \cup {"idle"} =>
           /\ v = "processing" /\ m.todo # {} /\ Earliest(m.todo) = k
           /\ \A j \in Log \ {k} : file.slot[j] \in Settled,
         claims' \in [Subs -> Nat],
         \A s \in Subs : \/ claims'[s] = claims[s]
                         \/ s = k.sub /\ claims'[s] = 1,
         UNCHANGED <<head, status, queue, arbitration, commitLogs, queueLogs, mempool, passed>>
  PROVE  SlotInv'
<1>1. cycle'[c] = m /\ cycle' \in [Cycles -> Held] /\ file \in Memory
  BY DEF SlotInv, Types, RelayTypes
<1>2. /\ file'.slot[k] = v
      /\ \A j \in Log \ {k} : file'.slot[j] = file.slot[j]
  BY <1>1 DEF Memory
<1>3. Types'
  BY <1>1 DEF SlotInv, Types, ChainTypes, RelayTypes
<1>4. OneInDoubt(c)'
  BY <1>1, <1>2 DEF OneInDoubt, At, Item, ScanPhases
<1>5. \A s \in Subs : Recorded(s) \/ s = k.sub => Recorded(s)'
  BY <1>2 DEF Recorded
<1>6. ClaimsOnRecord' /\ SentOnRecord'
  BY <1>5 DEF SlotInv, ClaimsOnRecord, SentOnRecord, Types, ChainTypes, RelayTypes
<1> QED BY <1>3, <1>4, <1>6 DEF SlotInv

\* An execution in progress, which writes nothing to the file.
LEMMA AttemptKeepsSlots ==
  ASSUME Durable, SlotInv, NEW c \in Cycles, Cycles = {c},
         NEW m \in Held, cycle' = [cycle EXCEPT ![c] = m],
         cycle[c].phase \notin ScanPhases \cup {"idle"},
         \/ m.phase = "idle"
         \/ /\ m.phase \notin ScanPhases \cup {"idle"}
            /\ m.store = cycle[c].store /\ m.todo = cycle[c].todo,
         mempool' \subseteq mempool \cup {Item(c).sub},
         UNCHANGED <<chainVars, file, passed, claims>>
  PROVE  SlotInv'
<1>1. cycle'[c] = m /\ cycle' \in [Cycles -> Held] /\ file \in Memory /\ cycle[c] \in Held
  BY DEF SlotInv, Types, RelayTypes
<1>2. /\ cycle[c].store = file /\ cycle[c].todo # {} /\ file.slot[Item(c)] = "processing"
      /\ \A j \in Log \ {Item(c)} : file.slot[j] \in Settled
  BY <1>1 DEF SlotInv, OneInDoubt, At, ScanPhases, Held, Phase
<1>3. Item(c) \in Log /\ Item(c).sub \in Subs
  BY <1>2, ItemIsTodo DEF SlotInv, Log
<1>4. Types'
  BY <1>1, <1>3 DEF SlotInv, Types, ChainTypes, RelayTypes, chainVars
<1>5. OneInDoubt(c)'
  BY <1>1, <1>2 DEF OneInDoubt, At, Item, ScanPhases
<1>6. ClaimsOnRecord' /\ SentOnRecord'
  BY <1>2, <1>3 DEF SlotInv, ClaimsOnRecord, SentOnRecord, Recorded
<1> QED BY <1>4, <1>5, <1>6 DEF SlotInv

\* A submission that a cycle may claim was not claimed before.
LEMMA FirstClaim ==
  ASSUME Durable, SlotInv, NEW c \in Cycles, Cycles = {c}, Claim(c)
  PROVE  claims[Item(c).sub] = 0
<1>1. /\ cycle[c].store = file /\ \A k \in Log : file.slot[k] \in Settled
      /\ Item(c) \in Log /\ Item(c).sub \in Subs
  BY ItemIsTodo DEF Claim, Claimed, NextItem, At, SlotInv, OneInDoubt, Log
<1>2. ~HasCompleted(file, Item(c).sub)
  BY <1>1 DEF Claim, Claimed, IsDropped
<1>3. ~Recorded(Item(c).sub)
  BY <1>1, <1>2 DEF HasCompleted, Recorded, Settled
<1> QED BY <1>1, <1>3 DEF SlotInv, ClaimsOnRecord, Types, RelayTypes

LEMMA CountedOnce ==
  ASSUME claims \in [Subs -> Nat], NEW t \in Subs, claims[t] = 0,
         claims' = [claims EXCEPT ![t] = @ + 1]
  PROVE  /\ claims' \in [Subs -> Nat]
         /\ \A s \in Subs : claims'[s] = claims[s] \/ (s = t /\ claims'[s] = 1)
<1>1. claims' = [claims EXCEPT ![t] = 1]
  OBVIOUS
<1>2. claims' \in [Subs -> Nat] /\ claims'[t] = 1
  BY <1>1
<1>3. \A s \in Subs \ {t} : claims'[s] = claims[s]
  BY <1>1
<1> QED BY <1>2, <1>3

LEMMA ExecutionKeepsSlots ==
  ASSUME Durable, SlotInv, NEW c \in Cycles, Cycles = {c}, Execute(c)
  PROVE  SlotInv'
<1> DEFINE m == cycle[c]
           k == Item(c)
<1>0. /\ m \in Held /\ file \in Memory /\ Types /\ claims \in [Subs -> Nat] /\ passed \subseteq Nat
      /\ (~At(c, "idle") => m.store = file)
      /\ m.to \in Nat /\ m.attempt \in Nat /\ m.executed \in Nat
      /\ (m.todo # {} => k \in Log /\ k.sub \in Subs)
  BY ItemIsTodo DEF SlotInv, Types, RelayTypes, OneInDoubt, Held, Log
<1>00. m.phase \in ScanPhases => \A j \in Log : file.slot[j] \in Settled
  BY DEF SlotInv, OneInDoubt, ScanPhases
<1>01. m.phase \notin ScanPhases \cup {"idle"} =>
         /\ m.todo # {} /\ file.slot[k] = "processing"
         /\ \A j \in Log \ {k} : file.slot[j] \in Settled
  BY <1>0 DEF SlotInv, OneInDoubt, ScanPhases, Held, Phase
<1>1. ASSUME Dequeue(c, "items"), m.phase \in {"items", "dequeue"} PROVE SlotInv'
  <2> DEFINE st == [m.store EXCEPT !.pending = @ \ {k}]
             n  == [m EXCEPT !.store = st, !.phase = "items", !.todo = @ \ {k}]
  <2>0. m.store = file
    BY <1>0, <1>1 DEF At
  <2>1. st \in Memory /\ st.slot = file.slot
    BY <1>0, <2>0 DEF Memory
  <2>2. n \in Held /\ n.phase = "items" /\ n.store = st
    BY <1>0, <2>1 DEF Held, Phase
  <2>3. cycle' = [cycle EXCEPT ![c] = n] /\ file' = st
    BY <1>1 DEF Dequeue, Save
  <2> HIDE DEF n, st
  <2> QED BY <1>0, <1>1, <2>1, <2>2, <2>3, ScanKeepsSlots DEF chainVars, histVars, Dequeue, ScanPhases
<1>2. CASE DropItem(c) \/ DequeueCompleted(c)
  BY <1>1, <1>2 DEF DropItem, DequeueCompleted, NextItem, At
<1>3. CASE SkipItem(c)
  <2> DEFINE n == [m EXCEPT !.todo = @ \ {k}]
  <2>1. n \in Held /\ n.phase = m.phase /\ n.store = m.store
    BY <1>0 DEF Held
  <2>2. cycle' = [cycle EXCEPT ![c] = n]
    BY <1>3 DEF SkipItem
  <2> HIDE DEF n
  <2> QED BY <1>0, <1>3, <2>1, <2>2, ScanKeepsSlots
          DEF chainVars, histVars, SkipItem, NextItem, At, ScanPhases
<1>4. CASE Claim(c)
  <2> DEFINE st == [m.store EXCEPT !.slot[k] = "processing"]
             n  == [m EXCEPT !.store = st, !.phase = "simulate", !.attempt = 1]
  <2>0. m.store = file /\ m.todo # {} /\ m.phase = "items"
    BY <1>0, <1>4 DEF Claim, Claimed, NextItem, At
  <2>1. st \in Memory /\ st = [file EXCEPT !.slot[k] = "processing"]
    BY <1>0, <2>0 DEF Memory, Slot
  <2>2. n \in Held /\ n.phase = "simulate" /\ n.store = st /\ n.todo = m.todo
    BY <1>0, <2>1 DEF Held, Phase
  <2>3. cycle' = [cycle EXCEPT ![c] = n] /\ file' = st
    BY <1>4 DEF Claim, Claimed, Save
  <2>9. claims[k.sub] = 0
    BY <1>4, FirstClaim
  <2>10. claims' = [claims EXCEPT ![k.sub] = @ + 1]
    BY <1>4 DEF Claim, Claimed
  <2>11. k.sub \in Subs
    BY <1>0, <2>0
  <2>4. /\ claims' \in [Subs -> Nat]
        /\ \A s \in Subs : claims'[s] = claims[s] \/ (s = k.sub /\ claims'[s] = 1)
    BY <1>0, <2>9, <2>10, <2>11, CountedOnce
  <2>5. Earliest(n.todo) = k /\ n.todo # {} /\ "processing" \in Slot \ {"none"}
    BY <2>0, <2>2 DEF Item, Slot
  <2>6. UNCHANGED <<head, status, queue, arbitration, commitLogs, queueLogs, mempool, passed>>
    BY <1>4 DEF Claim, Claimed, chainVars
  <2>7. \A j \in Log \ {k} : file.slot[j] \in Settled
    BY <1>00, <2>0 DEF ScanPhases
  <2>8. n.phase # "idle" /\ n.phase \notin ScanPhases \cup {"idle"} /\ k \in Log
    BY <1>0, <2>0, <2>2 DEF ScanPhases
  <2> HIDE DEF n, st, k, m
  <2> QED BY <2>1, <2>2, <2>3, <2>4, <2>5, <2>6, <2>7, <2>8, ItemKeepsSlots
<1>5. ASSUME NEW n \in Held, m.phase \in {"simulate", "send", "wait"},
             n.phase \in {"simulate", "send", "wait", "refresh", "complete"},
             n.store = m.store, n.todo = m.todo, cycle' = [cycle EXCEPT ![c] = n],
             mempool' \subseteq mempool \cup {k.sub}, UNCHANGED <<chainVars, file, histVars>>
      PROVE  SlotInv'
  BY <1>5, AttemptKeepsSlots DEF ScanPhases, histVars
<1>6. CASE Simulate(c)
  <2> DEFINE n == [m EXCEPT !.phase = IF Executable(k.sub, head) THEN "send" ELSE "refresh"]
  <2>1. n \in Held /\ n.phase \in {"send", "refresh"} /\ n.store = m.store /\ n.todo = m.todo
    BY <1>0 DEF Held, Phase
  <2>2. cycle' = [cycle EXCEPT ![c] = n]
    BY <1>6 DEF Simulate
  <2> HIDE DEF n
  <2> QED BY <1>5, <1>6, <2>1, <2>2 DEF Simulate, At
<1>7. CASE Send(c)
  <2> DEFINE n == [m EXCEPT !.phase = "wait"]
  <2>1. n \in Held /\ n.phase = "wait" /\ n.store = m.store /\ n.todo = m.todo
    BY <1>0 DEF Held, Phase
  <2>2. cycle' = [cycle EXCEPT ![c] = n]
    BY <1>7 DEF Send
  <2> HIDE DEF n
  <2> QED BY <1>5, <1>7, <2>1, <2>2 DEF Send, At
<1>8. CASE Receipt(c)
  <2> DEFINE n == [m EXCEPT !.phase = "complete"]
  <2>1. n \in Held /\ n.phase = "complete" /\ n.store = m.store /\ n.todo = m.todo
    BY <1>0 DEF Held, Phase
  <2>2. cycle' = [cycle EXCEPT ![c] = n]
    BY <1>8 DEF Receipt
  <2> HIDE DEF n
  <2> QED BY <1>5, <1>8, <2>1, <2>2 DEF Receipt, At
<1>9. ASSUME NEW e \in Nat, MarkCompleted(c, e), m.phase \in {"complete", "refresh"} PROVE SlotInv'
  <2> DEFINE st == [m.store EXCEPT !.slot[k] = "completed"]
             n  == [m EXCEPT !.store = st, !.phase = "dequeue", !.attempt = 0, !.executed = @ + e]
  <2>0. m.store = file /\ m.todo # {} /\ \A j \in Log \ {k} : file.slot[j] \in Settled
    BY <1>0, <1>01, <1>9 DEF ScanPhases, At
  <2>1. st \in Memory /\ st = [file EXCEPT !.slot[k] = "completed"]
    BY <1>0, <2>0 DEF Memory, Slot
  <2>6. m.executed + e \in Nat
    BY <1>0
  <2>2. n \in Held /\ n.phase = "dequeue" /\ n.store = st
    BY <1>0, <2>1, <2>6 DEF Held, Phase
  <2>3. cycle' = [cycle EXCEPT ![c] = n] /\ file' = st
    BY <1>9 DEF MarkCompleted, Save
  <2>4. UNCHANGED <<head, status, queue, arbitration, commitLogs, queueLogs, mempool, passed, claims>>
    BY <1>9 DEF MarkCompleted, chainVars, histVars
  <2>5. "completed" \in (Slot \ {"none"}) \cap Settled
    BY DEF Slot, Settled
  <2> HIDE DEF n, st
  <2> QED BY <1>0, <2>0, <2>1, <2>2, <2>3, <2>4, <2>5, ItemKeepsSlots DEF ScanPhases
<1>10. CASE Complete(c) \/ CompleteOnRefresh(c)
  BY <1>9, <1>10 DEF Complete, CompleteOnRefresh, At
<1>11. CASE Quarantine(c)
  <2> DEFINE st == [m.store EXCEPT !.slot[k] = "quarantined"]
  <2>0. m.store = file /\ m.todo # {}
    BY <1>0, <1>01, <1>11 DEF ScanPhases, At, Quarantine, Quarantined
  <2>1. st \in Memory /\ st = [file EXCEPT !.slot[k] = "quarantined"]
    BY <1>0, <2>0 DEF Memory, Slot
  <2>2. Idle \in Held /\ Idle.phase = "idle"
    BY EmptyTypes DEF Idle
  <2>3. cycle' = [cycle EXCEPT ![c] = Idle] /\ file' = st
    BY <1>11 DEF Quarantine, Quarantined, Save
  <2>4. UNCHANGED <<head, status, queue, arbitration, commitLogs, queueLogs, mempool, passed, claims>>
    BY <1>11 DEF Quarantine, Quarantined, chainVars, histVars
  <2>5. "quarantined" \in Slot \ {"none"}
    BY DEF Slot
  <2> HIDE DEF st
  <2> QED BY <1>0, <2>0, <2>1, <2>2, <2>3, <2>4, <2>5, ItemKeepsSlots DEF ScanPhases
<1>12. CASE FinishCycle(c)
  <2> DEFINE st == [m.store EXCEPT !.cursor = m.to]
  <2>0. m.store = file
    BY <1>0, <1>12 DEF FinishCycle, At
  <2>1. st \in Memory /\ st.slot = file.slot
    BY <1>0, <2>0 DEF Memory
  <2>2. cycle' = [cycle EXCEPT ![c] = Idle] /\ file' = st
    BY <1>12 DEF FinishCycle, Save
  <2>3. Idle \in Held /\ Idle.phase = "idle"
    BY EmptyTypes DEF Idle
  <2> HIDE DEF st
  <2> QED BY <1>0, <1>12, <2>1, <2>2, <2>3, ScanKeepsSlots
          DEF chainVars, histVars, FinishCycle, ScanPhases
<1> QED BY <1>2, <1>3, <1>4, <1>6, <1>7, <1>8, <1>10, <1>11, <1>12 DEF Execute

LEMMA FailureKeepsSlots ==
  ASSUME Durable, SlotInv, NEW c \in Cycles, Cycles = {c}, Failure(c)
  PROVE  SlotInv'
<1> DEFINE m == cycle[c]
<1>0. /\ m \in Held /\ m.attempt \in Nat /\ file \in Memory /\ passed \subseteq Nat
      /\ Idle \in Held /\ Idle.phase = "idle"
  BY EmptyTypes DEF SlotInv, Types, RelayTypes, Held, Idle
<1>1. CASE Retry(c)
  <2> DEFINE n == [m EXCEPT !.phase = "simulate", !.attempt = @ + 1]
  <2>0. m.attempt + 1 \in Nat
    BY <1>0
  <2>1. n \in Held /\ n.phase = "simulate" /\ n.store = m.store /\ n.todo = m.todo
    BY <1>0, <2>0 DEF Held, Phase
  <2>2. cycle' = [cycle EXCEPT ![c] = n]
    BY <1>1 DEF Retry
  <2> HIDE DEF n
  <2> QED BY <1>1, <2>1, <2>2, AttemptKeepsSlots DEF Retry, Executing, ScanPhases, histVars
<1>2. CASE GiveUp(c)
  <2> DEFINE n == [m EXCEPT !.phase = "refresh"]
  <2>1. n \in Held /\ n.phase = "refresh" /\ n.store = m.store /\ n.todo = m.todo
    BY <1>0 DEF Held, Phase
  <2>2. cycle' = [cycle EXCEPT ![c] = n]
    BY <1>2 DEF GiveUp
  <2> HIDE DEF n
  <2> QED BY <1>2, <2>1, <2>2, AttemptKeepsSlots DEF GiveUp, Executing, ScanPhases, histVars
<1>3. CASE Abort(c) \/ Crash(c)
  BY <1>0, <1>3, ScanKeepsSlots DEF Abort, Crash, chainVars, histVars, ScanPhases
<1> QED BY <1>1, <1>2, <1>3 DEF Failure

LEMMA SlotStep ==
  ASSUME Durable, NEW c0, Cycles = {c0}, SlotInv, [Next]_vars
  PROVE  SlotInv'
<1>1. CASE Transaction
  BY <1>1, ChainKeepsSlots
<1>2. ASSUME NEW c \in Cycles, Start(c) \/ Refuse(c) \/ Scan(c) \/ Execute(c) \/ Failure(c)
      PROVE  SlotInv'
  BY <1>2, StartKeepsSlots, ScansKeepSlots, ExecutionKeepsSlots, FailureKeepsSlots
<1>3. CASE UNCHANGED vars
  BY <1>3 DEF vars, chainVars, histVars, SlotInv, Types, ChainTypes, RelayTypes, OneInDoubt, At,
              Item, ClaimsOnRecord, SentOnRecord, Recorded
<1> QED BY <1>1, <1>2, <1>3 DEF Next

\* No item is claimed for execution twice, over any number of crashes, retries
\* and replays (queue.ts, cursor-store.ts), and nothing is in flight that the
\* file does not know of.
THEOREM SlotInvariance ==
  ASSUME Durable, NEW c0, Cycles = {c0}
  PROVE  Spec => []SlotInv
<1>1. Init => SlotInv
  BY SlotInit
<1>2. SlotInv /\ [Next]_vars => SlotInv'
  BY SlotStep
<1> QED BY <1>1, <1>2, PTL DEF Spec

THEOREM ClaimedOnceAlways ==
  ASSUME Durable, NEW c0, Cycles = {c0}
  PROVE  Spec => []ClaimedOnce
<1>1. SlotInv => ClaimedOnce
  BY DEF SlotInv, ClaimsOnRecord, ClaimedOnce
<1> QED BY <1>1, SlotInvariance, PTL

THEOREM ClaimBeforeSendAlways ==
  ASSUME Durable, NEW c0, Cycles = {c0}
  PROVE  Spec => []ClaimBeforeSend
<1>1. SlotInv => ClaimBeforeSend
  BY DEF SlotInv, SentOnRecord, ClaimBeforeSend, Recorded
<1> QED BY <1>1, SlotInvariance, PTL

\* Only a cycle that sends puts a transaction into the mempool.
LEMMA OnlySendAdds ==
  ASSUME [Next]_vars, mempool' \ mempool # {}
  PROVE  \E c \in Cycles : Send(c)
<1>1. Transaction => mempool' \subseteq mempool
  BY DEF Transaction, EmptyBlock, CommitPoC, CancelQueuedReveal, RevealPoC, Include,
         QueueRevealBySig, Verdict
<1>2. ASSUME NEW c \in Cycles PROVE Start(c) \/ Refuse(c) \/ Failure(c) => mempool' = mempool
  BY DEF Start, Refuse, Failure, Retry, GiveUp, Abort, Crash
<1>3. ASSUME NEW c \in Cycles PROVE Scan(c) => mempool' = mempool
  BY DEF Scan, FetchCommits, FetchQueued, FetchLogs, SaveCandidate, JudgeCandidates,
         JudgeCandidate, AdvanceAfterCandidates, ReadClock, SaveQueued, ListItems
<1>4. ASSUME NEW c \in Cycles PROVE Execute(c) => mempool' = mempool \/ Send(c)
  BY DEF Execute, DropItem, SkipItem, Claim, Claimed, Simulate, Receipt, Complete, CompleteOnRefresh,
         MarkCompleted, Quarantine, Quarantined, DequeueCompleted, Dequeue, FinishCycle
<1>5. UNCHANGED vars => mempool' = mempool
  BY DEF vars
<1> QED BY <1>1, <1>2, <1>3, <1>4, <1>5 DEF Next

Guarded == \A s \in mempool' \ mempool : \A t \in Subs \ {s} :
             claims[t] > 0 => HasCompleted(file, t)

THEOREM FailClosedAlways ==
  ASSUME Durable, NEW c0, Cycles = {c0}
  PROVE  Spec => FailClosed
<1>1. ASSUME SlotInv, [Next]_vars, NEW s \in mempool' \ mempool, NEW t \in Subs \ {s}, claims[t] > 0
      PROVE  HasCompleted(file, t)
  <2>1. PICK c \in Cycles : Send(c)
    BY <1>1, OnlySendAdds
  <2>2. s = Item(c).sub /\ \A j \in Log \ {Item(c)} : file.slot[j] \in Settled
    BY <1>1, <2>1 DEF Send, At, SlotInv, OneInDoubt
  <2>3. PICK j \in Log : j.sub = t /\ file.slot[j] # "none"
    BY <1>1 DEF SlotInv, ClaimsOnRecord, Recorded
  <2>4. j # Item(c)
    BY <2>2, <2>3
  <2> QED BY <2>2, <2>3, <2>4 DEF HasCompleted, Settled
<1>2. SlotInv /\ [Next]_vars => [Guarded]_vars
  BY <1>1 DEF Guarded
<1>3. FailClosed <=> [][Guarded]_vars
  BY PTL DEF FailClosed, Guarded
<1> QED BY <1>2, <1>3, SlotInvariance, PTL DEF Spec

-----------------------------------------------------------------------------
(* What the relayer relies on of the chain's records *)

\* Nothing can be done any more with a candidate that is spent.
Spent(s) == s \notin UniqueSubs \/ status[s] = "Revealed" \/ arbitration = "locked"

LogsOfChain ==
  /\ \A k \in commitLogs : status[k.sub] # "None" /\ k.block <= head
  /\ \A k \in queueLogs : k.block <= head
  /\ \A s \in Subs : queue[s].queued =>
       status[s] = "Committed" /\ \E k \in queueLogs : k.sub = s

\* A transaction logs at a block that no cursor has passed, and a reveal that
\* was not waiting waits again only with a log of its own.
ChainMoves ==
  /\ head <= head'
  /\ commitLogs \subseteq commitLogs' /\ queueLogs \subseteq queueLogs'
  /\ \A k \in commitLogs' \ commitLogs : k.block = head + 1
  /\ \A k \in queueLogs' \ queueLogs : k.block = head + 1
  /\ \A k \in commitLogs : Spent(k.sub) => Spent(k.sub)'
  /\ \A s \in Subs : Waiting(s)' => \/ Waiting(s)
                                    \/ \E k \in queueLogs' : k.sub = s /\ k.block = head + 1

LEMMA LogsInit == Init => LogsOfChain
BY DEF Init, LogsOfChain, NotQueued

LEMMA ChainStep ==
  ASSUME Types, LogsOfChain, Transaction
  PROVE  LogsOfChain' /\ ChainMoves
<1>1. /\ head \in Nat /\ NextBlock \in Nat /\ NextBlock >= head /\ ~NotQueued.queued
      /\ head + 1 >= head /\ ~(head + 1 <= head)
  BY RelayerConstants DEF NextBlock, NotQueued, Types, ChainTypes
<1>2. /\ status \in [Subs -> {"None", "Committed", "Revealed"}]
      /\ queue \in [Subs -> Queued \cup {NotQueued}] /\ revealDeadline \in Nat
      /\ \A s \in Subs : queue[s].deadline \in Nat
      /\ \A k \in commitLogs \cup queueLogs : k.sub \in Subs /\ k.block \in Nat
  <2>0. NotQueued.deadline \in Nat
    BY DEF NotQueued
  <2>1. \A q \in Queued \cup {NotQueued} : q.deadline \in Nat
    <3>1. \A q \in Queued : q.deadline \in SigDeadlines
      BY DEF Queued
    <3> QED BY <2>0, <3>1, RelayerConstants
  <2>2. \A k \in Log : k.sub \in Subs /\ k.block \in Nat
    BY DEF Log, Blocks
  <2> QED BY <2>1, <2>2, RelayerConstants DEF Types, ChainTypes
<1>3. CASE EmptyBlock
  <2>1. LogsOfChain'
    BY <1>1, <1>2, <1>3 DEF EmptyBlock, LogsOfChain
  <2>2. \A k \in commitLogs : Spent(k.sub) => Spent(k.sub)'
    BY <1>2, <1>3 DEF EmptyBlock, LogsOfChain, Spent
  <2>3. \A t \in Subs : Waiting(t)' => \/ Waiting(t)
                                      \/ \E k \in queueLogs' : k.sub = t /\ k.block = head + 1
    BY <1>1, <1>2, <1>3 DEF EmptyBlock, LogsOfChain, Waiting
  <2>4. /\ head <= head' /\ commitLogs \subseteq commitLogs' /\ queueLogs \subseteq queueLogs'
        /\ \A k \in (commitLogs' \ commitLogs) \cup (queueLogs' \ queueLogs) : k.block = head + 1
    BY <1>1, <1>3 DEF EmptyBlock
  <2> QED BY <2>1, <2>2, <2>3, <2>4 DEF ChainMoves
<1>4. ASSUME NEW s \in Subs, CommitPoC(s) PROVE LogsOfChain' /\ ChainMoves
  <2>1. LogsOfChain'
    BY <1>1, <1>2, <1>4 DEF CommitPoC, LogsOfChain
  <2>2. \A k \in commitLogs : Spent(k.sub) => Spent(k.sub)'
    BY <1>2, <1>4 DEF CommitPoC, LogsOfChain, Spent
  <2>3. \A t \in Subs : Waiting(t)' => \/ Waiting(t)
                                      \/ \E k \in queueLogs' : k.sub = t /\ k.block = head + 1
    BY <1>1, <1>2, <1>4 DEF CommitPoC, LogsOfChain, Waiting
  <2>4. /\ head <= head' /\ commitLogs \subseteq commitLogs' /\ queueLogs \subseteq queueLogs'
        /\ \A k \in (commitLogs' \ commitLogs) \cup (queueLogs' \ queueLogs) : k.block = head + 1
    BY <1>1, <1>4 DEF CommitPoC
  <2> QED BY <2>1, <2>2, <2>3, <2>4 DEF ChainMoves
<1>5. ASSUME NEW s \in Subs, CancelQueuedReveal(s) PROVE LogsOfChain' /\ ChainMoves
  <2>1. LogsOfChain'
    BY <1>1, <1>2, <1>5 DEF CancelQueuedReveal, LogsOfChain
  <2>2. \A k \in commitLogs : Spent(k.sub) => Spent(k.sub)'
    BY <1>2, <1>5 DEF CancelQueuedReveal, LogsOfChain, Spent
  <2>3. \A t \in Subs : Waiting(t)' => \/ Waiting(t)
                                      \/ \E k \in queueLogs' : k.sub = t /\ k.block = head + 1
    BY <1>1, <1>2, <1>5 DEF CancelQueuedReveal, LogsOfChain, Waiting
  <2>4. /\ head <= head' /\ commitLogs \subseteq commitLogs' /\ queueLogs \subseteq queueLogs'
        /\ \A k \in (commitLogs' \ commitLogs) \cup (queueLogs' \ queueLogs) : k.block = head + 1
    BY <1>1, <1>5 DEF CancelQueuedReveal
  <2> QED BY <2>1, <2>2, <2>3, <2>4 DEF ChainMoves
<1>6. ASSUME NEW s \in Subs, RevealPoC(s) PROVE LogsOfChain' /\ ChainMoves
  <2>1. LogsOfChain'
    BY <1>1, <1>2, <1>6 DEF RevealPoC, Revealed, Revealable, LogsOfChain
  <2>2. \A k \in commitLogs : Spent(k.sub) => Spent(k.sub)'
    BY <1>2, <1>6 DEF RevealPoC, Revealed, Revealable, LogsOfChain, Spent
  <2>3. \A t \in Subs : Waiting(t)' => \/ Waiting(t)
                                      \/ \E k \in queueLogs' : k.sub = t /\ k.block = head + 1
    BY <1>1, <1>2, <1>6 DEF RevealPoC, Revealed, Revealable, LogsOfChain, Waiting
  <2>4. /\ head <= head' /\ commitLogs \subseteq commitLogs' /\ queueLogs \subseteq queueLogs'
        /\ \A k \in (commitLogs' \ commitLogs) \cup (queueLogs' \ queueLogs) : k.block = head + 1
    BY <1>1, <1>6 DEF RevealPoC, Revealed, Revealable
  <2> QED BY <2>1, <2>2, <2>3, <2>4 DEF ChainMoves
<1>7. ASSUME NEW s \in Subs, Include(s) PROVE LogsOfChain' /\ ChainMoves
  <2>1. LogsOfChain'
    BY <1>1, <1>2, <1>7 DEF Include, Executable, Revealed, Revealable, LogsOfChain
  <2>2. \A k \in commitLogs : Spent(k.sub) => Spent(k.sub)'
    BY <1>2, <1>7 DEF Include, Executable, Revealed, Revealable, LogsOfChain, Spent
  <2>3. \A t \in Subs : Waiting(t)' => \/ Waiting(t)
                                      \/ \E k \in queueLogs' : k.sub = t /\ k.block = head + 1
    BY <1>1, <1>2, <1>7 DEF Include, Executable, Revealed, Revealable, LogsOfChain, Waiting
  <2>4. /\ head <= head' /\ commitLogs \subseteq commitLogs' /\ queueLogs \subseteq queueLogs'
        /\ \A k \in (commitLogs' \ commitLogs) \cup (queueLogs' \ queueLogs) : k.block = head + 1
    BY <1>1, <1>7 DEF Include, Executable, Revealed, Revealable
  <2> QED BY <2>1, <2>2, <2>3, <2>4 DEF ChainMoves
<1>8. ASSUME NEW s \in Subs, NEW q \in Queued, QueueRevealBySig(s, q) PROVE LogsOfChain' /\ ChainMoves
  <2> DEFINE l == [sub |-> s, block |-> head + 1]
  <2>0. /\ head' = head + 1 /\ status[s] = "Committed" /\ queueLogs' = queueLogs \cup {l}
        /\ queue'[s] = q /\ \A t \in Subs \ {s} : queue'[t] = queue[t]
        /\ UNCHANGED <<status, commitLogs, arbitration>>
        /\ l.sub = s /\ l.block = head + 1
    BY <1>2, <1>8 DEF QueueRevealBySig
  <2> HIDE DEF l
  <2>1. LogsOfChain'
    <3>1. \A k \in queueLogs' : k.block <= head'
      BY <1>1, <1>2, <2>0 DEF LogsOfChain
    <3>2. \A k \in commitLogs' : status'[k.sub] # "None" /\ k.block <= head'
      BY <1>1, <1>2, <2>0 DEF LogsOfChain
    <3>3. \A t \in Subs : queue'[t].queued => status'[t] = "Committed" /\ \E k \in queueLogs' : k.sub = t
      BY <2>0 DEF LogsOfChain
    <3> QED BY <3>1, <3>2, <3>3 DEF LogsOfChain
  <2>2. \A k \in commitLogs : Spent(k.sub) => Spent(k.sub)'
    BY <2>0 DEF Spent
  <2>3. \A t \in Subs : Waiting(t)' => \/ Waiting(t)
                                      \/ \E k \in queueLogs' : k.sub = t /\ k.block = head + 1
    <3>1. ASSUME NEW t \in Subs \ {s} PROVE Waiting(t)' => Waiting(t)
      BY <1>1, <1>2, <2>0 DEF Waiting
    <3> QED BY <2>0, <3>1
  <2>4. /\ head <= head' /\ commitLogs \subseteq commitLogs' /\ queueLogs \subseteq queueLogs'
        /\ \A k \in (commitLogs' \ commitLogs) \cup (queueLogs' \ queueLogs) : k.block = head + 1
    BY <1>1, <2>0
  <2> QED BY <2>1, <2>2, <2>3, <2>4 DEF ChainMoves
<1>9. ASSUME NEW outcome \in {"free", "locked"}, Verdict(outcome) PROVE LogsOfChain' /\ ChainMoves
  <2>1. LogsOfChain'
    BY <1>1, <1>2, <1>9 DEF Verdict, LogsOfChain
  <2>2. \A k \in commitLogs : Spent(k.sub) => Spent(k.sub)'
    BY <1>2, <1>9 DEF Verdict, LogsOfChain, Spent
  <2>3. \A t \in Subs : Waiting(t)' => \/ Waiting(t)
                                      \/ \E k \in queueLogs' : k.sub = t /\ k.block = head + 1
    BY <1>1, <1>2, <1>9 DEF Verdict, LogsOfChain, Waiting
  <2>4. /\ head <= head' /\ commitLogs \subseteq commitLogs' /\ queueLogs \subseteq queueLogs'
        /\ \A k \in (commitLogs' \ commitLogs) \cup (queueLogs' \ queueLogs) : k.block = head + 1
    BY <1>1, <1>9 DEF Verdict
  <2> QED BY <2>1, <2>2, <2>3, <2>4 DEF ChainMoves
<1> QED BY <1>3, <1>4, <1>5, <1>6, <1>7, <1>8, <1>9 DEF Transaction

-----------------------------------------------------------------------------
(* Candidates *)

StillCandidate(s) == \E j \in file.candidates : j.sub = s

\* What a cycle has scanned of the chain it found: remembered, read and about
\* to be remembered, or nothing that could be selected any more.
CommitsScanned(c) ==
  /\ cycle[c].phase \in {"commits", "judge"} => cycle[c].seen <= head /\ cycle[c].from >= 1
  /\ At(c, "commits") =>
       \A k \in commitLogs :
         k.block <= cycle[c].seen /\ k.block >= cycle[c].from /\ k.block < cycle[c].next =>
           Spent(k.sub) \/ StillCandidate(k.sub) \/ k \in cycle[c].logs
  /\ At(c, "judge") =>
       \A k \in commitLogs :
         k.block <= cycle[c].seen /\ k.block >= cycle[c].from /\ k.block <= cycle[c].to =>
           Spent(k.sub) \/ StillCandidate(k.sub)

PassedRemembered ==
  /\ \A b \in passed : b <= head
  /\ \A k \in commitLogs : k.block \in passed => Spent(k.sub) \/ StillCandidate(k.sub)

CandidateInv ==
  SlotInv /\ LogsOfChain /\ PassedRemembered /\ (\A c \in Cycles : CommitsScanned(c))

LEMMA CandidateInit == Init => CandidateInv
<1> SUFFICES ASSUME Init PROVE CandidateInv
  OBVIOUS
<1>1. SlotInv /\ LogsOfChain
  BY SlotInit, LogsInit
<1>2. PassedRemembered /\ \A c \in Cycles : CommitsScanned(c)
  BY DEF Init, PassedRemembered, CommitsScanned, At, Idle
<1> QED BY <1>1, <1>2 DEF CandidateInv

LEMMA ChainKeepsCandidates ==
  ASSUME CandidateInv, Transaction
  PROVE  PassedRemembered' /\ \A c \in Cycles : CommitsScanned(c)'
<1>1. ChainMoves /\ UNCHANGED <<file, cycle, passed>>
  BY ChainStep, ChainKeepsTypes DEF CandidateInv, SlotInv
<1>2. /\ head \in Nat /\ head' \in Nat /\ passed \subseteq Nat
      /\ \A k \in commitLogs' : k.block \in Nat
  <2>1. Types /\ Types'
    BY ChainKeepsTypes DEF CandidateInv, SlotInv
  <2> QED BY <2>1, RelayerConstants DEF Types, ChainTypes, RelayTypes, Log, Blocks
<1>3. \A k \in commitLogs' \ commitLogs : k.block > head
  BY <1>1, <1>2 DEF ChainMoves
<1>4. \A k \in commitLogs : Spent(k.sub) => Spent(k.sub)'
  BY <1>1 DEF ChainMoves
<1>5. PassedRemembered'
  BY <1>1, <1>2, <1>3, <1>4 DEF CandidateInv, PassedRemembered, StillCandidate, ChainMoves
<1>6. ASSUME NEW c \in Cycles PROVE CommitsScanned(c)'
  <2>1. cycle[c].seen \in Nat /\ cycle[c].from \in Nat
    BY DEF CandidateInv, SlotInv, Types, RelayTypes, Held
  <2> QED BY <1>1, <1>2, <1>3, <1>4, <2>1 DEF CandidateInv, CommitsScanned, StillCandidate, ChainMoves, At
<1> QED BY <1>5, <1>6

\* A cycle that leaves the candidates alone and neither scans nor judges.
LEMMA OthersKeepCandidates ==
  ASSUME CandidateInv, NEW c \in Cycles, Cycles = {c},
         cycle'[c].phase \notin {"commits", "judge"}, file'.candidates = file.candidates,
         UNCHANGED <<chainVars, passed>>
  PROVE  PassedRemembered' /\ CommitsScanned(c)'
BY DEF CandidateInv, PassedRemembered, CommitsScanned, StillCandidate, Spent, At, chainVars

LEMMA ScanKeepsCandidates ==
  ASSUME Durable, ~LiveAbi, CandidateInv, NEW c \in Cycles, Cycles = {c}, Start(c) \/ Scan(c)
  PROVE  PassedRemembered' /\ CommitsScanned(c)'
<1> DEFINE m == cycle[c]
<1>0. /\ m \in Held /\ file \in Memory /\ Types /\ head \in Nat /\ passed \subseteq Nat
      /\ (~At(c, "idle") => m.store = file)
      /\ m.to \in Nat /\ m.next \in Nat /\ m.from \in Nat /\ m.seen \in Nat
      /\ \A k \in commitLogs : k \in Log /\ k.block \in Nat
      /\ cycle \in [Cycles -> Held]
  BY RelayerConstants DEF CandidateInv, SlotInv, Types, ChainTypes, RelayTypes, OneInDoubt, Held, Log, Blocks
<1>1. CASE Start(c)
  <2>1. /\ Loaded.candidates = file.candidates /\ file' = Loaded
        /\ cycle'[c] = Plan(Loaded) /\ UNCHANGED <<chainVars, passed>>
    BY <1>0, <1>1 DEF Start, Loaded, Recovered, Save, Memory, histVars
  <2>2. FromBlock(Loaded) \in Nat /\ FromBlock(Loaded) >= 1
    BY <1>0, RecoveredTypes, RelayerConstants DEF FromBlock, Loaded, Memory, RunOnceConfig, ParsedPositiveInt
  <2>3. /\ Plan(Loaded).phase = "commits" /\ Plan(Loaded).seen = head
        /\ Plan(Loaded).from = FromBlock(Loaded) /\ Plan(Loaded).next = FromBlock(Loaded)
    BY DEF Plan, Idle
  <2>4. PassedRemembered'
    BY <2>1 DEF CandidateInv, PassedRemembered, StillCandidate, Spent, chainVars
  <2> QED BY <1>0, <2>1, <2>2, <2>3, <2>4 DEF CommitsScanned, At, chainVars
<1>2. CASE FetchCommits(c)
  <2> DEFINE end == ChunkEnd(c)
  <2>1. end \in Int
    BY <1>0, RelayerConstants DEF ChunkEnd, RunOnceConfig, ParsedPositiveInt
  <2>2. /\ cycle'[c].phase = "commits" /\ cycle'[c].next = end + 1 /\ m.phase = "commits"
        /\ cycle'[c].logs = {k \in commitLogs : k.block \in m.next .. end} /\ m.logs = {}
        /\ cycle'[c].seen = m.seen /\ cycle'[c].from = m.from
        /\ UNCHANGED <<chainVars, passed, file>>
    BY <1>0, <1>2 DEF FetchCommits, FetchLogs, At, Held, histVars
  <2> HIDE DEF end
  <2>3. PassedRemembered'
    BY <2>2 DEF CandidateInv, PassedRemembered, StillCandidate, Spent, chainVars
  <2>4. ASSUME NEW k \in commitLogs, k.block <= m.seen, k.block >= m.from, k.block < end + 1
        PROVE  Spent(k.sub) \/ StillCandidate(k.sub) \/ k \in cycle'[c].logs
    BY <1>0, <2>1, <2>2, <2>4 DEF CandidateInv, CommitsScanned, At
  <2> QED BY <2>2, <2>3, <2>4 DEF CandidateInv, CommitsScanned, At, StillCandidate, Spent, chainVars
<1>3. CASE SaveCandidate(c)
  <2> DEFINE k == Earliest(m.logs)
  <2>1. k \in m.logs /\ k \in Log
    BY <1>0, <1>3, FirstLogIsLog DEF SaveCandidate
  <2>2. /\ cycle'[c].phase = "commits" /\ m.phase = "commits" /\ cycle'[c].next = m.next
        /\ cycle'[c].logs = m.logs \ {k} /\ cycle'[c].seen = m.seen /\ cycle'[c].from = m.from
        /\ file' = RememberCandidate(m.store, k) /\ m.store = file
        /\ UNCHANGED <<chainVars, passed>>
    BY <1>0, <1>3 DEF SaveCandidate, At, Held, histVars, Save
  <2> HIDE DEF k
  <2>3. /\ file'.candidates = Upsert(file.candidates, k)
    BY <1>0, <2>2 DEF RememberCandidate, Memory
  <2>4. /\ \E j \in file'.candidates : j.sub = k.sub
        /\ file.candidates \subseteq file'.candidates
    BY <2>3 DEF Upsert
  <2>5. PassedRemembered'
    BY <2>2, <2>4 DEF CandidateInv, PassedRemembered, StillCandidate, Spent, chainVars
  <2>6. ASSUME NEW l \in commitLogs, l.block <= m.seen, l.block >= m.from, l.block < m.next
        PROVE  Spent(l.sub) \/ StillCandidate(l.sub)' \/ l \in m.logs \ {k}
    BY <2>2, <2>4, <2>6 DEF CandidateInv, CommitsScanned, At, StillCandidate
  <2> QED BY <2>2, <2>5, <2>6 DEF CandidateInv, CommitsScanned, At, Spent, chainVars
<1>4. CASE JudgeCandidates(c)
  <2>1. /\ cycle'[c].phase = "judge" /\ m.phase = "commits" /\ m.logs = {} /\ m.next > m.to
        /\ cycle'[c].to = m.to /\ cycle'[c].seen = m.seen /\ cycle'[c].from = m.from
        /\ UNCHANGED <<chainVars, passed, file>>
    BY <1>0, <1>4 DEF JudgeCandidates, At, Held, histVars, Scanned
  <2>2. PassedRemembered'
    BY <2>1 DEF CandidateInv, PassedRemembered, StillCandidate, Spent, chainVars
  <2>3. ASSUME NEW k \in commitLogs, k.block <= m.seen, k.block >= m.from, k.block <= m.to
        PROVE  Spent(k.sub) \/ StillCandidate(k.sub)
    BY <1>0, <2>1, <2>3 DEF CandidateInv, CommitsScanned, At
  <2> QED BY <2>1, <2>2, <2>3 DEF CandidateInv, CommitsScanned, At, StillCandidate, Spent, chainVars
<1>5. CASE JudgeCandidate(c)
  <2> DEFINE k == Earliest(m.todo)
  <2>1. /\ cycle'[c].phase = "judge" /\ m.phase = "judge"
        /\ cycle'[c].to = m.to /\ cycle'[c].seen = m.seen /\ cycle'[c].from = m.from
        /\ file' = [m.store EXCEPT !.candidates = IF CandidateIsSpent(k) THEN @ \ {k} ELSE @]
        /\ m.store = file /\ UNCHANGED <<chainVars, passed>>
    BY <1>0, <1>5 DEF JudgeCandidate, At, Held, histVars, Save
  <2>2. file'.candidates = IF CandidateIsSpent(k) THEN file.candidates \ {k} ELSE file.candidates
    BY <1>0, <2>1 DEF Memory
  <2> HIDE DEF k
  <2>3. ASSUME NEW l \in commitLogs, StillCandidate(l.sub), ~StillCandidate(l.sub)' PROVE Spent(l.sub)
    <3>1. CandidateIsSpent(k) /\ k.sub = l.sub
      BY <2>2, <2>3 DEF StillCandidate
    <3>2. status[l.sub] \in {"Committed", "Revealed"}
      BY <1>0 DEF CandidateInv, LogsOfChain, Types, ChainTypes, Log
    <3> QED BY <3>1, <3>2 DEF CandidateIsSpent, UniqueRead, ModeOf, ReadsCommitted, Spent
  <2>4. PassedRemembered'
    BY <2>1, <2>3 DEF CandidateInv, PassedRemembered, Spent, chainVars
  <2> QED BY <2>1, <2>3, <2>4 DEF CandidateInv, CommitsScanned, At, Spent, chainVars
<1>6. CASE AdvanceAfterCandidates(c)
  <2>1. /\ cycle'[c].phase = "clock" /\ m.phase = "judge"
        /\ file' = [m.store EXCEPT !.cursor = m.to] /\ m.store = file /\ UNCHANGED chainVars
        /\ passed' = passed \cup {b \in m.from .. m.to : b <= m.seen}
    BY <1>0, <1>6 DEF AdvanceAfterCandidates, At, Held, Save
  <2>2. file'.candidates = file.candidates
    BY <1>0, <2>1 DEF Memory
  <2>3. \A b \in passed' : b <= head'
    BY <1>0, <2>1 DEF CandidateInv, PassedRemembered, CommitsScanned, chainVars
  <2>4. ASSUME NEW k \in commitLogs, k.block \in passed' PROVE Spent(k.sub) \/ StillCandidate(k.sub)
    BY <1>0, <2>1, <2>4 DEF CandidateInv, PassedRemembered, CommitsScanned, At
  <2>5. PassedRemembered'
    BY <2>1, <2>2, <2>3, <2>4 DEF PassedRemembered, StillCandidate, Spent, chainVars
  <2> QED BY <2>1, <2>5 DEF CommitsScanned, At
<1>7. CASE ReadClock(c) \/ FetchQueued(c) \/ SaveQueued(c) \/ ListItems(c)
  <2>1. cycle'[c].phase \notin {"commits", "judge"} /\ UNCHANGED <<chainVars, passed>>
    BY <1>0, <1>7 DEF ReadClock, FetchQueued, FetchLogs, SaveQueued, ListItems, At, Held, histVars
  <2>2. file'.candidates = file.candidates
    BY <1>0, <1>7 DEF ReadClock, FetchQueued, FetchLogs, SaveQueued, ListItems, RememberQueued, At, Memory, Save
  <2> QED BY <2>1, <2>2, OthersKeepCandidates
<1> QED BY <1>1, <1>2, <1>3, <1>4, <1>5, <1>6, <1>7 DEF Scan

LEMMA ExecutionKeepsCandidates ==
  ASSUME Durable, CandidateInv, NEW c \in Cycles, Cycles = {c},
         Refuse(c) \/ Execute(c) \/ Failure(c)
  PROVE  PassedRemembered' /\ CommitsScanned(c)'
<1>0. /\ file \in Memory /\ (~At(c, "idle") => cycle[c].store = file)
      /\ cycle \in [Cycles -> Held] /\ Idle.phase = "idle"
  BY DEF CandidateInv, SlotInv, Types, RelayTypes, OneInDoubt, Idle
<1>1. UNCHANGED <<chainVars, passed>>
  BY DEF Refuse, Execute, DropItem, SkipItem, Claim, Claimed, Simulate, Send, Receipt, Complete,
         CompleteOnRefresh, MarkCompleted, Quarantine, Quarantined, DequeueCompleted, Dequeue, FinishCycle,
         Failure, Retry, GiveUp, Abort, Crash, histVars
<1>2. cycle'[c].phase \notin {"commits", "judge"} /\ file'.candidates = file.candidates
  <2>1. CASE Refuse(c)
    BY <1>0, <2>1 DEF Refuse, Save, Loaded, Recovered, Memory, At
  <2>2. CASE Failure(c)
    BY <1>0, <2>2 DEF Failure, Retry, GiveUp, Abort, Crash, Held
  <2>3. CASE DropItem(c) \/ DequeueCompleted(c)
    BY <1>0, <2>3 DEF DropItem, DequeueCompleted, Dequeue, NextItem, At, Save, Memory, Held
  <2>4. CASE SkipItem(c)
    BY <1>0, <2>4 DEF SkipItem, NextItem, At, Held
  <2>5. CASE Claim(c)
    BY <1>0, <2>5 DEF Claim, Claimed, NextItem, At, Save, Memory, Held
  <2>6. CASE Simulate(c) \/ Send(c) \/ Receipt(c)
    BY <1>0, <2>6 DEF Simulate, Send, Receipt, Held
  <2>7. CASE Complete(c) \/ CompleteOnRefresh(c)
    BY <1>0, <2>7 DEF Complete, CompleteOnRefresh, MarkCompleted, At, Save, Memory, Held
  <2>8. CASE Quarantine(c) \/ FinishCycle(c)
    BY <1>0, <2>8 DEF Quarantine, Quarantined, FinishCycle, At, Save, Memory
  <2> QED BY <2>1, <2>2, <2>3, <2>4, <2>5, <2>6, <2>7, <2>8 DEF Execute
<1> QED BY <1>1, <1>2, OthersKeepCandidates

LEMMA CandidateStep ==
  ASSUME Durable, ~LiveAbi, NEW c0, Cycles = {c0}, CandidateInv, [Next]_vars
  PROVE  CandidateInv'
<1>1. SlotInv'
  BY SlotStep DEF CandidateInv
<1>2. CASE Transaction
  BY <1>1, <1>2, ChainStep, ChainKeepsCandidates DEF CandidateInv, SlotInv
<1>3. ASSUME NEW c \in Cycles, Start(c) \/ Refuse(c) \/ Scan(c) \/ Execute(c) \/ Failure(c)
      PROVE  CandidateInv'
  <2>1. PassedRemembered' /\ CommitsScanned(c)'
    BY <1>3, ScanKeepsCandidates, ExecutionKeepsCandidates
  <2>2. UNCHANGED chainVars
    BY <1>3 DEF Start, Refuse, Scan, FetchCommits, FetchQueued, FetchLogs, SaveCandidate,
       JudgeCandidates, JudgeCandidate, AdvanceAfterCandidates, ReadClock, SaveQueued, ListItems,
       Execute, DropItem, SkipItem, Claim, Claimed, Simulate, Send, Receipt, Complete, CompleteOnRefresh,
       MarkCompleted, Quarantine, Quarantined, DequeueCompleted, Dequeue, FinishCycle, Failure, Retry, GiveUp,
       Abort, Crash
  <2>3. LogsOfChain'
    BY <2>2 DEF CandidateInv, LogsOfChain, chainVars
  <2> QED BY <1>1, <2>1, <2>3 DEF CandidateInv
<1>4. CASE UNCHANGED vars
  BY <1>1, <1>4 DEF CandidateInv, LogsOfChain, PassedRemembered, CommitsScanned, StillCandidate, Spent, At,
     vars, chainVars, histVars
<1> QED BY <1>2, <1>3, <1>4 DEF Next

\* A candidate whose commit the cursor moved over stays remembered while it can
\* be selected (unique-orchestration.ts), over a runtime that answers as
\* UniqueCandidateRuntime declares.  Of live-runtime.ts it does not hold: the
\* mode its ABI decodes is never UNIQUE.
THEOREM CandidatesKeptAlways ==
  ASSUME Durable, ~LiveAbi, NEW c0, Cycles = {c0}
  PROVE  Spec => []CandidatesKept
<1>1. Init => CandidateInv
  BY CandidateInit
<1>2. CandidateInv /\ [Next]_vars => CandidateInv'
  BY CandidateStep
<1>3. CandidateInv => CandidatesKept
  BY DEF CandidateInv, PassedRemembered, CandidatesKept, StillCandidate, Spent
<1> QED BY <1>1, <1>2, <1>3, PTL DEF Spec

-----------------------------------------------------------------------------
(* Queued reveals *)

\* The newest queue log of a submission.
Newest(k) == k \in queueLogs /\ \A j \in queueLogs : j.sub = k.sub => j.block <= k.block

\* What the cycle has still to scan of the blocks its cursor moved over.
Unscanned(c, k) ==
  \/ At(c, "clock") /\ cycle[c].from <= k.block /\ k.block <= cycle[c].to
  \/ At(c, "queued") /\ cycle[c].next <= k.block /\ k.block <= cycle[c].to
  \/ At(c, "queued") /\ k \in cycle[c].logs

QueueScanned(c) ==
  /\ At(c, "dequeue") => cycle[c].todo # {} /\ file.slot[Item(c)] # "none"
  /\ cycle[c].now <= head
  /\ \A k \in queueLogs :
       Newest(k) /\ Waiting(k.sub) /\ k.block \in passed => Remembered(k.sub) \/ Unscanned(c, k)

QueueInv ==
  /\ CandidateInv
  /\ crashes = 0
  /\ \A c \in Cycles : QueueScanned(c)

LEMMA QueueInit == Init => QueueInv
<1> SUFFICES ASSUME Init PROVE QueueInv
  OBVIOUS
<1>1. CandidateInv
  BY CandidateInit
<1>2. \A c \in Cycles : QueueScanned(c)
  BY DEF Init, QueueScanned, At, Idle
<1> QED BY <1>1, <1>2 DEF QueueInv, Init

LEMMA ChainKeepsQueue ==
  ASSUME QueueInv, Transaction, NEW c \in Cycles
  PROVE  QueueScanned(c)' /\ crashes' = crashes
<1>1. ChainMoves /\ UNCHANGED <<file, cycle, passed>>
  BY ChainStep, ChainKeepsTypes DEF QueueInv, CandidateInv, SlotInv
<1>2. /\ head \in Nat /\ head' \in Nat /\ passed \subseteq Nat /\ cycle[c].now \in Nat
      /\ \A k \in queueLogs' : k.block \in Nat /\ k.sub \in Subs
  <2>1. Types /\ Types'
    BY ChainKeepsTypes DEF QueueInv, CandidateInv, SlotInv
  <2> QED BY <2>1, RelayerConstants DEF Types, ChainTypes, RelayTypes, Log, Blocks, Held
<1>3. \A b \in passed : b <= head
  BY DEF QueueInv, CandidateInv, PassedRemembered
<1>4. ASSUME NEW k \in queueLogs', Newest(k)', Waiting(k.sub)', k.block \in passed'
      PROVE  Remembered(k.sub)' \/ Unscanned(c, k)'
  <2>1. k.block <= head
    BY <1>1, <1>3, <1>4
  <2>2. k \in queueLogs
    BY <1>1, <1>2, <2>1 DEF ChainMoves
  <2>3. Waiting(k.sub)
    BY <1>1, <1>2, <1>4, <2>1 DEF ChainMoves, Newest
  <2>4. Newest(k)
    BY <1>1, <1>4, <2>2 DEF ChainMoves, Newest
  <2>5. Remembered(k.sub) \/ Unscanned(c, k)
    BY <1>1, <1>4, <2>2, <2>3, <2>4 DEF QueueInv, QueueScanned
  <2> QED BY <1>1, <2>5 DEF Remembered, Unscanned, At
<1>5. cycle'[c].now <= head'
  BY <1>1, <1>2 DEF QueueInv, QueueScanned, ChainMoves
<1>6. crashes' = crashes
  BY DEF Transaction, EmptyBlock, CommitPoC, CancelQueuedReveal, RevealPoC, Include,
         QueueRevealBySig, Verdict, histVars
<1>7. At(c, "dequeue")' => cycle'[c].todo # {} /\ file'.slot[Item(c)'] # "none"
  BY <1>1 DEF QueueInv, QueueScanned, At, Item
<1> QED BY <1>4, <1>5, <1>6, <1>7 DEF QueueScanned

\* A cycle that forgets nothing that may still be executed.
LEMMA KeepingKeepsQueue ==
  ASSUME QueueInv, NEW c \in Cycles, UNCHANGED <<chainVars, passed>>,
         \A s \in Subs : Remembered(s) /\ Waiting(s) => Remembered(s)',
         \A k \in queueLogs : Unscanned(c, k) => Remembered(k.sub)' \/ Unscanned(c, k)'
  PROVE  \A k \in queueLogs' :
           Newest(k)' /\ Waiting(k.sub)' /\ k.block \in passed' => Remembered(k.sub)' \/ Unscanned(c, k)'
<1>1. \A k \in queueLogs : k.sub \in Subs
  BY DEF QueueInv, CandidateInv, SlotInv, Types, ChainTypes, Log
<1>2. \A k \in queueLogs : (Newest(k)' <=> Newest(k)) /\ (Waiting(k.sub)' <=> Waiting(k.sub))
  BY DEF Newest, Waiting, chainVars
<1> QED BY <1>1, <1>2 DEF QueueInv, QueueScanned, chainVars

\* An item is dropped only if it can no longer be executed, or was claimed.
LEMMA DroppedIsDone ==
  ASSUME ~LiveAbi, QueueInv, NEW c \in Cycles, NEW k \in Log, IsTerminal(c, k)
  PROVE  ~Waiting(k.sub)
<1>1. /\ cycle[c].now \in Nat /\ cycle[c].now <= head /\ head \in Nat /\ k.sub \in Subs
      /\ revealDeadline \in Nat
  BY RelayerConstants DEF QueueInv, CandidateInv, SlotInv, Types, ChainTypes, RelayTypes, Held, QueueScanned, Log
<1>2. queue[k.sub].deadline \in Nat
  <2>1. NotQueued.deadline \in Nat
    BY DEF NotQueued
  <2>2. \A q \in Queued : q.deadline \in SigDeadlines
    BY DEF Queued
  <2> QED BY <1>1, <2>1, <2>2, RelayerConstants DEF QueueInv, CandidateInv, SlotInv, Types, ChainTypes
<1>3. /\ MultiRead(k.sub).committed = (status[k.sub] = "Committed")
      /\ MultiRead(k.sub).queued = queue[k.sub].queued
      /\ MultiRead(k.sub).deadline = queue[k.sub].deadline
      /\ MultiRead(k.sub).mode # "MULTI" => k.sub \in UniqueSubs
  BY DEF MultiRead, ModeOf, ReadsCommitted
<1>4. \/ status[k.sub] # "Committed" \/ k.sub \in UniqueSubs \/ ~queue[k.sub].queued
      \/ cycle[c].now > queue[k.sub].deadline \/ (revealDeadline > 0 /\ cycle[c].now > revealDeadline)
  BY <1>3 DEF IsTerminal
<1> QED BY <1>1, <1>2, <1>4 DEF Waiting

LEMMA ScanKeepsQueue ==
  ASSUME Durable, ~LiveAbi, QueueInv, NEW c \in Cycles, Cycles = {c}, Start(c) \/ Refuse(c) \/ Scan(c)
  PROVE  QueueScanned(c)' /\ crashes' = crashes
<1> DEFINE m == cycle[c]
<1>0. /\ m \in Held /\ file \in Memory /\ Types /\ head \in Nat /\ m.now \in Nat /\ m.now <= head
      /\ (~At(c, "idle") => m.store = file)
      /\ m.to \in Nat /\ m.next \in Nat /\ m.from \in Nat /\ m.seen \in Nat
      /\ \A k \in queueLogs : k \in Log /\ k.block \in Nat /\ k.sub \in Subs
      /\ cycle \in [Cycles -> Held]
  BY RelayerConstants DEF QueueInv, CandidateInv, SlotInv, Types, ChainTypes, RelayTypes, OneInDoubt, Held,
     Log, Blocks, QueueScanned
<1>1. CASE Start(c) \/ Refuse(c)
  <2>1. /\ file' = Recovered(file) /\ m.phase = "idle" /\ UNCHANGED <<chainVars, passed, crashes>>
        /\ cycle'[c] = m \/ (cycle'[c].phase = "commits" /\ cycle'[c].now = 0)
    <3>1. CASE Start(c)
      <4>1. Plan(Loaded).phase = "commits" /\ Plan(Loaded).now = 0
        BY DEF Plan, Idle
      <4> QED BY <1>0, <3>1, <4>1 DEF Start, Loaded, Save, histVars, At
    <3>2. CASE Refuse(c)
      BY <1>0, <3>2 DEF Refuse, Loaded, Save, histVars, At
    <3> QED BY <1>1, <3>1, <3>2
  <2>2. /\ file'.pending = file.pending
        /\ \A k \in Log : file'.slot[k] = "none" <=> file.slot[k] = "none"
    BY <1>0, <2>1, RecoveredTypes DEF Recovered, Memory
  <2>3. \A s \in Subs : Remembered(s) => Remembered(s)'
    BY <2>2 DEF Remembered
  <2>4. \A k \in queueLogs : ~Unscanned(c, k)
    BY <2>1 DEF Unscanned, At
  <2> QED BY <1>0, <2>1, <2>3, <2>4, KeepingKeepsQueue DEF QueueScanned, At, chainVars
<1>2. CASE FetchCommits(c) \/ SaveCandidate(c) \/ JudgeCandidates(c) \/ JudgeCandidate(c)
  <2>1. /\ cycle'[c].phase \in {"commits", "judge"} /\ m.phase \in {"commits", "judge"}
        /\ cycle'[c].now = m.now /\ UNCHANGED <<chainVars, passed, crashes>>
    BY <1>0, <1>2 DEF FetchCommits, FetchLogs, SaveCandidate, JudgeCandidates, JudgeCandidate, At, Held,
       histVars
  <2>2. file'.pending = file.pending /\ file'.slot = file.slot
    <3>1. CASE FetchCommits(c) \/ JudgeCandidates(c)
      BY <3>1 DEF FetchCommits, FetchLogs, JudgeCandidates
    <3>2. CASE SaveCandidate(c) \/ JudgeCandidate(c)
      BY <1>0, <3>2 DEF SaveCandidate, JudgeCandidate, RememberCandidate, At, Memory, Save
    <3> QED BY <1>2, <3>1, <3>2
  <2>3. \A s \in Subs : Remembered(s) => Remembered(s)'
    BY <2>2 DEF Remembered
  <2>4. \A k \in queueLogs : ~Unscanned(c, k)
    BY <2>1 DEF Unscanned, At
  <2> QED BY <1>0, <2>1, <2>3, <2>4, KeepingKeepsQueue DEF QueueScanned, At, chainVars
<1>3. CASE AdvanceAfterCandidates(c)
  <2>1. /\ cycle'[c].phase = "clock" /\ m.phase = "judge" /\ cycle'[c].now = m.now
        /\ cycle'[c].from = m.from /\ cycle'[c].to = m.to
        /\ file' = [m.store EXCEPT !.cursor = m.to] /\ m.store = file
        /\ passed' = passed \cup {b \in m.from .. m.to : b <= m.seen}
        /\ UNCHANGED <<chainVars, crashes>>
    BY <1>0, <1>3 DEF AdvanceAfterCandidates, At, Held, Save
  <2>2. file'.pending = file.pending /\ file'.slot = file.slot
    BY <1>0, <2>1 DEF Memory
  <2>3. ASSUME NEW k \in queueLogs', Newest(k)', Waiting(k.sub)', k.block \in passed'
        PROVE  Remembered(k.sub)' \/ Unscanned(c, k)'
    <3>1. k \in queueLogs /\ Newest(k) /\ Waiting(k.sub)
      BY <2>1, <2>3 DEF Newest, Waiting, chainVars
    <3>2. CASE k.block \in passed
      <4>1. Remembered(k.sub)
        BY <2>1, <3>1, <3>2 DEF QueueInv, QueueScanned, Unscanned, At
      <4> QED BY <2>2, <4>1 DEF Remembered
    <3>3. CASE k.block \in m.from .. m.to
      BY <1>0, <2>1, <3>3 DEF Unscanned, At
    <3> QED BY <2>1, <2>3, <3>2, <3>3
  <2> QED BY <1>0, <2>1, <2>3 DEF QueueScanned, At, chainVars
<1>4. CASE ReadClock(c)
  <2>1. /\ cycle'[c].phase = "queued" /\ m.phase = "clock" /\ cycle'[c].now = head
        /\ cycle'[c].next = m.from /\ cycle'[c].to = m.to
        /\ UNCHANGED <<chainVars, file, passed, crashes>>
    BY <1>0, <1>4 DEF ReadClock, At, Held, histVars
  <2>2. \A s \in Subs : Remembered(s) => Remembered(s)'
    BY <2>1 DEF Remembered
  <2>3. \A k \in queueLogs : Unscanned(c, k) => Unscanned(c, k)'
    BY <2>1 DEF Unscanned, At
  <2> QED BY <1>0, <2>1, <2>2, <2>3, KeepingKeepsQueue DEF QueueScanned, At, chainVars
<1>5. CASE FetchQueued(c)
  <2> DEFINE end == ChunkEnd(c)
  <2>0. end \in Int /\ end <= m.to
    BY <1>0, RelayerConstants DEF ChunkEnd, RunOnceConfig, ParsedPositiveInt
  <2>1. /\ cycle'[c].phase = "queued" /\ m.phase = "queued" /\ cycle'[c].now = m.now
        /\ cycle'[c].next = end + 1 /\ cycle'[c].to = m.to /\ m.logs = {}
        /\ cycle'[c].logs = {k \in queueLogs : k.block \in m.next .. end}
        /\ UNCHANGED <<chainVars, file, passed, crashes>>
    BY <1>0, <1>5 DEF FetchQueued, FoundQueueLogs, FetchLogs, At, Held, histVars
  <2> HIDE DEF end
  <2>2. \A s \in Subs : Remembered(s) => Remembered(s)'
    BY <2>1 DEF Remembered
  <2>3. \A k \in queueLogs : Unscanned(c, k) => Unscanned(c, k)'
    BY <1>0, <2>0, <2>1 DEF Unscanned, At
  <2> QED BY <1>0, <2>1, <2>2, <2>3, KeepingKeepsQueue DEF QueueScanned, At, chainVars
<1>6. CASE SaveQueued(c)
  <2> DEFINE k == Earliest(m.logs)
  <2>0. k \in m.logs /\ k \in Log
    BY <1>0, <1>6, FirstLogIsLog DEF SaveQueued
  <2>1. /\ cycle'[c].phase = "queued" /\ m.phase = "queued" /\ cycle'[c].now = m.now
        /\ cycle'[c].next = m.next /\ cycle'[c].to = m.to /\ cycle'[c].logs = m.logs \ {k}
        /\ file' = RememberQueued(m.store, k) /\ m.store = file
        /\ UNCHANGED <<chainVars, passed, crashes>>
    BY <1>0, <1>6 DEF SaveQueued, At, Held, histVars, Save
  <2> HIDE DEF k
  <2>2. file'.pending = Upsert(file.pending, k) /\ file'.slot = file.slot /\ file.pending \subseteq Log
    BY <1>0, <2>1 DEF RememberQueued, Memory
  <2>3. file.pending \subseteq file'.pending /\ \E j \in Log : j \in file'.pending /\ j.sub = k.sub
    BY <2>0, <2>2 DEF Upsert
  <2>4. \A s \in Subs : Remembered(s) => Remembered(s)'
    BY <2>2, <2>3 DEF Remembered
  <2>5. ASSUME NEW l \in queueLogs, Unscanned(c, l) PROVE Remembered(l.sub)' \/ Unscanned(c, l)'
    <3>1. CASE l = k
      BY <2>3, <3>1 DEF Remembered
    <3>2. CASE l # k
      BY <2>1, <2>5, <3>2 DEF Unscanned, At
    <3> QED BY <3>1, <3>2
  <2> QED BY <1>0, <2>1, <2>4, <2>5, KeepingKeepsQueue DEF QueueScanned, At, chainVars
<1>7. CASE ListItems(c)
  <2>1. /\ cycle'[c].phase = "items" /\ m.phase = "queued" /\ cycle'[c].now = m.now
        /\ m.logs = {} /\ m.next > m.to
        /\ UNCHANGED <<chainVars, file, passed, crashes>>
    BY <1>0, <1>7 DEF ListItems, At, Held, histVars, Scanned
  <2>2. \A s \in Subs : Remembered(s) => Remembered(s)'
    BY <2>1 DEF Remembered
  <2>3. \A k \in queueLogs : ~Unscanned(c, k)
    BY <1>0, <2>1 DEF Unscanned, At
  <2> QED BY <1>0, <2>1, <2>2, <2>3, KeepingKeepsQueue DEF QueueScanned, At, chainVars
<1> QED BY <1>1, <1>2, <1>3, <1>4, <1>5, <1>6, <1>7 DEF Scan

KeepsReveals == \A s \in Subs : Remembered(s) /\ Waiting(s) => Remembered(s)'

LEMMA ExecutionKeepsQueue ==
  ASSUME Durable, ~LiveAbi, QueueInv, ~Flaky, MaxCrashes = 0, NEW c \in Cycles, Cycles = {c},
         Execute(c) \/ Failure(c)
  PROVE  QueueScanned(c)' /\ crashes' = crashes
<1> DEFINE m == cycle[c]
           k == Item(c)
<1>0. /\ m \in Held /\ file \in Memory /\ Types /\ head \in Nat /\ m.now \in Nat /\ m.now <= head
      /\ (~At(c, "idle") => m.store = file) /\ cycle \in [Cycles -> Held]
      /\ (m.todo # {} => k \in Log /\ k.sub \in Subs)
  BY RelayerConstants, ItemIsTodo DEF QueueInv, CandidateInv, SlotInv, Types, ChainTypes, RelayTypes,
     OneInDoubt, Held, QueueScanned, Log
<1>00. m.phase \in {"simulate", "send", "wait", "refresh", "complete"} => m.todo # {}
  BY DEF QueueInv, CandidateInv, SlotInv, OneInDoubt
<1>1. Execute(c)
  BY <1>0 DEF Failure, Retry, GiveUp, Abort, Crash, QueueInv
<1>2. UNCHANGED <<chainVars, passed, crashes>>
  BY <1>1 DEF Execute, DropItem, SkipItem, Claim, Claimed, Simulate, Send, Receipt, Complete,
     CompleteOnRefresh, MarkCompleted, Quarantine, Quarantined, DequeueCompleted, Dequeue, FinishCycle, histVars
\* What is left to show of a step that keeps what may still be executed.
<1>3. ASSUME KeepsReveals,
             cycle'[c].phase # "dequeue" \/ (cycle'[c].todo # {} /\ file'.slot[Item(c)'] # "none"),
             cycle'[c].now = m.now \/ cycle'[c].now = 0,
             m.phase \notin {"clock", "queued"}
      PROVE  QueueScanned(c)'
  <2>1. \A l \in queueLogs : ~Unscanned(c, l)
    BY <1>3 DEF Unscanned, At
  <2> QED BY <1>0, <1>2, <1>3, <2>1, KeepingKeepsQueue DEF KeepsReveals, QueueScanned, At, chainVars
<1>4. ASSUME file' = [file EXCEPT !.pending = @ \ {k}], k \in Log,
             Waiting(k.sub) => \E j \in Log : j.sub = k.sub /\ file.slot[j] # "none"
      PROVE  KeepsReveals
  <2>1. file'.pending = file.pending \ {k} /\ file'.slot = file.slot
    BY <1>0, <1>4 DEF Memory
  <2> HIDE DEF k
  <2> QED BY <1>4, <2>1 DEF KeepsReveals, Remembered
<1>5. ASSUME NEW v \in {"processing", "completed", "quarantined"}, k \in Log,
             file' = [file EXCEPT !.slot[k] = v]
      PROVE  KeepsReveals
  <2>1. /\ file'.pending = file.pending /\ file'.slot[k] # "none"
        /\ \A j \in Log \ {k} : file'.slot[j] = file.slot[j]
    BY <1>0, <1>5 DEF Memory
  <2> HIDE DEF k
  <2> QED BY <2>1 DEF KeepsReveals, Remembered
<1>6. CASE DropItem(c)
  <2>1. /\ k \in Log /\ file' = [file EXCEPT !.pending = @ \ {k}] /\ m.phase = "items"
        /\ cycle'[c].phase = "items" /\ cycle'[c].now = m.now /\ m.store = file
    BY <1>0, <1>6 DEF DropItem, NextItem, Dequeue, At, Save, Held
  <2>2. HasCompleted(file, k.sub) \/ ~Waiting(k.sub)
    BY <1>6, <2>1, DroppedIsDone DEF DropItem, IsDropped
  <2>3. Waiting(k.sub) => \E j \in Log : j.sub = k.sub /\ file.slot[j] # "none"
    BY <2>2 DEF HasCompleted
  <2> QED BY <1>2, <1>3, <1>4, <2>1, <2>3
<1>7. CASE DequeueCompleted(c)
  <2>1. /\ m.phase = "dequeue" /\ k \in Log /\ file' = [file EXCEPT !.pending = @ \ {k}]
        /\ cycle'[c].phase = "items" /\ cycle'[c].now = m.now /\ file.slot[k] # "none"
    BY <1>0, <1>7 DEF DequeueCompleted, Dequeue, At, Save, Held, QueueInv, QueueScanned
  <2> QED BY <1>2, <1>3, <1>4, <2>1
<1>8. CASE SkipItem(c)
  <2>1. /\ cycle'[c].phase = "items" /\ m.phase = "items" /\ cycle'[c].now = m.now /\ file' = file
    BY <1>0, <1>8 DEF SkipItem, NextItem, At, Held
  <2>2. KeepsReveals
    BY <2>1 DEF KeepsReveals, Remembered
  <2> QED BY <1>2, <1>3, <2>1, <2>2
<1>9. CASE Claim(c)
  <2>1. /\ m.phase = "items" /\ m.store = file /\ k \in Log
        /\ file' = [file EXCEPT !.slot[k] = "processing"]
        /\ cycle'[c].phase = "simulate" /\ cycle'[c].now = m.now
    BY <1>0, <1>9 DEF Claim, Claimed, NextItem, At, Save, Held
  <2> QED BY <1>2, <1>3, <1>5, <2>1
<1>10. CASE Simulate(c) \/ Send(c) \/ Receipt(c)
  <2>1. /\ cycle'[c].phase \in {"send", "refresh", "wait", "complete"}
        /\ m.phase \in {"simulate", "send", "wait"} /\ cycle'[c].now = m.now /\ file' = file
    BY <1>0, <1>10 DEF Simulate, Send, Receipt, At, Held
  <2>2. KeepsReveals
    BY <2>1 DEF KeepsReveals, Remembered
  <2> QED BY <1>2, <1>3, <2>1, <2>2
<1>11. CASE Complete(c) \/ CompleteOnRefresh(c)
  <2>1. /\ m.phase \in {"complete", "refresh"} /\ m.store = file /\ m.todo # {} /\ k \in Log
        /\ file' = [file EXCEPT !.slot[k] = "completed"]
        /\ cycle'[c].phase = "dequeue" /\ cycle'[c].now = m.now /\ cycle'[c].todo = m.todo
    BY <1>0, <1>00, <1>11 DEF Complete, CompleteOnRefresh, MarkCompleted, At, Save, Held
  <2>2. file'.slot[k] # "none" /\ Item(c)' = k
    BY <1>0, <2>1 DEF Memory, Item
  <2> QED BY <1>2, <1>3, <1>5, <2>1, <2>2
<1>12. CASE Quarantine(c)
  <2>1. /\ m.phase = "refresh" /\ m.store = file /\ k \in Log
        /\ file' = [file EXCEPT !.slot[k] = "quarantined"]
        /\ cycle'[c].phase = "idle" /\ cycle'[c].now = 0
    BY <1>0, <1>00, <1>12 DEF Quarantine, Quarantined, At, Save, Idle
  <2> QED BY <1>2, <1>3, <1>5, <2>1
<1>13. CASE FinishCycle(c)
  <2>1. /\ m.phase = "items" /\ m.store = file /\ file' = [file EXCEPT !.cursor = m.to]
        /\ cycle'[c].phase = "idle" /\ cycle'[c].now = 0
    BY <1>0, <1>13 DEF FinishCycle, At, Save, Idle
  <2>2. file'.pending = file.pending /\ file'.slot = file.slot
    BY <1>0, <2>1 DEF Memory
  <2>3. KeepsReveals
    BY <2>2 DEF KeepsReveals, Remembered
  <2> QED BY <1>2, <1>3, <2>1, <2>3
<1> QED BY <1>1, <1>2, <1>6, <1>7, <1>8, <1>9, <1>10, <1>11, <1>12, <1>13 DEF Execute

LEMMA QueueStep ==
  ASSUME Durable, ~LiveAbi, ~Flaky, MaxCrashes = 0, NEW c0, Cycles = {c0}, QueueInv, [Next]_vars
  PROVE  QueueInv'
<1>1. CandidateInv'
  BY CandidateStep DEF QueueInv
<1>2. CASE Transaction
  BY <1>1, <1>2, ChainKeepsQueue DEF QueueInv
<1>3. ASSUME NEW c \in Cycles, Start(c) \/ Refuse(c) \/ Scan(c) \/ Execute(c) \/ Failure(c)
      PROVE  QueueInv'
  <2>1. QueueScanned(c)' /\ crashes' = crashes
    BY <1>3, ScanKeepsQueue, ExecutionKeepsQueue
  <2> QED BY <1>1, <2>1 DEF QueueInv
<1>4. CASE UNCHANGED vars
  BY <1>1, <1>4 DEF QueueInv, QueueScanned, Newest, Remembered, Waiting, Unscanned, At, Item, vars, chainVars,
     histVars
<1> QED BY <1>2, <1>3, <1>4 DEF Next

\* A submission that waits for its reveal has a newest queue log.
LEMMA LastQueuedIsNewest ==
  ASSUME QueueInv, NEW s \in Subs, Waiting(s)
  PROVE  \E k \in queueLogs : k.sub = s /\ k.block = LastQueued(s) /\ Newest(k)
<1>1. PICK l \in queueLogs : l.sub = s
  BY DEF Waiting, QueueInv, CandidateInv, LogsOfChain
<1>2. queueLogs \subseteq Log /\ MaxBlock \in Nat
  BY RelayerConstants DEF QueueInv, CandidateInv, SlotInv, Types, ChainTypes
<1> DEFINE L == {k \in queueLogs : k.sub = s}
           T == {MaxBlock - k.block : k \in L}
<1>3. \A k \in Log : MaxBlock - k.block \in Nat /\ k.block \in Nat /\ k.block \in Blocks
                     /\ k = [sub |-> k.sub, block |-> k.block]
  BY <1>2 DEF Log, Blocks
<1>4. T \in SUBSET Nat /\ T # {}
  BY <1>1, <1>2, <1>3
<1>5. PICK n \in T : \A i \in T : n <= i
  BY <1>4, SmallestExists
<1>6. PICK k \in L : n = MaxBlock - k.block
  OBVIOUS
<1>7. ASSUME NEW j \in L PROVE j.block <= k.block
  <2>1. MaxBlock - k.block <= MaxBlock - j.block
    BY <1>5, <1>6
  <2>2. MaxBlock \in Nat /\ j.block \in Nat /\ k.block \in Nat
    BY <1>2, <1>3
  <2> QED BY <2>1, <2>2
<1>8. k \in queueLogs /\ k.sub = s /\ [sub |-> s, block |-> k.block] \in queueLogs /\ k.block \in Blocks
  BY <1>2, <1>3
<1> DEFINE Last(b) == /\ [sub |-> s, block |-> b] \in queueLogs
                      /\ \A j \in queueLogs : j.sub = s => j.block <= b
<1>9. Last(k.block)
  BY <1>7, <1>8
<1>10. LastQueued(s) \in Blocks /\ Last(LastQueued(s))
  <2>1. LastQueued(s) = CHOOSE b \in Blocks : Last(b)
    BY DEF LastQueued
  <2> HIDE DEF Last
  <2> QED BY <1>8, <1>9, <2>1
<1>11. [sub |-> s, block |-> LastQueued(s)] \in queueLogs /\ Newest([sub |-> s, block |-> LastQueued(s)])
  BY <1>10 DEF Newest
<1> QED BY <1>11

\* A queued reveal in a block that the cursor moved over is remembered until
\* it is claimed or cannot be executed any more (multi-deadline.ts,
\* run-once-core.ts), over a runtime that answers as MultiDeadlineRuntime
\* declares.  A crash or a failed read between the two scans breaks this: the
\* cursor has moved.  So does the ABI of live-runtime.ts, which finds nothing.
THEOREM NothingSkippedAlways ==
  ASSUME Durable, ~LiveAbi, ~Flaky, MaxCrashes = 0, NEW c0, Cycles = {c0}
  PROVE  Spec => []NothingSkipped
<1>1. Init => QueueInv
  BY QueueInit
<1>2. QueueInv /\ [Next]_vars => QueueInv'
  BY QueueStep
<1>3. QueueInv => NothingSkipped
  <2>1. SUFFICES ASSUME QueueInv, \A c \in Cycles : At(c, "idle"), NEW s \in Subs, Waiting(s),
                        LastQueued(s) \in passed
                 PROVE  Remembered(s)
    BY DEF NothingSkipped, Resting
  <2>2. PICK k \in queueLogs : k.sub = s /\ k.block = LastQueued(s) /\ Newest(k)
    BY <2>1, LastQueuedIsNewest
  <2>3. Remembered(s) \/ Unscanned(c0, k)
    BY <2>1, <2>2 DEF QueueInv, QueueScanned
  <2> QED BY <2>1, <2>3 DEF Unscanned, At
<1> QED BY <1>1, <1>2, <1>3, PTL DEF Spec
=============================================================================
