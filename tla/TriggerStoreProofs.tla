------------------------- MODULE TriggerStoreProofs -------------------------
(***************************************************************************)
(* For any number of events, workers and opinions: an event runs once and  *)
(* an accepted opinion is kept.                                            *)
(*                                                                         *)
(* Both rest on mutual exclusion, which no lock provides.  Whoever starts  *)
(* leaves a record in progress in the file; every load turns it at worst   *)
(* into a quarantined one, and either keeps all others from starting until *)
(* its worker has replaced it.  While a worker is live its key is hence    *)
(* the only unhealthy one, the file changes at no other key, and the stale *)
(* copies it writes back, of the file and of the pocstore, are not stale.  *)
(***************************************************************************)
EXTENDS TriggerStore, TLAPS

StoreType ==
  [exec : [Keys -> Statuses], jobs : SUBSET Jobs, scheduled : BOOLEAN,
   cursor : [Triggers -> Events \cup {"none"}]]
PocType == [opinions : SUBSET Opinions, round : BOOLEAN]
Phases  == {"idle", "run", "bootstrap", "finish", "open", "collect", "end"}
WorkerType ==
  [phase : Phases, key : Keys \cup {"none"}, task : Tasks \cup {"none"},
   copy : StoreType \cup {"none"}, votes : PocType \cup {"none"}]

Types ==
  /\ file \in StoreType /\ pocstore \in PocType
  /\ worker \in [Workers -> WorkerType]
  /\ runs \in [Events -> Nat] /\ accepted \subseteq Opinions

Unhealthy == {"processing", "quarantined"}

\* The claim of a live worker is the only unhealthy record of the file.
ClaimHeld(w) ==
  /\ worker[w].key \in Keys
  /\ file.exec[worker[w].key] \in Unhealthy
  /\ \A k \in Keys \ {worker[w].key} : file.exec[k] \notin Unhealthy

\* What a dispatch will write back agrees with the file, but for its own record.
CopyFresh(w) ==
  /\ worker[w].key = w /\ worker[w].copy \in StoreType
  /\ \A k \in Keys \ {w} : worker[w].copy.exec[k] = file.exec[k]

EventOwned(w) ==
  /\ worker[w].key \in Events /\ worker[w].task = "none"
  /\ worker[w].phase = "run" => runs[worker[w].key] = 0

\* What a round was opened from is still there, and a stored opinion is there to stay.
VotesFresh(w) ==
  /\ worker[w].phase \in {"open", "collect"} => worker[w].task \notin Opinions
  /\ worker[w].phase = "bootstrap" => w \in Listeners
  /\ worker[w].phase = "collect" => worker[w].votes = pocstore
  /\ (worker[w].phase = "finish" /\ worker[w].task \in Opinions)
       => worker[w].task \in pocstore.opinions

Sound(w) ==
  /\ ClaimHeld(w) /\ VotesFresh(w)
  /\ w \in Dispatchers => CopyFresh(w)
  /\ w \in Listeners => EventOwned(w)

Mutex == \A v, w \in Workers : Live(v) /\ Live(w) => v = w

RunsRecorded == \A e \in Events : runs[e] > 0 => file.exec[e] # "none"

IInv ==
  /\ Types /\ Mutex
  /\ \A w \in Workers : Live(w) => Sound(w)
  /\ RunsRecorded /\ EventRunsOnce /\ OpinionsKept

-----------------------------------------------------------------------------
\* What loading does to an execution: it stays none, stays healthy or stays unhealthy.
LEMMA RecoveredKeeps ==
  ASSUME NEW store \in StoreType
  PROVE  /\ Recovered(store) \in StoreType
         /\ \A k \in Keys :
              /\ store.exec[k] \notin Unhealthy => Recovered(store).exec[k] = store.exec[k]
              /\ store.exec[k] \in Unhealthy => Recovered(store).exec[k] \in Unhealthy
BY DEF Recovered, StoreType, Statuses, Unhealthy

\* Marking one execution leaves the others.
LEMMA MarkedOnly ==
  ASSUME NEW store \in StoreType, NEW k \in Keys, NEW st \in Statuses
  PROVE  /\ Marked(store, k, st) \in StoreType
         /\ Marked(store, k, st).exec = [store.exec EXCEPT ![k] = st]
BY DEF Marked, StoreType

\* A job or a schedule is no execution.
LEMMA JobsOnly ==
  ASSUME NEW store \in StoreType, NEW job \in Jobs, NEW jobs
  PROVE  /\ WithJob(store, job) \in StoreType /\ WithJob(store, job).exec = store.exec
         /\ WithSchedule(store) \in StoreType /\ WithSchedule(store).exec = store.exec
         /\ WithRevealJob(store) \in StoreType /\ WithRevealJob(store).exec = store.exec
         /\ WithoutJobs(store, jobs) \in StoreType /\ WithoutJobs(store, jobs).exec = store.exec
BY DEF WithJob, WithSchedule, WithRevealJob, WithoutJobs, StoreType, Jobs

-----------------------------------------------------------------------------
\* While nobody is started, the file may only be loaded and its jobs edited.
SameExecutions ==
  \A k \in Keys : /\ file.exec[k] \notin Unhealthy => file'.exec[k] = file.exec[k]
                  /\ file.exec[k] \in Unhealthy => file'.exec[k] \in Unhealthy

\* The file is loaded or its jobs are edited; workers and the pocstore stay.
LEMMA LoadKeeps ==
  ASSUME IInv, file' \in StoreType, SameExecutions, UNCHANGED <<pocstore, runs, accepted>>,
         worker' \in [Workers -> WorkerType],
         \A w \in Workers : worker'[w] = worker[w] \/ ~Live(w)'
  PROVE  IInv'
<1>1. \A w \in Workers : Live(w)' => worker'[w] = worker[w] /\ Live(w)
  BY DEF Live
<1>2. Types' /\ Mutex'
  BY <1>1 DEF IInv, Types, Mutex
<1>3. ASSUME NEW w \in Workers, Live(w)'  PROVE Sound(w)'
  <2>1. Sound(w) /\ worker'[w] = worker[w]
    BY <1>1, <1>3 DEF IInv
  <2>2. ClaimHeld(w)'
    BY <2>1 DEF Sound, ClaimHeld, SameExecutions
  <2>3. VotesFresh(w)'
    BY <2>1 DEF Sound, VotesFresh
  <2>4. w \in Dispatchers => CopyFresh(w)'
    BY <2>1 DEF Sound, CopyFresh, ClaimHeld, SameExecutions
  <2>5. w \in Listeners => EventOwned(w)'
    BY <2>1 DEF Sound, EventOwned
  <2>6. QED
    BY <2>2, <2>3, <2>4, <2>5 DEF Sound
<1>4. RunsRecorded' /\ EventRunsOnce' /\ OpinionsKept'
  BY DEF IInv, RunsRecorded, EventRunsOnce, OpinionsKept, SameExecutions, Keys, Unhealthy
<1>5. QED
  BY <1>2, <1>3, <1>4 DEF IInv

\* Only this worker moves.
Alone(w) ==
  /\ worker' \in [Workers -> WorkerType]
  /\ \A v \in Workers \ {w} : worker'[v] = worker[v]

\* A worker takes a record nobody has: no other worker is live.
LEMMA StartKeeps ==
  ASSUME IInv, NEW w \in Workers, Healthy(file), NEW k \in Keys,
         worker[w].phase = "idle",
         file' = Marked(file, k, "processing"),
         UNCHANGED <<pocstore, runs, accepted>>,
         Alone(w),
         worker'[w].key = k, worker'[w].phase \in {"run", "open"},
         worker'[w].phase = "open" => worker'[w].task \notin Opinions,
         w \in Dispatchers => k = w /\ worker'[w].copy = file',
         w \in Listeners => k \in Events /\ worker'[w].task = "none" /\ file.exec[k] = "none"
  PROVE  IInv'
<1>1. \A v \in Workers : ~Live(v)
  BY DEF IInv, Sound, ClaimHeld, Healthy, Unhealthy
<1>2. worker' \in [Workers -> WorkerType] /\ \A v \in Workers \ {w} : worker'[v] = worker[v]
  BY DEF Alone
<1>3. \A v \in Workers : Live(v)' => v = w
  BY <1>1, <1>2 DEF Live
<1>4. /\ file' \in StoreType /\ file'.exec[k] = "processing"
      /\ \A j \in Keys \ {k} : file'.exec[j] = file.exec[j] /\ file.exec[j] \notin Unhealthy
  <2>1. file' \in StoreType /\ file'.exec = [file.exec EXCEPT ![k] = "processing"]
    BY MarkedOnly DEF IInv, Types, Statuses
  <2>2. file.exec \in [Keys -> Statuses]
    BY DEF IInv, Types, StoreType
  <2>3. QED
    BY <2>1, <2>2 DEF Healthy, Unhealthy
<1>5. Types' /\ Mutex'
  BY <1>2, <1>3, <1>4 DEF IInv, Types, Mutex
<1>6. Sound(w)'
  <2>1. ClaimHeld(w)'
    BY <1>2, <1>4 DEF ClaimHeld, Unhealthy
  <2>2. VotesFresh(w)'
    BY <1>2 DEF VotesFresh
  <2>3. w \in Dispatchers => CopyFresh(w)'
    BY <1>2, <1>4 DEF CopyFresh
  <2>4. w \in Listeners => EventOwned(w)'
    <3>1. \A e \in Events : file.exec[e] = "none" => runs[e] = 0
      BY DEF IInv, RunsRecorded, Types
    <3>2. QED
      BY <1>2, <3>1 DEF EventOwned
  <2>5. QED
    BY <2>1, <2>2, <2>3, <2>4 DEF Sound
<1>7. RunsRecorded' /\ EventRunsOnce' /\ OpinionsKept'
  BY <1>4 DEF IInv, RunsRecorded, EventRunsOnce, OpinionsKept, Keys
<1>8. QED
  BY <1>3, <1>5, <1>6, <1>7 DEF IInv

\* A live worker goes on: the file keeps its executions, nobody else moves.
LEMMA MoveKeeps ==
  ASSUME IInv, NEW w \in Workers, Live(w), file' \in StoreType, SameExecutions,
         Alone(w),
         worker'[w].key = worker[w].key, worker'[w].task = worker[w].task, worker'[w].copy = worker[w].copy,
         worker'[w].phase # "run" /\ worker'[w].phase \notin {"idle", "end"},
         VotesFresh(w)', pocstore' \in PocType, pocstore.opinions \subseteq pocstore'.opinions,
         runs' \in [Events -> Nat], RunsRecorded', EventRunsOnce', UNCHANGED accepted
  PROVE  IInv'
<1>1. \A v \in Workers \ {w} : worker'[v] = worker[v]
  BY DEF Alone
<1>2. \A v \in Workers : Live(v)' => v = w
  BY <1>1 DEF IInv, Mutex, Live
<1>3. Sound(w)
  BY DEF IInv
<1>4. Types' /\ Mutex'
  BY <1>2 DEF IInv, Types, Mutex, Alone
<1>5. Sound(w)'
  <2>1. ClaimHeld(w)'
    BY <1>1, <1>3 DEF Sound, ClaimHeld, SameExecutions
  <2>2. w \in Dispatchers => CopyFresh(w)'
    BY <1>1, <1>3 DEF Sound, CopyFresh, ClaimHeld, SameExecutions
  <2>3. w \in Listeners => EventOwned(w)'
    BY <1>1, <1>3 DEF Sound, EventOwned
  <2>4. QED
    BY <2>1, <2>2, <2>3 DEF Sound
<1>6. OpinionsKept'
  BY DEF IInv, OpinionsKept
<1>7. QED
  BY <1>2, <1>4, <1>5, <1>6 DEF IInv

\* A live worker ends and leaves its record settled or quarantined; then nobody is live.
LEMMA EndKeeps ==
  ASSUME IInv, NEW w \in Workers, Live(w), file' \in StoreType,
         file'.exec[worker[w].key] # "none",
         \A k \in Keys \ {worker[w].key} : file'.exec[k] = file.exec[k],
         Alone(w),
         worker'[w].phase \in {"idle", "end"},
         UNCHANGED <<pocstore, runs>>, accepted' \subseteq Opinions, OpinionsKept'
  PROVE  IInv'
<1>1. \A v \in Workers \ {w} : worker'[v] = worker[v]
  BY DEF Alone
<1>2. \A v \in Workers : ~Live(v)'
  BY <1>1 DEF IInv, Mutex, Live
<1>3. Types' /\ Mutex'
  BY <1>2 DEF IInv, Types, Mutex, Alone
<1>4. RunsRecorded' /\ EventRunsOnce'
  BY DEF IInv, RunsRecorded, EventRunsOnce, Keys
<1>5. QED
  BY <1>2, <1>3, <1>4 DEF IInv

-----------------------------------------------------------------------------
\* A load, and an edit of the jobs after it, keep the executions.
LEMMA LoadedFile ==
  ASSUME IInv, NEW jobs
  PROVE  /\ Recovered(file) \in StoreType /\ WithSchedule(Recovered(file)) \in StoreType
         /\ WithRevealJob(Recovered(file)) \in StoreType
         /\ WithoutJobs(Recovered(file), jobs) \in StoreType
         /\ (file' \in {file, Recovered(file), WithSchedule(Recovered(file)),
                        WithRevealJob(Recovered(file)), WithoutJobs(Recovered(file), jobs)})
              => SameExecutions
<1>1. file \in StoreType
  BY DEF IInv, Types
<1>2. /\ Recovered(file) \in StoreType
      /\ \A k \in Keys :
           /\ file.exec[k] \notin Unhealthy => Recovered(file).exec[k] = file.exec[k]
           /\ file.exec[k] \in Unhealthy => Recovered(file).exec[k] \in Unhealthy
  BY <1>1, RecoveredKeeps
<1>3. "reveal-deadline" \in Jobs
  BY DEF Jobs
<1>4. QED
  BY <1>2, <1>3, JobsOnly DEF SameExecutions

LEMMA StartEventKeeps ==
  ASSUME IInv, NEW l \in Listeners, NEW e \in Events, StartEvent(l, e)
  PROVE  IInv'
<1> DEFINE mine == [Idle EXCEPT !.phase = "run", !.key = e]
<1>1. l \in Workers /\ l \notin Dispatchers /\ e \in Keys /\ e \notin Dispatchers
  BY TriggerAssumption DEF Workers, Keys
<1>2. mine \in WorkerType /\ mine.key = e /\ mine.phase = "run" /\ mine.task = "none"
  BY <1>1 DEF Idle, WorkerType, Phases
<1>3. Alone(l) /\ worker'[l] = mine
  BY <1>1, <1>2 DEF StartEvent, Alone, IInv, Types
<1> HIDE DEF mine
<1>4. QED
  BY <1>1, <1>2, <1>3, StartKeeps DEF StartEvent, Claimable

LEMMA StartDispatchKeeps ==
  ASSUME IInv, NEW w \in Dispatchers, NEW task \in Tasks, StartDispatch(w, task)
  PROVE  IInv'
<1> DEFINE phase == IF task = "commit-deadline" THEN "open" ELSE "run"
           mine  == [Idle EXCEPT !.phase = phase, !.key = w, !.task = task, !.copy = file']
<1>1. w \in Workers /\ w \notin Listeners /\ w \in Keys
  BY TriggerAssumption DEF Workers, Keys
<1>2. file' \in StoreType
  BY <1>1, MarkedOnly DEF StartDispatch, IInv, Types, Statuses
<1>3. /\ mine \in WorkerType /\ mine.key = w /\ mine.phase \in {"run", "open"}
      /\ mine.task = task /\ mine.copy = file'
  BY <1>1, <1>2 DEF Idle, WorkerType, Phases
<1>4. mine.phase = "open" => mine.task \notin Opinions
  BY TriggerAssumption DEF Idle
<1>5. worker' = [worker EXCEPT ![w] = mine]
  BY DEF StartDispatch
<1> HIDE DEF mine
<1>6. Alone(w) /\ worker'[w] = mine
  BY <1>1, <1>3, <1>5 DEF Alone, IInv, Types
<1>7. QED
  BY <1>1, <1>3, <1>4, <1>6, StartKeeps DEF StartDispatch

\* Whoever moves without starting is live; of its record it changes at most two fields.
LEMMA RunEventKeeps ==
  ASSUME IInv, NEW w \in Workers, RunEvent(w)
  PROVE  IInv'
<1> DEFINE e == worker[w].key
<1>1. w \in Listeners /\ w \notin Dispatchers /\ worker[w].phase = "run" /\ Live(w)
  BY TriggerAssumption DEF RunEvent, Live
<1>2. Sound(w) /\ e \in Events /\ worker[w].task = "none" /\ runs[e] = 0
  BY <1>1 DEF IInv, Sound, EventOwned
<1>3. file.exec[e] # "none"
  BY <1>2 DEF Sound, ClaimHeld, Unhealthy
<1>4. AfterRun(e) \in {"open", "bootstrap", "finish"}
  BY DEF AfterRun
<1>5. worker' = [worker EXCEPT ![w].phase = AfterRun(e)]
  BY DEF RunEvent
<1>6. /\ Alone(w) /\ worker'[w].phase = AfterRun(e) /\ worker'[w].key = worker[w].key
      /\ worker'[w].task = worker[w].task /\ worker'[w].copy = worker[w].copy
  BY <1>4, <1>5 DEF Alone, IInv, Types, WorkerType, Phases
<1>7. runs' = [runs EXCEPT ![e] = 1] /\ runs \in [Events -> Nat]
  BY <1>2 DEF RunEvent, IInv, Types
<1>8. runs' \in [Events -> Nat] /\ RunsRecorded' /\ EventRunsOnce'
  BY <1>2, <1>3, <1>7 DEF RunEvent, IInv, RunsRecorded, EventRunsOnce
<1>9. VotesFresh(w)'
  BY <1>1, <1>2, <1>4, <1>6, TriggerAssumption DEF VotesFresh
<1>10. file' \in StoreType /\ SameExecutions /\ pocstore' = pocstore /\ accepted' = accepted
       /\ pocstore' \in PocType
  BY DEF RunEvent, IInv, Types, SameExecutions
<1>11. QED
  BY <1>1, <1>4, <1>6, <1>8, <1>9, <1>10, MoveKeeps

\* What moves besides a run of an event
LEMMA QuietMoveKeeps ==
  ASSUME IInv, NEW w \in Workers, Live(w), file' \in StoreType, SameExecutions,
         Alone(w), UNCHANGED <<runs, accepted>>,
         worker'[w].key = worker[w].key, worker'[w].task = worker[w].task,
         worker'[w].copy = worker[w].copy, worker'[w].phase \in {"finish", "collect"},
         VotesFresh(w)', pocstore' \in PocType, pocstore.opinions \subseteq pocstore'.opinions
  PROVE  IInv'
<1>1. runs' \in [Events -> Nat] /\ RunsRecorded' /\ EventRunsOnce'
  BY DEF IInv, Types, RunsRecorded, EventRunsOnce, SameExecutions, Keys, Unhealthy
<1>2. QED
  BY <1>1, MoveKeeps

LEMMA BootstrapKeeps ==
  ASSUME IInv, NEW w \in Workers, Bootstrap(w)
  PROVE  IInv'
<1>1. worker[w].phase = "bootstrap" /\ Live(w) /\ w \in Listeners
  BY DEF Bootstrap, Live, IInv, Sound, VotesFresh
<1>2. Sound(w) /\ worker[w].task = "none"
  BY <1>1 DEF IInv, Sound, EventOwned
<1>3. worker' = [worker EXCEPT ![w].phase = "finish"]
  BY DEF Bootstrap
<1>4. /\ Alone(w) /\ worker'[w].phase = "finish" /\ worker'[w].key = worker[w].key
      /\ worker'[w].task = worker[w].task /\ worker'[w].copy = worker[w].copy
  BY <1>3 DEF Alone, IInv, Types, WorkerType, Phases
<1>5. file' \in StoreType /\ SameExecutions
  BY LoadedFile DEF Bootstrap
<1>6. VotesFresh(w)'
  BY <1>2, <1>4, TriggerAssumption DEF VotesFresh
<1>7. QED
  BY <1>1, <1>4, <1>5, <1>6, QuietMoveKeeps DEF Bootstrap, IInv, Types

LEMMA RelayKeeps ==
  ASSUME IInv, NEW w \in Workers, Relay(w)
  PROVE  IInv'
<1>1. Live(w) /\ worker[w].task \in {"relay", "relay-job"}
  BY DEF Relay, RunsBy, AdapterOf, Live
<1>2. worker' = [worker EXCEPT ![w].phase = "finish"]
  BY DEF Relay
<1>3. /\ Alone(w) /\ worker'[w].phase = "finish" /\ worker'[w].key = worker[w].key
      /\ worker'[w].task = worker[w].task /\ worker'[w].copy = worker[w].copy
  BY <1>2 DEF Alone, IInv, Types, WorkerType, Phases
<1>4. VotesFresh(w)'
  BY <1>1, <1>3, TriggerAssumption DEF VotesFresh
<1>5. QED
  BY <1>1, <1>3, <1>4, QuietMoveKeeps DEF Relay, IInv, Types, SameExecutions

LEMMA StoreOpinionKeeps ==
  ASSUME IInv, NEW w \in Workers, StoreOpinion(w)
  PROVE  IInv'
<1>1. Live(w) /\ worker[w].task \in Opinions
  BY DEF StoreOpinion, RunsBy, Live
<1>2. worker' = [worker EXCEPT ![w].phase = "finish"]
  BY DEF StoreOpinion
<1>3. /\ Alone(w) /\ worker'[w].phase = "finish" /\ worker'[w].key = worker[w].key
      /\ worker'[w].task = worker[w].task /\ worker'[w].copy = worker[w].copy
  BY <1>2 DEF Alone, IInv, Types, WorkerType, Phases
<1>4. /\ pocstore' \in PocType /\ pocstore'.opinions = pocstore.opinions \cup {worker[w].task}
  BY <1>1 DEF StoreOpinion, IInv, Types, PocType
<1>5. VotesFresh(w)'
  BY <1>3, <1>4 DEF VotesFresh
<1>6. QED
  BY <1>1, <1>3, <1>4, <1>5, QuietMoveKeeps DEF StoreOpinion, IInv, Types, SameExecutions

LEMMA OpenRoundKeeps ==
  ASSUME IInv, NEW w \in Workers, OpenRound(w)
  PROVE  IInv'
<1>1. Live(w) /\ worker[w].task \notin Opinions
  BY DEF OpenRound, Live, IInv, Sound, VotesFresh
<1>2. worker' = [worker EXCEPT ![w].phase = "collect", ![w].votes = pocstore]
  BY DEF OpenRound
<1>3. /\ Alone(w) /\ worker'[w].phase = "collect" /\ worker'[w].key = worker[w].key
      /\ worker'[w].task = worker[w].task /\ worker'[w].copy = worker[w].copy
      /\ worker'[w].votes = pocstore
  BY <1>2 DEF Alone, IInv, Types, WorkerType, Phases
<1>4. VotesFresh(w)'
  BY <1>1, <1>3 DEF VotesFresh, OpenRound
<1>5. QED
  BY <1>1, <1>3, <1>4, QuietMoveKeeps DEF OpenRound, IInv, Types, SameExecutions

LEMMA StoreRoundKeeps ==
  ASSUME IInv, NEW w \in Workers, StoreRound(w)
  PROVE  IInv'
<1>1. Live(w) /\ worker[w].task \notin Opinions /\ worker[w].votes = pocstore
  BY DEF StoreRound, Live, IInv, Sound, VotesFresh
<1>2. worker' = [worker EXCEPT ![w].phase = "finish", ![w].votes = "none"]
  BY DEF StoreRound
<1>3. /\ Alone(w) /\ worker'[w].phase = "finish" /\ worker'[w].key = worker[w].key
      /\ worker'[w].task = worker[w].task /\ worker'[w].copy = worker[w].copy
  BY <1>2 DEF Alone, IInv, Types, WorkerType, Phases
<1>4. pocstore' \in PocType /\ pocstore'.opinions = pocstore.opinions
  BY <1>1 DEF StoreRound, IInv, Types, PocType
<1>5. file' \in StoreType /\ SameExecutions
  BY LoadedFile DEF StoreRound
<1>6. VotesFresh(w)'
  BY <1>1, <1>3 DEF VotesFresh
<1>7. QED
  BY <1>1, <1>3, <1>4, <1>5, <1>6, QuietMoveKeeps DEF StoreRound

LEMMA RevealDeadlineKeeps ==
  ASSUME IInv, NEW w \in Workers, RevealDeadline(w)
  PROVE  IInv'
<1>1. Live(w) /\ worker[w].task = "reveal-deadline"
  BY DEF RevealDeadline, RunsBy, Live
<1>2. worker' = [worker EXCEPT ![w].phase = "finish"]
  BY DEF RevealDeadline
<1>3. /\ Alone(w) /\ worker'[w].phase = "finish" /\ worker'[w].key = worker[w].key
      /\ worker'[w].task = worker[w].task /\ worker'[w].copy = worker[w].copy
  BY <1>2 DEF Alone, IInv, Types, WorkerType, Phases
<1>4. VotesFresh(w)'
  BY <1>1, <1>3, TriggerAssumption DEF VotesFresh
<1>5. QED
  BY <1>1, <1>3, <1>4, QuietMoveKeeps DEF RevealDeadline, IInv, Types, SameExecutions

-----------------------------------------------------------------------------
\* A handler that ends has loaded the file first: only its own record was unhealthy.
LEMMA LoadedOthers ==
  ASSUME IInv, NEW w \in Workers, Live(w), NEW st \in {"completed", "quarantined"}
  PROVE  LET file2 == Marked(Recovered(file), worker[w].key, st)
         IN  /\ file2 \in StoreType /\ file2.exec[worker[w].key] = st
             /\ \A k \in Keys \ {worker[w].key} : file2.exec[k] = file.exec[k]
<1>1. ClaimHeld(w) /\ file \in StoreType
  BY DEF IInv, Types, Sound
<1>2. /\ Recovered(file) \in StoreType /\ Recovered(file).exec \in [Keys -> Statuses]
      /\ \A k \in Keys : file.exec[k] \notin Unhealthy => Recovered(file).exec[k] = file.exec[k]
  BY <1>1, RecoveredKeeps DEF StoreType
<1>3. st \in Statuses /\ worker[w].key \in Keys
  BY <1>1 DEF ClaimHeld, Statuses
<1>4. /\ Marked(Recovered(file), worker[w].key, st) \in StoreType
      /\ Marked(Recovered(file), worker[w].key, st).exec =
           [Recovered(file).exec EXCEPT ![worker[w].key] = st]
  BY <1>2, <1>3, MarkedOnly
<1>5. QED
  BY <1>1, <1>2, <1>3, <1>4 DEF ClaimHeld

\* A dispatch writes back its copy, which differs from the file in its own record only.
LEMMA CopiedOthers ==
  ASSUME IInv, NEW w \in Dispatchers, Live(w), NEW st \in {"completed", "quarantined"}
  PROVE  LET file2 == Marked(worker[w].copy, w, st)
         IN  /\ worker[w].key = w
             /\ file2 \in StoreType /\ file2.exec[w] = st
             /\ \A k \in Keys \ {w} : file2.exec[k] = file.exec[k]
<1>1. w \in Workers /\ w \in Keys
  BY DEF Workers, Keys
<1>2. CopyFresh(w)
  BY <1>1 DEF IInv, Sound
<1>3. worker[w].copy \in StoreType /\ st \in Statuses
  BY <1>2 DEF CopyFresh, Statuses
<1>4. /\ Marked(worker[w].copy, w, st) \in StoreType
      /\ Marked(worker[w].copy, w, st).exec = [worker[w].copy.exec EXCEPT ![w] = st]
  BY <1>1, <1>3, MarkedOnly
<1>5. worker[w].copy.exec \in [Keys -> Statuses]
  BY <1>3 DEF StoreType
<1>6. QED
  BY <1>1, <1>2, <1>4, <1>5 DEF CopyFresh

LEMMA IdleWorker == Idle \in WorkerType /\ Idle.phase = "idle"
BY DEF Idle, WorkerType, Phases

LEMMA EndEventKeeps ==
  ASSUME IInv, NEW w \in Workers, FinishEvent(w) \/ FailEvent(w)
  PROVE  IInv'
<1>1. w \in Listeners /\ Live(w) /\ UNCHANGED <<pocstore, runs, accepted>>
  BY DEF FinishEvent, FailEvent, Live
<1>2. worker' = [worker EXCEPT ![w] = Idle]
  BY DEF FinishEvent, FailEvent
<1>3. Alone(w) /\ worker'[w].phase = "idle"
  BY <1>2, IdleWorker DEF Alone, IInv, Types
<1>4. OpinionsKept' /\ accepted' \subseteq Opinions
  BY <1>1 DEF IInv, Types, OpinionsKept
<1> DEFINE Left(f) == /\ f \in StoreType /\ f.exec[worker[w].key] # "none"
                      /\ \A k \in Keys \ {worker[w].key} : f.exec[k] = file.exec[k]
<1>5. Left(file')
  <2>1. CASE FailEvent(w)
    BY <1>1, <2>1, LoadedOthers DEF FailEvent
  <2>2. CASE FinishEvent(w)
    <3> DEFINE e == worker[w].key
               marked == Marked(Recovered(file), e, "completed")
    <3>1. e \in Events
      BY <1>1 DEF IInv, Sound, EventOwned
    <3>2. Left(marked)
      BY <1>1, LoadedOthers
    <3>3. file' = [marked EXCEPT !.cursor[TriggerOf(e)] = e]
      BY <2>2 DEF FinishEvent
    <3> HIDE DEF marked
    <3>4. file' \in StoreType /\ file'.exec = marked.exec
      BY <3>1, <3>2, <3>3 DEF StoreType, TriggerOf, Triggers
    <3>5. QED
      BY <3>2, <3>4
  <2>3. QED
    BY <2>1, <2>2
<1>6. QED
  BY <1>1, <1>3, <1>4, <1>5, EndKeeps

LEMMA EndDispatchKeeps ==
  ASSUME IInv, NEW w \in Workers, FinishDispatch(w) \/ FailDispatch(w)
  PROVE  IInv'
<1>1. w \in Dispatchers /\ Live(w) /\ UNCHANGED <<pocstore, runs>>
  BY DEF FinishDispatch, FailDispatch, Live
<1>2. Alone(w) /\ worker'[w].phase \in {"idle", "end"}
  <2> DEFINE task == worker[w].task
             left == IF w = "cron" THEN [Idle EXCEPT !.phase = "end", !.task = task] ELSE Idle
  <2>1. task \in Tasks \cup {"none"}
    BY DEF IInv, Types, WorkerType
  <2>2. left \in WorkerType /\ left.phase \in {"idle", "end"}
    BY <2>1 DEF Idle, WorkerType, Phases
  <2>3. worker' = [worker EXCEPT ![w] = left] \/ worker' = [worker EXCEPT ![w] = Idle]
    BY DEF FinishDispatch, FailDispatch
  <2> HIDE DEF left
  <2>4. QED
    BY <2>2, <2>3, IdleWorker DEF Alone, IInv, Types
<1>3. OpinionsKept' /\ accepted' \subseteq Opinions
  <2>1. accepted \subseteq Opinions /\ accepted \subseteq pocstore.opinions
    BY DEF IInv, Types, OpinionsKept
  <2>2. CASE FinishDispatch(w)
    <3>1. worker[w].task \in Opinions => worker[w].task \in pocstore.opinions
      BY <1>1, <2>2 DEF FinishDispatch, IInv, Sound, VotesFresh
    <3>2. QED
      BY <2>1, <2>2, <3>1 DEF FinishDispatch, OpinionsKept
  <2>3. CASE FailDispatch(w)
    BY <2>1, <2>3 DEF FailDispatch, OpinionsKept
  <2>4. QED
    BY <2>2, <2>3
<1>4. /\ file' \in StoreType /\ file'.exec[worker[w].key] # "none"
      /\ \A k \in Keys \ {worker[w].key} : file'.exec[k] = file.exec[k]
  BY <1>1, CopiedOthers DEF FinishDispatch, FailDispatch
<1>5. QED
  BY <1>1, <1>2, <1>3, <1>4, EndKeeps

-----------------------------------------------------------------------------
LEMMA EndCronRunKeeps ==
  ASSUME IInv, EndCronRun
  PROVE  IInv'
<1>1. "cron" \in Workers
  BY DEF Workers, Dispatchers
<1>2. worker' \in [Workers -> WorkerType] /\ \A w \in Workers : worker'[w] = worker[w] \/ ~Live(w)'
  BY <1>1, IdleWorker DEF EndCronRun, IInv, Types, Live
<1>3. file' \in StoreType /\ SameExecutions
  BY LoadedFile DEF EndCronRun
<1>4. QED
  BY <1>2, <1>3, LoadKeeps DEF EndCronRun

LEMMA CrashKeeps ==
  ASSUME IInv, NEW process, Crash(process)
  PROVE  IInv'
<1>1. worker' \in [Workers -> WorkerType] /\ \A w \in Workers : worker'[w] = worker[w] \/ ~Live(w)'
  BY IdleWorker DEF Crash, IInv, Types, Live
<1>2. file' \in StoreType /\ SameExecutions
  BY DEF Crash, IInv, Types, SameExecutions
<1>3. QED
  BY <1>1, <1>2, LoadKeeps DEF Crash

LEMMA LoadOnlyKeeps ==
  ASSUME IInv, LoadOnly
  PROVE  IInv'
<1>1. file' \in StoreType /\ SameExecutions
  BY LoadedFile DEF LoadOnly
<1>2. QED
  BY <1>1, LoadKeeps DEF LoadOnly, IInv, Types

LEMMA StutterKeeps ==
  ASSUME IInv, UNCHANGED vars
  PROVE  IInv'
BY LoadKeeps DEF vars, IInv, Types, SameExecutions

-----------------------------------------------------------------------------
LEMMA InitHolds == Init => IInv
<1> SUFFICES ASSUME Init  PROVE IInv
  OBVIOUS
<1>1. file \in StoreType /\ \A k \in Keys : file.exec[k] = "none"
  BY DEF Init, StoreType, Statuses
<1>2. Types
  BY <1>1, IdleWorker DEF Init, Types, PocType
<1>3. \A w \in Workers : ~Live(w)
  BY IdleWorker DEF Init, Live
<1>4. QED
  BY <1>2, <1>3 DEF Init, IInv, Mutex, RunsRecorded, EventRunsOnce, OpinionsKept

LEMMA NextKeeps == IInv /\ [Next]_vars => IInv'
<1> SUFFICES ASSUME IInv, [Next]_vars  PROVE IInv'
  OBVIOUS
<1>1. CASE LoadOnly
  BY <1>1, LoadOnlyKeeps
<1>2. ASSUME NEW l \in Listeners, FailEvent(l)  PROVE IInv'
  BY <1>2, EndEventKeeps DEF Workers
<1>3. ASSUME NEW l \in Listeners, NEW e \in Events, StartEvent(l, e)  PROVE IInv'
  BY <1>3, StartEventKeeps
<1>4. ASSUME NEW w \in Dispatchers, NEW t \in Tasks, StartDispatch(w, t)  PROVE IInv'
  BY <1>4, StartDispatchKeeps
<1>5. ASSUME NEW job \in Jobs, RunJob(job)  PROVE IInv'
  BY <1>4, <1>5 DEF RunJob, Dispatchers, Tasks, HttpTasks, Jobs
<1>6. CASE RunInterval
  BY <1>4, <1>6 DEF RunInterval, Dispatchers, Tasks, HttpTasks
<1>7. ASSUME NEW w \in Workers, Progress(w)  PROVE IInv'
  BY <1>7, RunEventKeeps, BootstrapKeeps, EndEventKeeps, RelayKeeps, StoreOpinionKeeps,
     EndDispatchKeeps, OpenRoundKeeps, StoreRoundKeeps, RevealDeadlineKeeps, EndCronRunKeeps
     DEF Progress
<1>8. ASSUME NEW w \in Workers, FailDispatch(w)  PROVE IInv'
  BY <1>8, EndDispatchKeeps
<1>9. ASSUME NEW p \in {Listeners, Clients, {"cron"}}, Crash(p)  PROVE IInv'
  BY <1>9, CrashKeeps
<1>10. CASE UNCHANGED vars
  BY <1>10, StutterKeeps
<1>11. QED
  BY <1>1, <1>2, <1>3, <1>4, <1>5, <1>6, <1>7, <1>8, <1>9, <1>10 DEF Next, Dispatchers, Tasks

\* The invariant that holds the simulator's processes apart: one live worker at a time,
\* with the only unhealthy record and copies that still agree with the files.
THEOREM Exclusion == Spec => []IInv
<1>1. QED
  BY InitHolds, NextKeeps, PTL DEF Spec

\* However many events, deliveries, workers and crashes: no event's adapter runs twice.
THEOREM EventRunsOnceAlways == Spec => []EventRunsOnce
<1>1. IInv => EventRunsOnce
  BY DEF IInv
<1>2. QED
  BY <1>1, Exclusion, PTL

\* However many opinions come in while rounds are opened: none that was accepted is lost.
THEOREM OpinionsKeptAlways == Spec => []OpinionsKept
<1>1. IInv => OpinionsKept
  BY DEF IInv
<1>2. QED
  BY <1>1, Exclusion, PTL
=============================================================================
