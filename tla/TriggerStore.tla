---------------------------- MODULE TriggerStore ----------------------------
(***************************************************************************)
(* backend/cre-simulator: three processes (HTTP server, cron worker,       *)
(* EVM-log worker) that run adapters and keep what they did in one file.   *)
(*                                                                         *)
(* A process that wants to run something loads the file, refuses to go on  *)
(* unless every execution in it is completed, and writes its claim back,   *)
(* all without yielding; then it waits for its adapter.  Loading turns the *)
(* executions that are in progress, whoever runs them, into quarantined    *)
(* ones.  An event handler loads the file again before each later write; a *)
(* dispatch writes the copy it loaded when it started.                     *)
(*                                                                         *)
(* One project with one submission: its commit-deadline job runs the       *)
(* reveal relay, its reveal-deadline job the final phase of the demo jury, *)
(* whose votes are in a second file, the pocstore.  When a job falls due   *)
(* is left open.                                                           *)
(***************************************************************************)
EXTENDS Integers, FiniteSets

CONSTANTS
  Registered,        \* project-registered events
  Failed, Passed,    \* poc-revealed events: with strict-fail evidence, and without
  Listeners,         \* event handlers of the EVM-log worker that run at the same time
  Clients,           \* requests the HTTP server answers at the same time
  Opinions, Needed,  \* human opinions that may come in, and those a round takes (5)
  MaxCrashes

Events      == Registered \cup Failed \cup Passed
Dispatchers == Clients \cup {"cron"}
Workers     == Listeners \cup Dispatchers
Keys        == Events \cup Dispatchers   \* a dispatch's key is new each time: its dispatcher's name
Jobs        == {"commit-deadline", "reveal-deadline"}
Triggers    == {"project-registered", "poc-revealed"}
Statuses    == {"none", "processing", "completed", "quarantined"}

\* What the HTTP server may be asked to dispatch
HttpTasks == Opinions \cup {"relay", "commit-deadline", "reveal-deadline"}
\* The cron worker also runs the relay for the commit-deadline job.
Tasks     == HttpTasks \cup {"relay-job"}

ASSUME TriggerAssumption ==
  /\ Needed \in Nat /\ Workers \cap Events = {} /\ Listeners \cap Dispatchers = {}
  /\ Opinions \cap {"none", "relay", "relay-job", "commit-deadline", "reveal-deadline"} = {}

VARIABLES
  file,      \* the trigger state file
  pocstore,  \* the pocstore file
  worker,    \* what each worker is doing
  runs,      \* how often the adapter ran for an event
  ran,       \* jobs that were run to the end
  kept,      \* jobs an event handler put down
  accepted,  \* opinions whose request was answered
  crashes

vars == <<file, pocstore, worker, runs, ran, kept, accepted, crashes>>

Idle == [phase |-> "idle", key |-> "none", task |-> "none", copy |-> "none", votes |-> "none"]
TriggerOf(e) == IF e \in Registered THEN "project-registered" ELSE "poc-revealed"
Live(w) == worker[w].phase \notin {"idle", "end"}

-----------------------------------------------------------------------------
(* triggers/stateStore.ts *)

\* Variant: what was in progress is free again.
Forgotten(store) ==
  [store EXCEPT !.exec = [k \in Keys |-> IF @[k] = "processing" THEN "none" ELSE @[k]]]

\* loadCreSimulatorTriggerStateStore: what is in progress is taken for abandoned.
Recovered(store) ==
  [store EXCEPT !.exec = [k \in Keys |-> IF @[k] = "processing" THEN "quarantined" ELSE @[k]]]

\* Variant: only an abandoned execution counts.
NoneQuarantined(store) == \A k \in Keys : store.exec[k] # "quarantined"

\* assertCreSimulatorTriggerStateStoreHealthy, of the store a load returns
Healthy(store) == \A k \in Keys : store.exec[k] \notin {"processing", "quarantined"}

Marked(store, k, st) == [store EXCEPT !.exec[k] = st]

\* claimCreSimulatorTriggerExecution, for a key
Claimable(store, k) == store.exec[k] = "none" \/ k \in Dispatchers

\* Variant: the schedule is recorded, its job is not.
ScheduleOnly(store) == [store EXCEPT !.scheduled = TRUE]

WithJob(store, job) == [store EXCEPT !.jobs = @ \cup {job}]

\* recordProjectDeadlineSchedule
WithSchedule(store) == [WithJob(store, "commit-deadline") EXCEPT !.scheduled = TRUE]

\* scheduleRevealDeadlineJobForPendingRound: only a project whose schedule is known
WithRevealJob(store) == IF store.scheduled THEN WithJob(store, "reveal-deadline") ELSE store

\* GET /triggers/status, and every start that finds the store unhealthy: the event, the
\* request or the tick is over, but what was in progress is quarantined in the file.
LoadOnly ==
  /\ file' = Recovered(file)
  /\ UNCHANGED <<pocstore, worker, runs, ran, kept, accepted, crashes>>

-----------------------------------------------------------------------------
(* triggers/evmLog.ts: dispatchEvmLogTriggerEvent *)

\* A delivered event, the same one again included: two subscriptions may be open.
StartEvent(l, e) ==
  /\ worker[l].phase = "idle"
  /\ Healthy(file) /\ file.cursor[TriggerOf(e)] # e /\ Claimable(file, e)
  /\ file' = Marked(file, e, "processing")
  /\ worker' = [worker EXCEPT ![l] = [Idle EXCEPT !.phase = "run", !.key = e]]
  /\ UNCHANGED <<pocstore, runs, ran, kept, accepted, crashes>>

\* getVerifyPocReportForAutomaticCommitDeadline: the report of the run is evidence of a
\* strict failure.
StrictlyFailed(e) == TriggerOf(e) = "poc-revealed" /\ e \in Failed

\* A strict failure goes on to the demo jury, a registration to the project's deadlines.
AfterRun(e) ==
  IF StrictlyFailed(e) THEN "open"
  ELSE IF TriggerOf(e) = "project-registered" THEN "bootstrap" ELSE "finish"

\* executeCreWorkflowSimulateAdapter: the workflow has been simulated.
RunEvent(l) ==
  LET e == worker[l].key
  IN  /\ l \in Listeners /\ worker[l].phase = "run"
      /\ runs' = [runs EXCEPT ![e] = @ + 1]
      /\ worker' = [worker EXCEPT ![l].phase = AfterRun(e)]
      /\ UNCHANGED <<file, pocstore, ran, kept, accepted, crashes>>

\* bootstrapProjectDeadlineSchedule
Bootstrap(l) ==
  /\ worker[l].phase = "bootstrap"
  /\ file' = WithSchedule(Recovered(file)) /\ kept' = kept \cup {"commit-deadline"}
  /\ worker' = [worker EXCEPT ![l].phase = "finish"]
  /\ UNCHANGED <<pocstore, runs, ran, accepted, crashes>>

FinishEvent(l) ==
  LET e == worker[l].key
  IN  /\ l \in Listeners /\ worker[l].phase = "finish"
      /\ file' = [Marked(Recovered(file), e, "completed") EXCEPT !.cursor[TriggerOf(e)] = e]
      /\ worker' = [worker EXCEPT ![l] = Idle]
      /\ UNCHANGED <<pocstore, runs, ran, kept, accepted, crashes>>

FailEvent(l) ==
  /\ l \in Listeners /\ Live(l)
  /\ file' = Marked(Recovered(file), worker[l].key, "quarantined")
  /\ worker' = [worker EXCEPT ![l] = Idle]
  /\ UNCHANGED <<pocstore, runs, ran, kept, accepted, crashes>>

-----------------------------------------------------------------------------
(* triggers/dispatch.ts: dispatchCreSimulatorTrigger *)

StartDispatch(w, task) ==
  /\ worker[w].phase = "idle"
  /\ Healthy(file) /\ Claimable(file, w)
  /\ file' = Marked(file, w, "processing")
  /\ worker' = [worker EXCEPT ![w] =
       [Idle EXCEPT !.phase = IF task = "commit-deadline" THEN "open" ELSE "run",
                    !.key = w, !.task = task, !.copy = file']]
  /\ UNCHANGED <<pocstore, runs, ran, kept, accepted, crashes>>

\* buildAdapterRegistry: who runs a dispatched task
AdapterOf(task) ==
  IF task \in {"relay", "relay-job"} THEN "auto-reveal-relayer"
  ELSE "demo-adjudication-orchestrator"

RunsBy(w, adapter) == worker[w].phase = "run" /\ AdapterOf(worker[w].task) = adapter

\* A cycle of the relayer touches neither of the two files.
Relay(w) ==
  /\ w \in Dispatchers /\ RunsBy(w, "auto-reveal-relayer")
  /\ worker' = [worker EXCEPT ![w].phase = "finish"]
  /\ UNCHANGED <<file, pocstore, runs, ran, kept, accepted, crashes>>

FinishDispatch(w) ==
  LET task == worker[w].task
  IN  /\ w \in Dispatchers /\ worker[w].phase = "finish"
      /\ file' = Marked(worker[w].copy, w, "completed")
      /\ accepted' = accepted \cup ({task} \cap Opinions)
      /\ worker' = [worker EXCEPT ![w] =
           IF w = "cron" THEN [Idle EXCEPT !.phase = "end", !.task = task] ELSE Idle]
      /\ UNCHANGED <<pocstore, runs, ran, kept, crashes>>

FailDispatch(w) ==
  /\ w \in Dispatchers /\ Live(w)
  /\ file' = Marked(worker[w].copy, w, "quarantined")
  /\ worker' = [worker EXCEPT ![w] = Idle]
  /\ UNCHANGED <<pocstore, runs, ran, kept, accepted, crashes>>

-----------------------------------------------------------------------------
(* demo-adjudication.ts, run by a dispatch or by the handler of a strict failure *)

\* store-human-opinion phase: the pocstore is read and written without a wait.
StoreOpinion(w) ==
  /\ RunsBy(w, "demo-adjudication-orchestrator") /\ worker[w].task \in Opinions
  /\ pocstore' = [pocstore EXCEPT !.opinions = @ \cup {worker[w].task}]
  /\ worker' = [worker EXCEPT ![w].phase = "finish"]
  /\ UNCHANGED <<file, runs, ran, kept, accepted, crashes>>

\* commit-deadline phase: the pocstore is read, and the LLM jurors are asked ...
OpenRound(w) ==
  /\ worker[w].phase = "open"
  /\ worker' = [worker EXCEPT ![w].phase = "collect", ![w].votes = pocstore]
  /\ UNCHANGED <<file, pocstore, runs, ran, kept, accepted, crashes>>

\* ... then the pocstore is written from what was read, and the job put down.
StoreRound(w) ==
  /\ worker[w].phase = "collect"
  /\ pocstore' = [worker[w].votes EXCEPT !.round = TRUE]
  /\ file' = WithRevealJob(Recovered(file))
  /\ kept' = IF w \in Listeners THEN kept \cup (file'.jobs \cap {"reveal-deadline"}) ELSE kept
  /\ worker' = [worker EXCEPT ![w].phase = "finish", ![w].votes = "none"]
  /\ UNCHANGED <<runs, ran, accepted, crashes>>

\* reveal-deadline phase: the first opinions that came in sit in for the human jurors.  A
\* round that lacks opinions, or whose verdict is on chain already, throws.
RevealDeadline(w) ==
  /\ RunsBy(w, "demo-adjudication-orchestrator") /\ worker[w].task = "reveal-deadline"
  /\ pocstore.round /\ Cardinality(pocstore.opinions) >= Needed
  /\ worker' = [worker EXCEPT ![w].phase = "finish"]
  /\ UNCHANGED <<file, pocstore, runs, ran, kept, accepted, crashes>>

-----------------------------------------------------------------------------
(* triggers/cron.ts: runCronTriggerTick.  A tick with several jobs is that many steps. *)

RunJob(job) ==
  /\ job \in file.jobs
  /\ StartDispatch("cron", IF job = "commit-deadline" THEN "relay-job" ELSE job)

\* The trigger that is due by its interval is run through the same dispatch.
RunInterval == StartDispatch("cron", "relay")

\* The jobs a run of the cron worker is for: the relay that is due by its interval is for
\* none, and leaves the project's job down.
JobsOf(task) ==
  IF task = "relay-job" THEN {"commit-deadline"} ELSE {task} \cap {"reveal-deadline"}
WithoutJobs(store, jobs) == [store EXCEPT !.jobs = @ \ jobs]

\* Once the dispatch is over its job is deleted, from a file loaded anew.  (The time the relay
\* ran at, recorded there too, decides only when it falls due again.)
EndCronRun ==
  LET jobs == JobsOf(worker["cron"].task)
  IN  /\ worker["cron"].phase = "end"
      /\ file' = WithoutJobs(Recovered(file), jobs)
      /\ ran' = ran \cup jobs
      /\ worker' = [worker EXCEPT !["cron"] = Idle]
      /\ UNCHANGED <<pocstore, runs, kept, accepted, crashes>>

-----------------------------------------------------------------------------
\* One of the three processes dies; its workers start afresh.
Crash(process) ==
  /\ crashes < MaxCrashes /\ crashes' = crashes + 1
  /\ worker' = [w \in Workers |-> IF w \in process THEN Idle ELSE worker[w]]
  /\ UNCHANGED <<file, pocstore, runs, ran, kept, accepted>>

Init ==
  /\ file = [exec |-> [k \in Keys |-> "none"], jobs |-> {}, scheduled |-> FALSE,
              cursor |-> [t \in Triggers |-> "none"]]
  /\ pocstore = [opinions |-> {}, round |-> FALSE]
  /\ worker = [w \in Workers |-> Idle]
  /\ runs = [e \in Events |-> 0]
  /\ ran = {} /\ kept = {} /\ accepted = {} /\ crashes = 0

Progress(w) == RunEvent(w) \/ Bootstrap(w) \/ FinishEvent(w) \/ Relay(w) \/ StoreOpinion(w)
               \/ FinishDispatch(w) \/ OpenRound(w) \/ StoreRound(w) \/ RevealDeadline(w)
               \/ (w = "cron" /\ EndCronRun)

Next ==
  \/ LoadOnly
  \/ \E l \in Listeners : FailEvent(l) \/ \E e \in Events : StartEvent(l, e)
  \/ \E c \in Clients, t \in HttpTasks : StartDispatch(c, t)
  \/ \E job \in Jobs : RunJob(job)
  \/ RunInterval
  \/ \E w \in Workers : Progress(w) \/ FailDispatch(w)
  \/ \E p \in {Listeners, Clients, {"cron"}} : Crash(p)

\* Every adapter ends, well or badly, and the cron worker tries again every minute, also
\* when a tick found another execution in progress.
Fairness ==
  /\ \A w \in Workers : WF_vars(Progress(w) \/ FailEvent(w) \/ FailDispatch(w))
  /\ \A job \in Jobs : SF_vars(RunJob(job))

Spec == Init /\ [][Next]_vars /\ Fairness

-----------------------------------------------------------------------------
(* Properties *)

\* An event's adapter runs at most once: for an event delivered again, on two
\* subscriptions, before or after a crash, whatever a dispatch wrote over the file.
EventRunsOnce == \A e \in Events : runs[e] <= 1

\* A human opinion whose request was answered stays in the pocstore, although the round is
\* opened from a copy read before the LLM jurors were asked.
OpinionsKept == accepted \subseteq pocstore.opinions

\* A record in progress or quarantined whose worker is gone
Orphaned(k) == /\ file.exec[k] \in {"processing", "quarantined"}
               /\ \A w \in Workers : Live(w) => worker[w].key # k
Stuck == \E k \in Keys : Orphaned(k)

\* A job an event handler put down is run, whatever copies of the file are written over it,
\* unless the simulator got stuck.
JobsRun ==
  \A job \in Jobs : (job \in kept) ~> (job \in ran \/ Stuck)
=============================================================================
