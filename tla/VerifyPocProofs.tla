-------------------------- MODULE VerifyPocProofs --------------------------
(***************************************************************************)
(* verify-poc and vnet-init for any number of submissions, handlers,       *)
(* registration events, endpoints, releases, crashes and deliveries.       *)
(***************************************************************************)
EXTENDS VerifyPoc, FunctionTheorems, WellFoundedInduction, NaturalsInduction, TLAPS

-----------------------------------------------------------------------------
(* Types *)

Steps    == [type : STRING, who : STRING, value : Nat]
PoC      == [hashed : BOOLEAN, stored : BOOLEAN, form : STRING, chain : STRING,
             setup : Seq(Steps)]
Amounts  == {n \in Nat : n <= Balance \/ n <= Rules.seed}
Reasons  == {"NONE", "RETRYABLE_RPC", "RETRY_EXHAUSTED", "BINDING_MISMATCH"}
Ids      == Inits \cup {NoSnapshot}
Payloads == {"none", "nothing", "own", "other"}
Phases   == {"idle", "read", "execute", "gate", "write", "mark", "emit"}
Marks    == Versions \cup {0, CHOOSE v \in Versions : \A w \in Versions : v <= w}

VnetType    == [status : {"Pending", "Active", "Failed"}, snapshot : Ids]
VerdictType == [drain : Amounts, exact : BOOLEAN, payload : Payloads]
ForkType    == [left : Amounts, taken : [Inits -> Amounts \cup {-1}], keeps : BOOLEAN]
InitType    == [phase : {"create", "snapshot", "made", "failed", "done"}, attempt : Nat,
                snapshot : Ids]
StoreType   == [status : [Subs -> {"none", "processing", "quarantined", "completed",
                                   "strict_failed"}],
                mapping : [Subs -> Marks]]
OutcomeType == [isValid : BOOLEAN, drain : Amounts, exact : BOOLEAN, reason : Reasons]
HandlerType == [phase : Phases, sub : Subs \cup {Resting.sub}, info : VnetType,
                payload : Payloads, outcome : OutcomeType]

HubTypes ==
  /\ vnet \in VnetType /\ status \in [Subs -> {"Revealed", "Verified", "JuryPending"}]
  /\ verdict \in [Subs -> VerdictType]
  /\ poc \in [Subs -> PoC]
StoreTypes == file \in StoreType /\ mem \in StoreType /\ loaded \in BOOLEAN /\ version \in Marks
ForkTypes  == fork \in ForkType
InitTypes  == init \in [Inits -> InitType]
HandlerTypes ==
  /\ handler \in [Handlers -> HandlerType]
  /\ \A h \in Handlers : handler[h].phase # "idle" => handler[h].sub \in Subs
OasisTypes == oasis \in [Subs -> {"nothing", "own", "other"}]
Types == HubTypes /\ StoreTypes /\ ForkTypes /\ InitTypes /\ HandlerTypes /\ OasisTypes

LEMMA SmallestExists ==
  ASSUME NEW T \in SUBSET Nat, T # {}
  PROVE  \E n \in T : \A m \in T : n <= m
<1> DEFINE R == {p \in Nat \X Nat : p[1] < p[2]}
<1>1. IsWellFoundedOn(R, Nat)
  BY NatLessThanWellFounded DEF OpToRel
<1>2. PICK n \in T : \A m \in T : ~(<<m, n>> \in R)
  BY <1>1, WFMin
<1>3. ASSUME NEW m \in T PROVE n <= m
  <2>1. ~(<<m, n>> \in R) /\ m \in Nat /\ n \in Nat
    BY <1>2
  <2>2. <<m, n>> \in Nat \X Nat /\ <<m, n>>[1] = m /\ <<m, n>>[2] = n
    BY <2>1
  <2>3. ~(m < n)
    BY <2>1, <2>2
  <2> QED BY <2>1, <2>3
<1> QED BY <1>3

\* Of the steps that set the target's balance, one is the last.
LEMMA LastFund ==
  ASSUME NEW setup \in Seq(Steps), Funds(setup) # {}
  PROVE  \E i \in Funds(setup) : \A j \in Funds(setup) : j <= i
<1> DEFINE T == {Len(setup) - i : i \in Funds(setup)}
<1>1. Len(setup) \in Nat /\ \A i \in Funds(setup) : i \in Nat /\ i <= Len(setup)
  BY DEF Funds
<1>2. T \in SUBSET Nat /\ T # {}
  BY <1>1
<1>3. PICK n \in T : \A m \in T : n <= m
  BY <1>2, SmallestExists
<1>4. PICK i \in Funds(setup) : n = Len(setup) - i
  OBVIOUS
<1>5. ASSUME NEW j \in Funds(setup) PROVE j <= i
  <2>1. Len(setup) - j \in T
    OBVIOUS
  <2>2. n <= Len(setup) - j
    BY <1>3, <2>1
  <2> QED BY <1>1, <1>4, <2>2
<1> QED BY <1>5

\* A setup the rules admit leaves the target with what it held or with at most the seed.
LEMMA AfterSetupBounded ==
  ASSUME NEW setup \in Seq(Steps), ValidSetup(setup), NEW base \in Amounts
  PROVE  AfterSetup(base, setup) \in Amounts
<1>1. CASE Funds(setup) = {}
  BY <1>1 DEF AfterSetup
<1>2. CASE Funds(setup) # {}
  <2> DEFINE i == CHOOSE i \in Funds(setup) : \A j \in Funds(setup) : j <= i
  <2>1. i \in Funds(setup)
    BY <1>2, LastFund
  <2>2. i \in DOMAIN setup /\ setup[i].type = "setBalance" /\ setup[i].who = "target"
    BY <2>1 DEF Funds
  <2>3. setup[i] \in Steps
    BY <2>2
  <2>4. setup[i].value \in Nat /\ setup[i].value <= Rules.seed
    BY <2>2, <2>3 DEF Steps, ValidSetup
  <2>5. AfterSetup(base, setup) = setup[i].value
    BY <1>2 DEF AfterSetup
  <2> QED BY <2>4, <2>5 DEF Amounts
<1> QED BY <1>1, <1>2

\* What a PoC finds on the VNet, moves and leaves is bounded alike.
LEMMA RunBounded ==
  ASSUME Types, NEW s \in Subs, NEW id \in Ids, ValidSetup(poc[s].setup)
  PROVE  /\ Base(id) \in Amounts /\ Prepared(id, s) \in Amounts
         /\ Lesser(Takes[s], Prepared(id, s)) \in Amounts
         /\ Prepared(id, s) - Lesser(Takes[s], Prepared(id, s)) \in Amounts
         /\ \A gap \in {"none", "pre", "post"} : Measured(Prepared(id, s), s, gap) \in Amounts
         /\ Measured(Prepared(id, s), s, "none") = Lesser(Takes[s], Prepared(id, s))
<1> USE VerifyAssumption
<1>1. Base(id) \in Amounts
  BY DEF Types, ForkTypes, ForkType, Base, Restores, Ids, Amounts
<1>2. poc[s].setup \in Seq(Steps)
  BY DEF Types, HubTypes, PoC
<1>3. Prepared(id, s) \in Amounts
  BY <1>1, <1>2, AfterSetupBounded DEF Prepared
<1> DEFINE p == Prepared(id, s)
           t == Takes[s]
<1>4. p \in Nat /\ t \in Nat /\ Rules.seed \in Nat /\ Balance \in Nat
  BY <1>3 DEF Amounts
<1>5. p <= Balance \/ p <= Rules.seed
  BY <1>3 DEF Amounts
<1> HIDE DEF p, t
<1>6. Lesser(t, p) \in Nat /\ Lesser(t, p) <= p
  BY <1>4 DEF Lesser
<1>7. Lesser(t, p) \in Amounts /\ p - Lesser(t, p) \in Amounts
  BY <1>4, <1>5, <1>6 DEF Amounts
<1>8. 0 \in Amounts
  BY <1>4 DEF Amounts
<1>9. p - Lesser(t, p) \in Nat
  BY <1>7 DEF Amounts
<1>10. /\ Drained(p, p - Lesser(t, p)) = Lesser(t, p)
       /\ Drained(0, p - Lesser(t, p)) = 0
       /\ Drained(p, 0) = p
  BY <1>4, <1>6, <1>9 DEF Drained
<1>11. /\ Measured(p, s, "none") = Lesser(t, p)
       /\ Measured(p, s, "pre") = 0
       /\ Measured(p, s, "post") = p
  BY <1>10 DEF Measured, t
<1> QED BY <1>1, <1>3, <1>7, <1>8, <1>11 DEF p, t

\* The fork a run may leave: with what the PoC moves, or with what the setup left.
LEMMA ForkAfterTyped ==
  ASSUME Types, NEW s \in Subs, NEW id \in Ids, ValidSetup(poc[s].setup)
  PROVE  /\ ForkAfter(id, s) \in ForkType
         /\ [ForkAfter(id, s) EXCEPT !.left = Prepared(id, s)] \in ForkType
<1> DEFINE left  == Prepared(id, s) - Lesser(Takes[s], Prepared(id, s))
           taken == IF Restores(id) /\ ~fork.keeps THEN [fork.taken EXCEPT ![id] = -1]
                    ELSE fork.taken
<1>1. left \in Amounts /\ Prepared(id, s) \in Amounts
  BY RunBounded
<1>2. taken \in [Inits -> Amounts \cup {-1}] /\ fork \in ForkType
  BY DEF Types, ForkTypes, ForkType
<1>3. ForkAfter(id, s) = [fork EXCEPT !.left = left, !.taken = taken]
  BY DEF ForkAfter
<1> HIDE DEF left, taken
<1> QED BY <1>1, <1>2, <1>3 DEF ForkType

LEMMA ConstantsTyped ==
  /\ 0 \in Amounts /\ Balance \in Amounts /\ NoSnapshot \in Ids
  /\ NoOutcome \in OutcomeType /\ Resting \in HandlerType /\ EmptyStore \in StoreType
  /\ \A r \in Reasons : Fail(r) \in OutcomeType
  /\ Started \in InitType /\ Finished \in InitType
<1>1. 0 \in Amounts /\ Balance \in Amounts /\ NoSnapshot \in Ids
  BY VerifyAssumption DEF Amounts, Ids
<1>2. NoOutcome \in OutcomeType
  BY <1>1 DEF NoOutcome, OutcomeType, Reasons
<1>3. Resting \in HandlerType
  <2>1. Resting.sub \in Subs \cup {Resting.sub}
    OBVIOUS
  <2> QED BY <1>1, <1>2, <2>1 DEF Resting, HandlerType, Phases, VnetType, Payloads
<1>4. EmptyStore \in StoreType
  BY DEF EmptyStore, StoreType, Marks
<1>5. \A r \in Reasons : Fail(r) \in OutcomeType
  BY <1>2 DEF Fail, OutcomeType
<1>6. Started \in InitType /\ Finished \in InitType
  BY <1>1 DEF Started, Finished, InitType
<1> QED BY <1>1, <1>2, <1>3, <1>4, <1>5, <1>6

\* A handler that goes on stays a handler.
LEMMA HandlerGoesOn ==
  ASSUME HandlerTypes, NEW h \in Handlers, NEW n \in HandlerType,
         n.phase # "idle" => n.sub \in Subs,
         handler' = [handler EXCEPT ![h] = n]
  PROVE  HandlerTypes'
BY DEF HandlerTypes

\* Saving a typed store
LEMMA PersistTyped ==
  ASSUME StoreTypes, NEW store \in StoreType, Persist(store)
  PROVE  StoreTypes'
BY DEF Persist, StoreTypes

LEMMA MarkTyped ==
  ASSUME StoreTypes, NEW s \in Subs,
         NEW st \in {"processing", "quarantined", "completed", "strict_failed"}, Mark(s, st)
  PROVE  StoreTypes'
<1>1. [mem EXCEPT !.status[s] = st] \in StoreType
  BY DEF StoreTypes, StoreType
<1> QED BY <1>1, PersistTyped DEF Mark

LEMMA StoreIsTyped ==
  ASSUME StoreTypes
  PROVE  Store \in StoreType /\ \A s \in Subs : Mapped(Store, s) \in StoreType
<1>1. Recovered(file) \in StoreType
  BY DEF StoreTypes, StoreType, Recovered
<1>2. Store \in StoreType
  BY <1>1, ConstantsTyped DEF StoreTypes, Store
<1>3. ASSUME NEW st \in StoreType, NEW s \in Subs PROVE Mapped(st, s) \in StoreType
  BY <1>3 DEF StoreTypes, StoreType, Mapped
<1> QED BY <1>2, <1>3

LEMMA TypesInit == Init => Types
<1> SUFFICES ASSUME Init PROVE Types
  OBVIOUS
<1> USE VerifyAssumption, ConstantsTyped
<1>1. HubTypes
  BY DEF Init, HubTypes, VnetType, VerdictType, NoVerdict, Payloads, PoC, Steps
<1>2. StoreTypes
  BY DEF Init, StoreTypes, Marks
<1>3. ForkTypes
  BY DEF Init, ForkTypes, ForkType
<1>4. InitTypes
  BY DEF Init, InitTypes
<1>5. HandlerTypes
  BY DEF Init, HandlerTypes, Resting
<1>6. OasisTypes
  BY DEF Init, OasisTypes
<1> QED BY <1>1, <1>2, <1>3, <1>4, <1>5, <1>6 DEF Types

LEMMA VnetInitTyped ==
  ASSUME Types, NEW i \in Inits, VnetInit(i)
  PROVE  Types'
<1> USE ConstantsTyped, VerifyAssumption DEF Types
<1>1. StoreTypes' /\ HandlerTypes' /\ OasisTypes'
  BY DEF VnetInit, CreateVnet, CreateVnetFails, CreateSnapshot, InitThrows, ReportVnet,
         storeVars, StoreTypes, HandlerTypes, OasisTypes
<1>2. init[i] \in InitType
  BY DEF InitTypes
<1>3. InitTypes'
  <2>1. init[i].attempt + 1 \in Nat
    BY <1>2 DEF InitType
  <2>2. i \in Ids
    BY DEF Ids
  <2> USE DEF InitTypes, InitType
  <2>3. CASE CreateVnet(i)
    BY <2>3 DEF CreateVnet
  <2>4. CASE CreateVnetFails(i)
    BY <2>4, <2>1 DEF CreateVnetFails
  <2>5. CASE CreateSnapshot(i)
    <3>1. [init[i] EXCEPT !.phase = "made", !.snapshot = i] \in InitType
      BY <1>2, <2>2
    <3>2. [init[i] EXCEPT !.phase = "made"] \in InitType
      BY <1>2
    <3>3. \/ init' = [init EXCEPT ![i] = [init[i] EXCEPT !.phase = "made", !.snapshot = i]]
          \/ init' = [init EXCEPT ![i] = [init[i] EXCEPT !.phase = "made"]]
      BY <2>5, <1>2 DEF CreateSnapshot
    <3> QED BY <3>1, <3>2, <3>3
  <2>6. CASE InitThrows(i) \/ ReportVnet(i)
    BY <2>6 DEF InitThrows, ReportVnet
  <2> QED BY <2>3, <2>4, <2>5, <2>6 DEF VnetInit
<1>4. HubTypes'
  <2>1. CASE ReportVnet(i)
    <3>1. init[i].snapshot \in Ids /\ vnet \in VnetType
      BY <1>2 DEF InitType, HubTypes
    <3>2. vnet' \in VnetType
      BY <2>1, <3>1 DEF ReportVnet, VnetAfter, VnetReport, ProjectVnetAfter, VnetFailedAfter, VnetType
    <3> QED BY <2>1, <3>2 DEF ReportVnet, HubTypes
  <2>2. CASE UNCHANGED hubVars
    BY <2>2 DEF hubVars, HubTypes
  <2> QED BY <2>1, <2>2 DEF VnetInit, CreateVnet, CreateVnetFails, CreateSnapshot, InitThrows
<1>5. ForkTypes'
  <2>1. CASE CreateSnapshot(i)
    <3>1. fork \in ForkType /\ fork.left \in Amounts /\ fork.taken \in [Inits -> Amounts \cup {-1}]
      BY DEF ForkTypes, ForkType
    <3>2. [fork.taken EXCEPT ![i] = fork.left] \in [Inits -> Amounts \cup {-1}]
      BY <3>1
    <3>3. [fork EXCEPT !.taken[i] = fork.left] =
            [fork EXCEPT !.taken = [fork.taken EXCEPT ![i] = fork.left]]
      BY <3>1 DEF ForkType
    <3>4. [fork EXCEPT !.taken = [fork.taken EXCEPT ![i] = fork.left]] \in ForkType
      BY <3>1, <3>2 DEF ForkType
    <3>5. fork' = fork \/ fork' = [fork EXCEPT !.taken[i] = fork.left]
      BY <2>1 DEF CreateSnapshot
    <3> QED BY <3>1, <3>3, <3>4, <3>5 DEF ForkTypes
  <2>2. CASE UNCHANGED fork
    BY <2>2 DEF ForkTypes
  <2> QED BY <2>1, <2>2 DEF VnetInit, CreateVnet, CreateVnetFails, ReportVnet, InitThrows
<1> QED BY <1>1, <1>3, <1>4, <1>5

LEMMA JudgedTyped ==
  ASSUME NEW hd \in HandlerType, NEW o \in OutcomeType
  PROVE  Judged(hd, o) \in HandlerType
BY DEF Judged, HandlerType, Phases

\* What a run measures is an outcome.
LEMMA ExecuteTyped ==
  ASSUME Types, NEW h \in Handlers, Execute(h)
  PROVE  HandlerTypes' /\ ForkTypes'
<1> DEFINE hd == handler[h]
           id == hd.info.snapshot
           s  == hd.sub
<1>1. hd \in HandlerType /\ s \in Subs /\ id \in Ids
  BY DEF Execute, Types, HandlerTypes, HandlerType, VnetType
<1>2. ValidSetup(poc[s].setup)
  BY DEF Execute, Admissible
<1>3. PICK gap \in {"none", "pre", "post"}, ok \in BOOLEAN :
        LET drain   == Measured(Prepared(id, s), s, gap)
            isValid == ok /\ drain > 0
        IN  /\ fork' \in {ForkAfter(id, s)} \cup
                         (IF ok THEN {} ELSE {[ForkAfter(id, s) EXCEPT !.left = Prepared(id, s)]})
            /\ handler' = [handler EXCEPT ![h] = Judged(@,
                 [isValid |-> isValid, drain |-> Recorded(isValid, drain),
                  reason |-> "NONE", exact |-> Restores(id) /\ gap = "none"])]
  BY DEF Execute
<1> DEFINE drain   == Measured(Prepared(id, s), s, gap)
           isValid == ok /\ drain > 0
           o       == [isValid |-> isValid, drain |-> Recorded(isValid, drain),
                       reason |-> "NONE", exact |-> Restores(id) /\ gap = "none"]
<1>4. drain \in Amounts
  BY <1>1, <1>2, RunBounded
<1>5. Recorded(isValid, drain) \in Amounts
  BY <1>4, ConstantsTyped DEF Recorded
<1>6. o \in OutcomeType
  <2>1. isValid \in BOOLEAN /\ (Restores(id) /\ gap = "none") \in BOOLEAN
    BY DEF Restores
  <2> HIDE DEF isValid, drain
  <2> QED BY <1>5, <2>1 DEF OutcomeType, Reasons
<1>7. handler' = [handler EXCEPT ![h] = Judged(hd, o)]
  BY <1>3
<1>8. Judged(hd, o) \in HandlerType /\ Judged(hd, o).sub = s
  BY <1>1, <1>6, JudgedTyped DEF Judged, HandlerType
<1>9. HandlerTypes'
  <2> HIDE DEF o
  <2> QED BY <1>1, <1>7, <1>8, HandlerGoesOn DEF Types
<1>10. ForkTypes'
  BY <1>1, <1>2, <1>3, ForkAfterTyped DEF ForkTypes
<1> QED BY <1>9, <1>10

\* A step of a busy handler that only judges: the outcome is a failure.
LEMMA FailureTyped ==
  ASSUME Types, NEW h \in Handlers, handler[h].phase # "idle", NEW r \in Reasons,
         handler' = [handler EXCEPT ![h] = Judged(@, Fail(r))]
  PROVE  HandlerTypes'
<1>1. handler[h] \in HandlerType /\ handler[h].sub \in Subs
  BY DEF Types, HandlerTypes
<1>2. Judged(handler[h], Fail(r)) \in HandlerType
  BY <1>1, JudgedTyped, ConstantsTyped
<1>3. Judged(handler[h], Fail(r)).sub \in Subs
  BY <1>1 DEF Judged, HandlerType
<1> QED BY <1>2, <1>3, HandlerGoesOn DEF Types

LEMMA RestTyped ==
  ASSUME Types, NEW h \in Handlers, Rest(h)
  PROVE  HandlerTypes'
<1>1. Resting.phase = "idle"
  BY DEF Resting
<1> QED BY <1>1, ConstantsTyped, HandlerGoesOn DEF Rest, Types

LEMMA PhaseTyped ==
  ASSUME Types, NEW h \in Handlers, handler[h].phase # "idle", NEW ph \in Phases,
         handler' = [handler EXCEPT ![h].phase = ph]
  PROVE  HandlerTypes'
<1> DEFINE n == [handler[h] EXCEPT !.phase = ph]
<1>1. handler[h] \in HandlerType /\ handler[h].sub \in Subs
  BY DEF Types, HandlerTypes
<1>2. n \in HandlerType /\ n.sub \in Subs
  BY <1>1 DEF HandlerType
<1>3. handler' = [handler EXCEPT ![h] = n]
  BY <1>1
<1> HIDE DEF n
<1> QED BY <1>2, <1>3, HandlerGoesOn DEF Types

LEMMA ReadTyped ==
  ASSUME Types, NEW h \in Handlers, NEW answer, ReadPoC(h, answer)
  PROVE  HandlerTypes'
<1> DEFINE n == [handler[h] EXCEPT !.phase = "execute", !.payload = oasis[handler[h].sub]]
<1>1. handler[h] \in HandlerType /\ handler[h].sub \in Subs /\ handler[h].phase # "idle"
  BY DEF Types, HandlerTypes, ReadPoC
<1>2. oasis[handler[h].sub] \in Payloads
  BY <1>1 DEF Types, OasisTypes, Payloads
<1>3. n \in HandlerType /\ n.sub \in Subs
  BY <1>1, <1>2 DEF HandlerType, Phases
<1>4. \/ \E r \in Reasons : handler' = [handler EXCEPT ![h] = Judged(@, Fail(r))]
      \/ handler' = [handler EXCEPT ![h] = n]
  BY DEF ReadPoC, Reasons
<1> HIDE DEF n
<1> QED BY <1>1, <1>3, <1>4, FailureTyped, HandlerGoesOn DEF Types

LEMMA WriteTyped ==
  ASSUME Types, NEW h \in Handlers, WriteReport(h)
  PROVE  HubTypes' /\ HandlerTypes'
<1> DEFINE hd == handler[h]
           v  == [drain |-> ContractReport(ReportOf(h)).drainAmountWei,
                  exact |-> hd.outcome.exact, payload |-> hd.payload]
<1>1. hd \in HandlerType /\ hd.sub \in Subs /\ hd.phase # "idle"
  BY DEF Types, HandlerTypes, WriteReport
<1>2. ContractReport(ReportOf(h)).drainAmountWei = hd.outcome.drain
  BY DEF ContractReport, ReportOf, StrictPass, Envelope, ResultPayload
<1>3. v \in VerdictType
  BY <1>1, <1>2 DEF HandlerType, OutcomeType, VerdictType
<1>4. HandlerTypes'
  BY <1>1, PhaseTyped DEF WriteReport, Phases
<1>5. UNCHANGED <<vnet, poc>>
  BY DEF WriteReport
<1>6. \/ UNCHANGED <<status, verdict>>
      \/ /\ status' = [status EXCEPT ![hd.sub] = "Verified"]
         /\ verdict' = [verdict EXCEPT ![hd.sub] = v]
  BY DEF WriteReport
<1> HIDE DEF v
<1>7. HubTypes'
  BY <1>1, <1>3, <1>5, <1>6 DEF Types, HubTypes
<1> QED BY <1>4, <1>7

LEMMA HandlerStepTyped ==
  ASSUME Types, NEW h \in Handlers, HandlerStep(h)
  PROVE  Types'
<1> USE DEF Types
<1>1. handler[h] \in HandlerType /\ (handler[h].phase # "idle" => handler[h].sub \in Subs)
  BY DEF HandlerTypes
<1>2. InitTypes' /\ OasisTypes'
  BY DEF InitTypes, OasisTypes, HandlerStep, Execute, ExecuteLost, GateRetries, GateEmits,
         EmitEvidence, GateWrites, WriteReport, MarkCompleted, HandlerThrows, Quarantine,
         ReadPoC, Refuse
<1>3. HubTypes'
  <2>1. CASE UNCHANGED hubVars
    BY <2>1 DEF HubTypes, hubVars
  <2> QED BY <2>1, WriteTyped DEF HandlerStep, Execute, ExecuteLost, GateRetries, GateEmits,
         EmitEvidence, GateWrites, MarkCompleted, HandlerThrows, Quarantine, ReadPoC, Refuse
<1>4. ForkTypes'
  <2>1. CASE UNCHANGED fork
    BY <2>1 DEF ForkTypes
  <2>2. CASE ExecuteLost(h)
    <3>1. handler[h].sub \in Subs /\ handler[h].info.snapshot \in Ids
      BY <1>1, <2>2 DEF ExecuteLost, HandlerType, VnetType
    <3>2. ValidSetup(poc[handler[h].sub].setup)
      BY <2>2 DEF ExecuteLost, Admissible
    <3> QED BY <2>2, <3>1, <3>2, ForkAfterTyped DEF ExecuteLost, ForkTypes
  <2> QED BY <2>1, <2>2, ExecuteTyped DEF HandlerStep, GateRetries, GateEmits, EmitEvidence,
         GateWrites, WriteReport, MarkCompleted, HandlerThrows, Quarantine, ReadPoC, Refuse
<1>5. StoreTypes'
  <2>1. CASE UNCHANGED storeVars
    BY <2>1 DEF StoreTypes, storeVars
  <2>2. CASE GateRetries(h) \/ HandlerThrows(h) \/ GateEmits(h) \/ MarkCompleted(h)
    <3>1. handler[h].sub \in Subs
      BY <1>1, <2>2 DEF GateRetries, HandlerThrows, GateEmits, MarkCompleted
    <3> QED BY <2>2, <3>1, MarkTyped DEF GateRetries, HandlerThrows, Quarantine, GateEmits,
            MarkCompleted
  <2> QED BY <2>1, <2>2 DEF HandlerStep, Execute, ExecuteLost, EmitEvidence, GateWrites,
         WriteReport, ReadPoC, Refuse
<1>6. HandlerTypes'
  <2>1. CASE Execute(h)
    BY <2>1, ExecuteTyped
  <2>2. CASE ExecuteLost(h)
    BY <2>2, FailureTyped DEF ExecuteLost, Reasons
  <2>3. CASE GateRetries(h) \/ HandlerThrows(h) \/ EmitEvidence(h) \/ MarkCompleted(h)
    BY <2>3, RestTyped DEF GateRetries, HandlerThrows, Quarantine, EmitEvidence, MarkCompleted
  <2>4. CASE GateEmits(h) \/ GateWrites(h)
    BY <2>4, PhaseTyped DEF GateEmits, GateWrites, Phases
  <2>5. CASE WriteReport(h)
    BY <2>5, WriteTyped
  <2>6. CASE \E answer \in Answers : ReadPoC(h, answer)
    BY <2>6, ReadTyped
  <2>7. CASE \E forkHash, sourceHash \in Hashes : Refuse(h, forkHash, sourceHash)
    BY <2>7, FailureTyped DEF Refuse, Reasons
  <2> QED BY <2>1, <2>2, <2>3, <2>4, <2>5, <2>6, <2>7 DEF HandlerStep
<1> QED BY <1>2, <1>3, <1>4, <1>5, <1>6

LEMMA RevealTyped ==
  ASSUME Types, NEW h \in Handlers, NEW s \in Subs, OnPoCRevealed(h, s)
  PROVE  Types'
<1> USE DEF Types
<1>1. HubTypes' /\ ForkTypes' /\ InitTypes' /\ OasisTypes'
  BY DEF OnPoCRevealed, hubVars, HubTypes, ForkTypes, InitTypes, OasisTypes
<1>2. Store \in StoreType /\ Mapped(Store, s) \in StoreType
  BY StoreIsTyped
<1>3. StoreTypes'
  <2>1. [Mapped(Store, s) EXCEPT !.status[s] = "processing"] \in StoreType
    <3> DEFINE m == Mapped(Store, s)
    <3>1. m \in StoreType
      BY <1>2
    <3> HIDE DEF m
    <3>2. [m EXCEPT !.status[s] = "processing"] \in StoreType
      BY <3>1 DEF StoreType
    <3> QED BY <3>2 DEF m
  <2> QED BY <1>2, <2>1, PersistTyped DEF OnPoCRevealed
<1>4. HandlerTypes'
  <2> DEFINE n == [Resting EXCEPT !.phase = "read", !.sub = s, !.info = VnetInfo]
  <2>1. VnetInfo \in VnetType
    BY DEF VnetInfo, HubTypes, VnetType
  <2>2. n \in HandlerType /\ n.sub \in Subs
    <3>1. Resting \in HandlerType
      BY ConstantsTyped
    <3> HIDE DEF Resting
    <3> QED BY <2>1, <3>1 DEF HandlerType, Phases
  <2>3. UNCHANGED handler \/ handler' = [handler EXCEPT ![h] = n]
    BY DEF OnPoCRevealed
  <2> HIDE DEF n
  <2>4. CASE UNCHANGED handler
    BY <2>4 DEF HandlerTypes
  <2> QED BY <2>2, <2>3, <2>4, HandlerGoesOn
<1> QED BY <1>1, <1>3, <1>4

LEMMA OpenJuryTyped ==
  ASSUME Types, NEW s \in Subs, OpenJury(s) \/ Overwrite(s)
  PROVE  Types'
BY DEF OpenJury, Overwrite, Types, HubTypes, StoreTypes, ForkTypes, InitTypes, HandlerTypes,
       OasisTypes, storeVars, hubVars

LEMMA CrashTyped ==
  ASSUME Types, NEW v \in Versions, Crash(v)
  PROVE  Types'
<1>1. HandlerTypes'
  BY ConstantsTyped DEF Crash, HandlerTypes, Resting
<1>2. StoreTypes'
  BY ConstantsTyped DEF Crash, Types, StoreTypes, Marks
<1> QED
  BY <1>1, <1>2 DEF Crash, Types, HubTypes, ForkTypes, InitTypes, OasisTypes, hubVars

LEMMA TypesNext ==
  ASSUME Types, [Next]_vars
  PROVE  Types'
<1>1. CASE UNCHANGED vars
  BY <1>1 DEF vars, Types, HubTypes, StoreTypes, ForkTypes, InitTypes, HandlerTypes, OasisTypes,
              hubVars, storeVars
<1> QED
  BY <1>1, VnetInitTyped, HandlerStepTyped, RevealTyped, OpenJuryTyped, CrashTyped DEF Next

(* The program's state is always of its types. *)
THEOREM TypesAlways == Spec => []Types
BY TypesInit, TypesNext, PTL DEF Spec

-----------------------------------------------------------------------------
(* The base snapshot *)

\* Nothing runs on the VNet before it is reported, so that every snapshot an earlier report
\* can bring is of the untouched target; and the one that was reported is not taken again.
Untouched ==
  /\ vnet.status = "Pending" => /\ vnet.snapshot = NoSnapshot /\ fork.left = Balance
                                /\ \A i \in Inits : fork.taken[i] \in {Balance, -1}
  /\ \A i \in Inits : /\ init[i].snapshot \in {NoSnapshot, i}
                      /\ init[i].phase \in {"create", "snapshot", "done"} =>
                           init[i].snapshot = NoSnapshot
  /\ vnet.snapshot # NoSnapshot => /\ init[vnet.snapshot].phase = "done"
                                   /\ fork.taken[vnet.snapshot] \in {Balance, -1}
  /\ \A h \in Handlers : handler[h].info.status # "Pending" =>
       vnet.status # "Pending" /\ handler[h].info.snapshot = vnet.snapshot

\* What a handler's step may do to the VNet: run a PoC, which consumes at most the snapshot
\* the handler was told of.
RunOf(h) ==
  /\ handler[h].info.status = "Active"
  /\ \/ fork'.taken = fork.taken
     \/ /\ handler[h].info.snapshot # NoSnapshot
        /\ fork'.taken = [fork.taken EXCEPT ![handler[h].info.snapshot] = -1]

LEMMA StepInfo ==
  ASSUME Types, NEW h \in Handlers, HandlerStep(h)
  PROVE  /\ UNCHANGED <<vnet, poc, init>>
         /\ \A g \in Handlers : \/ handler'[g].info = handler[g].info
                                \/ handler'[g].info = Resting.info
         /\ UNCHANGED fork \/ RunOf(h)
<1>1. handler \in [Handlers -> HandlerType] /\ handler[h] \in HandlerType
  BY DEF Types, HandlerTypes
<1>2. UNCHANGED <<vnet, poc, init>>
  BY DEF HandlerStep, Execute, ExecuteLost, GateRetries, GateEmits, EmitEvidence, GateWrites,
         WriteReport, MarkCompleted, HandlerThrows, Quarantine, ReadPoC, Refuse, hubVars
<1>3. \A o : Judged(handler[h], o).info = handler[h].info
  BY <1>1 DEF Judged, HandlerType
<1>4. \A g \in Handlers : \/ handler'[g].info = handler[g].info
                          \/ handler'[g].info = Resting.info
  <2>1. CASE Execute(h) \/ ExecuteLost(h)
    <3>1. \E o : handler' = [handler EXCEPT ![h] = Judged(@, o)]
      BY <2>1 DEF Execute, ExecuteLost
    <3> QED BY <3>1, <1>1, <1>3
  <2>2. CASE GateRetries(h) \/ HandlerThrows(h) \/ EmitEvidence(h) \/ MarkCompleted(h)
    BY <2>2, <1>1 DEF GateRetries, HandlerThrows, Quarantine, EmitEvidence, MarkCompleted, Rest
  <2>3. CASE GateEmits(h) \/ GateWrites(h) \/ WriteReport(h)
    <3>1. PICK ph \in {"emit", "write", "mark"} : handler' = [handler EXCEPT ![h].phase = ph]
      BY <2>3 DEF GateEmits, GateWrites, WriteReport
    <3> QED BY <3>1, <1>1 DEF HandlerType
  <2>4. ASSUME NEW answer, ReadPoC(h, answer)
        PROVE  \A g \in Handlers : handler'[g].info = handler[g].info
    <3> DEFINE n == [handler[h] EXCEPT !.phase = "execute", !.payload = oasis[handler[h].sub]]
    <3>1. n.info = handler[h].info
      BY <1>1 DEF HandlerType
    <3>2. \/ \E o : handler' = [handler EXCEPT ![h] = Judged(@, o)]
          \/ handler' = [handler EXCEPT ![h] = n]
      BY <2>4 DEF ReadPoC
    <3> HIDE DEF n
    <3> QED BY <3>1, <3>2, <1>1, <1>3
  <2>5. CASE \E forkHash, sourceHash \in Hashes : Refuse(h, forkHash, sourceHash)
    BY <2>5, <1>1, <1>3 DEF Refuse
  <2> QED BY <2>1, <2>2, <2>3, <2>4, <2>5 DEF HandlerStep
<1>5. UNCHANGED fork \/ RunOf(h)
  <2>1. CASE UNCHANGED fork
    BY <2>1
  <2>2. CASE (Execute(h) \/ ExecuteLost(h)) /\ ~UNCHANGED fork
    <3> DEFINE id == handler[h].info.snapshot
               s  == handler[h].sub
    <3>1. handler[h].info.status = "Active"
      BY <2>2 DEF Execute, ExecuteLost, Admissible
    <3>2. ForkAfter(id, s).taken = fork.taken
          \/ (id # NoSnapshot /\ ForkAfter(id, s).taken = [fork.taken EXCEPT ![id] = -1])
      BY DEF ForkAfter, Restores, Types, ForkTypes, ForkType
    <3>3. \A n : [ForkAfter(id, s) EXCEPT !.left = n].taken = ForkAfter(id, s).taken
      BY DEF ForkAfter, Types, ForkTypes, ForkType
    <3>4. fork'.taken = ForkAfter(id, s).taken
      BY <2>2, <3>3 DEF Execute, ExecuteLost
    <3> QED BY <3>1, <3>2, <3>4 DEF RunOf
  <2> QED BY <2>1, <2>2 DEF HandlerStep, GateRetries, GateEmits, EmitEvidence, GateWrites,
          WriteReport, MarkCompleted, HandlerThrows, Quarantine, ReadPoC, Refuse
<1> QED BY <1>2, <1>4, <1>5

LEMMA UntouchedInit == Init => Untouched
BY DEF Init, Untouched, Started, Resting

LEMMA VnetInitUntouched ==
  ASSUME Types, Untouched, NEW i \in Inits, VnetInit(i)
  PROVE  Untouched'
<1>1. UNCHANGED handler /\ vnet \in VnetType /\ init \in [Inits -> InitType]
  BY DEF VnetInit, CreateVnet, CreateVnetFails, CreateSnapshot, InitThrows, ReportVnet,
         Types, HubTypes, InitTypes
<1>2. \A j \in Inits \ {i} : init'[j] = init[j]
  BY <1>1 DEF VnetInit, CreateVnet, CreateVnetFails, CreateSnapshot, InitThrows, ReportVnet
<1>3. NoSnapshot \notin Inits
  BY VerifyAssumption
<1>4. init[i] \in InitType /\ fork \in ForkType /\ vnet.snapshot \in Ids
  BY <1>1 DEF Types, ForkTypes, VnetType
<1>5. CASE CreateVnet(i) \/ CreateVnetFails(i) \/ InitThrows(i)
  <2>1. UNCHANGED <<vnet, fork>> /\ init[i].phase # "done"
    BY <1>5 DEF CreateVnet, CreateVnetFails, InitThrows, hubVars
  <2>2. /\ init'[i].snapshot \in {NoSnapshot, i}
        /\ init'[i].phase \in {"create", "snapshot", "done"} => init'[i].snapshot = NoSnapshot
    BY <1>1, <1>4, <1>5 DEF CreateVnet, CreateVnetFails, InitThrows, Untouched, InitType,
         Finished, Started
  <2> QED BY <1>1, <1>2, <2>1, <2>2, <1>4 DEF Untouched, Ids
<1>6. CASE CreateSnapshot(i)
  <2>1. UNCHANGED vnet /\ init[i].phase = "snapshot"
    BY <1>6 DEF CreateSnapshot, hubVars
  <2>2. /\ init'[i].snapshot \in {NoSnapshot, i} /\ init'[i].phase = "made"
    <3>1. \/ init' = [init EXCEPT ![i] = [init[i] EXCEPT !.phase = "made", !.snapshot = i]]
          \/ init' = [init EXCEPT ![i] = [init[i] EXCEPT !.phase = "made"]]
      BY <1>1, <1>6 DEF CreateSnapshot
    <3> QED BY <1>1, <1>4, <3>1 DEF InitType, Untouched
  <2>3. fork'.left = fork.left /\ \A j \in Inits : fork'.taken[j] = fork.taken[j]
                                     \/ (j = i /\ fork'.taken[j] = fork.left)
    BY <1>4, <1>6 DEF CreateSnapshot, ForkType
  <2> QED BY <1>1, <1>2, <1>4, <2>1, <2>2, <2>3 DEF Untouched, Ids
<1>7. CASE ReportVnet(i)
  <2>1. UNCHANGED fork /\ init'[i].phase = "done" /\ init'[i].snapshot = NoSnapshot
    BY <1>1, <1>7 DEF ReportVnet, Finished, Started
  <2>2. \/ vnet.status # "Pending" /\ vnet'.snapshot = vnet.snapshot
        \/ vnet.status = "Pending" /\ vnet'.snapshot \in {NoSnapshot, i}
    BY <1>1, <1>4, <1>7 DEF ReportVnet, Untouched, VnetAfter, VnetReport, ProjectVnetAfter, VnetFailedAfter, VnetType
  <2>3. vnet'.status # "Pending"
    BY <1>1, <1>7 DEF ReportVnet, VnetAfter, VnetReport, ProjectVnetAfter, VnetFailedAfter, VnetType
  <2> QED BY <1>1, <1>2, <1>3, <1>4, <2>1, <2>2, <2>3 DEF Untouched, Ids
<1> QED BY <1>5, <1>6, <1>7 DEF VnetInit

LEMMA UntouchedNext ==
  ASSUME Types, Untouched, [Next]_vars
  PROVE  Untouched'
<1>1. CASE \E i \in Inits : VnetInit(i)
  BY <1>1, VnetInitUntouched
<1>2. ASSUME NEW h \in Handlers, HandlerStep(h) PROVE Untouched'
  <2>1. /\ UNCHANGED <<vnet, init>>
        /\ \A g \in Handlers : \/ handler'[g].info = handler[g].info
                               \/ handler'[g].info = Resting.info
        /\ UNCHANGED fork \/ RunOf(h)
    BY <1>2, StepInfo
  <2>2. Resting.info.status = "Pending"
    BY DEF Resting
  <2>3. CASE UNCHANGED fork
    BY <2>1, <2>2, <2>3 DEF Untouched
  <2>4. CASE RunOf(h)
    <3>1. vnet.status # "Pending" /\ handler[h].info.snapshot = vnet.snapshot
      BY <2>4 DEF RunOf, Untouched
    <3>2. vnet.snapshot # NoSnapshot => fork'.taken[vnet.snapshot] \in {Balance, -1}
      BY <2>4, <3>1 DEF RunOf, Untouched, Types, ForkTypes, ForkType, HubTypes, VnetType, Ids
    <3> QED BY <2>1, <2>2, <3>1, <3>2 DEF Untouched
  <2> QED BY <2>1, <2>3, <2>4
<1>3. ASSUME NEW h \in Handlers, NEW s \in Subs, OnPoCRevealed(h, s) PROVE Untouched'
  <2> DEFINE n == [Resting EXCEPT !.phase = "read", !.sub = s, !.info = VnetInfo]
  <2>1. UNCHANGED <<vnet, fork, init>>
    BY <1>3 DEF OnPoCRevealed, hubVars
  <2>2. n.info = vnet
    BY DEF VnetInfo, Resting, Types, HubTypes, VnetType
  <2>3. UNCHANGED handler \/ handler' = [handler EXCEPT ![h] = n]
    BY <1>3 DEF OnPoCRevealed
  <2> HIDE DEF n
  <2>4. \A g \in Handlers : handler'[g].info = handler[g].info \/ handler'[g].info = vnet
    BY <2>2, <2>3 DEF Types, HandlerTypes
  <2> QED BY <2>1, <2>4 DEF Untouched
<1>4. ASSUME NEW s \in Subs, OpenJury(s) \/ Overwrite(s) PROVE Untouched'
  BY <1>4 DEF OpenJury, Overwrite, hubVars, Untouched
<1>5. ASSUME NEW v \in Versions, Crash(v) PROVE Untouched'
  BY <1>5 DEF Crash, hubVars, Untouched, Resting
<1>6. CASE UNCHANGED vars
  BY <1>6 DEF vars, hubVars, Untouched
<1> QED BY <1>1, <1>2, <1>3, <1>4, <1>5, <1>6 DEF Next

(* However often a registration is handled and whatever runs on the VNet,  *)
(* the snapshot BountyHub recorded is of the untouched target: vnet-init   *)
(* reports the VNet before verify-poc can run anything on it, and          *)
(* _applyProjectVnet takes one report.                                     *)
THEOREM BaseSnapshotPristineAlways == Spec => []BaseSnapshotPristine
<1>1. Untouched => BaseSnapshotPristine
  BY DEF Untouched, BaseSnapshotPristine
<1> QED BY <1>1, TypesAlways, UntouchedInit, UntouchedNext, PTL DEF Spec

-----------------------------------------------------------------------------
(* Outcomes, verdicts and evidence *)

Taken(s) == Lesser(Takes[s], AfterSetup(Balance, poc[s].setup))

\* What a handler's outcome says of what it ran
SoundOutcome(hd) ==
  LET o == hd.outcome
  IN  /\ ~o.isValid => o.drain = 0
      /\ o.isValid => hd.payload = "own"
      /\ o.isValid /\ o.exact => o.drain = Taken(hd.sub)
Sound(hd) ==
  /\ SoundOutcome(hd)
  /\ hd.phase = "execute" => hd.payload = "own"
  /\ hd.phase = "write" => hd.outcome.isValid
  /\ hd.phase = "emit" => /\ ~hd.outcome.isValid
                          /\ hd.outcome.reason \in {"NONE", "BINDING_MISMATCH"}

SoundVerdict(s) ==
  /\ status[s] = "Verified" => verdict[s].payload = "own"
  /\ verdict[s].exact => verdict[s].drain = Taken(s)

Evidence(s, reason) == StrictFail(s, FALSE, 0, Times, 0, reason)
Evidences == {Evidence(s, r) : s \in Subs, r \in {"NONE", "BINDING_MISMATCH"}}

Judgements ==
  /\ \A h \in Handlers : Sound(handler[h])
  /\ \A s \in Subs : SoundVerdict(s)
  /\ evidence \in [Subs -> Seq(Evidences)]

LEMMA SoundGoesOn ==
  ASSUME Types, Judgements, NEW h \in Handlers, NEW n, Sound(n), UNCHANGED poc,
         handler' = [handler EXCEPT ![h] = n]
  PROVE  (\A g \in Handlers : Sound(handler[g]))'
BY DEF Types, HandlerTypes, Judgements, Sound, SoundOutcome, Taken

LEMMA RestingSound == Sound(Resting)
BY DEF Resting, NoOutcome, Sound, SoundOutcome

LEMMA FailureSound ==
  ASSUME NEW hd \in HandlerType, Sound(hd), NEW r \in Reasons
  PROVE  Sound(Judged(hd, Fail(r)))
<1> DEFINE n == Judged(hd, Fail(r))
<1>1. n.phase = "gate" /\ n.outcome = Fail(r)
  BY DEF Judged, HandlerType
<1>2. ~Fail(r).isValid /\ Fail(r).drain = 0
  BY DEF Fail, NoOutcome
<1> HIDE DEF n
<1>3. Sound(n)
  BY <1>1, <1>2 DEF Sound, SoundOutcome
<1> QED BY <1>3 DEF n

\* A drain that counts as exact was measured from the untouched base.
LEMMA RunSound ==
  ASSUME Types, Untouched, Judgements, NEW h \in Handlers, Execute(h)
  PROVE  (\A g \in Handlers : Sound(handler[g]))'
<1> DEFINE hd == handler[h]
           id == hd.info.snapshot
           s  == hd.sub
<1>1. hd \in HandlerType /\ s \in Subs /\ id \in Ids
  BY DEF Execute, Types, HandlerTypes, HandlerType, VnetType
<1>2. ValidSetup(poc[s].setup) /\ hd.info.status = "Active" /\ hd.phase = "execute"
  BY DEF Execute, Admissible
<1>3. PICK gap \in {"none", "pre", "post"}, ok \in BOOLEAN :
        LET drain   == Measured(Prepared(id, s), s, gap)
            isValid == ok /\ drain > 0
        IN  handler' = [handler EXCEPT ![h] = Judged(@,
              [isValid |-> isValid, drain |-> Recorded(isValid, drain),
               reason |-> "NONE", exact |-> Restores(id) /\ gap = "none"])]
  BY DEF Execute
<1> DEFINE drain   == Measured(Prepared(id, s), s, gap)
           isValid == ok /\ drain > 0
           o       == [isValid |-> isValid, drain |-> Recorded(isValid, drain),
                       reason |-> "NONE", exact |-> Restores(id) /\ gap = "none"]
           n       == Judged(hd, o)
<1>4. ASSUME Restores(id), gap = "none" PROVE drain = Taken(s)
  <2>1. id # NoSnapshot /\ fork.taken[id] # -1 /\ Base(id) = fork.taken[id]
    BY <1>4 DEF Restores, Base
  <2>2. id = vnet.snapshot
    BY <1>2 DEF Untouched
  <2>3. Base(id) = Balance
    BY <2>1, <2>2 DEF Untouched
  <2>4. Prepared(id, s) = AfterSetup(Balance, poc[s].setup)
    BY <2>3 DEF Prepared
  <2>5. drain = Lesser(Takes[s], Prepared(id, s))
    BY <1>1, <1>2, <1>4, RunBounded
  <2> QED BY <2>4, <2>5 DEF Taken
<1>5. n.phase = "gate" /\ n.outcome = o /\ n.sub = s /\ n.payload = hd.payload
  BY <1>1 DEF Judged, HandlerType
<1>6. hd.payload = "own"
  BY <1>2 DEF Judgements, Sound
<1>7. /\ ~o.isValid => o.drain = 0
      /\ o.isValid => o.drain = drain
      /\ o.exact => Restores(id) /\ gap = "none"
  BY DEF Recorded
<1> HIDE DEF o, drain
<1>8. Sound(n)
  <2> HIDE DEF n
  <2> QED BY <1>4, <1>5, <1>6, <1>7 DEF Sound, SoundOutcome
<1>9. handler' = [handler EXCEPT ![h] = n] /\ UNCHANGED poc
  BY <1>3 DEF o, drain, Execute, hubVars
<1> HIDE DEF n
<1> QED BY <1>8, <1>9, SoundGoesOn

LEMMA GateSound ==
  ASSUME Types, Judgements, NEW h \in Handlers, GateEmits(h) \/ GateWrites(h)
  PROVE  (\A g \in Handlers : Sound(handler[g]))'
<1> DEFINE hd == handler[h]
<1>1. hd \in HandlerType /\ Sound(hd) /\ UNCHANGED poc
  BY DEF Types, HandlerTypes, Judgements, GateEmits, GateWrites, hubVars
<1>2. CASE GateEmits(h)
  <2> DEFINE n == [hd EXCEPT !.phase = "emit"]
  <2>1. ~hd.outcome.isValid /\ hd.outcome.reason \in {"NONE", "BINDING_MISMATCH"}
    BY <1>1, <1>2 DEF GateEmits, StrictGate, Gate, HandlerType, OutcomeType, Reasons
  <2>2. n.phase = "emit" /\ n.outcome = hd.outcome /\ n.payload = hd.payload /\ n.sub = hd.sub
    BY <1>1 DEF HandlerType
  <2>3. handler' = [handler EXCEPT ![h] = n]
    BY <1>2 DEF GateEmits
  <2> HIDE DEF n
  <2>4. Sound(n)
    BY <1>1, <2>1, <2>2 DEF Sound, SoundOutcome
  <2> QED BY <1>1, <2>3, <2>4, SoundGoesOn
<1>3. CASE GateWrites(h)
  <2> DEFINE n == [hd EXCEPT !.phase = "write"]
  <2>1. hd.outcome.isValid
    BY <1>1, <1>3 DEF GateWrites, StrictGate, Gate, HandlerType, OutcomeType
  <2>2. n.phase = "write" /\ n.outcome = hd.outcome /\ n.payload = hd.payload /\ n.sub = hd.sub
    BY <1>1 DEF HandlerType
  <2>3. handler' = [handler EXCEPT ![h] = n]
    BY <1>3 DEF GateWrites
  <2> HIDE DEF n
  <2>4. Sound(n)
    BY <1>1, <2>1, <2>2 DEF Sound, SoundOutcome
  <2> QED BY <1>1, <2>3, <2>4, SoundGoesOn
<1> QED BY <1>2, <1>3

LEMMA ReadSound ==
  ASSUME Types, Judgements, NEW h \in Handlers, NEW answer, ReadPoC(h, answer)
  PROVE  (\A g \in Handlers : Sound(handler[g]))'
<1> DEFINE hd == handler[h]
           n  == [hd EXCEPT !.phase = "execute", !.payload = oasis[hd.sub]]
<1>1. hd \in HandlerType /\ hd.phase = "read" /\ Sound(hd) /\ UNCHANGED poc
  BY DEF Types, HandlerTypes, Judgements, ReadPoC, hubVars
<1>2. \/ \E r \in Reasons : handler' = [handler EXCEPT ![h] = Judged(@, Fail(r))]
      \/ handler' = [handler EXCEPT ![h] = n] /\ Obtained(hd.sub)
  BY DEF ReadPoC, Reasons
<1>3. CASE \E r \in Reasons : handler' = [handler EXCEPT ![h] = Judged(@, Fail(r))]
  BY <1>1, <1>3, FailureSound, SoundGoesOn
<1>4. CASE handler' = [handler EXCEPT ![h] = n] /\ Obtained(hd.sub)
  <2>1. oasis[hd.sub] = "own"
    BY <1>4 DEF Obtained, Validated
  <2>2. n.phase = "execute" /\ n.payload = "own" /\ n.outcome = hd.outcome /\ n.sub = hd.sub
    BY <1>1, <2>1 DEF HandlerType
  <2> HIDE DEF n
  <2>3. Sound(n)
    BY <1>1, <2>2 DEF Sound, SoundOutcome
  <2> QED BY <1>1, <1>4, <2>3, SoundGoesOn
<1> QED BY <1>2, <1>3, <1>4

LEMMA WriteSound ==
  ASSUME Types, Judgements, NEW h \in Handlers, WriteReport(h)
  PROVE  Judgements'
<1> DEFINE hd == handler[h]
           n  == [hd EXCEPT !.phase = "mark"]
           v  == [drain |-> ContractReport(ReportOf(h)).drainAmountWei,
                  exact |-> hd.outcome.exact, payload |-> hd.payload]
<1>1. hd \in HandlerType /\ hd.sub \in Subs /\ hd.phase = "write" /\ Sound(hd)
  BY DEF Types, HandlerTypes, Judgements, WriteReport
<1>2. UNCHANGED <<poc, evidence>> /\ handler' = [handler EXCEPT ![h] = n]
  BY DEF WriteReport
<1>3. n.phase = "mark" /\ n.payload = hd.payload /\ n.outcome = hd.outcome /\ n.sub = hd.sub
  BY <1>1 DEF HandlerType
<1>4. v.drain = hd.outcome.drain
  BY DEF ContractReport, ReportOf, StrictPass, Envelope, ResultPayload
<1>5. v.payload = "own" /\ (v.exact => v.drain = Taken(hd.sub))
  BY <1>1, <1>4 DEF Sound, SoundOutcome
<1>6. \/ UNCHANGED <<status, verdict>>
      \/ /\ status' = [status EXCEPT ![hd.sub] = "Verified"]
         /\ verdict' = [verdict EXCEPT ![hd.sub] = v]
  BY DEF WriteReport
<1> HIDE DEF n, v
<1>7. Sound(n)
  BY <1>1, <1>3 DEF Sound, SoundOutcome
<1>8. (\A g \in Handlers : Sound(handler[g]))'
  BY <1>2, <1>7, SoundGoesOn
<1>9. (\A s \in Subs : SoundVerdict(s))'
  BY <1>1, <1>2, <1>5, <1>6 DEF Types, HubTypes, Judgements, SoundVerdict, Taken
<1> QED BY <1>2, <1>8, <1>9 DEF Judgements

LEMMA EmitSound ==
  ASSUME Types, Judgements, NEW h \in Handlers, EmitEvidence(h)
  PROVE  evidence' \in [Subs -> Seq(Evidences)]
<1> DEFINE hd == handler[h]
<1>1. hd \in HandlerType /\ hd.sub \in Subs /\ hd.phase = "emit" /\ Sound(hd)
  BY DEF Types, HandlerTypes, Judgements, EmitEvidence
<1>2. /\ hd.outcome.isValid = FALSE /\ hd.outcome.drain = 0
      /\ hd.outcome.reason \in {"NONE", "BINDING_MISMATCH"}
  BY <1>1 DEF Sound, SoundOutcome, HandlerType, OutcomeType
<1>3. EvidenceOf(h) = Evidence(hd.sub, hd.outcome.reason)
  BY <1>2 DEF EvidenceOf, Evidence
<1>4. EvidenceOf(h) \in Evidences
  BY <1>1, <1>2, <1>3 DEF Evidences
<1>5. evidence' = [evidence EXCEPT ![hd.sub] = Append(@, EvidenceOf(h))]
  BY DEF EmitEvidence
<1>6. evidence \in [Subs -> Seq(Evidences)]
  BY DEF Judgements
<1>7. Append(evidence[hd.sub], EvidenceOf(h)) \in Seq(Evidences)
  BY <1>1, <1>4, <1>6
<1> QED BY <1>1, <1>5, <1>6, <1>7

\* Handlers that start, stop or have a failure to judge
LEMMA OtherHandlersSound ==
  ASSUME Types, Judgements, NEW h \in Handlers, UNCHANGED poc,
         \/ Rest(h)
         \/ \E r \in Reasons : handler' = [handler EXCEPT ![h] = Judged(@, Fail(r))]
         \/ \E s \in Subs : handler' = [handler EXCEPT ![h] =
              [Resting EXCEPT !.phase = "read", !.sub = s, !.info = VnetInfo]]
  PROVE  (\A g \in Handlers : Sound(handler[g]))'
<1>1. handler[h] \in HandlerType /\ Sound(handler[h])
  BY DEF Types, HandlerTypes, Judgements
<1>2. CASE Rest(h)
  BY <1>2, RestingSound, SoundGoesOn DEF Rest
<1>3. CASE \E r \in Reasons : handler' = [handler EXCEPT ![h] = Judged(@, Fail(r))]
  BY <1>1, <1>3, FailureSound, SoundGoesOn
<1>4. ASSUME NEW s \in Subs,
             handler' = [handler EXCEPT ![h] =
               [Resting EXCEPT !.phase = "read", !.sub = s, !.info = VnetInfo]]
      PROVE  (\A g \in Handlers : Sound(handler[g]))'
  <2> DEFINE n == [Resting EXCEPT !.phase = "read", !.sub = s, !.info = VnetInfo]
  <2>1. n.phase = "read" /\ n.outcome = NoOutcome
    BY DEF Resting
  <2>a. ~NoOutcome.isValid /\ NoOutcome.drain = 0
    BY DEF NoOutcome
  <2> HIDE DEF n
  <2>2. Sound(n)
    BY <2>1, <2>a DEF Sound, SoundOutcome
  <2> QED BY <1>4, <2>2, SoundGoesOn DEF n
<1> QED BY <1>2, <1>3, <1>4

LEMMA HandlerStepSound ==
  ASSUME Types, Untouched, Judgements, NEW h \in Handlers, HandlerStep(h)
  PROVE  Judgements'
<1>1. CASE WriteReport(h)
  BY <1>1, WriteSound
<1>2. CASE ~WriteReport(h)
  <2>1. UNCHANGED hubVars
    BY <1>2 DEF HandlerStep, Execute, ExecuteLost, GateRetries, GateEmits, EmitEvidence,
         GateWrites, MarkCompleted, HandlerThrows, Quarantine, ReadPoC, Refuse
  <2>2. evidence' \in [Subs -> Seq(Evidences)]
    <3>1. CASE UNCHANGED evidence
      BY <3>1 DEF Judgements
    <3> QED BY <1>2, <3>1, EmitSound DEF HandlerStep, Execute, ExecuteLost, GateRetries,
         GateEmits, GateWrites, MarkCompleted, HandlerThrows, Quarantine, ReadPoC, Refuse
  <2>3. (\A g \in Handlers : Sound(handler[g]))'
    <3> USE DEF hubVars
    <3>1. CASE Execute(h)
      BY <3>1, RunSound
    <3>2. CASE \/ GateRetries(h) \/ HandlerThrows(h) \/ EmitEvidence(h) \/ MarkCompleted(h)
      BY <2>1, <3>2, OtherHandlersSound DEF GateRetries, HandlerThrows, Quarantine,
           EmitEvidence, MarkCompleted
    <3>3. CASE GateEmits(h) \/ GateWrites(h)
      BY <3>3, GateSound
    <3>4. CASE \E answer \in Answers : ReadPoC(h, answer)
      BY <3>4, ReadSound
    <3>5. CASE ExecuteLost(h) \/ \E forkHash, sourceHash \in Hashes : Refuse(h, forkHash, sourceHash)
      BY <2>1, <3>5, OtherHandlersSound DEF ExecuteLost, Refuse, Reasons
    <3> QED BY <1>2, <3>1, <3>2, <3>3, <3>4, <3>5 DEF HandlerStep
  <2>4. (\A s \in Subs : SoundVerdict(s))'
    BY <2>1 DEF hubVars, Judgements, SoundVerdict, Taken
  <2> QED BY <2>2, <2>3, <2>4 DEF Judgements
<1> QED BY <1>1, <1>2

LEMMA JudgementsInit == Init => Judgements
<1> SUFFICES ASSUME Init PROVE Judgements
  OBVIOUS
<1>1. \A h \in Handlers : Sound(handler[h])
  BY RestingSound DEF Init
<1>2. \A s \in Subs : SoundVerdict(s)
  BY DEF Init, SoundVerdict, NoVerdict
<1>3. evidence \in [Subs -> Seq(Evidences)]
  BY DEF Init
<1> QED BY <1>1, <1>2, <1>3 DEF Judgements

LEMMA JudgementsNext ==
  ASSUME Types, Untouched, Judgements, [Next]_vars
  PROVE  Judgements'
<1>1. ASSUME UNCHANGED <<status, verdict, poc, evidence>>,
             (\A g \in Handlers : Sound(handler[g]))'
      PROVE  Judgements'
  BY <1>1 DEF Judgements, SoundVerdict, Taken
<1>2. ASSUME UNCHANGED <<poc, handler>> PROVE (\A g \in Handlers : Sound(handler[g]))'
  BY <1>2 DEF Judgements, Sound, SoundOutcome, Taken
<1>3. ASSUME NEW i \in Inits, VnetInit(i) PROVE Judgements'
  BY <1>1, <1>2, <1>3 DEF VnetInit, CreateVnet, CreateVnetFails, CreateSnapshot, InitThrows,
       ReportVnet, hubVars
<1>4. ASSUME NEW h \in Handlers, NEW s \in Subs, OnPoCRevealed(h, s) PROVE Judgements'
  <2>1. UNCHANGED <<status, verdict, poc, evidence>>
    BY <1>4 DEF OnPoCRevealed, hubVars
  <2>2. UNCHANGED handler \/ handler' = [handler EXCEPT ![h] =
          [Resting EXCEPT !.phase = "read", !.sub = s, !.info = VnetInfo]]
    BY <1>4 DEF OnPoCRevealed
  <2> QED BY <1>1, <1>2, <2>1, <2>2, OtherHandlersSound
<1>5. ASSUME NEW s \in Subs, OpenJury(s) PROVE Judgements'
  <2>1. UNCHANGED <<verdict, poc, handler, evidence>>
    BY <1>5 DEF OpenJury
  <2>2. (\A t \in Subs : SoundVerdict(t))'
    BY <1>5, <2>1 DEF OpenJury, Types, HubTypes, Judgements, SoundVerdict, Taken
  <2> QED BY <1>2, <2>1, <2>2 DEF Judgements
<1>6. ASSUME NEW s \in Subs, Overwrite(s) PROVE Judgements'
  BY <1>1, <1>2, <1>6 DEF Overwrite, hubVars
<1>7. ASSUME NEW v \in Versions, Crash(v) PROVE Judgements'
  <2>1. UNCHANGED <<status, verdict, poc, evidence>>
    BY <1>7 DEF Crash, hubVars
  <2>2. \A g \in Handlers : handler'[g] = Resting
    BY <1>7 DEF Crash
  <2>3. (\A g \in Handlers : Sound(handler[g]))'
    BY <2>1, <2>2, RestingSound DEF Sound, SoundOutcome, Taken
  <2> QED BY <1>1, <2>1, <2>3
<1>8. CASE UNCHANGED vars
  BY <1>1, <1>2, <1>8 DEF vars, hubVars
<1> QED BY <1>3, <1>4, <1>5, <1>6, <1>7, <1>8, HandlerStepSound DEF Next

LEMMA JudgementsAlways == Spec => [](Types /\ Untouched /\ Judgements)
<1>1. Init => Types /\ Untouched /\ Judgements
  BY TypesInit, UntouchedInit, JudgementsInit
<1>2. Types /\ Untouched /\ Judgements /\ [Next]_vars => (Types /\ Untouched /\ Judgements)'
  BY TypesNext, UntouchedNext, JudgementsNext
<1> QED BY <1>1, <1>2, PTL DEF Spec

(* A drain measured from the base snapshot is what the PoC takes from the  *)
(* target as its own setup leaves it, whatever ran on the VNet before: the *)
(* snapshot is pristine, a handler reverts to the one BountyHub records,   *)
(* and what follows the revert is one batch.  validateSetupOps bounds what *)
(* a setup can add to any drain.                                           *)
THEOREM ExactDrainAlways == Spec => []ExactDrain
<1>1. Types /\ Judgements => ExactDrain
  BY DEF Types, HubTypes, VerdictType, Amounts, Judgements, SoundVerdict, Taken, ExactDrain
<1> QED BY <1>1, JudgementsAlways, PTL

(* A verdict is about the payload that was committed to, although the slot *)
(* may be rewritten at any time: validateOasisRpcPayload checks the copy   *)
(* that is then run.                                                       *)
THEOREM VerdictOnCommittedPayloadAlways == Spec => []VerdictOnCommittedPayload
<1>1. Judgements => VerdictOnCommittedPayload
  BY DEF Judgements, SoundVerdict, VerdictOnCommittedPayload
<1> QED BY <1>1, JudgementsAlways, PTL

-----------------------------------------------------------------------------
(* Evidence *)

Fields == {"severity", "juryWindow", "adjudicationWindow", "commitTimestampSec",
           "revealTimestampSec", "oasis"}

\* The adjudication part of a piece of evidence, field by field
LEMMA AdjudicationFields ==
  ASSUME NEW s \in Subs, NEW r \in {"NONE", "BINDING_MISMATCH"}
  PROVE  LET a == Adjudication(s, Times, 0, r)
         IN  /\ DOMAIN a = Fields \cup (IF r = "NONE" THEN {} ELSE {"reasonCode"})
             /\ a.severity = 0
             /\ a.juryWindow = Times.juryWindow /\ a.adjudicationWindow = Times.adjudicationWindow
             /\ a.commitTimestampSec = Times.committed /\ a.revealTimestampSec = Times.revealed
             /\ DOMAIN a.oasis = OasisKeys
             /\ r # "NONE" => a.reasonCode = r
<1> DEFINE o == [chain |-> "sapphire", contract |-> "store", slotId |-> s, envelopeHash |-> s]
           f == [severity |-> 0, juryWindow |-> Times.juryWindow,
                 adjudicationWindow |-> Times.adjudicationWindow,
                 commitTimestampSec |-> Times.committed, revealTimestampSec |-> Times.revealed,
                 oasis |-> o]
           a == Adjudication(s, Times, 0, r)
<1>1. a = IF r = "NONE" THEN f ELSE WithField(f, "reasonCode", r)
  BY DEF Adjudication
<1>2. DOMAIN f = Fields
  BY DEF Fields
<1>3. DOMAIN o = OasisKeys
  BY DEF OasisKeys
<1>4. /\ f.severity = 0 /\ f.juryWindow = Times.juryWindow
      /\ f.adjudicationWindow = Times.adjudicationWindow
      /\ f.commitTimestampSec = Times.committed /\ f.revealTimestampSec = Times.revealed
      /\ f.oasis = o
  OBVIOUS
<1> HIDE DEF f, o, a
<1>5. /\ DOMAIN a = Fields \cup (IF r = "NONE" THEN {} ELSE {"reasonCode"})
      /\ \A x \in Fields : a[x] = f[x]
      /\ r # "NONE" => a.reasonCode = r
  BY <1>1, <1>2 DEF WithField, Fields
<1>6. /\ a.severity = f.severity /\ a.juryWindow = f.juryWindow
      /\ a.adjudicationWindow = f.adjudicationWindow
      /\ a.commitTimestampSec = f.commitTimestampSec
      /\ a.revealTimestampSec = f.revealTimestampSec /\ a.oasis = f.oasis
  BY <1>5 DEF Fields
<1>7. /\ DOMAIN a = Fields \cup (IF r = "NONE" THEN {} ELSE {"reasonCode"})
      /\ a.severity = 0
      /\ a.juryWindow = Times.juryWindow /\ a.adjudicationWindow = Times.adjudicationWindow
      /\ a.commitTimestampSec = Times.committed /\ a.revealTimestampSec = Times.revealed
      /\ DOMAIN a.oasis = OasisKeys
      /\ r # "NONE" => a.reasonCode = r
  BY <1>3, <1>4, <1>5, <1>6
<1> QED BY <1>7 DEF a

LEMMA EvidenceRead ==
  ASSUME NEW s \in Subs, NEW r \in {"NONE", "BINDING_MISMATCH"},
         Times.juryWindow > 0, Times.adjudicationWindow > 0,
         Times.committed > 0, Times.revealed > 0
  PROVE  Dispatches(Evidence(s, r)) /\ OpensCase(Evidence(s, r))
<1> DEFINE a == Adjudication(s, Times, 0, r)
           p == ResultPayload(s, FALSE, 0)
           c == Commitment(s)
           e == [reportType |-> V3, payload |-> p, juryCommitment |-> c, adjudication |-> a]
<1>1. Evidence(s, r) = e
  BY DEF Evidence, StrictFail
<1>2. /\ DOMAIN a = Fields \cup (IF r = "NONE" THEN {} ELSE {"reasonCode"})
      /\ a.severity = 0
      /\ a.juryWindow = Times.juryWindow /\ a.adjudicationWindow = Times.adjudicationWindow
      /\ a.commitTimestampSec = Times.committed /\ a.revealTimestampSec = Times.revealed
      /\ DOMAIN a.oasis = OasisKeys
      /\ r # "NONE" => a.reasonCode = r
  BY AdjudicationFields
<1>3. /\ DOMAIN p = {"submissionId", "isValid", "drainAmountWei", "observedCalldata"}
      /\ p.isValid = FALSE /\ p.drainAmountWei = 0 /\ p.observedCalldata = <<>>
  BY DEF ResultPayload
<1>4. DOMAIN c = CommitmentKeys /\ c.commitmentVersion = CommitmentVersion
  BY DEF Commitment, CommitmentKeys
<1>5. /\ DOMAIN e = {"reportType", "payload", "juryCommitment", "adjudication"}
      /\ e.reportType = V3 /\ e.payload = p /\ e.juryCommitment = c /\ e.adjudication = a
  OBVIOUS
<1>6. V1 # V3 /\ V2 # V3
  BY DEF V1, V2, V3
<1> HIDE DEF a, p, c, e
<1>7. {a.juryWindow, a.adjudicationWindow, a.commitTimestampSec, a.revealTimestampSec} \subseteq Positive
  BY <1>2, VerifyAssumption DEF Positive
<1>8. /\ Only(a, AdjudicationKeys) /\ ~Has(a, "sapphireWriteTimestampSec")
      /\ Has(a, "reasonCode") => r # "NONE"
  BY <1>2 DEF Only, Has, AdjudicationKeys, Fields
<1>9. WellFormedPayload(p)
  <2>1. Only(p, PayloadKeys)
    BY <1>3 DEF Only, PayloadKeys
  <2>2. p.drainAmountWei \in NonNegative
    BY <1>3 DEF NonNegative
  <2>3. p.isValid \in BOOLEAN
    BY <1>3, Zenon
  <2> QED BY <2>1, <2>2, <2>3, Zenon DEF WellFormedPayload
<1>10. VerifyReadsAdjudication(a) /\ JuryReadsAdjudication(a)
  <2>1. WellFormedOasis(a.oasis) /\ JuryReadsOasis(a.oasis)
    BY <1>2 DEF WellFormedOasis, JuryReadsOasis
  <2>2. a.severity \in NonNegative /\ Positive \subseteq NonNegative
    BY <1>2 DEF NonNegative, Positive
  <2>3. Has(a, "reasonCode") => a.reasonCode \in ReasonCodes
    BY <1>2, <1>8 DEF ReasonCodes
  <2> QED BY <1>7, <1>8, <2>1, <2>2, <2>3 DEF VerifyReadsAdjudication, JuryReadsAdjudication
<1>11. WellFormedCommitment(c) /\ JuryReadsCommitment(c)
  BY <1>4 DEF WellFormedCommitment, JuryReadsCommitment
<1>12. DecodesTyped(e) /\ JuryReads(e)
  BY <1>5, <1>6, <1>9, <1>10, <1>11 DEF DecodesTyped, JuryReads, Only, Has
<1>13. Gate(e.payload.isValid, ReasonOf(e)) = "EMIT_EVIDENCE"
  <2>1. ReasonOf(e) \in {"NONE", "BINDING_MISMATCH"}
    BY <1>2, <1>5, <1>8 DEF ReasonOf
  <2> QED BY <1>3, <1>5, <2>1 DEF Gate
<1>14. NoAuthorityBypass(e)
  BY <1>3, <1>5 DEF NoAuthorityBypass
<1>15. Dispatches(e) /\ OpensCase(e)
  BY <1>3, <1>5, <1>12, <1>13, <1>14 DEF Dispatches, OpensCase
<1> QED BY <1>1, <1>15

(* Whatever evidence is handed out is passed on by the simulator and opens *)
(* a case of the jury: what buildVerifyPocStrictFailEvidenceEnvelope makes *)
(* lies in what decodeVerifyPocReportEnvelope and                          *)
(* parseVerifiedReportEnvelope both read.  The windows of the project have *)
(* to be positive, which registerProject does not ask.                     *)
THEOREM EvidenceOpensCaseAlways ==
  ASSUME Times.juryWindow > 0, Times.adjudicationWindow > 0,
         Times.committed > 0, Times.revealed > 0
  PROVE  Spec => []EvidenceOpensCase
<1>1. Judgements => EvidenceOpensCase
  <2> SUFFICES ASSUME Judgements, NEW s \in Subs, NEW i \in DOMAIN evidence[s]
               PROVE  Dispatches(evidence[s][i]) /\ OpensCase(evidence[s][i])
    BY DEF EvidenceOpensCase
  <2>1. evidence[s] \in Seq(Evidences)
    BY DEF Judgements
  <2>2. evidence[s][i] \in Evidences
    BY <2>1
  <2>3. PICK t \in Subs, r \in {"NONE", "BINDING_MISMATCH"} : evidence[s][i] = Evidence(t, r)
    BY <2>2 DEF Evidences
  <2> QED BY <2>3, EvidenceRead
<1> QED BY <1>1, JudgementsAlways, PTL

-----------------------------------------------------------------------------
(* The idempotency store *)

Judging == {"read", "execute", "gate", "write"}
Busy(h) == handler[h].phase # "idle"

\* What the file says of a submission agrees with BountyHub and with the evidence given.
Agrees(s) ==
  /\ file.status[s] = "none" => status[s] = "Revealed"
  /\ file.status[s] = "strict_failed" => status[s] # "Verified"
  /\ file.status[s] = "completed" => status[s] = "Verified" \/ s \in refused
  /\ evidence[s] # <<>> => file.status[s] = "strict_failed"
  /\ status[s] = "JuryPending" => evidence[s] # <<>>
  /\ Len(evidence[s]) <= 1

\* A handler that is judging has its event in progress and nothing decided.
Claim(h) ==
  LET s == handler[h].sub
  IN  /\ handler[h].phase \in Judging => file.status[s] = "processing" /\ status[s] = "Revealed"
      /\ handler[h].phase = "mark" =>
           file.status[s] = "processing" /\ (status[s] = "Verified" \/ s \in refused)
      /\ handler[h].phase = "emit" => file.status[s] = "strict_failed" /\ evidence[s] = <<>>

Ledger ==
  /\ loaded => mem = file
  /\ ~loaded => \A h \in Handlers : ~Busy(h)
  /\ \A s \in Subs : Agrees(s)
  /\ \A h \in Handlers : Claim(h)
  /\ \A g, h \in Handlers : g # h /\ Busy(g) /\ Busy(h) => handler[g].sub # handler[h].sub

LEMMA LedgerInit == Init => Ledger
BY DEF Init, Ledger, Agrees, Claim, Busy, EmptyStore, Resting, Judging

\* A step on one submission by the one handler that works on it
LEMMA LedgerStep ==
  ASSUME Types, Ledger, NEW h \in Handlers, NEW s \in Subs,
         \A g \in Handlers \ {h} : Busy(g) => handler[g].sub # s,
         \A g \in Handlers \ {h} : handler'[g] = handler[g],
         \A t \in Subs \ {s} : /\ file'.status[t] = file.status[t]
                               /\ status'[t] = status[t] /\ evidence'[t] = evidence[t],
         loaded', mem' = file', refused \subseteq refused',
         Busy(h)' => handler'[h].sub = s,
         Agrees(s)', Claim(h)'
  PROVE  Ledger'
<1>1. \A t \in Subs : Agrees(t)'
  BY DEF Ledger, Agrees
<1>2. ASSUME NEW g \in Handlers PROVE Claim(g)'
  <2>1. CASE g = h
    BY <2>1
  <2>2. CASE g # h /\ Busy(g)
    <3>1. handler[g].sub \in Subs \ {s} /\ handler'[g] = handler[g] /\ Claim(g)
      BY <2>2 DEF Busy, Types, HandlerTypes, Ledger
    <3> QED BY <3>1 DEF Claim
  <2>3. CASE g # h /\ ~Busy(g)
    BY <2>3 DEF Claim, Busy, Judging
  <2> QED BY <2>1, <2>2, <2>3
<1>3. \A f, g \in Handlers : f # g /\ Busy(f)' /\ Busy(g)' => handler'[f].sub # handler'[g].sub
  BY DEF Ledger, Busy
<1> QED BY <1>1, <1>2, <1>3 DEF Ledger

\* What a busy handler works on is nobody else's.
LEMMA AloneOn ==
  ASSUME Types, Ledger, NEW h \in Handlers, Busy(h)
  PROVE  /\ handler[h].sub \in Subs /\ handler[h] \in HandlerType /\ Agrees(handler[h].sub)
         /\ loaded /\ mem = file /\ Claim(h)
         /\ \A g \in Handlers \ {h} : Busy(g) => handler[g].sub # handler[h].sub
         /\ file.status \in [Subs -> {"none", "processing", "quarantined", "completed",
                                      "strict_failed"}]
BY DEF Types, HandlerTypes, StoreTypes, StoreType, Ledger, Busy

\* Reading, running and judging leave store and chain alone.
LEMMA JudgingKeepsLedger ==
  ASSUME Types, Ledger, NEW h \in Handlers, handler[h].phase \in Judging,
         UNCHANGED <<file, mem, loaded, status, refused, evidence>>,
         NEW n, n.phase \in Judging, n.sub = handler[h].sub,
         handler' = [handler EXCEPT ![h] = n]
  PROVE  Ledger'
<1>1. Busy(h)
  BY DEF Busy, Judging
<1>s. PICK s \in Subs : s = handler[h].sub
  BY <1>1, AloneOn
<1>2. /\ s \in Subs /\ Agrees(s) /\ loaded /\ mem = file /\ Claim(h)
      /\ \A g \in Handlers \ {h} : Busy(g) => handler[g].sub # s
  BY <1>s, <1>1, AloneOn
<1>3. handler'[h] = n /\ \A g \in Handlers \ {h} : handler'[g] = handler[g]
  BY DEF Types, HandlerTypes
<1>4. Agrees(s)'
  BY <1>s, <1>2 DEF Agrees
<1>5. Claim(h)'
  BY <1>s, <1>2, <1>3 DEF Claim, Judging
<1>6. Busy(h)' => handler'[h].sub = s
  BY <1>s, <1>3
<1> QED BY <1>s, <1>2, <1>3, <1>4, <1>5, <1>6, LedgerStep

\* Marking the event of a handler
LEMMA MarkKeepsLedger ==
  ASSUME Types, Ledger, NEW h \in Handlers, Busy(h), Durable,
         NEW st \in {"quarantined", "completed", "strict_failed"}, Mark(handler[h].sub, st),
         UNCHANGED <<status, refused, evidence>>,
         \A g \in Handlers \ {h} : handler'[g] = handler[g],
         \/ handler'[h].phase = "idle" /\ st = "quarantined" /\ handler[h].phase \in Judging
         \/ handler'[h].phase = "idle" /\ st = "completed" /\ handler[h].phase = "mark"
         \/ /\ handler'[h].phase = "emit" /\ st = "strict_failed"
            /\ handler[h].phase \in Judging /\ handler'[h].sub = handler[h].sub
  PROVE  Ledger'
<1>s. PICK s \in Subs : s = handler[h].sub
  BY AloneOn
<1>1. /\ s \in Subs /\ Agrees(s) /\ loaded /\ mem = file /\ Claim(h)
      /\ \A g \in Handlers \ {h} : Busy(g) => handler[g].sub # s
      /\ file.status \in [Subs -> {"none", "processing", "quarantined", "completed",
                                   "strict_failed"}]
  BY <1>s, AloneOn
<1>2. file' = [file EXCEPT !.status[s] = st] /\ mem' = file' /\ loaded'
  BY <1>s, <1>1 DEF Mark, Persist
<1>3. file'.status[s] = st /\ \A t \in Subs \ {s} : file'.status[t] = file.status[t]
  BY <1>s, <1>1, <1>2 DEF Types, StoreTypes, StoreType
<1>4. file.status[s] = "processing"
  BY <1>s, <1>1 DEF Claim
<1>5. evidence[s] = <<>> /\ status[s] # "JuryPending"
  BY <1>s, <1>1, <1>4 DEF Agrees
<1>6. Agrees(s)'
  <2>1. Len(evidence'[s]) <= 1
    BY <1>s, <1>1 DEF Agrees
  <2>2. st = "completed" => status[s] = "Verified" \/ s \in refused
    BY <1>s, <1>1 DEF Claim, Judging
  <2>3. st = "strict_failed" => status[s] # "Verified"
    BY <1>s, <1>1 DEF Claim, Judging
  <2> QED BY <1>3, <1>5, <2>1, <2>2, <2>3 DEF Agrees
<1>7. Claim(h)'
  BY <1>s, <1>3, <1>5 DEF Claim, Judging
<1>8. Busy(h)' => handler'[h].sub = s
  BY <1>s DEF Busy
<1> QED BY <1>s, <1>1, <1>2, <1>3, <1>6, <1>7, <1>8, LedgerStep

LEMMA WriteKeepsLedger ==
  ASSUME Types, Ledger, NEW h \in Handlers, WriteReport(h)
  PROVE  Ledger'
<1> DEFINE n == [handler[h] EXCEPT !.phase = "mark"]
<1>1. Busy(h) /\ handler[h].phase = "write"
  BY DEF Busy, WriteReport
<1>s. PICK s \in Subs : s = handler[h].sub
  BY <1>1, AloneOn
<1>2. /\ s \in Subs /\ Agrees(s) /\ loaded /\ mem = file /\ Claim(h)
      /\ \A g \in Handlers \ {h} : Busy(g) => handler[g].sub # s
      /\ handler[h] \in HandlerType
  BY <1>s, <1>1, AloneOn
<1>3. handler' = [handler EXCEPT ![h] = n]
  BY DEF WriteReport
<1>4. n.phase = "mark" /\ n.sub = s
  BY <1>s, <1>2 DEF HandlerType
<1>5. handler'[h] = n /\ \A g \in Handlers \ {h} : handler'[g] = handler[g]
  BY <1>s, <1>3 DEF Types, HandlerTypes
<1>6. UNCHANGED <<file, mem, loaded, evidence>>
  BY DEF WriteReport, storeVars
<1>7. file.status[s] = "processing" /\ status[s] = "Revealed"
  BY <1>s, <1>1, <1>2 DEF Claim, Judging
<1>8. /\ refused \subseteq refused'
      /\ \/ status' = [status EXCEPT ![s] = "Verified"]
         \/ status' = status /\ s \in refused'
  BY <1>s DEF WriteReport
<1>9. /\ status'[s] = "Verified" \/ (status'[s] = "Revealed" /\ s \in refused')
      /\ \A t \in Subs \ {s} : status'[t] = status[t]
  BY <1>s, <1>2, <1>7, <1>8 DEF Types, HubTypes
<1>10. Agrees(s)'
  BY <1>s, <1>2, <1>6, <1>7, <1>9 DEF Agrees
<1>11. Claim(h)'
  BY <1>s, <1>4, <1>5, <1>6, <1>7, <1>9 DEF Claim, Judging
<1>12. Busy(h)' => handler'[h].sub = s
  BY <1>s, <1>4, <1>5
<1> HIDE DEF n
<1> QED BY <1>s, <1>2, <1>5, <1>6, <1>8, <1>9, <1>10, <1>11, <1>12, LedgerStep

LEMMA EmitKeepsLedger ==
  ASSUME Types, Judgements, Ledger, NEW h \in Handlers, EmitEvidence(h)
  PROVE  Ledger'
<1> DEFINE e == EvidenceOf(h)
<1>1. Busy(h) /\ handler[h].phase = "emit"
  BY DEF Busy, EmitEvidence
<1>s. PICK s \in Subs : s = handler[h].sub
  BY <1>1, AloneOn
<1>2. /\ s \in Subs /\ Agrees(s) /\ loaded /\ mem = file /\ Claim(h)
      /\ \A g \in Handlers \ {h} : Busy(g) => handler[g].sub # s
  BY <1>s, <1>1, AloneOn
<1>3. /\ handler'[h] = Resting /\ \A g \in Handlers \ {h} : handler'[g] = handler[g]
      /\ UNCHANGED <<file, mem, loaded, status, refused>>
  BY DEF EmitEvidence, Rest, Types, HandlerTypes, storeVars, hubVars
<1>4. evidence' = [evidence EXCEPT ![s] = Append(evidence[s], e)]
  BY <1>s DEF EmitEvidence
<1>5. file.status[s] = "strict_failed" /\ evidence[s] = <<>>
  BY <1>s, <1>1, <1>2 DEF Claim
<1>6. evidence'[s] = Append(<<>>, e) /\ \A t \in Subs \ {s} : evidence'[t] = evidence[t]
  BY <1>s, <1>2, <1>4, <1>5 DEF Judgements
<1> HIDE DEF e
<1>7. Append(<<>>, e) # <<>> /\ Len(Append(<<>>, e)) = 1
  <2>1. <<>> \in Seq({e})
    OBVIOUS
  <2> QED BY <2>1
<1>8. Agrees(s)'
  BY <1>s, <1>2, <1>3, <1>5, <1>6, <1>7 DEF Agrees
<1>9. Claim(h)' /\ (Busy(h)' => handler'[h].sub = s)
  BY <1>s, <1>3 DEF Claim, Busy, Resting, Judging
<1> QED BY <1>s, <1>2, <1>3, <1>6, <1>8, <1>9, LedgerStep

\* Loading the store quarantines what was in progress; and when it is loaded, nobody is at
\* work on it.
LEMMA StoreAgrees ==
  ASSUME Types, Ledger, Durable, NEW s \in Subs
  PROVE  /\ \A t \in Subs : \/ Store.status[t] = file.status[t]
                            \/ /\ ~loaded /\ file.status[t] = "processing"
                               /\ Store.status[t] = "quarantined"
         /\ Mapped(Store, s).status = Store.status
<1>1. Store \in StoreType
  BY StoreIsTyped DEF Types
<1>2. Mapped(Store, s).status = Store.status
  <2> DEFINE st == Store
  <2>1. st \in StoreType
    BY <1>1
  <2> HIDE DEF st
  <2>2. Mapped(st, s).status = st.status
    BY <2>1 DEF Mapped, StoreType
  <2> QED BY <2>2 DEF st
<1>3. CASE loaded
  BY <1>2, <1>3 DEF Store, Ledger
<1>4. CASE ~loaded
  <2>1. Store = Recovered(file)
    BY <1>4 DEF Store
  <2>2. Recovered(file).status =
          [t \in Subs |-> IF file.status[t] = "processing" THEN "quarantined" ELSE file.status[t]]
    BY DEF Recovered, Types, StoreTypes, StoreType
  <2> QED BY <1>2, <1>4, <2>1, <2>2
<1> QED BY <1>3, <1>4

LEMMA RevealKeepsLedger ==
  ASSUME Types, Ledger, Durable, NEW h \in Handlers, NEW s \in Subs, OnPoCRevealed(h, s)
  PROVE  Ledger'
<1>1. UNCHANGED <<status, refused, evidence>> /\ handler[h].phase = "idle"
  BY DEF OnPoCRevealed, hubVars
<1>2. /\ \A t \in Subs : \/ Store.status[t] = file.status[t]
                         \/ /\ ~loaded /\ file.status[t] = "processing"
                            /\ Store.status[t] = "quarantined"
      /\ Mapped(Store, s).status = Store.status
  BY StoreAgrees
<1>3. Store \in StoreType /\ Mapped(Store, s) \in StoreType
  BY StoreIsTyped DEF Types
<1>4. loaded' /\ mem' = file'
  BY DEF OnPoCRevealed, Persist
<1>5. CASE ~(~Rejects(s) /\ Claimable(Mapped(Store, s).status[s]))
  <2>1. UNCHANGED handler /\ file'.status = Store.status
    BY <1>2, <1>5 DEF OnPoCRevealed, Persist
  <2>2. \A t \in Subs : \/ file'.status[t] = file.status[t]
                        \/ /\ ~loaded /\ file.status[t] = "processing"
                           /\ file'.status[t] = "quarantined"
    BY <1>2, <2>1
  <2>3. \A t \in Subs : Agrees(t)'
    BY <1>1, <2>2 DEF Ledger, Agrees
  <2>4. \A g \in Handlers : Claim(g)'
    <3> SUFFICES ASSUME NEW g \in Handlers PROVE Claim(g)'
      OBVIOUS
    <3>1. CASE ~Busy(g)
      BY <2>1, <3>1 DEF Claim, Busy, Judging
    <3>2. CASE Busy(g)
      <4>1. loaded /\ handler[g].sub \in Subs /\ Claim(g)
        BY <3>2, AloneOn
      <4>2. file'.status[handler[g].sub] = file.status[handler[g].sub]
        BY <2>2, <4>1
      <4> QED BY <1>1, <2>1, <4>1, <4>2 DEF Claim
    <3> QED BY <3>1, <3>2
  <2> QED BY <1>4, <2>1, <2>3, <2>4 DEF Ledger, Busy
<1>6. CASE ~Rejects(s) /\ Claimable(Mapped(Store, s).status[s])
  <2> DEFINE m == Mapped(Store, s)
             n == [Resting EXCEPT !.phase = "read", !.sub = s, !.info = VnetInfo]
  <2>1. handler' = [handler EXCEPT ![h] = n] /\ file' = [m EXCEPT !.status[s] = "processing"]
    BY <1>6 DEF OnPoCRevealed, Persist
  <2>2. n.phase = "read" /\ n.sub = s
    BY DEF Resting
  <2>3. m \in StoreType /\ m.status = Store.status
    BY <1>2, <1>3
  <2>4. m.status[s] = "none"
    BY <1>6 DEF Claimable
  <2> HIDE DEF n, m
  <2>5. handler'[h] = n /\ \A g \in Handlers \ {h} : handler'[g] = handler[g]
    BY <2>1 DEF Types, HandlerTypes
  <2>6. file'.status[s] = "processing" /\ \A t \in Subs \ {s} : file'.status[t] = m.status[t]
    BY <2>1, <2>3 DEF StoreType
  <2>7. file.status[s] = "none"
    BY <1>2, <2>3, <2>4
  <2>8. status[s] = "Revealed" /\ evidence[s] = <<>> /\ Agrees(s)
    BY <2>7 DEF Ledger, Agrees
  <2>9. \A t \in Subs \ {s} : \/ file'.status[t] = file.status[t]
                              \/ /\ ~loaded /\ file.status[t] = "processing"
                                 /\ file'.status[t] = "quarantined"
    BY <1>2, <2>3, <2>6
  <2>10. \A g \in Handlers : Busy(g) => loaded /\ handler[g].sub \in Subs \ {s} /\ Claim(g)
    <3> SUFFICES ASSUME NEW g \in Handlers, Busy(g)
                 PROVE  loaded /\ handler[g].sub \in Subs \ {s} /\ Claim(g)
      OBVIOUS
    <3>1. loaded /\ handler[g].sub \in Subs /\ Claim(g) /\ handler[g].phase \in Phases
      BY AloneOn DEF HandlerType
    <3>2. file.status[handler[g].sub] # "none"
      BY <3>1 DEF Claim, Busy, Judging, Phases
    <3> QED BY <2>7, <3>1, <3>2
  <2>11. Agrees(s)'
    BY <1>1, <2>6, <2>8 DEF Agrees
  <2>12. \A t \in Subs \ {s} : Agrees(t)'
    BY <1>1, <2>9 DEF Ledger, Agrees
  <2>13. Claim(h)'
    BY <1>1, <2>2, <2>5, <2>6, <2>8 DEF Claim, Judging
  <2>14. \A g \in Handlers \ {h} : Claim(g)'
    <3> SUFFICES ASSUME NEW g \in Handlers \ {h} PROVE Claim(g)'
      OBVIOUS
    <3>1. CASE ~Busy(g)
      BY <2>5, <3>1 DEF Claim, Busy, Judging
    <3>2. CASE Busy(g)
      <4>1. loaded /\ handler[g].sub \in Subs \ {s} /\ Claim(g)
        BY <2>10, <3>2
      <4>2. file'.status[handler[g].sub] = file.status[handler[g].sub]
        BY <2>9, <4>1
      <4> QED BY <1>1, <2>5, <4>1, <4>2 DEF Claim
    <3> QED BY <3>1, <3>2
  <2>15. \A f, g \in Handlers : f # g /\ Busy(f)' /\ Busy(g)' => handler'[f].sub # handler'[g].sub
    BY <2>2, <2>5, <2>10 DEF Ledger, Busy
  <2> QED BY <1>4, <2>11, <2>12, <2>13, <2>14, <2>15 DEF Ledger
<1> QED BY <1>5, <1>6

LEMMA HandlerStepKeepsLedger ==
  ASSUME Types, Judgements, Ledger, Durable, NEW h \in Handlers, HandlerStep(h)
  PROVE  Ledger'
<1>1. handler \in [Handlers -> HandlerType] /\ handler[h] \in HandlerType
  BY DEF Types, HandlerTypes
<1>2. \A o : Judged(handler[h], o).phase = "gate" /\ Judged(handler[h], o).sub = handler[h].sub
  BY <1>1 DEF Judged, HandlerType
<1>3. ASSUME NEW o, handler' = [handler EXCEPT ![h] = Judged(@, o)],
             handler[h].phase \in Judging, UNCHANGED <<file, mem, loaded, status, refused, evidence>>
      PROVE  Ledger'
  <2> DEFINE n == Judged(handler[h], o)
  <2>1. n.phase \in Judging /\ n.sub = handler[h].sub
    BY <1>2 DEF Judging
  <2>2. handler' = [handler EXCEPT ![h] = n]
    BY <1>3
  <2> HIDE DEF n
  <2> QED BY <1>3, <2>1, <2>2, JudgingKeepsLedger
<1>4. CASE Execute(h) \/ ExecuteLost(h)
  <2>1. \E o : handler' = [handler EXCEPT ![h] = Judged(@, o)]
    BY <1>4 DEF Execute, ExecuteLost
  <2> QED BY <1>3, <1>4, <2>1 DEF Execute, ExecuteLost, Judging, hubVars, storeVars
<1>5. CASE \E forkHash, sourceHash \in Hashes : Refuse(h, forkHash, sourceHash)
  BY <1>3, <1>5 DEF Refuse, Judging, hubVars, storeVars
<1>6. ASSUME NEW answer, ReadPoC(h, answer) PROVE Ledger'
  <2> DEFINE n == [handler[h] EXCEPT !.phase = "execute", !.payload = oasis[handler[h].sub]]
  <2>1. n.phase = "execute" /\ n.sub = handler[h].sub
    BY <1>1 DEF HandlerType
  <2>2. \/ \E o : handler' = [handler EXCEPT ![h] = Judged(@, o)]
        \/ handler' = [handler EXCEPT ![h] = n]
    BY <1>6 DEF ReadPoC
  <2>3. handler[h].phase \in Judging /\ UNCHANGED <<file, mem, loaded, status, refused, evidence>>
    BY <1>6 DEF ReadPoC, Judging, hubVars, storeVars
  <2> HIDE DEF n
  <2>4. n.phase \in Judging
    BY <2>1 DEF Judging
  <2> QED BY <1>3, <2>1, <2>2, <2>3, <2>4, JudgingKeepsLedger
<1>7. CASE GateWrites(h)
  <2> DEFINE n == [handler[h] EXCEPT !.phase = "write"]
  <2>1. n.phase = "write" /\ n.sub = handler[h].sub
    BY <1>1 DEF HandlerType
  <2>2. handler' = [handler EXCEPT ![h] = n]
    BY <1>7 DEF GateWrites
  <2>3. handler[h].phase \in Judging /\ UNCHANGED <<file, mem, loaded, status, refused, evidence>>
    BY <1>7 DEF GateWrites, Judging, hubVars, storeVars
  <2> HIDE DEF n
  <2>4. n.phase \in Judging
    BY <2>1 DEF Judging
  <2> QED BY <2>1, <2>2, <2>3, <2>4, JudgingKeepsLedger
<1>8. CASE GateRetries(h) \/ HandlerThrows(h)
  <2>1. /\ Mark(handler[h].sub, "quarantined") /\ UNCHANGED <<status, refused, evidence>>
        /\ handler[h].phase \in Judging /\ Busy(h)
    BY <1>8 DEF GateRetries, HandlerThrows, Quarantine, Judging, Busy, hubVars
  <2>2. handler'[h].phase = "idle" /\ \A g \in Handlers \ {h} : handler'[g] = handler[g]
    BY <1>1, <1>8 DEF GateRetries, HandlerThrows, Quarantine, Rest, Resting
  <2> QED BY <2>1, <2>2, MarkKeepsLedger
<1>9. CASE MarkCompleted(h)
  <2>1. /\ Mark(handler[h].sub, "completed") /\ UNCHANGED <<status, refused, evidence>>
        /\ handler[h].phase = "mark" /\ Busy(h)
    BY <1>9 DEF MarkCompleted, Busy, hubVars
  <2>2. handler'[h].phase = "idle" /\ \A g \in Handlers \ {h} : handler'[g] = handler[g]
    BY <1>1, <1>9 DEF MarkCompleted, Rest, Resting
  <2> QED BY <2>1, <2>2, MarkKeepsLedger
<1>10. CASE GateEmits(h)
  <2>1. /\ Mark(handler[h].sub, "strict_failed") /\ UNCHANGED <<status, refused, evidence>>
        /\ handler[h].phase \in Judging /\ Busy(h)
    BY <1>10 DEF GateEmits, Busy, Judging, hubVars
  <2>2. /\ handler'[h].phase = "emit" /\ handler'[h].sub = handler[h].sub
        /\ \A g \in Handlers \ {h} : handler'[g] = handler[g]
    BY <1>1, <1>10 DEF GateEmits, HandlerType
  <2> QED BY <2>1, <2>2, MarkKeepsLedger
<1> QED BY <1>4, <1>5, <1>6, <1>7, <1>8, <1>9, <1>10, WriteKeepsLedger, EmitKeepsLedger
    DEF HandlerStep

LEMMA LedgerNext ==
  ASSUME Types, Judgements, Ledger, Durable, [Next]_vars
  PROVE  Ledger'
<1>1. ASSUME UNCHANGED <<file, mem, loaded, status, refused, evidence, handler>> PROVE Ledger'
  BY <1>1 DEF Ledger, Agrees, Claim, Busy
<1>2. ASSUME NEW i \in Inits, VnetInit(i) PROVE Ledger'
  BY <1>1, <1>2 DEF VnetInit, CreateVnet, CreateVnetFails, CreateSnapshot, InitThrows,
       ReportVnet, hubVars, storeVars
<1>3. ASSUME NEW s \in Subs, Overwrite(s) PROVE Ledger'
  BY <1>1, <1>3 DEF Overwrite, hubVars, storeVars
<1>4. CASE UNCHANGED vars
  BY <1>1, <1>4 DEF vars, hubVars, storeVars
<1>5. ASSUME NEW s \in Subs, OpenJury(s) PROVE Ledger'
  <2>1. /\ UNCHANGED <<file, mem, loaded, refused, evidence, handler>>
        /\ status' = [status EXCEPT ![s] = "JuryPending"] /\ status[s] = "Revealed"
    BY <1>5 DEF OpenJury, storeVars
  <2>2. evidence[s] # <<>>
    BY <1>5 DEF OpenJury
  <2>3. file.status[s] = "strict_failed"
    BY <2>2 DEF Ledger, Agrees
  <2>4. status'[s] = "JuryPending" /\ \A t \in Subs \ {s} : status'[t] = status[t]
    BY <2>1 DEF Types, HubTypes
  <2>5. \A t \in Subs : Agrees(t)'
    BY <2>1, <2>2, <2>3, <2>4 DEF Ledger, Agrees
  <2>6. \A h \in Handlers : Claim(h)'
    <3> SUFFICES ASSUME NEW h \in Handlers PROVE Claim(h)'
      OBVIOUS
    <3>1. CASE ~Busy(h)
      BY <2>1, <3>1 DEF Claim, Busy, Judging
    <3>2. CASE Busy(h)
      <4>1. handler[h].sub \in Subs /\ Claim(h)
        BY <3>2, AloneOn
      <4> QED BY <2>1, <2>3, <2>4, <4>1 DEF Claim
    <3> QED BY <3>1, <3>2
  <2> QED BY <2>1, <2>5, <2>6 DEF Ledger, Busy
<1>6. ASSUME NEW v \in Versions, Crash(v) PROVE Ledger'
  BY <1>6 DEF Crash, Ledger, Agrees, Claim, Busy, Judging, Resting, hubVars
<1> QED BY <1>2, <1>3, <1>4, <1>5, <1>6, RevealKeepsLedger, HandlerStepKeepsLedger DEF Next

LEMMA LedgerAlways ==
  ASSUME Durable
  PROVE  Spec => []Ledger
BY JudgementsAlways, LedgerInit, LedgerNext, PTL DEF Spec

(* A submission is judged here or handed to the jury, never both, and      *)
(* handed over at most once, through redeliveries, crashes and releases:   *)
(* the claim is on file before anything is read, and nothing but a claim   *)
(* of an event nobody recorded starts a handler.  Without file operations  *)
(* (~Durable) a crash forgets every claim.                                 *)
THEOREM OneOutcomeAlways ==
  ASSUME Durable
  PROVE  Spec => []OneOutcome
<1>1. Ledger => OneOutcome
  BY DEF Ledger, Agrees, OneOutcome
<1> QED BY <1>1, LedgerAlways, PTL

(* An event recorded as completed had its report delivered: the mark is   *)
(* made last, when the verdict is on chain or BountyHub refused it.  Its    *)
(* answer is not looked at, so no more than that follows: the run           *)
(* VerifyRefused shows an event completed without a verdict.                *)
THEOREM CompletedIsReportedAlways ==
  ASSUME Durable
  PROVE  Spec => []CompletedIsReported
<1>1. Ledger => CompletedIsReported
  BY DEF Ledger, Agrees, CompletedIsReported
<1> QED BY <1>1, LedgerAlways, PTL
=============================================================================
