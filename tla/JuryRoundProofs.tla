-------------------------- MODULE JuryRoundProofs --------------------------
(***************************************************************************)
(* Safety of JuryRound for panels of every size, any number of callers'    *)
(* artefacts, replacements and run-once processes.                         *)
(***************************************************************************)
EXTENDS JuryRound, SumsAndPlaces

-----------------------------------------------------------------------------
(* Seats *)

\* The rosters of the case packages that circulate.
CaseInv == 
  /\ cases \subseteq Case
  /\ OneSeatPerJuror

\* A replacement seats one juror who sits nowhere, on a human seat.
LEMMA ReissueKeepsSeats ==
  ASSUME CaseInv, NEW c \in cases, NEW s \in HumanSlots, NEW j \in Humans, Reissue(c, s, j)
  PROVE  CaseInv'
<1> DEFINE change == [slot |-> s, previous |-> c.seated[s], next |-> j]
           d == [c EXCEPT !.trail = Append(@, change), !.seated[s] = j]
<1>1. /\ c \in Case /\ c.seated \in Rosters /\ c.committed \in Rosters /\ c.trail \in Seq(Replacement)
      /\ s \in Slots /\ j \in Jurors
  BY DEF CaseInv, Case, HumanSlots, Jurors
<1>2. change \in Replacement
  BY <1>1 DEF Replacement, Rosters
<1>3. d.seated = [c.seated EXCEPT ![s] = j] /\ d.committed = c.committed
      /\ d.trail = Append(c.trail, change)
  BY <1>1 DEF Case
<1>4. d \in Case
  <2>1. Append(c.trail, change) \in Seq(Replacement)
    BY <1>1, <1>2
  <2>2. [c.seated EXCEPT ![s] = j] \in Rosters
    BY <1>1 DEF Rosters
  <2> HIDE DEF change
  <2> QED BY <1>1, <2>1, <2>2 DEF Case
<1>5. IsInjective(d.seated)
  BY <1>1, <1>3 DEF CaseInv, OneSeatPerJuror, Reissue, SitsNowhere, IsInjective, Rosters
<1>6. \A t \in LlmSlots : d.seated[t] = d.committed[t]
  BY <1>1, <1>3 DEF CaseInv, OneSeatPerJuror, Rosters, HumanSlots, LlmSlots
<1>7. cases' = cases \cup {d}
  BY DEF Reissue
<1> HIDE DEF d
<1> QED BY <1>4, <1>5, <1>6, <1>7 DEF CaseInv, OneSeatPerJuror

\* Only an opening and a replacement add a case package.
LEMMA CaseChanges ==
  ASSUME [Next]_vars
  PROVE  OpenCase \/ ReissueHumanJurorSlot \/ UNCHANGED cases
<1>1. ASSUME NEW r \in Runs, RunOnce(r) PROVE UNCHANGED cases
  BY <1>1 DEF RunOnce, PrepareRound, ReadBackOpinion, AbortRound, AggregateRound, Simulate,
     IncludeReport, WriteOpinion
<1>2. CASE Tick \/ DeliverVerdict \/ (\E c \in cases : IngestOpinions(c))
             \/ (\E c \in cases, e \in ingests : PackageVerdict(c, e)) \/ UNCHANGED vars
  BY <1>2 DEF Tick, DeliverVerdict, IngestOpinions, PackageVerdict, vars
<1> QED BY <1>1, <1>2 DEF Next, Pipeline

LEMMA CaseStep ==
  ASSUME CaseInv, [Next]_vars
  PROVE  CaseInv'
<1>1. CASE OpenCase
  <2>1. PICK sel \in RosterSelections, r \in Rosters :
          /\ IsRoster(r, sel)
          /\ cases' = {CaseOn(r)}
    BY <1>1 DEF OpenCase
  <2>2. [s \in HumanSlots |-> r[s]] \in Selection
    BY DEF Rosters, HumanSlots, Selection
  <2>3. CaseOn(r) \in Case /\ CaseOn(r).seated = r /\ CaseOn(r).committed = r
    BY <2>2 DEF Case, CaseOn
  <2> QED BY <2>1, <2>3 DEF CaseInv, OneSeatPerJuror, IsRoster
<1>2. CASE ReissueHumanJurorSlot
  BY <1>2, ReissueKeepsSeats DEF ReissueHumanJurorSlot
<1>3. CASE UNCHANGED cases
  BY <1>3 DEF CaseInv, OneSeatPerJuror
<1> QED BY <1>1, <1>2, <1>3, CaseChanges

-----------------------------------------------------------------------------
(* Replaying the trail.  FoldLeft takes a trail from its end; the states   *)
(* of the fold are studied over all sets of places of the trail.           *)

\* What replaying the places s of trail t on roster r leads to, for all s within S
IsReplay(g, r, t, S) ==
  g = [s \in SUBSET S |-> IF s = {} THEN r ELSE Seat(g[s \ {Max(s)}], t[Max(s)])]
Places(S) == IsFiniteSet(S) /\ S \subseteq Nat
SameOn(t, u, S) == \A i \in S : t[i] = u[i]
ReplayOf(r, t, S) == CHOOSE g : IsReplay(g, r, t, S)

LEMMA LastPlaceIn ==
  ASSUME NEW S, Places(S), NEW s \in SUBSET S, s # {}
  PROVE  /\ Max(s) \in s /\ \A x \in s : x <= Max(s)
         /\ s \ {Max(s)} \in SUBSET S /\ s \ {Max(s)} \subseteq s /\ s \ {Max(s)} # s
<1> DEFINE R == [x \in s |-> {y \in s : y > x}]
<1>1. IsFiniteSet(s) /\ \A x \in s : x \in Nat
  BY FS_Subset DEF Places
<1>2. /\ \A x \in s : R[x] \subseteq s \ {x}
      /\ \A x \in s : \A y \in R[x] : R[y] \subseteq R[x]
      /\ \A x \in s : \A y \in s \ {x} : x \in R[y] \/ y \in R[x]
  <2>1. \A x, y \in s : y \in R[x] <=> y > x
    OBVIOUS
  <2>2. \A x \in s : R[x] \subseteq s
    OBVIOUS
  <2>3. \A x, y \in s : x # y => x > y \/ y > x
    BY <1>1
  <2>4. \A x, y, z \in s : z > y /\ y > x => z > x
    BY <1>1
  <2>5. \A x \in s : ~(x > x)
    BY <1>1
  <2> HIDE DEF R
  <2> QED BY <2>1, <2>2, <2>3, <2>4, <2>5
<1>3. PICK x \in s : \A y \in s \ {x} : x \in R[y]
  <2> HIDE DEF R
  <2> QED BY <1>1, <1>2, FirstPlace
<1>4. \A y \in s : x >= y
  BY <1>1, <1>3
<1>5. Max(s) \in s /\ \A y \in s : Max(s) >= y
  BY <1>4 DEF Max
<1> QED BY <1>1, <1>5

\* Replays of trails that agree are the same wherever both are defined.
LEMMA ReplaysAgree ==
  ASSUME NEW S, Places(S), NEW T, NEW r, NEW t, NEW u, SameOn(t, u, S),
         NEW g, NEW h, IsReplay(g, r, t, S), IsReplay(h, r, u, T)
  PROVE  \A s \in SUBSET S : s \in SUBSET T => g[s] = h[s]
<1> DEFINE Bad == {s \in SUBSET S : s \in SUBSET T /\ g[s] # h[s]}
<1> SUFFICES ASSUME Bad # {} PROVE FALSE
  OBVIOUS
<1>1. Bad \subseteq SUBSET S
  OBVIOUS
<1>2. PICK x \in Bad : \A y \in Bad : ~(y \subseteq x /\ y # x)
  <2>1. IsFiniteSet(S) /\ Bad # {}
    BY DEF Places
  <2> HIDE DEF Bad
  <2> QED BY ONLY <1>1, <2>1, SmallestSubset
<1>3. CASE x = {}
  BY <1>2, <1>3 DEF IsReplay
<1>4. CASE x # {}
  <2> DEFINE y == x \ {Max(x)}
  <2>1. Max(x) \in x /\ y \in SUBSET S /\ y \in SUBSET T /\ y \subseteq x /\ y # x
    BY <1>2, <1>4, LastPlaceIn
  <2>2. g[y] = h[y] /\ t[Max(x)] = u[Max(x)]
    BY <1>2, <2>1 DEF SameOn
  <2>3. g[x] = Seat(g[y], t[Max(x)])
    BY <1>2, <1>4 DEF IsReplay
  <2>4. h[x] = Seat(h[y], u[Max(x)])
    BY <1>2, <1>4 DEF IsReplay
  <2> HIDE DEF y
  <2> QED BY <1>2, <2>2, <2>3, <2>4
<1> QED BY <1>3, <1>4

LEMMA ReplayExists ==
  ASSUME NEW S, Places(S), NEW r, NEW t
  PROVE  IsReplay(ReplayOf(r, t, S), r, t, S)
<1> DEFINE Bad == {T \in SUBSET S : ~ \E g : IsReplay(g, r, t, T)}
<1>1. CASE Bad # {}
  <2>1. Bad \subseteq SUBSET S
    OBVIOUS
  <2>2. PICK T \in Bad : \A y \in Bad : ~(y \subseteq T /\ y # T)
    <3>1. IsFiniteSet(S)
      BY DEF Places
    <3> HIDE DEF Bad
    <3> QED BY ONLY <1>1, <2>1, <3>1, SmallestSubset
  <2> DEFINE G(s) == ReplayOf(r, t, s)
             Less(s) == s \in SUBSET T /\ s # T
             Rest(s) == s \ {Max(s)}
             h == [s \in SUBSET T |-> IF s = {} THEN r ELSE Seat(G(Rest(s))[Rest(s)], t[Max(s)])]
  <2>3. Places(T)
    BY <2>1, <2>2, FS_Subset DEF Places
  <2>4. ASSUME NEW s, Less(s)  PROVE IsReplay(G(s), r, t, s) /\ Places(s)
    <3>1. \E g : IsReplay(g, r, t, s)
      BY <2>2, <2>4
    <3>2. Places(s)
      BY <2>3, <2>4, FS_Subset DEF Places
    <3> QED BY <3>1, <3>2 DEF ReplayOf
  <2>5. ASSUME NEW s \in SUBSET T, s # {}
        PROVE  Less(Rest(s)) /\ Rest(s) \in SUBSET s /\ Rest(s) # s
    BY <2>3, <2>5, LastPlaceIn
  <2>6. ASSUME NEW s, Less(s)  PROVE h[s] = G(s)[s]
    <3>1. CASE s = {}
      <4>1. G(s)[s] = r
        <5> HIDE DEF G
        <5> QED BY <2>4, <2>6, <3>1 DEF IsReplay
      <4> QED BY <2>6, <3>1, <4>1
    <3>2. CASE s # {}
      <4> DEFINE y == Rest(s)
      <4>1. Less(y) /\ y \in SUBSET s
        BY <2>5, <2>6, <3>2
      <4>2. G(s)[s] = Seat(G(s)[y], t[Max(s)])
        <5>1. IsReplay(G(s), r, t, s)
          BY <2>4, <2>6
        <5> HIDE DEF G
        <5> QED BY <3>2, <5>1 DEF IsReplay
      <4>3. G(s)[y] = G(y)[y]
        <5>1. /\ IsReplay(G(s), r, t, s) /\ Places(s)
              /\ IsReplay(G(y), r, t, y) /\ y \in SUBSET y
          BY <2>4, <2>6, <4>1
        <5> HIDE DEF y, G
        <5>2. SameOn(t, t, s)
          BY DEF SameOn
        <5>3. \A z \in SUBSET s : z \in SUBSET y => G(s)[z] = G(y)[z]
          BY ONLY <5>1, <5>2, ReplaysAgree
        <5> QED BY <4>1, <5>1, <5>3
      <4>4. h[s] = Seat(G(y)[y], t[Max(s)])
        BY <2>6, <3>2
      <4> QED BY <4>2, <4>3, <4>4
    <3> QED BY <3>1, <3>2
  <2>7. IsReplay(h, r, t, T)
    <3>1. ASSUME NEW s \in SUBSET T, s # {}  PROVE G(Rest(s))[Rest(s)] = h[Rest(s)]
      <4>1. Less(Rest(s))
        BY <2>5, <3>1
      <4> HIDE DEF h, G, Less, Rest
      <4> QED BY <2>6, <4>1
    <3>2. h = [s \in SUBSET T |-> IF s = {} THEN r ELSE Seat(h[Rest(s)], t[Max(s)])]
      BY <3>1
    <3> QED BY <3>2 DEF IsReplay
  <2> QED BY <2>2, <2>7
<1>2. CASE Bad = {}
  BY <1>2 DEF ReplayOf
<1> QED BY <1>1, <1>2

Replay(r, t) == FoldLeft(Seat, r, t)

LEMMA ReplayIsFold ==
  ASSUME NEW r, NEW t
  PROVE  Replay(r, t) = ReplayOf(r, t, DOMAIN t)[DOMAIN t]
BY DEF Replay, FoldLeft, MapThenFoldSet, ReplayOf, IsReplay

\* Replaying nothing, and one replacement more
LEMMA ReplayNothing == ASSUME NEW r PROVE Replay(r, <<>>) = r
<1>1. DOMAIN <<>> = {}
  OBVIOUS
<1>2. IsReplay(ReplayOf(r, <<>>, {}), r, <<>>, {})
  BY ReplayExists, FS_EmptySet DEF Places
<1> QED BY <1>1, <1>2, ReplayIsFold DEF IsReplay

LEMMA ReplayAppend ==
  ASSUME NEW r, NEW t \in Seq(Replacement), NEW x \in Replacement
  PROVE  Replay(r, Append(t, x)) = Seat(Replay(r, t), x)
<1> DEFINE n == Len(t)
           u == Append(t, x)
           I == 1 .. n
           J == 1 .. n + 1
           g == ReplayOf(r, t, I)
           h == ReplayOf(r, u, J)
<1>1. n \in Nat /\ DOMAIN t = I /\ DOMAIN u = J /\ u[n + 1] = x /\ \A i \in I : u[i] = t[i]
  OBVIOUS
<1> HIDE DEF u, n
<1>2. Places(I) /\ Places(J)
  <2>1. 1 \in Int /\ n \in Int /\ n + 1 \in Int
    BY <1>1
  <2>2. IsFiniteSet(1 .. n) /\ IsFiniteSet(1 .. n + 1)
    BY ONLY <2>1, FS_Interval
  <2> QED BY <2>2 DEF Places
<1>3. Max(J) = n + 1 /\ J \ {n + 1} = I /\ J # {}
  <2>1. J \ {n + 1} = I /\ n + 1 \in J
    BY <1>1
  <2>2. Max(J) \in J /\ n + 1 <= Max(J)
    <3> HIDE DEF I, J
    <3>1. J \in SUBSET J /\ J # {}
      BY <2>1
    <3> QED BY ONLY <1>2, <2>1, <3>1, LastPlaceIn
  <2> QED BY <1>1, <2>1, <2>2
<1> HIDE DEF I, J
<1>4. IsReplay(g, r, t, I) /\ IsReplay(h, r, u, J)
  BY <1>2, ReplayExists
<1> HIDE DEF g, h
<1>5. h[J] = Seat(h[I], x)
  <2>1. h[J] = Seat(h[J \ {Max(J)}], u[Max(J)])
    BY <1>3, <1>4 DEF IsReplay
  <2> QED BY <1>1, <1>3, <2>1
<1>6. g[I] = h[I]
  <2>1. I \in SUBSET I /\ I \in SUBSET J
    BY <1>3
  <2>2. SameOn(t, u, I)
    BY <1>1 DEF SameOn
  <2>3. \A z \in SUBSET I : z \in SUBSET J => g[z] = h[z]
    BY ONLY <1>2, <1>4, <2>2, ReplaysAgree
  <2> QED BY <2>1, <2>3
<1>7. Replay(r, u) = h[J] /\ Replay(r, t) = g[I]
  BY <1>1, ReplayIsFold DEF g, h
<1> QED BY <1>5, <1>6, <1>7 DEF u

\* A replacement is replayed to the roster it made, and everything before it as before.
LEMMA ReissueReplays ==
  ASSUME CaseInv, NEW c \in cases, NEW s \in HumanSlots, NEW j \in Humans, Reissue(c, s, j),
         \A d \in cases : WellFormedRoster(d)
  PROVE  \A d \in cases' : WellFormedRoster(d)
<1> DEFINE x == [slot |-> s, previous |-> c.seated[s], next |-> j]
           d == [c EXCEPT !.trail = Append(@, x), !.seated[s] = j]
           n == Len(c.trail)
<1>1. /\ c \in Case /\ c.seated \in Rosters /\ c.committed \in Rosters /\ c.trail \in Seq(Replacement)
      /\ s \in Slots /\ j \in Jurors
  BY DEF CaseInv, Case, HumanSlots, Jurors
<1>2. x \in Replacement /\ x.slot = s /\ x.previous = c.seated[s] /\ x.next = j
  BY <1>1 DEF Replacement, Rosters
<1>3. /\ d.seated = [c.seated EXCEPT ![s] = j] /\ d.committed = c.committed
      /\ d.trail = Append(c.trail, x) /\ d.drawn = c.drawn
  BY <1>1 DEF Case
<1>4. /\ IsInjective(c.committed) /\ SelectionMatches(c) /\ Replays(c)
      /\ c.seated = ReplayedRoster(c) /\ SitsNowhere(c, s, j)
  BY DEF Reissue, WellFormedRoster
<1>5. \A e : ReplayedRoster(e) = Replay(e.committed, e.trail)
  BY DEF ReplayedRoster, Replay
<1> HIDE DEF x, d
<1>6. d.seated = ReplayedRoster(d)
  <2>1. ReplayedRoster(d) = Seat(ReplayedRoster(c), x)
    <3>1. Replay(c.committed, Append(c.trail, x)) = Seat(Replay(c.committed, c.trail), x)
      BY <1>1, <1>2, ReplayAppend
    <3> QED BY <1>3, <1>5, <3>1
  <2> QED BY <1>2, <1>3, <1>4, <2>1 DEF Seat
<1>7. SelectionMatches(d)
  BY <1>3, <1>4 DEF SelectionMatches
<1>8. Replays(d)
  <2> DEFINE Before(e, i) == ReplayedRoster([e EXCEPT !.trail = SubSeq(e.trail, 1, i - 1)])
             Fits(roster, y) == /\ y.slot \in HumanSlots /\ roster[y.slot] = y.previous
                                /\ \A t \in Slots \ {y.slot} : roster[t] # y.next
  <2>1. n \in Nat /\ Len(d.trail) = n + 1 /\ d.trail[n + 1] = x
    BY <1>1, <1>2, <1>3
  <2>2. \A i \in 1 .. n : d.trail[i] = c.trail[i]
    BY <1>1, <1>2, <1>3
  <2>3. d \in Case
    <3>1. d.seated \in Rosters /\ d.trail \in Seq(Replacement)
      BY <1>1, <1>2, <1>3 DEF Rosters
    <3> QED BY <1>1, <3>1 DEF Case, d
  <2>4. \A e \in Case : \A i \in 1 .. n + 1 :
          Before(e, i) = Replay(e.committed, SubSeq(e.trail, 1, i - 1))
    BY <1>5 DEF Case
  <2>5. \A i \in 1 .. n + 1 : SubSeq(d.trail, 1, i - 1) = SubSeq(c.trail, 1, i - 1)
    BY <1>1, <1>2, <1>3
  <2>6. \A i \in 1 .. n + 1 : Before(d, i) = Before(c, i)
    BY <1>1, <1>3, <2>3, <2>4, <2>5
  <2>7. Before(c, n + 1) = c.seated
    <3>1. SubSeq(c.trail, 1, n) = c.trail /\ n + 1 \in 1 .. n + 1 /\ (n + 1) - 1 = n
      BY <1>1
    <3> HIDE DEF Before, n
    <3>2. Before(c, n + 1) = Replay(c.committed, c.trail)
      BY <1>1, <2>4, <3>1
    <3> QED BY <1>4, <1>5, <3>2
  <2>8. \A e : Replays(e) <=> \A i \in 1 .. Len(e.trail) : Fits(Before(e, i), e.trail[i])
    BY DEF Replays
  <2> HIDE DEF Before
  <2>9. ASSUME NEW i \in 1 .. n  PROVE Fits(Before(d, i), d.trail[i])
    <3>1. Fits(Before(c, i), c.trail[i])
      BY <1>4, <2>8
    <3> HIDE DEF Fits
    <3> QED BY <2>1, <2>2, <2>6, <3>1
  <2>10. Fits(Before(d, n + 1), d.trail[n + 1])
    <3>1. Before(d, n + 1) = c.seated
      BY <2>1, <2>6, <2>7
    <3> QED BY <1>2, <1>4, <2>1, <3>1 DEF SitsNowhere
  <2> HIDE DEF Fits, n
  <2> QED BY <2>1, <2>8, <2>9, <2>10
<1>9. cases' = cases \cup {d}
  BY DEF Reissue, d, x
<1> QED BY <1>3, <1>4, <1>6, <1>7, <1>8, <1>9 DEF WellFormedRoster

\* A case is opened with an empty trail.
LEMMA OpenReplays ==
  ASSUME OpenCase
  PROVE  \A c \in cases' : WellFormedRoster(c)
<1>1. PICK sel \in RosterSelections, r \in Rosters : IsRoster(r, sel) /\ cases' = {CaseOn(r)}
  BY DEF OpenCase
<1> DEFINE c == CaseOn(r)
<1>2. /\ c.committed = r /\ c.seated = r /\ c.trail = <<>>
      /\ \A s \in HumanSlots : c.drawn[s] = r[s]
  BY DEF CaseOn
<1> HIDE DEF c
<1>3. c.seated = ReplayedRoster(c)
  <2>1. c.seated = Replay(c.committed, c.trail)
    BY <1>2, ReplayNothing
  <2> QED BY <2>1 DEF ReplayedRoster, Replay
<1>4. Replays(c)
  BY <1>2 DEF Replays
<1> QED BY <1>1, <1>2, <1>3, <1>4 DEF WellFormedRoster, SelectionMatches, IsRoster, c

-----------------------------------------------------------------------------
(* Verdicts *)

\* A final package is the outcome of the ballot it was made from, and of the
\* whole panel of its case: nothing its author claims decides it.
FollowsBallot(f) ==
  LET d == f.decision
  IN  /\ ReadConsistent(f.case, d.evidence)
      /\ \/ d.source = "JURY" /\ d.validity \in Validities /\ Consensus(d.evidence) = d.validity
         \/ d.source = "OWNER" /\ Consensus(d.evidence) = "NONE"

FinalInv == \A f \in finals : FollowsBallot(f)

LEMMA AggregateKinds ==
  ASSUME NEW e, NEW at
  PROVE  /\ Aggregate(e, at).kind = "consensus" <=> Consensus(e) # "NONE"
         /\ Aggregate(e, at).kind = "handoff" <=> Consensus(e) = "NONE"
         /\ Consensus(e) # "NONE" => Aggregate(e, at).validity = Consensus(e)
         /\ Consensus(e) \in Validities \cup {"NONE"}
BY DEF Aggregate, ConsensusPayload, HandoffPayload, Consensus, Validities

\* Whoever a validity is the consensus of, it has its majority.
LEMMA ConsensusQualifies ==
  ASSUME NEW e, Consensus(e) # "NONE"
  PROVE  Qualifies(e, Consensus(e))
BY DEF Consensus

LEMMA JuryFollowsBallot ==
  ASSUME NEW c, NEW e, NEW d \in JuryDecisions(c, e)
  PROVE  FollowsBallot(Final(c, d))
<1>1. PICK a \in Claims(e), drain \in Drains \cup {0} :
        /\ WellFormedConsensus(a) /\ MayAggregate(c, e, a.at) /\ ConsensusTrusted(e, a)
        /\ d = Decision("JURY", a.validity, drain, e)
  BY DEF JuryDecisions
<1>2. /\ d.source = "JURY" /\ d.validity = a.validity /\ d.evidence = e
      /\ Final(c, d).case = c /\ Final(c, d).decision = d
  BY <1>1 DEF Decision, Final
<1>3. Aggregate(e, a.at).kind = "consensus" /\ a.validity = Aggregate(e, a.at).validity
  BY <1>1 DEF ConsensusTrusted, ConsensusDigest
<1>4. Consensus(e) = a.validity /\ a.validity \in Validities
  BY <1>1, <1>3, AggregateKinds DEF WellFormedConsensus
<1> QED BY <1>1, <1>2, <1>4 DEF FollowsBallot, MayAggregate

LEMMA OwnerFollowsBallot ==
  ASSUME NEW c, NEW e, NEW d \in OwnerDecisions(c, e)
  PROVE  FollowsBallot(Final(c, d))
<1>1. PICK a \in Claims(e), v \in Validities, drain \in Drains \cup {0} :
        /\ MayAggregate(c, e, a.at) /\ HandoffTrusted(e, a)
        /\ d = Decision("OWNER", v, drain, e)
  BY DEF OwnerDecisions
<1>2. /\ d.source = "OWNER" /\ d.evidence = e /\ Final(c, d).case = c /\ Final(c, d).decision = d
  BY <1>1 DEF Decision, Final
<1>3. Consensus(e) = "NONE"
  BY <1>1, AggregateKinds DEF HandoffTrusted
<1> QED BY <1>1, <1>2, <1>3 DEF FollowsBallot, MayAggregate

\* What the older modes recommend is never packed.
LEMMA LegacyNotPackable ==
  ASSUME NEW c, NEW e, NEW d \in LegacyDecisions(c, e)
  PROVE  ~Packable(d)
BY DEF LegacyDecisions, Decision, Packable

LEMMA FinalStep ==
  ASSUME FinalInv, [Next]_vars
  PROVE  FinalInv'
<1>1. ASSUME NEW c \in cases, NEW e \in ingests, PackageVerdict(c, e) PROVE FinalInv'
  <2>1. PICK d \in JuryDecisions(c, e) \cup OwnerDecisions(c, e) \cup LegacyDecisions(c, e) :
          Packable(d) /\ finals' = finals \cup {Final(c, d)}
    BY <1>1 DEF PackageVerdict
  <2>2. FollowsBallot(Final(c, d))
    BY <2>1, JuryFollowsBallot, OwnerFollowsBallot, LegacyNotPackable
  <2> QED BY <2>1, <2>2 DEF FinalInv
<1>2. ASSUME NEW r \in Runs, NEW drain, RunConsensus(r, drain) PROVE FinalInv'
  <2> DEFINE e == RunIngest(r)
             a == Aggregate(e, JuryDeadline + 1)
             d == Decision("JURY", a.validity, IF a.validity = "INVALID" THEN 0 ELSE drain, e)
             f == Final(run[r].case, d)
  <2>1. /\ MayAggregate(run[r].case, e, JuryDeadline + 1) /\ a.kind = "consensus"
        /\ WellFormedConsensus(a) /\ finals' = finals \cup {f}
    BY <1>2 DEF RunConsensus
  <2>2. d.source = "JURY" /\ d.validity = a.validity /\ d.evidence = e /\ f.case = run[r].case
        /\ f.decision = d
    BY DEF Decision, Final
  <2> HIDE DEF e
  <2>3. Consensus(e) = a.validity /\ a.validity \in Validities
    BY <2>1, AggregateKinds DEF WellFormedConsensus
  <2>4. FollowsBallot(f)
    BY <2>1, <2>2, <2>3 DEF FollowsBallot, MayAggregate
  <2> HIDE DEF f
  <2> QED BY <2>1, <2>4 DEF FinalInv
<1>3. CASE UNCHANGED finals
  BY <1>3 DEF FinalInv
<1>4. ASSUME NEW r \in Runs, RunOnce(r)
      PROVE  UNCHANGED finals \/ \E drain \in Drains \cup {0} : RunConsensus(r, drain)
  BY <1>4 DEF RunOnce, PrepareRound, ReadBackOpinion, AbortRound, AggregateRound, Simulate,
     IncludeReport, WriteOpinion, RunEndsWithoutVerdict
<1>5. CASE OpenCase \/ ReissueHumanJurorSlot \/ Tick \/ DeliverVerdict
             \/ (\E c \in cases : IngestOpinions(c)) \/ UNCHANGED vars
  BY <1>3, <1>5 DEF OpenCase, ReissueHumanJurorSlot, Reissue, Tick, DeliverVerdict, IngestOpinions, vars
<1> QED BY <1>1, <1>2, <1>3, <1>4, <1>5 DEF Next, Pipeline

-----------------------------------------------------------------------------
(* Theorems *)

\* However jurors are replaced (reissueHumanJurorSlot), nobody holds two seats
\* and no LLM seat changes hands.
THEOREM OneSeatPerJurorAlways == Spec => []OneSeatPerJuror
<1>1. Init => CaseInv
  BY DEF Init, CaseInv, OneSeatPerJuror
<1>2. CaseInv /\ [Next]_vars => CaseInv'
  BY CaseStep
<1>3. CaseInv => OneSeatPerJuror
  BY DEF CaseInv
<1> QED BY <1>1, <1>2, <1>3, PTL DEF Spec

\* Every case package that circulates is accepted by the modes that read one, and its
\* seats are those a replay of its replacements yields (resolveEffectiveRosterSlots):
\* reissueHumanJurorSlot writes down what the reader will find, so that no sequence of
\* replacements, on whatever copy, shuts a seated juror out.
THEOREM RostersReplay == Spec => [](\A c \in cases : WellFormedRoster(c))
<1> DEFINE RosterInv == CaseInv /\ \A c \in cases : WellFormedRoster(c)
<1>1. Init => RosterInv
  BY DEF Init, CaseInv, OneSeatPerJuror
<1>2. RosterInv /\ [Next]_vars => RosterInv'
  <2>1. SUFFICES ASSUME CaseInv, \A c \in cases : WellFormedRoster(c), [Next]_vars
                 PROVE  CaseInv' /\ \A c \in cases' : WellFormedRoster(c)
    OBVIOUS
  <2>2. CASE OpenCase
    BY <2>1, <2>2, CaseStep, OpenReplays
  <2>3. CASE ReissueHumanJurorSlot
    <3>1. PICK c \in cases, s \in HumanSlots, j \in Humans : Reissue(c, s, j)
      BY <2>3 DEF ReissueHumanJurorSlot
    <3>2. \A d \in cases' : WellFormedRoster(d)
      BY <2>1, <3>1, ReissueReplays
    <3> QED BY <2>1, <3>2, CaseStep
  <2>4. CASE UNCHANGED cases
    BY <2>1, <2>4, CaseStep
  <2> QED BY <2>1, <2>2, <2>3, <2>4, CaseChanges
<1> QED BY <1>1, <1>2, PTL DEF Spec

\* Whatever a caller hands to final-package mode, what comes out is what the
\* votes of the panel it names say.
THEOREM FinalsFollowBallots == Spec => []FinalInv
<1>1. Init => FinalInv
  BY DEF Init, FinalInv
<1>2. FinalInv /\ [Next]_vars => FinalInv'
  BY FinalStep
<1> QED BY <1>1, <1>2, PTL DEF Spec

\* A jury verdict has its majority among the votes of its panel, dated in time.
THEOREM JuryVerdictBackedAlways == Spec => []JuryVerdictBacked
<1>1. FinalInv => JuryVerdictBacked
  <2> SUFFICES ASSUME FinalInv, NEW f \in finals, f.decision.source = "JURY"
               PROVE  /\ Qualifies(f.decision.evidence, f.decision.validity)
                      /\ ReadConsistent(f.case, f.decision.evidence)
    BY DEF JuryVerdictBacked, ReadConsistent
  <2>1. FollowsBallot(f)
    BY DEF FinalInv
  <2>2. f.decision.validity \in Validities /\ Consensus(f.decision.evidence) = f.decision.validity
    BY <2>1 DEF FollowsBallot
  <2>3. Consensus(f.decision.evidence) # "NONE"
    BY <2>2 DEF Validities
  <2> QED BY <2>1, <2>2, <2>3, ConsensusQualifies DEF FollowsBallot
<1> QED BY <1>1, FinalsFollowBallots, PTL

\* The owner decides only where the whole panel reached no consensus.
THEOREM OwnerOnlyAfterDeadlockAlways == Spec => []OwnerOnlyAfterDeadlock
<1>1. FinalInv => OwnerOnlyAfterDeadlock
  BY DEF FinalInv, FollowsBallot, OwnerOnlyAfterDeadlock, ReadConsistent
<1> QED BY <1>1, FinalsFollowBallots, PTL

\* One set of votes never yields two verdicts.
THEOREM OneVerdictPerBallotAlways == Spec => []OneVerdictPerBallot
<1>1. FinalInv => OneVerdictPerBallot
  <2> SUFFICES ASSUME FinalInv, NEW f \in finals, NEW g \in finals,
                      f.decision.evidence = g.decision.evidence
               PROVE  /\ f.decision.source = g.decision.source
                      /\ f.decision.source = "JURY" => f.decision.validity = g.decision.validity
    BY DEF OneVerdictPerBallot
  <2>1. "NONE" \notin Validities
    BY DEF Validities
  <2>2. FollowsBallot(f) /\ FollowsBallot(g)
    BY DEF FinalInv
  <2> QED BY <2>1, <2>2 DEF FollowsBallot
<1> QED BY <1>1, FinalsFollowBallots, PTL

-----------------------------------------------------------------------------
(* The verdict on chain *)

Processes == [phase : {"idle", "write", "read", "aggregate", "simulate", "sent", "exited"},
              case : Case \cup {NoCase}, seat : Nat, record : [Slots -> Votes \cup {NoOpinion}],
              final : finals \cup {NoCase}]

\* A process that reports holds a final package that was made.
VerdictInv ==
  /\ CaseInv /\ FinalInv
  /\ run \in [Runs -> Processes]
  /\ \A r \in Runs : run[r].phase \in {"simulate", "sent"} => run[r].final \in finals
  /\ verdict # NoVerdict => \E f \in finals : verdict = Report(f)

\* Packages are only added, and a process keeps the one it holds.
LEMMA FinalsGrow ==
  ASSUME [Next]_vars
  PROVE  finals \subseteq finals'
BY DEF Next, Pipeline, Tick, OpenCase, ReissueHumanJurorSlot, Reissue, DeliverVerdict, IngestOpinions,
       PackageVerdict, RunOnce, PrepareRound, ReadBackOpinion, AbortRound, AggregateRound,
       RunConsensus, RunEndsWithoutVerdict, Simulate, IncludeReport, WriteOpinion, vars

LEMMA IdleIsProcess == Idle \in Processes /\ Exited \in Processes
BY DEF Idle, Exited, Processes

LEMMA RunKeepsVerdict ==
  ASSUME VerdictInv, CaseInv', FinalInv', finals \subseteq finals', NEW r \in Runs, RunOnce(r)
  PROVE  VerdictInv'
<1> DEFINE p == run[r]
<1>0. /\ p \in Processes /\ run \in [Runs -> Processes] /\ Processes \subseteq Processes'
      /\ Idle \in Processes' /\ Exited \in Processes' /\ Idle.phase = "idle" /\ Exited.phase = "exited"
      /\ cases \subseteq Case
  <2>1. Processes \subseteq Processes'
    BY DEF VerdictInv, Processes
  <2> QED BY <2>1, IdleIsProcess DEF VerdictInv, CaseInv, Idle, Exited
\* What is left to show of a step of one process.
<1>1. ASSUME NEW q \in Processes', run' = [run EXCEPT ![r] = q],
             q.phase \in {"simulate", "sent"} => q.final \in finals',
             verdict' = verdict \/ \E f \in finals' : verdict' = Report(f)'
      PROVE  VerdictInv'
  <2>1. run' \in [Runs -> Processes]'
    BY <1>0, <1>1
  <2>2. \A t \in Runs : run'[t].phase \in {"simulate", "sent"} => run'[t].final \in finals'
    BY <1>0, <1>1 DEF VerdictInv
  <2>3. verdict' # NoVerdict => \E f \in finals' : verdict' = Report(f)'
    BY <1>1 DEF VerdictInv, Report
  <2> QED BY <2>1, <2>2, <2>3 DEF VerdictInv
<1>2. CASE PrepareRound(r)
  <2>1. PICK c \in cases : run' = [run EXCEPT ![r] = [Idle EXCEPT !.phase = "write", !.case = c]]
    BY <1>2 DEF PrepareRound
  <2> DEFINE q == [Idle EXCEPT !.phase = "write", !.case = c]
  <2>2. q \in Processes' /\ q.phase = "write"
    BY <1>0 DEF Processes, Idle
  <2>3. run' = [run EXCEPT ![r] = q]
    BY <2>1
  <2> HIDE DEF q
  <2> QED BY <1>1, <1>2, <2>2, <2>3 DEF PrepareRound
<1>3. ASSUME NEW v \in Votes, WriteOpinion(r, v) PROVE VerdictInv'
  <2> DEFINE q == [p EXCEPT !.record[p.seat] = v, !.phase = "read"]
  <2>1. q \in Processes /\ q.phase = "read"
    BY <1>0 DEF Processes
  <2>2. run' = [run EXCEPT ![r] = q]
    BY <1>3 DEF WriteOpinion
  <2> HIDE DEF q
  <2> QED BY <1>0, <1>1, <1>3, <2>1, <2>2 DEF WriteOpinion
<1>4. CASE ReadBackOpinion(r)
  <2> DEFINE q == IF opinions[Stored(r)] # p.record[p.seat] THEN Exited
                  ELSE IF LastSeat(p.seat) THEN [p EXCEPT !.phase = "aggregate"]
                  ELSE [p EXCEPT !.phase = "write", !.seat = p.seat + 1]
  <2>1. p.seat + 1 \in Nat
    BY <1>0 DEF Processes
  <2>2. q \in Processes /\ q.phase \in {"aggregate", "write", "exited"}
    BY <1>0, <2>1, IdleIsProcess DEF Processes
  <2>3. run' = [run EXCEPT ![r] = q]
    BY <1>4 DEF ReadBackOpinion
  <2> HIDE DEF q
  <2> QED BY <1>0, <1>1, <1>4, <2>2, <2>3 DEF ReadBackOpinion
<1>5. CASE AbortRound(r)
  BY <1>0, <1>1, <1>5 DEF AbortRound
<1>6. CASE AggregateRound(r)
  <2>1. ASSUME NEW drain, RunEndsWithoutVerdict(r, drain) PROVE VerdictInv'
    BY <1>0, <1>1, <1>6, <2>1 DEF AggregateRound, RunEndsWithoutVerdict
  <2>2. ASSUME NEW drain, RunConsensus(r, drain) PROVE VerdictInv'
    <3>1. PICK f : finals' = finals \cup {f} /\ run' = [run EXCEPT ![r].phase = "simulate", ![r].final = f]
      BY <2>2 DEF RunConsensus
    <3> DEFINE q == [p EXCEPT !.phase = "simulate", !.final = f]
    <3>2. q \in Processes' /\ q.phase = "simulate" /\ q.final = f /\ f \in finals'
      BY <1>0, <3>1 DEF Processes
    <3>3. run' = [run EXCEPT ![r] = q]
      BY <3>1
    <3> HIDE DEF q
    <3> QED BY <1>1, <1>6, <3>2, <3>3 DEF AggregateRound
  <2> QED BY <1>6, <2>1, <2>2 DEF AggregateRound
<1>7. CASE Simulate(r)
  <2> DEFINE q == IF Accepts(Report(p.final)) THEN [p EXCEPT !.phase = "sent"] ELSE Exited
  <2>1. q \in Processes /\ (q.phase = "sent" => q.final = p.final) /\ q.phase # "simulate"
    BY <1>0, IdleIsProcess DEF Processes
  <2>2. p.final \in finals
    BY <1>7 DEF Simulate, VerdictInv
  <2>3. run' = [run EXCEPT ![r] = q]
    BY <1>7 DEF Simulate
  <2> HIDE DEF q
  <2> QED BY <1>0, <1>1, <1>7, <2>1, <2>2, <2>3 DEF Simulate
<1>8. CASE IncludeReport(r)
  <2>1. p.final \in finals
    BY <1>8 DEF IncludeReport, VerdictInv
  <2>2. verdict' = verdict \/ verdict' = Report(p.final)
    BY <1>8 DEF IncludeReport
  <2>3. verdict' = verdict \/ \E f \in finals' : verdict' = Report(f)'
    BY <2>1, <2>2 DEF Report
  <2> QED BY <1>0, <1>1, <1>8, <2>3 DEF IncludeReport
<1> QED BY <1>2, <1>3, <1>4, <1>5, <1>6, <1>7, <1>8 DEF RunOnce

LEMMA VerdictStep ==
  ASSUME VerdictInv, [Next]_vars
  PROVE  VerdictInv'
<1>1. CaseInv' /\ FinalInv' /\ finals \subseteq finals'
  BY CaseStep, FinalStep, FinalsGrow DEF VerdictInv
<1>2. ASSUME NEW r \in Runs, RunOnce(r) PROVE VerdictInv'
  BY <1>1, <1>2, RunKeepsVerdict
<1>3. ASSUME UNCHANGED run, verdict' = verdict \/ DeliverVerdict PROVE VerdictInv'
  <2>1. Processes \subseteq Processes'
    BY <1>1 DEF Processes
  <2>2. run' \in [Runs -> Processes]'
    BY <1>3, <2>1 DEF VerdictInv
  <2>3. \A r \in Runs : run'[r].phase \in {"simulate", "sent"} => run'[r].final \in finals'
    BY <1>1, <1>3 DEF VerdictInv
  <2>4. verdict' # NoVerdict => \E f \in finals' : verdict' = Report(f)'
    BY <1>1, <1>3 DEF VerdictInv, DeliverVerdict, Report
  <2> QED BY <1>1, <2>2, <2>3, <2>4 DEF VerdictInv
<1>4. CASE Tick \/ OpenCase \/ ReissueHumanJurorSlot \/ DeliverVerdict \/ UNCHANGED vars
             \/ (\E c \in cases : IngestOpinions(c)) \/ (\E c \in cases, e \in ingests : PackageVerdict(c, e))
  BY <1>3, <1>4 DEF Tick, OpenCase, ReissueHumanJurorSlot, Reissue, DeliverVerdict, IngestOpinions,
     PackageVerdict, vars
<1> QED BY <1>2, <1>4 DEF Next, Pipeline

\* The verdict that BountyHub records is that of a ballot, over any number of
\* processes that race to report, and of callers that write their own packages.
THEOREM VerdictFollowsBallot ==
  Spec => [](verdict # NoVerdict => \E f \in finals : verdict = Report(f) /\ FollowsBallot(f))
<1>1. Init => VerdictInv
  <2>1. Init => CaseInv /\ FinalInv
    BY DEF Init, CaseInv, OneSeatPerJuror, FinalInv
  <2> QED BY <2>1, IdleIsProcess DEF Init, VerdictInv, Idle
<1>2. VerdictInv /\ [Next]_vars => VerdictInv'
  BY VerdictStep
<1>3. VerdictInv => (verdict # NoVerdict => \E f \in finals : verdict = Report(f) /\ FollowsBallot(f))
  BY DEF VerdictInv, FinalInv
<1> QED BY <1>1, <1>2, <1>3, PTL DEF Spec

\* Where a majority of all seats is needed (8 of 10), no two validities reach
\* it: the order in which main.ts tries them decides nothing.
THEOREM ConsensusIsUnique ==
  ASSUME 2 * RequiredConsensus > LlmCount + HumanCount,
         NEW e, e.slots \subseteq Slots, NEW v, NEW w, Qualifies(e, v), Qualifies(e, w)
  PROVE  v = w
<1> SUFFICES ASSUME v # w PROVE FALSE
  OBVIOUS
<1> DEFINE A == Supporters(e, v)
           B == Supporters(e, w)
<1>1. LlmCount \in Nat /\ HumanCount \in Nat /\ RequiredConsensus \in Nat
  BY SeatAssumption
<1>2. IsFiniteSet(Slots) /\ Cardinality(Slots) = LlmCount + HumanCount
  BY <1>1, FS_Interval DEF Slots
<1>3. A \cap B = {} /\ A \subseteq Slots /\ B \subseteq Slots /\ A \cup B \subseteq Slots
  BY DEF Supporters
<1>4. IsFiniteSet(A) /\ IsFiniteSet(B) /\ Cardinality(A \cup B) <= Cardinality(Slots)
  BY <1>2, <1>3, FS_Subset
<1>5. Cardinality(A \cup B) = Cardinality(A) + Cardinality(B)
  <2>1. Cardinality(A \cup B) = Cardinality(A) + Cardinality(B) - Cardinality(A \cap B)
    BY <1>4, FS_Union
  <2>2. Cardinality(A \cap B) = 0
    BY <1>3, FS_EmptySet
  <2> QED BY <1>4, <2>1, <2>2, FS_CardinalityType
<1>6. Cardinality(A) >= RequiredConsensus /\ Cardinality(B) >= RequiredConsensus
  BY DEF Qualifies
<1>7. Cardinality(A) \in Nat /\ Cardinality(B) \in Nat
  BY <1>4, FS_CardinalityType
<1> HIDE DEF A, B
<1> QED BY <1>1, <1>2, <1>4, <1>5, <1>6, <1>7
=============================================================================
