--------------------------- MODULE MultiGrouping ---------------------------
(***************************************************************************)
(* workflow/verify-poc/src/multiGrouping.ts: the submissions of a MULTI    *)
(* project that report one bug form a group, and groups and members are    *)
(* ranked.  The function is pure; its search for the connected components  *)
(* of the similarity graph is taken step by step.                          *)
(*                                                                         *)
(* A summary is the set of its words, calldata is its selector, addresses  *)
(* and impact types are taken after trimming and folding their case, a     *)
(* hash is what it is taken of.  Scores, fractions with three decimals in  *)
(* the code, are thousandths; rounding goes up on a tie, which floating    *)
(* point need not.  Submission ids are distinct.                           *)
(***************************************************************************)
EXTENDS Integers, FiniteSets, FiniteSetsExt

CONSTANTS
  Ids,          \* submission ids
  Words, Tokens, NoToken,
  tokenOf,      \* what normalizeToken makes of a word
  Selectors, NoSelector,
  Targets, Impacts,
  wordsOf,      \* the words of an impact type
  Requests      \* what buildPostVerdictMultiSubmissionGroups is called with

Severities == {"CRITICAL", "HIGH", "MEDIUM", "LOW", "NONE"}
Submission == [severity : Severities, target : Targets, impact : Impacts,
               summary : SUBSET Words, calldata : SUBSET (Selectors \cup {NoSelector})]
Request    == [competitionMode : {"MULTI", "UNIQUE"}, finalValidity : {"NONE", "VALID", "INVALID"},
               severity : Severities, submissions : [Ids -> Submission]]

ASSUME GroupingAssumption ==
  /\ Ids \subseteq Nat /\ IsFiniteSet(Ids)
  /\ NoToken \notin Tokens /\ NoSelector \notin Selectors
  /\ IsFiniteSet(Words) /\ IsFiniteSet(Selectors)
  /\ tokenOf \in [Words -> Tokens \cup {NoToken}]
  /\ wordsOf \in [Impacts -> SUBSET Words]
  /\ Requests \subseteq Request

VARIABLES
  args,         \* the call
  phase,        \* "gate", then "search", then "done", or "null"
  visited,      \* submissions that were put on the stack
  stack,        \* whose neighbours have not been looked at; in no particular order, since
                \* the members of a component are sorted when it is complete
  component,    \* the component under construction
  components    \* those that are complete

vars == <<args, phase, visited, stack, component, components>>

-----------------------------------------------------------------------------
(* Normal form *)

Cohorts == {"HIGH", "MEDIUM", "OTHER"}

NormalizeSeverityToCohort(severity) ==
  IF severity \in {"CRITICAL", "HIGH"} THEN "HIGH"
  ELSE IF severity = "MEDIUM" THEN "MEDIUM" ELSE "OTHER"

\* Several words share a token; words that are short or common have none.
NormalizeToken(word) == tokenOf[word]

TokenizeSummary(summary, impact) ==
  {NormalizeToken(w) : w \in summary \cup wordsOf[impact]} \ {NoToken}

\* Calldata shorter than a selector has none.
ObservedSelectors(calldata) == calldata \ {NoSelector}

NormalizeSubmission(s) ==
  [cohort |-> NormalizeSeverityToCohort(s.severity), target |-> s.target, impact |-> s.impact,
   tokens |-> TokenizeSummary(s.summary, s.impact), selectors |-> ObservedSelectors(s.calldata)]

\* The normal form but for the id; it is also what the cluster fingerprint hashes.
Normal(i) == NormalizeSubmission(args.submissions[i])

-----------------------------------------------------------------------------
(* Similarity *)

Rounded(n, d) == (2 * n + d) \div (2 * d)

\* Variant: no case of its own for two empty sets.
JaccardOfUnion(x, y) ==
  IF x \cup y = {} THEN 0
  ELSE Rounded(1000 * Cardinality(x \cap y), Cardinality(x \cup y))

JaccardSimilarity(x, y) ==
  IF x = {} /\ y = {} THEN 1000
  ELSE Rounded(1000 * Cardinality(x \cap y), Cardinality(x \cup y))

Comparable(m, n) == m.cohort = n.cohort /\ m.target = n.target /\ m.impact = n.impact

SelectorSimilarity(m, n) ==
  IF Comparable(m, n) THEN JaccardSimilarity(m.selectors, n.selectors) ELSE 0
TextSimilarity(m, n) ==
  IF Comparable(m, n) THEN JaccardSimilarity(m.tokens, n.tokens) ELSE 0

BothHaveSelectors(m, n) == m.selectors # {} /\ n.selectors # {}

\* computePairwiseSimilarity
SimilarityScore(m, n) ==
  IF \/ ~Comparable(m, n)
     \/ BothHaveSelectors(m, n) /\ SelectorSimilarity(m, n) = 0
     \/ ~BothHaveSelectors(m, n) /\ TextSimilarity(m, n) < 600
  THEN 0
  ELSE Rounded(11000 + 5 * SelectorSimilarity(m, n) + 4 * TextSimilarity(m, n), 20)

Similar(m, n) == SimilarityScore(m, n) >= 700

-----------------------------------------------------------------------------
(* computeConnectedComponents *)

\* Variant: an edge is entered at its smaller end only.
LaterNeighbors(i) == {j \in Ids : i < j /\ Similar(Normal(i), Normal(j))}

Neighbors(i) == {j \in Ids \ {i} : Similar(Normal(i), Normal(j))}

PassesGate(request) ==
  /\ request.competitionMode = "MULTI" /\ request.finalValidity = "VALID"
  /\ NormalizeSeverityToCohort(request.severity) \in {"HIGH", "MEDIUM"}

Init ==
  /\ args \in Requests /\ phase = "gate"
  /\ visited = {} /\ stack = {} /\ component = {} /\ components = {}

Gate ==
  /\ phase = "gate"
  /\ phase' = IF PassesGate(args) THEN "search" ELSE "null"
  /\ UNCHANGED <<args, visited, stack, component, components>>

StartComponent ==
  /\ phase = "search" /\ stack = {} /\ component = {}
  /\ \E i \in Ids \ visited :
       /\ \A j \in Ids \ visited : i <= j
       /\ visited' = visited \cup {i} /\ stack' = {i}
  /\ UNCHANGED <<args, phase, component, components>>

VisitNext ==
  /\ stack # {}
  /\ \E i \in stack :
       /\ component' = component \cup {i}
       /\ stack' = (stack \ {i}) \cup (Neighbors(i) \ visited)
       /\ visited' = visited \cup Neighbors(i)
  /\ UNCHANGED <<args, phase, components>>

CloseComponent ==
  /\ stack = {} /\ component # {}
  /\ components' = components \cup {component}
  /\ component' = {}
  /\ UNCHANGED <<args, phase, visited, stack>>

Finish ==
  /\ phase = "search" /\ stack = {} /\ component = {} /\ visited = Ids
  /\ phase' = "done"
  /\ UNCHANGED <<args, visited, stack, component, components>>

Next == Gate \/ StartComponent \/ VisitNext \/ CloseComponent \/ Finish

Spec == Init /\ [][Next]_vars

-----------------------------------------------------------------------------
(* buildRankedGroup: the groups of a result *)

Average(f(_), S) == Rounded(MapThenSumSet(f, S), Cardinality(S))

PairScore(i, j) == IF i = j THEN 1000 ELSE SimilarityScore(Normal(i), Normal(j))
MemberScore(C, i) == Average(LAMBDA j : PairScore(i, j), C)
GroupScore(C)     == Average(LAMBDA i : MemberScore(C, i), C)

MemberBefore(C, i, j) ==
  \/ MemberScore(C, i) > MemberScore(C, j)
  \/ MemberScore(C, i) = MemberScore(C, j) /\ i < j

Representative(C) == CHOOSE i \in C : \A j \in C \ {i} : MemberBefore(C, i, j)

Fingerprints(C) == {Normal(i) : i \in C}
ClusterKey(C) ==
  LET lead == Normal(Representative(C))
  IN  [cohort |-> lead.cohort, target |-> lead.target, impact |-> lead.impact,
       memberFingerprints |->
         [p \in Fingerprints(C) |-> Cardinality({i \in C : Normal(i) = p})]]

\* The id of a group names none of its submissions.
GroupId(C) == <<ClusterKey(C).cohort, ClusterKey(C)>>

\* What all members of a group have
SharedSelectors(C) == {x \in Selectors : \A i \in C : x \in Normal(i).selectors}
SharedTokens(C)    == {x \in Tokens : \A i \in C : x \in Normal(i).tokens}

\* buildDeterministicMultiSubmissionGroups: groups in the order of the result
CohortOf(C) == ClusterKey(C).cohort
cohortPriority == [c \in Cohorts |-> IF c = "HIGH" THEN 0 ELSE IF c = "MEDIUM" THEN 1 ELSE 2]

GroupKey(C) == <<cohortPriority[CohortOf(C)], -Cardinality(C), -GroupScore(C), Representative(C)>>
Precedes(k, l, places) == \E n \in places : k[n] < l[n] /\ \A m \in 1 .. n - 1 : k[m] = l[m]

\* Variant: equal groups are in no order.
GroupTies(C, D) == Precedes(GroupKey(C), GroupKey(D), 1 .. 3)

GroupBefore(C, D) == Precedes(GroupKey(C), GroupKey(D), 1 .. 4)

GroupRank(C)  == 1 + Cardinality({D \in components : GroupBefore(D, C)})
CohortRank(C) ==
  1 + Cardinality({D \in components : CohortOf(D) = CohortOf(C) /\ GroupBefore(D, C)})
MemberRank(C, i) == 1 + Cardinality({j \in C : MemberBefore(C, j, i)})

Group(C) ==
  [groupId |-> GroupId(C), clusterKey |-> ClusterKey(C), cohort |-> CohortOf(C),
   groupRank |-> GroupRank(C), cohortRank |-> CohortRank(C), size |-> Cardinality(C),
   representative |-> Representative(C), members |-> C, averageScore |-> GroupScore(C),
   sharedSelectors |-> SharedSelectors(C), sharedTokens |-> SharedTokens(C)]

Record(C, i) ==
  [submissionId |-> i, cohort |-> CohortOf(C), groupId |-> GroupId(C),
   representative |-> Representative(C), groupRank |-> GroupRank(C),
   cohortRank |-> CohortRank(C), memberRank |-> MemberRank(C, i),
   groupSize |-> Cardinality(C), similarityScore |-> MemberScore(C, i)]

Groups  == {Group(C) : C \in components}
Records == UNION {{Record(C, i) : i \in C} : C \in components}

-----------------------------------------------------------------------------
(* Properties *)

\* Reference: what every set holds that contains i and whatever is similar to a member.
Closed(S) == \A i \in S : Neighbors(i) \subseteq S
Cluster(i) == {j \in Ids : \A S \in SUBSET Ids : (i \in S /\ Closed(S)) => j \in S}

\* A group is a submission with all that a chain of similar submissions leads to, so that
\* neither the order of the submissions nor where the search starts changes the groups, and
\* a result leaves no submission out.
GroupsAreClusters ==
  /\ \A C \in components : \A i \in C : C = Cluster(i)
  /\ phase = "done" => UNION components = Ids

\* Two groups never have one id, although an id is made of what the members report and
\* not of who they are.
GroupIdsDistinct ==
  \A C, D \in components : GroupId(C) = GroupId(D) => C = D

\* The ranks number the groups of a result, those of each cohort, and the members of each
\* group without a tie or a gap, and no group comes before one of a graver cohort.
RanksArePlaces ==
  LET groups == Groups
      records == Records
  IN  phase = "done" =>
        /\ Cardinality(groups) = Cardinality(components)
        /\ {g.groupRank : g \in groups} = 1 .. Cardinality(groups)
        /\ \A c \in Cohorts :
             LET mine == {g \in groups : g.cohort = c}
             IN  {g.cohortRank : g \in mine} = 1 .. Cardinality(mine)
        /\ \A g \in groups :
             {r.memberRank : r \in {q \in records : q.groupId = g.groupId}} = 1 .. g.size
        /\ \A g, h \in groups :
             cohortPriority[g.cohort] < cohortPriority[h.cohort] => g.groupRank < h.groupRank
=============================================================================
