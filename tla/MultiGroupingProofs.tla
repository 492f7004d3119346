------------------------ MODULE MultiGroupingProofs ------------------------
(***************************************************************************)
(* The search of MultiGrouping finds the clusters of the similarity graph, *)
(* whatever the submissions are, and group ids do not collide.             *)
(***************************************************************************)
EXTENDS MultiGrouping, SumsAndPlaces, FiniteSetTheorems, TLAPS

-----------------------------------------------------------------------------
(* The similarity graph *)

\* Similarity does not depend on the order of the pair (pairKey).
LEMMA NeighborsSymmetric ==
  ASSUME NEW i \in Ids, NEW j \in Neighbors(i)
  PROVE  /\ j \in Ids /\ i \in Neighbors(j)
<1> DEFINE m == Normal(i)
           n == Normal(j)
<1>1. Comparable(m, n) <=> Comparable(n, m)
  BY DEF Comparable
<1>2. BothHaveSelectors(m, n) <=> BothHaveSelectors(n, m)
  BY DEF BothHaveSelectors
<1>3. ASSUME NEW x, NEW y
      PROVE  JaccardSimilarity(x, y) = JaccardSimilarity(y, x)
  <2>1. x \cap y = y \cap x /\ x \cup y = y \cup x
    OBVIOUS
  <2> QED BY <2>1 DEF JaccardSimilarity
<1>4. /\ SelectorSimilarity(m, n) = SelectorSimilarity(n, m)
      /\ TextSimilarity(m, n) = TextSimilarity(n, m)
  BY <1>1, <1>3 DEF SelectorSimilarity, TextSimilarity
<1>5. SimilarityScore(m, n) = SimilarityScore(n, m)
  BY <1>1, <1>2, <1>4 DEF SimilarityScore
<1> QED BY <1>5 DEF Neighbors, Similar

\* The cluster of a submission is the least closed set that holds it.
LEMMA ClusterLeast ==
  ASSUME NEW i \in Ids
  PROVE  /\ i \in Cluster(i)
         /\ Cluster(i) \subseteq Ids
         /\ Closed(Cluster(i))
         /\ \A S \in SUBSET Ids : (i \in S /\ Closed(S)) => Cluster(i) \subseteq S
<1>1. \A k \in Ids : Neighbors(k) \subseteq Ids
  BY DEF Neighbors
<1> QED BY <1>1 DEF Cluster, Closed

\* What is outside a closed set is closed too, so clusters do not overlap.
LEMMA ClusterSymmetric ==
  ASSUME NEW i \in Ids, NEW j \in Cluster(i)
  PROVE  i \in Cluster(j)
<1>1. j \in Ids
  BY DEF Cluster
<1>2. SUFFICES ASSUME NEW S \in SUBSET Ids, j \in S, Closed(S), i \notin S
               PROVE  FALSE
  BY <1>1 DEF Cluster
<1>3. Closed(Ids \ S)
  <2>1. SUFFICES ASSUME NEW k \in Ids \ S, NEW l \in Neighbors(k), l \in S
                 PROVE  FALSE
    BY NeighborsSymmetric DEF Closed
  <2>2. k \in Neighbors(l)
    BY NeighborsSymmetric
  <2> QED BY <1>2, <2>1, <2>2 DEF Closed
<1>4. j \in Ids \ S
  BY <1>2, <1>3, ClusterLeast
<1> QED BY <1>2, <1>4

\* A closed set within the cluster of one of its members is the cluster of each of them.
LEMMA ClosedIsCluster ==
  ASSUME NEW C \in SUBSET Ids, Closed(C), NEW r \in C, C \subseteq Cluster(r), NEW i \in C
  PROVE  C = Cluster(i)
<1>1. Cluster(i) \subseteq C
  BY ClusterLeast
<1>2. r \in Cluster(i)
  BY ClusterSymmetric
<1>3. Cluster(r) \subseteq Cluster(i)
  BY <1>2, ClusterLeast
<1> QED BY <1>1, <1>3

-----------------------------------------------------------------------------
(* The search *)

Open == component \cup stack

\* What has been put on the stack is in a finished component or in the one under
\* construction; the neighbours of a member are at least on the stack; what is finished
\* is a cluster, and what is not lies within one and apart from all that are finished.
SearchInv ==
  /\ visited = Open \cup UNION components
  /\ visited \subseteq Ids
  /\ \A i \in component : Neighbors(i) \subseteq Open
  /\ \A C \in components : C # {} /\ C \cap Open = {}
  /\ \A C \in components : \A i \in C : C = Cluster(i)
  /\ Open # {} => \E r \in Open : Open \subseteq Cluster(r)
  /\ phase = "done" => Open = {} /\ visited = Ids

LEMMA SearchInit == Init => SearchInv
BY DEF Init, SearchInv, Open

\* The submissions are those of the call, so that neither neighbours nor clusters change.
LEMMA SameGraph ==
  ASSUME args' = args
  PROVE  /\ \A i : Neighbors(i)' = Neighbors(i)
         /\ \A i : Cluster(i)' = Cluster(i)
<1>1. \A i : Normal(i)' = Normal(i)
  BY DEF Normal
<1>2. \A i : Neighbors(i)' = Neighbors(i)
  BY <1>1 DEF Neighbors
<1>3. \A S : Closed(S)' = Closed(S)
  BY <1>2 DEF Closed
<1> QED BY <1>2, <1>3 DEF Cluster

LEMMA StartKeeps == SearchInv /\ StartComponent => SearchInv'
<1> SUFFICES ASSUME SearchInv, StartComponent PROVE SearchInv'
  OBVIOUS
<1>1. PICK i \in Ids \ visited : visited' = visited \cup {i} /\ stack' = {i}
  BY DEF StartComponent
<1>2. /\ args' = args /\ phase' = phase /\ phase = "search"
      /\ component' = {} /\ component = {} /\ stack = {} /\ components' = components
  BY DEF StartComponent
<1>3. Open' = {i} /\ Open = {}
  BY <1>1, <1>2 DEF Open
<1>4. i \in Cluster(i)
  BY ClusterLeast
<1>5. \A C \in components : i \notin C
  BY DEF SearchInv
<1> QED BY <1>1, <1>2, <1>3, <1>4, <1>5, SameGraph DEF SearchInv

LEMMA VisitKeeps == SearchInv /\ VisitNext => SearchInv'
<1> SUFFICES ASSUME SearchInv, VisitNext PROVE SearchInv'
  OBVIOUS
<1>1. PICK i \in stack : /\ component' = component \cup {i}
                         /\ stack' = (stack \ {i}) \cup (Neighbors(i) \ visited)
                         /\ visited' = visited \cup Neighbors(i)
  BY DEF VisitNext
<1>2. args' = args /\ phase' = phase /\ components' = components
  BY DEF VisitNext
<1>3. i \in Ids /\ Neighbors(i) \subseteq Ids
  BY DEF SearchInv, Open, Neighbors
<1>4. Open' = Open \cup (Neighbors(i) \ visited)
  BY <1>1 DEF Open
<1>5. \A C \in components : Neighbors(i) \cap C = {}
  <2>1. SUFFICES ASSUME NEW C \in components, NEW j \in Neighbors(i), j \in C
                 PROVE  FALSE
    OBVIOUS
  <2>2. C = Cluster(j) /\ j \in Ids
    BY <1>3, <2>1 DEF SearchInv
  <2>3. i \in C
    BY <1>3, <2>1, <2>2, NeighborsSymmetric, ClusterLeast DEF Closed
  <2> QED BY <2>1, <2>3 DEF SearchInv, Open
<1>6. Neighbors(i) \subseteq Open'
  BY <1>4, <1>5 DEF SearchInv
<1>7. \E r \in Open' : Open' \subseteq Cluster(r)
  <2>1. PICK r \in Open : Open \subseteq Cluster(r)
    BY DEF SearchInv, Open
  <2>2. r \in Ids /\ i \in Cluster(r)
    BY <2>1 DEF SearchInv, Open
  <2>3. Neighbors(i) \subseteq Cluster(r)
    BY <2>2, ClusterLeast DEF Closed
  <2> QED BY <1>4, <2>1, <2>3
<1>8. phase # "done"
  BY DEF SearchInv, Open
<1>9. \A C \in components' : C # {} /\ C \cap Open' = {}
  BY <1>2, <1>4, <1>5 DEF SearchInv
<1>10. visited' = Open' \cup UNION components' /\ visited' \subseteq Ids
  BY <1>1, <1>2, <1>3, <1>4, <1>6 DEF SearchInv
<1>11. \A k \in component' : Neighbors(k)' \subseteq Open'
  BY <1>1, <1>2, <1>4, <1>6, SameGraph DEF SearchInv
<1>12. \A C \in components' : \A k \in C : C = Cluster(k)'
  BY <1>2, SameGraph DEF SearchInv
<1>13. \E r \in Open' : Open' \subseteq Cluster(r)'
  BY <1>2, <1>7, SameGraph
<1> QED BY <1>2, <1>8, <1>9, <1>10, <1>11, <1>12, <1>13 DEF SearchInv

LEMMA CloseKeeps == SearchInv /\ CloseComponent => SearchInv'
<1> SUFFICES ASSUME SearchInv, CloseComponent PROVE SearchInv'
  OBVIOUS
<1>1. /\ args' = args /\ phase' = phase /\ visited' = visited
      /\ stack = {} /\ stack' = {} /\ component # {} /\ component' = {}
      /\ components' = components \cup {component}
  BY DEF CloseComponent
<1>2. Open = component /\ Open' = {}
  BY <1>1 DEF Open
<1>3. component \subseteq Ids /\ Closed(component)
  BY <1>2 DEF SearchInv, Closed
<1>4. PICK r \in component : component \subseteq Cluster(r)
  BY <1>1, <1>2 DEF SearchInv
<1>5. \A i \in component : component = Cluster(i)
  BY <1>3, <1>4, ClosedIsCluster
<1>6. \A C \in components' : \A i \in C : C = Cluster(i)'
  BY <1>1, <1>5, SameGraph DEF SearchInv
<1>7. phase # "done"
  BY <1>1, <1>2 DEF SearchInv
<1> QED BY <1>1, <1>2, <1>6, <1>7 DEF SearchInv

LEMMA SearchNext == SearchInv /\ [Next]_vars => SearchInv'
<1> SUFFICES ASSUME SearchInv, [Next]_vars PROVE SearchInv'
  OBVIOUS
<1>1. CASE Gate
  BY <1>1, SameGraph DEF Gate, SearchInv, Open
<1>2. CASE StartComponent
  BY <1>2, StartKeeps
<1>3. CASE VisitNext
  BY <1>3, VisitKeeps
<1>4. CASE CloseComponent
  BY <1>4, CloseKeeps
<1>5. CASE Finish
  BY <1>5, SameGraph DEF Finish, SearchInv, Open
<1>6. CASE UNCHANGED vars
  BY <1>6, SameGraph DEF vars, SearchInv, Open
<1> QED BY <1>1, <1>2, <1>3, <1>4, <1>5, <1>6 DEF Next

THEOREM SearchInvariant == Spec => []SearchInv
BY SearchInit, SearchNext, PTL DEF Spec

\* computeConnectedComponents: each group is the least set closed under similarity that
\* holds any one of its members, and a result leaves no submission out.
THEOREM GroupsAreClustersHolds == Spec => []GroupsAreClusters
<1>1. SearchInv => GroupsAreClusters
  BY DEF SearchInv, GroupsAreClusters, Open
<1> QED BY <1>1, SearchInvariant, PTL

-----------------------------------------------------------------------------
(* Group ids *)

LEMMA RoundedWhole == ASSUME NEW n \in Nat \ {0} PROVE Rounded(1000 * n, n) = 1000
<1>1. 2 * (1000 * n) + n = 1000 * (2 * n) + n
  OBVIOUS
<1>2. \A d \in Nat, r \in Nat : r < d => (1000 * d + r) \div d = 1000
  OBVIOUS
<1> QED BY <1>1, <1>2 DEF Rounded

LEMMA RoundedIsNat == ASSUME NEW n \in Nat, NEW d \in Nat \ {0} PROVE Rounded(n, d) \in Nat
<1>1. 2 * n + d \in Nat /\ 2 * d \in Nat \ {0}
  OBVIOUS
<1>2. \A a \in Nat, b \in Nat \ {0} : a \div b \in Nat
  OBVIOUS
<1> QED BY <1>1, <1>2 DEF Rounded

\* Two sets alike are wholly similar, also when they are empty.
LEMMA JaccardOfEqual ==
  ASSUME NEW x, IsFiniteSet(x)
  PROVE  JaccardSimilarity(x, x) = 1000
<1>1. x \cap x = x /\ x \cup x = x
  OBVIOUS
<1>2. ASSUME x # {} PROVE Cardinality(x) \in Nat \ {0}
  BY <1>2, FS_CardinalityType, FS_EmptySet
<1> QED BY <1>1, <1>2, RoundedWhole DEF JaccardSimilarity

\* The normal form of a submission has finitely many selectors and tokens.
LEMMA NormalFinite ==
  ASSUME NEW s \in Submission
  PROVE  /\ IsFiniteSet(NormalizeSubmission(s).selectors)
         /\ IsFiniteSet(NormalizeSubmission(s).tokens)
         /\ NormalizeSubmission(s).cohort \in Cohorts
<1> DEFINE p == NormalizeSubmission(s)
<1>1. IsFiniteSet(p.selectors)
  <2>1. p.selectors \subseteq Selectors
    BY DEF Submission, NormalizeSubmission, ObservedSelectors
  <2> QED BY <2>1, FS_Subset, GroupingAssumption
<1>2. IsFiniteSet(p.tokens)
  <2> DEFINE words == s.summary \cup wordsOf[s.impact]
  <2>1. words \subseteq Words
    BY GroupingAssumption DEF Submission
  <2>2. IsFiniteSet(words)
    BY <2>1, FS_Subset, GroupingAssumption
  <2>3. IsFiniteSet({NormalizeToken(w) : w \in words})
    <3> DEFINE f == [w \in words |-> NormalizeToken(w)]
               T == {NormalizeToken(w) : w \in words}
    <3>1. f \in Surjection(words, T)
      BY DEF Surjection
    <3> QED BY <2>2, <3>1, FS_Surjection
  <2>4. p.tokens \subseteq {NormalizeToken(w) : w \in words}
    BY DEF NormalizeSubmission, TokenizeSummary
  <2> QED BY <2>3, <2>4, FS_Subset
<1>3. p.cohort \in Cohorts
  BY DEF NormalizeSubmission, NormalizeSeverityToCohort, Cohorts
<1> QED BY <1>1, <1>2, <1>3

\* Submissions that report the same are similar.
LEMMA SelfSimilar ==
  ASSUME NEW s \in Submission
  PROVE  Similar(NormalizeSubmission(s), NormalizeSubmission(s))
<1> DEFINE p == NormalizeSubmission(s)
<1>1. SelectorSimilarity(p, p) = 1000 /\ TextSimilarity(p, p) = 1000
  BY NormalFinite, JaccardOfEqual DEF SelectorSimilarity, TextSimilarity, Comparable
<1>2. Rounded(11000 + 5 * 1000 + 4 * 1000, 20) = 1000
  BY DEF Rounded
<1>3. SimilarityScore(p, p) = 1000
  BY <1>1, <1>2 DEF SimilarityScore, Comparable
<1> QED BY <1>3 DEF Similar

\* The arguments are what Init chose.
LEMMA ArgsKept == Spec => [](args \in Requests)
<1>1. Init => args \in Requests
  BY DEF Init
<1>2. args \in Requests /\ [Next]_vars => (args \in Requests)'
  BY DEF Next, vars, Gate, StartComponent, VisitNext, CloseComponent, Finish
<1> QED BY <1>1, <1>2, PTL DEF Spec

\* buildRankedGroup: the id of a group hashes the fingerprints of its members and nothing of
\* their identity; still no two groups of a result share one, because submissions with one
\* fingerprint are always put into one group.
THEOREM GroupIdsDistinctHolds == Spec => []GroupIdsDistinct
<1>1. ASSUME SearchInv, args \in Requests
      PROVE  GroupIdsDistinct
  <2>1. SUFFICES ASSUME NEW C \in components, NEW D \in components, GroupId(C) = GroupId(D)
                 PROVE  C = D
    BY DEF GroupIdsDistinct
  <2>2. Fingerprints(C) = Fingerprints(D)
    <3>1. ClusterKey(C) = ClusterKey(D)
      BY <2>1 DEF GroupId
    <3>2. ClusterKey(C).memberFingerprints = ClusterKey(D).memberFingerprints
      BY <3>1
    <3>3. \A G : DOMAIN ClusterKey(G).memberFingerprints = Fingerprints(G)
      BY DEF ClusterKey
    <3> QED BY <3>2, <3>3
  <2>3. C \subseteq Ids /\ D \subseteq Ids
    BY <1>1 DEF SearchInv
  <2>4. PICK i \in C : TRUE
    BY <1>1 DEF SearchInv
  <2>5. PICK j \in D : Normal(j) = Normal(i)
    BY <2>2, <2>4 DEF Fingerprints
  <2>6. C = Cluster(i) /\ D = Cluster(j)
    BY <1>1, <2>4, <2>5 DEF SearchInv
  <2>7. CASE i = j
    BY <2>6, <2>7
  <2>8. CASE i # j
    <3>1. args.submissions[i] \in Submission
      BY <1>1, <2>3, <2>4, GroupingAssumption DEF Request
    <3>2. Similar(Normal(i), Normal(j))
      BY <2>5, <3>1, SelfSimilar DEF Normal
    <3>3. j \in Neighbors(i)
      BY <2>3, <2>5, <2>8, <3>2 DEF Neighbors
    <3>4. j \in C
      BY <2>3, <2>4, <2>6, <3>3, ClusterLeast DEF Closed
    <3> QED BY <1>1, <2>5, <2>6, <3>4 DEF SearchInv
  <2> QED BY <2>7, <2>8
<1> QED BY <1>1, SearchInvariant, ArgsKept, PTL

\* The cohort, the target and the impact type that a group takes from its representative are
\* those of all its members, although similarity is only asked for between neighbours.
THEOREM GroupsAreUniform ==
  Spec => [](\A C \in components : \A i, j \in C : Comparable(Normal(i), Normal(j)))
<1>1. ASSUME SearchInv, NEW C \in components, NEW i \in C, NEW j \in C
      PROVE  Comparable(Normal(i), Normal(j))
  <2> DEFINE S == {k \in Ids : Comparable(Normal(i), Normal(k))}
  <2>1. i \in Ids /\ j \in Cluster(i)
    BY <1>1 DEF SearchInv
  <2>2. ASSUME NEW k \in Ids, NEW l \in Neighbors(k)
        PROVE  Comparable(Normal(k), Normal(l))
    BY <2>2 DEF Neighbors, Similar, SimilarityScore
  <2>3. Closed(S)
    <3>1. SUFFICES ASSUME NEW k \in S, NEW l \in Neighbors(k) PROVE l \in S
      BY DEF Closed
    <3>2. Comparable(Normal(k), Normal(l)) /\ l \in Ids
      BY <2>2 DEF Neighbors
    <3> QED BY <3>2 DEF Comparable
  <2>4. i \in S /\ S \subseteq Ids
    BY <2>1 DEF Comparable
  <2>5. j \in S
    BY <2>1, <2>3, <2>4, ClusterLeast
  <2> QED BY <2>5
<1>2. SearchInv => \A C \in components : \A i, j \in C : Comparable(Normal(i), Normal(j))
  BY <1>1
<1> QED BY <1>2, SearchInvariant, PTL

-----------------------------------------------------------------------------
(* Scores *)

LEMMA JaccardIsNat ==
  ASSUME NEW x, NEW y, IsFiniteSet(x), IsFiniteSet(y)
  PROVE  JaccardSimilarity(x, y) \in Nat
<1>1. IsFiniteSet(x \cap y) /\ IsFiniteSet(x \cup y)
  BY FS_Intersection, FS_Union
<1>2. Cardinality(x \cap y) \in Nat /\ Cardinality(x \cup y) \in Nat
  BY <1>1, FS_CardinalityType
<1>3. CASE x = {} /\ y = {}
  BY <1>3 DEF JaccardSimilarity
<1>4. CASE ~(x = {} /\ y = {})
  <2>1. Cardinality(x \cup y) # 0
    BY <1>1, <1>4, FS_EmptySet
  <2>2. 1000 * Cardinality(x \cap y) \in Nat
    BY <1>2
  <2>3. Rounded(1000 * Cardinality(x \cap y), Cardinality(x \cup y)) \in Nat
    BY <1>2, <2>1, <2>2, RoundedIsNat
  <2> QED BY <1>4, <2>3 DEF JaccardSimilarity
<1> QED BY <1>3, <1>4

LEMMA PairScoreIsNat ==
  ASSUME args \in Requests, NEW i \in Ids, NEW j \in Ids
  PROVE  PairScore(i, j) \in Nat
<1> DEFINE m == Normal(i)
           n == Normal(j)
<1>1. args.submissions[i] \in Submission /\ args.submissions[j] \in Submission
  BY GroupingAssumption DEF Request
<1>2. IsFiniteSet(m.selectors) /\ IsFiniteSet(m.tokens) /\ IsFiniteSet(n.selectors) /\ IsFiniteSet(n.tokens)
  BY <1>1, NormalFinite DEF Normal
<1> HIDE DEF m, n
<1>3. SelectorSimilarity(m, n) \in Nat /\ TextSimilarity(m, n) \in Nat
  BY <1>2, JaccardIsNat DEF SelectorSimilarity, TextSimilarity
<1>4. 11000 + 5 * SelectorSimilarity(m, n) + 4 * TextSimilarity(m, n) \in Nat
  BY <1>3
<1>5. Rounded(11000 + 5 * SelectorSimilarity(m, n) + 4 * TextSimilarity(m, n), 20) \in Nat
  BY <1>4, RoundedIsNat
<1>6. SimilarityScore(m, n) \in Nat
  BY <1>5 DEF SimilarityScore
<1> QED BY <1>6 DEF PairScore, m, n

LEMMA MemberScoreIsNat ==
  ASSUME args \in Requests, NEW C \in SUBSET Ids, C # {}, NEW i \in C
  PROVE  MemberScore(C, i) \in Nat
<1> DEFINE f == [j \in C |-> PairScore(i, j)]
           Adds(g) == g = [s \in SUBSET C |->
                             IF s = {} THEN 0 ELSE PairScore(i, Pick(s)) + g[s \ {Pick(s)}]]
<1>1. IsFiniteSet(C) /\ Cardinality(C) \in Nat \ {0}
  BY FS_Subset, FS_CardinalityType, FS_EmptySet, GroupingAssumption
<1>2. f \in [C -> Nat]
  BY PairScoreIsNat
<1>3. MapThenSumSet(LAMBDA j : PairScore(i, j), C) = (CHOOSE g : Adds(g))[C]
  BY DEF MapThenSumSet, MapThenFoldSet, Pick
<1>4. ASSUME NEW g  PROVE Adds(g) <=> IsSum(g, f, C)
  <2>1. ASSUME NEW s \in SUBSET C, s # {}  PROVE f[Pick(s)] = PairScore(i, Pick(s))
    BY <2>1, PickIn
  <2> QED BY <2>1 DEF IsSum
<1>5. IsSum(CHOOSE g : Adds(g), f, C)
  <2>1. Adds(SumOf(f, C))
    BY <1>1, <1>4, SumExists
  <2> HIDE DEF Adds
  <2> QED BY <1>4, <2>1
<1>6. MapThenSumSet(LAMBDA j : PairScore(i, j), C) \in Nat
  <2> HIDE DEF f, Adds
  <2> QED BY <1>1, <1>2, <1>3, <1>5, SumIsNat
<1> QED BY <1>1, <1>6, RoundedIsNat DEF MemberScore, Average

LEMMA GroupScoreIsNat ==
  ASSUME args \in Requests, NEW C \in SUBSET Ids, C # {}
  PROVE  GroupScore(C) \in Nat
<1> DEFINE f == [i \in C |-> MemberScore(C, i)]
           Adds(g) == g = [s \in SUBSET C |->
                             IF s = {} THEN 0 ELSE MemberScore(C, Pick(s)) + g[s \ {Pick(s)}]]
<1>1. IsFiniteSet(C) /\ Cardinality(C) \in Nat \ {0}
  BY FS_Subset, FS_CardinalityType, FS_EmptySet, GroupingAssumption
<1>2. f \in [C -> Nat]
  BY MemberScoreIsNat
<1>3. MapThenSumSet(LAMBDA i : MemberScore(C, i), C) = (CHOOSE g : Adds(g))[C]
  BY DEF MapThenSumSet, MapThenFoldSet, Pick
<1>4. ASSUME NEW g  PROVE Adds(g) <=> IsSum(g, f, C)
  <2>1. ASSUME NEW s \in SUBSET C, s # {}  PROVE f[Pick(s)] = MemberScore(C, Pick(s))
    BY <2>1, PickIn
  <2> QED BY <2>1 DEF IsSum
<1>5. IsSum(CHOOSE g : Adds(g), f, C)
  <2>1. Adds(SumOf(f, C))
    BY <1>1, <1>4, SumExists
  <2> HIDE DEF Adds
  <2> QED BY <1>4, <2>1
<1>6. MapThenSumSet(LAMBDA i : MemberScore(C, i), C) \in Nat
  <2> HIDE DEF f, Adds
  <2> QED BY <1>1, <1>2, <1>3, <1>5, SumIsNat
<1> QED BY <1>1, <1>6, RoundedIsNat DEF GroupScore, Average

-----------------------------------------------------------------------------
(* Ranks *)

\* The members of C that come before one of them
Ahead(C) == [i \in C |-> {j \in C : MemberBefore(C, j, i)}]

LEMMA MembersAreOrdered ==
  ASSUME args \in Requests, NEW C \in SUBSET Ids, C # {}
  PROVE  /\ IsFiniteSet(C)
         /\ \A x \in C : Ahead(C)[x] \subseteq C \ {x}
         /\ \A x \in C : \A y \in Ahead(C)[x] : Ahead(C)[y] \subseteq Ahead(C)[x]
         /\ \A x \in C : \A y \in C \ {x} : x \in Ahead(C)[y] \/ y \in Ahead(C)[x]
<1>1. IsFiniteSet(C)
  BY FS_Subset, GroupingAssumption
<1>2. \A i \in C : MemberScore(C, i) \in Nat /\ i \in Nat
  BY MemberScoreIsNat, GroupingAssumption
<1>3. \A x, y \in C : y \in Ahead(C)[x] <=> MemberBefore(C, y, x)
  BY DEF Ahead
<1>4. \A x \in C : Ahead(C)[x] \subseteq C
  BY DEF Ahead
<1>5. \A x \in C : ~MemberBefore(C, x, x)
  BY <1>2 DEF MemberBefore
<1>6. \A x, y, z \in C : MemberBefore(C, z, y) /\ MemberBefore(C, y, x) => MemberBefore(C, z, x)
  BY <1>2 DEF MemberBefore
<1>7. \A x, y \in C : x # y => MemberBefore(C, x, y) \/ MemberBefore(C, y, x)
  BY <1>2 DEF MemberBefore
<1> QED BY <1>1, <1>3, <1>4, <1>5, <1>6, <1>7

\* A group has a representative, one of its members.
LEMMA RepresentativeIsMember ==
  ASSUME args \in Requests, NEW C \in SUBSET Ids, C # {}
  PROVE  Representative(C) \in C
<1>1. \E x \in C : \A y \in C \ {x} : x \in Ahead(C)[y]
  BY MembersAreOrdered, FirstPlace
<1>2. \E x \in C : \A y \in C \ {x} : MemberBefore(C, x, y)
  BY <1>1 DEF Ahead
<1> QED BY <1>2 DEF Representative

\* An order by four numbers, the first that differs counting
Lexical(k, l) ==
  \/ k[1] < l[1]
  \/ k[1] = l[1] /\ k[2] < l[2]
  \/ k[1] = l[1] /\ k[2] = l[2] /\ k[3] < l[3]
  \/ k[1] = l[1] /\ k[2] = l[2] /\ k[3] = l[3] /\ k[4] < l[4]

LEMMA PrecedesIsLexical ==
  ASSUME NEW k, NEW l
  PROVE  Precedes(k, l, 1 .. 4) <=> Lexical(k, l)
<1>1. ASSUME NEW n \in 1 .. 4
      PROVE  n = 1 \/ n = 2 \/ n = 3 \/ n = 4
  OBVIOUS
<1>2. 1 .. 1 - 1 = {} /\ 1 .. 2 - 1 = {1} /\ 1 .. 3 - 1 = {1, 2} /\ 1 .. 4 - 1 = {1, 2, 3}
  OBVIOUS
<1>3. 1 .. 4 = {1, 2, 3, 4}
  OBVIOUS
<1> DEFINE At(n) == k[n] < l[n] /\ \A m \in 1 .. n - 1 : k[m] = l[m]
<1>4. /\ At(1) <=> k[1] < l[1]
      /\ At(2) <=> k[1] = l[1] /\ k[2] < l[2]
      /\ At(3) <=> k[1] = l[1] /\ k[2] = l[2] /\ k[3] < l[3]
      /\ At(4) <=> k[1] = l[1] /\ k[2] = l[2] /\ k[3] = l[3] /\ k[4] < l[4]
  BY <1>2
<1>5. Precedes(k, l, 1 .. 4) <=> At(1) \/ At(2) \/ At(3) \/ At(4)
  BY <1>3 DEF Precedes
<1> QED BY <1>4, <1>5 DEF Lexical

LEMMA GroupKeyIsNumeric ==
  ASSUME args \in Requests, NEW C \in SUBSET Ids, C # {}
  PROVE  /\ GroupKey(C)[1] = cohortPriority[CohortOf(C)] /\ GroupKey(C)[1] \in Int
         /\ GroupKey(C)[2] \in Int /\ GroupKey(C)[3] \in Int /\ GroupKey(C)[4] \in Int
         /\ GroupKey(C)[4] = Representative(C)
         /\ CohortOf(C) \in Cohorts
<1>1. Representative(C) \in C /\ Representative(C) \in Ids /\ Representative(C) \in Int
  <2>1. Representative(C) \in C
    BY RepresentativeIsMember
  <2>2. \A i \in Ids : i \in Int
    BY GroupingAssumption
  <2> QED BY <2>1, <2>2
<1>2. args.submissions[Representative(C)] \in Submission
  BY <1>1, GroupingAssumption DEF Request
<1>3. CohortOf(C) \in Cohorts
  BY <1>2, NormalFinite DEF CohortOf, ClusterKey, Normal
<1>4. cohortPriority[CohortOf(C)] \in Int
  BY <1>3 DEF cohortPriority, Cohorts
<1>5. IsFiniteSet(C) /\ Cardinality(C) \in Nat
  BY FS_Subset, FS_CardinalityType, GroupingAssumption
<1>6. -Cardinality(C) \in Int /\ -GroupScore(C) \in Int
  BY <1>5, GroupScoreIsNat
<1> QED BY <1>1, <1>3, <1>4, <1>6 DEF GroupKey

\* The groups of S that come before one of them
GroupsAhead(S) == [C \in S |-> {D \in S : GroupBefore(D, C)}]

\* GroupBefore orders any groups that do not overlap.
LEMMA GroupsAreOrdered ==
  ASSUME args \in Requests, NEW S \in SUBSET components, SearchInv
  PROVE  /\ IsFiniteSet(S)
         /\ \A C \in S : GroupsAhead(S)[C] \subseteq S \ {C}
         /\ \A C \in S : \A D \in GroupsAhead(S)[C] : GroupsAhead(S)[D] \subseteq GroupsAhead(S)[C]
         /\ \A C \in S : \A D \in S \ {C} : C \in GroupsAhead(S)[D] \/ D \in GroupsAhead(S)[C]
<1>1. \A C \in S : C \in SUBSET Ids /\ C # {}
  BY DEF SearchInv
<1>2. IsFiniteSet(S)
  <2>1. IsFiniteSet(SUBSET Ids)
    BY FS_SUBSET, GroupingAssumption
  <2> QED BY <1>1, <2>1, FS_Subset
<1> DEFINE k(C) == GroupKey(C)
<1>3. \A C \in S : k(C)[1] \in Int /\ k(C)[2] \in Int /\ k(C)[3] \in Int /\ k(C)[4] \in Int
  BY <1>1, GroupKeyIsNumeric
<1>4. \A C, D \in S : GroupBefore(C, D) <=> Lexical(k(C), k(D))
  BY PrecedesIsLexical DEF GroupBefore
<1>5. \A C, D \in S : k(C)[4] = k(D)[4] => C = D
  <2>1. SUFFICES ASSUME NEW C \in S, NEW D \in S, k(C)[4] = k(D)[4]  PROVE C = D
    OBVIOUS
  <2>2. Representative(C) \in C /\ Representative(C) \in D
    BY <1>1, <2>1, GroupKeyIsNumeric, RepresentativeIsMember
  <2> QED BY <2>2 DEF SearchInv
<1> HIDE DEF k
<1>6. \A C \in S : ~Lexical(k(C), k(C))
  BY <1>3 DEF Lexical
<1>7. \A C, D, E \in S : Lexical(k(E), k(D)) /\ Lexical(k(D), k(C)) => Lexical(k(E), k(C))
  BY <1>3 DEF Lexical
<1>8. \A C, D \in S : C # D => Lexical(k(C), k(D)) \/ Lexical(k(D), k(C))
  BY <1>3, <1>5 DEF Lexical
<1> QED BY <1>2, <1>4, <1>6, <1>7, <1>8 DEF GroupsAhead

\* The places of some groups among themselves
LEMMA GroupPlaces ==
  ASSUME args \in Requests, NEW S \in SUBSET components, SearchInv
  PROVE  /\ {1 + Cardinality({D \in S : GroupBefore(D, C)}) : C \in S} = 1 .. Cardinality(S)
         /\ \A C \in S : Cardinality({D \in S : GroupBefore(D, C)}) \in Nat
         /\ \A C, D \in S : GroupBefore(D, C) =>
              Cardinality({E \in S : GroupBefore(E, D)}) < Cardinality({E \in S : GroupBefore(E, C)})
<1> DEFINE R == GroupsAhead(S)
<1>1. \A C \in S : R[C] = {D \in S : GroupBefore(D, C)}
  BY DEF GroupsAhead
<1>2. /\ {1 + Cardinality(R[C]) : C \in S} = 1 .. Cardinality(S)
      /\ \A C \in S : Cardinality(R[C]) \in Nat
      /\ \A C \in S : \A D \in R[C] : Cardinality(R[D]) < Cardinality(R[C])
  <2> HIDE DEF R
  <2>1. /\ IsFiniteSet(S)
        /\ \A C \in S : R[C] \subseteq S \ {C}
        /\ \A C \in S : \A D \in R[C] : R[D] \subseteq R[C]
        /\ \A C \in S : \A D \in S \ {C} : C \in R[D] \/ D \in R[C]
    BY GroupsAreOrdered DEF R
  <2> QED BY <2>1, PlacesAreNumbered
<1> HIDE DEF R
<1> QED BY <1>1, <1>2

LEMMA MemberPlaces ==
  ASSUME args \in Requests, NEW C \in SUBSET Ids, C # {}
  PROVE  {MemberRank(C, i) : i \in C} = 1 .. Cardinality(C)
<1> DEFINE R == Ahead(C)
<1>1. \A i \in C : MemberRank(C, i) = 1 + Cardinality(R[i])
  BY DEF Ahead, MemberRank
<1>2. {1 + Cardinality(R[i]) : i \in C} = 1 .. Cardinality(C)
  <2> HIDE DEF R
  <2>1. /\ IsFiniteSet(C)
        /\ \A x \in C : R[x] \subseteq C \ {x}
        /\ \A x \in C : \A y \in R[x] : R[y] \subseteq R[x]
        /\ \A x \in C : \A y \in C \ {x} : x \in R[y] \/ y \in R[x]
    BY MembersAreOrdered DEF R
  <2> QED BY <2>1, PlacesAreNumbered
<1> HIDE DEF R
<1> QED BY <1>1, <1>2

\* As many groups are returned as some components make: their ids tell them apart.
LEMMA OneGroupEach ==
  ASSUME GroupIdsDistinct, NEW S \in SUBSET components, IsFiniteSet(S)
  PROVE  Cardinality({Group(C) : C \in S}) = Cardinality(S)
<1> DEFINE T == {Group(C) : C \in S}
           f == [C \in S |-> Group(C)]
<1>1. \A C, D \in S : Group(C) = Group(D) => C = D
  <2>1. \A C : Group(C).groupId = GroupId(C)
    BY DEF Group
  <2> QED BY <2>1 DEF GroupIdsDistinct
<1>2. f \in Bijection(S, T)
  <2>1. f \in [S -> T] /\ \A t \in T : \E C \in S : f[C] = t
    OBVIOUS
  <2>2. \A C, D \in S : f[C] = f[D] => C = D
    BY <1>1
  <2> HIDE DEF f, T
  <2> QED BY <2>1, <2>2 DEF Bijection, Injection, Surjection, IsInjective
<1>3. IsFiniteSet(T) /\ Cardinality(T) = Cardinality(S)
  <2> HIDE DEF f, T
  <2> QED BY <1>2, FS_Bijection DEF ExistsBijection
<1> QED BY <1>3

\* buildDeterministicMultiSubmissionGroups, buildRankedGroup: the ranks of groups, of groups
\* within a cohort and of members are the numbers from one up to how many there are, for any
\* submissions: the sort keys leave no tie, since representatives differ.
THEOREM RanksArePlacesAlways == Spec => []RanksArePlaces
<1>1. ASSUME SearchInv, args \in Requests, GroupIdsDistinct
      PROVE  RanksArePlaces
  <2> DEFINE groups == Groups
             records == Records
  <2>1. /\ \A C \in components : C \in SUBSET Ids /\ C # {}
        /\ IsFiniteSet(components)
    BY <1>1, GroupsAreOrdered DEF SearchInv
  <2>2. Cardinality(groups) = Cardinality(components)
    BY <1>1, <2>1, OneGroupEach DEF Groups
  <2>3. {g.groupRank : g \in groups} = 1 .. Cardinality(groups)
    <3>1. {GroupRank(C) : C \in components} = 1 .. Cardinality(components)
      BY <1>1, GroupPlaces DEF GroupRank
    <3>2. \A C : Group(C).groupRank = GroupRank(C)
      BY DEF Group
    <3>3. {g.groupRank : g \in groups} = {GroupRank(C) : C \in components}
      BY <3>2 DEF Groups
    <3> QED BY <2>2, <3>1, <3>3
  <2>4. ASSUME NEW c \in Cohorts
        PROVE  LET mine == {g \in groups : g.cohort = c}
               IN  {g.cohortRank : g \in mine} = 1 .. Cardinality(mine)
    <3> DEFINE S == {C \in components : CohortOf(C) = c}
               mine == {g \in groups : g.cohort = c}
    <3>1. \A C : Group(C).cohort = CohortOf(C) /\ Group(C).cohortRank = CohortRank(C)
      BY DEF Group
    <3>2. mine = {Group(C) : C \in S}
      BY <3>1 DEF Groups
    <3>3. Cardinality(mine) = Cardinality(S)
      <4> HIDE DEF S, mine
      <4>1. S \in SUBSET components /\ IsFiniteSet(S)
        BY <2>1, FS_Subset DEF S
      <4> QED BY <1>1, <3>2, <4>1, OneGroupEach
    <3>4. \A C \in S : CohortRank(C) = 1 + Cardinality({D \in S : GroupBefore(D, C)})
      <4>1. \A C \in S : {D \in components : CohortOf(D) = CohortOf(C) /\ GroupBefore(D, C)}
                           = {D \in S : GroupBefore(D, C)}
        OBVIOUS
      <4> QED BY <4>1 DEF CohortRank
    <3>5. {1 + Cardinality({D \in S : GroupBefore(D, C)}) : C \in S} = 1 .. Cardinality(S)
      <4>1. S \in SUBSET components
        OBVIOUS
      <4> HIDE DEF S
      <4> QED BY <1>1, <4>1, GroupPlaces
    <3>6. {g.cohortRank : g \in mine} = {CohortRank(C) : C \in S}
      <4> HIDE DEF S, mine
      <4> QED BY <3>1, <3>2
    <3>7. {CohortRank(C) : C \in S} = 1 .. Cardinality(S)
      <4> HIDE DEF S
      <4> QED BY <3>4, <3>5
    <3> QED BY <3>3, <3>6, <3>7
  <2>5. ASSUME NEW g \in groups
        PROVE  {r.memberRank : r \in {q \in records : q.groupId = g.groupId}} = 1 .. g.size
    <3>1. PICK C \in components : g = Group(C)
      BY DEF Groups
    <3>2. g.groupId = GroupId(C) /\ g.size = Cardinality(C)
      BY <3>1 DEF Group
    <3>3. \A D, i : Record(D, i).groupId = GroupId(D) /\ Record(D, i).memberRank = MemberRank(D, i)
      BY DEF Record
    <3>4. {q \in records : q.groupId = g.groupId} = {Record(C, i) : i \in C}
      <4>1. \A D \in components : GroupId(D) = GroupId(C) => D = C
        BY <1>1 DEF GroupIdsDistinct
      <4> QED BY <3>2, <3>3, <4>1 DEF Records
    <3>5. {r.memberRank : r \in {Record(C, i) : i \in C}} = {MemberRank(C, i) : i \in C}
      BY <3>3
    <3> QED BY <1>1, <2>1, <3>2, <3>4, <3>5, MemberPlaces
  <2>6. ASSUME NEW g \in groups, NEW h \in groups,
               cohortPriority[g.cohort] < cohortPriority[h.cohort]
        PROVE  g.groupRank < h.groupRank
    <3>1. PICK C \in components, D \in components : g = Group(C) /\ h = Group(D)
      BY DEF Groups
    <3>2. /\ g.cohort = CohortOf(C) /\ g.groupRank = GroupRank(C)
          /\ h.cohort = CohortOf(D) /\ h.groupRank = GroupRank(D)
      BY <3>1 DEF Group
    <3>3. GroupBefore(C, D)
      <4>1. GroupKey(C)[1] < GroupKey(D)[1]
        BY <1>1, <2>1, <2>6, <3>2, GroupKeyIsNumeric
      <4> QED BY <4>1, PrecedesIsLexical DEF GroupBefore, Lexical
    <3>4. /\ Cardinality({E \in components : GroupBefore(E, C)}) \in Nat
          /\ Cardinality({E \in components : GroupBefore(E, D)}) \in Nat
          /\ Cardinality({E \in components : GroupBefore(E, C)})
               < Cardinality({E \in components : GroupBefore(E, D)})
      BY <1>1, <3>3, GroupPlaces
    <3> QED BY <3>2, <3>4 DEF GroupRank
  <2> HIDE DEF groups, records
  <2>7. RanksArePlaces <=>
          (phase = "done" =>
             /\ Cardinality(groups) = Cardinality(components)
             /\ {g.groupRank : g \in groups} = 1 .. Cardinality(groups)
             /\ \A c \in Cohorts :
                  LET mine == {g \in groups : g.cohort = c}
                  IN  {g.cohortRank : g \in mine} = 1 .. Cardinality(mine)
             /\ \A g \in groups :
                  {r.memberRank : r \in {q \in records : q.groupId = g.groupId}} = 1 .. g.size
             /\ \A g, h \in groups :
                  cohortPriority[g.cohort] < cohortPriority[h.cohort] => g.groupRank < h.groupRank)
    BY Zenon DEF RanksArePlaces, groups, records
  <2> QED BY <2>2, <2>3, <2>4, <2>5, <2>6, <2>7
<1> QED BY <1>1, SearchInvariant, ArgsKept, GroupIdsDistinctHolds, PTL
=============================================================================
