----------------------- MODULE DatasetProfilingProofs -----------------------
(***************************************************************************)
(* Proofs about what Agent 2 computes from a file, for every file, every   *)
(* configuration of templates and every setting of the thresholds.         *)
(*                                                                         *)
(* FileInv is what they all rest on: whatever a run has computed so far is *)
(* the value of a function of the file.  What is left is to show of each   *)
(* of those functions that it does what its property says.                 *)
(***************************************************************************)
EXTENDS DatasetProfiling, FiniteSetTheorems, NaturalsInduction, SequenceTheorems, WellFoundedInduction, TLAPS

----------------------------------------------------------------------------
\* Numbers, least subsets, and sums over functions.

\* A set of natural numbers has a least member.
LEMMA LeastNumber == ASSUME NEW S \in SUBSET Nat, S # {} PROVE \E k \in S : \A j \in S : k <= j
<1>1. IsWellFoundedOn(OpToRel(<, Nat), Nat)
  BY NatLessThanWellFounded
<1>2. PICK k \in S : \A j \in S : ~(<< j, k >> \in OpToRel(<, Nat))
  BY <1>1, WFMin
<1>3. \A j \in S : ~(j < k)
  BY <1>2 DEF OpToRel
<1> QED BY <1>3

\* A set of subsets of a finite set has a member none of the others is inside of.
LEMMA LeastSubset ==
    ASSUME NEW S, IsFiniteSet(S), NEW C \in SUBSET SUBSET S, C # {}
    PROVE  \E U \in C : \A V \in C : V \subseteq U => V = U
<1>1. IsWellFoundedOn(StrictSubsetOrdering(S), FiniteSubsetsOf(S))
  BY FS_StrictSubsetOrderingWellFounded
<1>2. FiniteSubsetsOf(S) = SUBSET S
  BY FS_FiniteSubsetsOfFinite
<1>3. PICK U \in C : \A V \in C : ~(<< V, U >> \in StrictSubsetOrdering(S))
  <2> HIDE DEF StrictSubsetOrdering
  <2> QED BY <1>1, <1>2, WFMin
<1> QED BY <1>3 DEF StrictSubsetOrdering

One(s) == CHOOSE x \in s : TRUE

\* What the sums of the library take out of a set is in it.
LEMMA OneIsMember == ASSUME NEW s, s # {} PROVE One(s) \in s
  BY DEF One

\* A total of the subsets of S: each adds one member to the total of the rest.
Adding(f, total, s) == IF s = {} THEN 0 ELSE f[One(s)] + total[s \ {One(s)}]

Adds(f, S, total) == total = [s \in SUBSET S |-> Adding(f, total, s)]

\* The same for the subsets of at most n members, by which totals are built up.
Small(S, n) == {s \in SUBSET S : Cardinality(s) <= n}

AddsSmall(f, S, n, total) == total = [s \in Small(S, n) |-> Adding(f, total, s)]

\* The library's sum is such a total, if there is one.
LEMMA SumIsTotal ==
    ASSUME NEW f, NEW S
    PROVE  SumFunctionOnSet(f, S) = (CHOOSE total : Adds(f, S, total))[S]
  BY DEF SumFunctionOnSet, FoldFunctionOnSet, MapThenFoldSet, Adds, Adding, One

\* A sum over a function is one over its whole domain.
LEMMA SumOfAll == ASSUME NEW f PROVE SumFunction(f) = SumFunctionOnSet(f, DOMAIN f)
  BY DEF SumFunction

\* Without one member a subset is smaller.
LEMMA Rest ==
    ASSUME NEW S, IsFiniteSet(S), NEW n \in Nat, NEW s \in Small(S, n), s # {}
    PROVE  n > 0 /\ s \ {One(s)} \in Small(S, n - 1)
<1>1. IsFiniteSet(s) /\ Cardinality(s) \in Nat /\ Cardinality(s) <= n
  BY FS_Subset, FS_CardinalityType DEF Small
<1>2. Cardinality(s) # 0
  BY <1>1, FS_EmptySet
<1>3. Cardinality(s \ {One(s)}) = Cardinality(s) - 1
  BY <1>1, FS_RemoveElement, OneIsMember
<1> QED BY <1>1, <1>2, <1>3 DEF Small

\* There are totals of the subsets of every size (the least size without one is impossible).
LEMMA SmallTotalExists ==
    ASSUME NEW f, NEW S, IsFiniteSet(S), NEW n \in Nat
    PROVE  \E total : AddsSmall(f, S, n, total)
<1> DEFINE Bad == {k \in Nat : ~ \E total : AddsSmall(f, S, k, total)}
<1>1. ASSUME Bad # {} PROVE FALSE
  <2>1. PICK k \in Bad : \A j \in Bad : k <= j
    BY <1>1, LeastNumber
  <2>2. CASE k = 0
    <3>1. \A s \in Small(S, 0) : s = {}
      <4> SUFFICES ASSUME NEW s \in Small(S, 0), s # {} PROVE FALSE
        OBVIOUS
      <4> HIDE DEF Bad
      <4>1. 0 \in Nat
        OBVIOUS
      <4>2. 0 > 0
        BY <4>1, Rest
      <4> QED BY <4>2
    <3> DEFINE total == [s \in Small(S, 0) |-> 0]
    <3>2. AddsSmall(f, S, 0, total)
      BY <3>1 DEF AddsSmall, Adding
    <3> QED BY <2>1, <2>2, <3>2
  <2>3. CASE k > 0
    <3>1. k \in Nat /\ k - 1 \in Nat /\ k - 1 \notin Bad
      BY <2>1, <2>3
    <3>2. PICK small : AddsSmall(f, S, k - 1, small)
      BY <3>1
    <3> DEFINE total == [s \in Small(S, k) |-> Adding(f, small, s)]
    <3>3. \A s \in Small(S, k - 1) : s \in Small(S, k) /\ total[s] = small[s]
      <4>1. \A s \in Small(S, k - 1) : s \in Small(S, k)
        <5> SUFFICES ASSUME NEW s \in Small(S, k - 1) PROVE s \in Small(S, k)
          OBVIOUS
        <5>1. Cardinality(s) \in Nat /\ Cardinality(s) <= k - 1
          BY FS_Subset, FS_CardinalityType DEF Small
        <5> QED BY <5>1, <3>1 DEF Small
      <4> QED BY <4>1, <3>2 DEF AddsSmall
    <3>4. \A s \in Small(S, k) : Adding(f, total, s) = Adding(f, small, s)
      <4> HIDE DEF total
      <4> QED BY <3>1, <3>3, Rest DEF Adding
    <3>5. AddsSmall(f, S, k, total)
      <4>1. total = [s \in Small(S, k) |-> Adding(f, total, s)]
        BY <3>4
      <4> QED BY <4>1 DEF AddsSmall
    <3> QED BY <2>1, <3>5
  <2> QED BY <2>1, <2>2, <2>3
<1> QED BY <1>1

\* So there is a total of all subsets.
LEMMA TotalExists ==
    ASSUME NEW f, NEW S, IsFiniteSet(S)
    PROVE  Adds(f, S, CHOOSE total : Adds(f, S, total))
<1>1. Cardinality(S) \in Nat /\ Small(S, Cardinality(S)) = SUBSET S
  BY FS_CardinalityType, FS_Subset DEF Small
<1>2. PICK total : AddsSmall(f, S, Cardinality(S), total)
  BY <1>1, SmallTotalExists
<1>3. Adds(f, S, total)
  BY <1>1, <1>2 DEF Adds, AddsSmall
<1> QED BY <1>3

\* Totals of two sets agree on the subsets they share.
LEMMA TotalsAgree ==
    ASSUME NEW f, NEW S, IsFiniteSet(S), NEW T \in SUBSET S,
           NEW a, Adds(f, S, a), NEW b, Adds(f, T, b)
    PROVE  a[T] = b[T]
<1> DEFINE Bad == {u \in SUBSET T : a[u] # b[u]}
<1>1. ASSUME Bad # {} PROVE FALSE
  <2>1. PICK u \in Bad : \A v \in Bad : v \subseteq u => v = u
    <3>1. IsFiniteSet(T)
      BY FS_Subset
    <3>2. Bad \in SUBSET SUBSET T
      OBVIOUS
    <3> HIDE DEF Bad
    <3> QED BY <1>1, <3>1, <3>2, LeastSubset
  <2>2. u \in SUBSET S /\ u \in SUBSET T
    OBVIOUS
  <2>3. a[u] = Adding(f, a, u) /\ b[u] = Adding(f, b, u)
    BY <2>2 DEF Adds
  <2>4. u # {} => u \ {One(u)} \notin Bad
    BY <2>1, OneIsMember
  <2>5. Adding(f, a, u) = Adding(f, b, u)
    BY <2>2, <2>4 DEF Adding
  <2> QED BY <2>3, <2>5
<1> QED BY <1>1

(* A sum is that of one member and the rest. *)
\* A sum is one member added to the sum of the rest.
LEMMA SumUnfolds ==
    ASSUME NEW f, NEW S, IsFiniteSet(S)
    PROVE  SumFunctionOnSet(f, S) =
             IF S = {} THEN 0 ELSE f[One(S)] + SumFunctionOnSet(f, S \ {One(S)})
<1> DEFINE T == S \ {One(S)}
           a == CHOOSE total : Adds(f, S, total)
           b == CHOOSE total : Adds(f, T, total)
<1>1. IsFiniteSet(T) /\ T \in SUBSET S
  BY FS_Subset
<1>2. Adds(f, S, a)
  BY TotalExists
<1>3. Adds(f, T, b)
  BY <1>1, TotalExists
<1>4. a[S] = Adding(f, a, S)
  BY <1>2 DEF Adds
<1>5. a[T] = b[T]
  BY <1>1, <1>2, <1>3, TotalsAgree
<1>6. SumFunctionOnSet(f, S) = a[S] /\ SumFunctionOnSet(f, T) = b[T]
  BY SumIsTotal
<1> HIDE DEF a, b
<1> QED BY <1>4, <1>5, <1>6 DEF Adding

\* A sum of integers is an integer.
LEMMA SumIsNumber ==
    ASSUME NEW S, IsFiniteSet(S), NEW f, \A x \in S : f[x] \in Int
    PROVE  SumFunctionOnSet(f, S) \in Int
<1> DEFINE Bad == {u \in SUBSET S : SumFunctionOnSet(f, u) \notin Int}
<1>1. ASSUME Bad # {} PROVE FALSE
  <2>1. PICK u \in Bad : \A v \in Bad : v \subseteq u => v = u
    <3>2. Bad \in SUBSET SUBSET S
      OBVIOUS
    <3> HIDE DEF Bad
    <3> QED BY <1>1, <3>2, LeastSubset
  <2>2. IsFiniteSet(u)
    BY FS_Subset
  <2>3. SumFunctionOnSet(f, u) = IF u = {} THEN 0 ELSE f[One(u)] + SumFunctionOnSet(f, u \ {One(u)})
    BY <2>2, SumUnfolds
  <2>4. u # {} => One(u) \in u /\ u \ {One(u)} \notin Bad
    BY <2>1, OneIsMember
  <2> QED BY <2>1, <2>3, <2>4
<1> QED BY <1>1

----------------------------------------------------------------------------
\* The scores of the dataset and the recommended features.

\* What the four assessments say of the dataset itself.
DatasetScores(r) == << r.analytics.dataset, r.ml.dataset, r.llm.dataset, r.overall.dataset >>

\* The split made without a question counts as a recommendation.
LEMMA SplitIsGiven ==
    ASSUME NEW ps, NEW roles PROVE DeterministicFeatureSplit(ps, roles).given = TRUE
  BY DEF DeterministicFeatureSplit, NoRecommendation

\* The machine-learning assessment rates the dataset the same with any recommendation.
LEMMA MLIgnoresAnswer ==
    ASSUME NEW ps, NEW q, NEW grain, NEW rows, NEW a, a.given, NEW b, b.given
    PROVE  AssessML(ps, q, grain, rows, a).dataset = AssessML(ps, q, grain, rows, b).dataset
  BY DEF AssessML

\* So does the one for language models.
LEMMA LLMIgnoresAnswer ==
    ASSUME NEW ps, NEW q, NEW coverage, NEW a, NEW b
    PROVE  AssessLLM(ps, q, coverage, a).dataset = AssessLLM(ps, q, coverage, b).dataset
  BY DEF AssessLLM

\* So do all four of them together.
LEMMA ScoresIgnoreAnswer ==
    ASSUME NEW ps, NEW q, NEW metadata, NEW roles, NEW rows, NEW a, a.given, NEW b, b.given
    PROVE  DatasetScores(AssessAll(ps, q, metadata, roles, rows, a))
             = DatasetScores(AssessAll(ps, q, metadata, roles, rows, b))
  BY MLIgnoresAnswer, LLMIgnoresAnswer DEF AssessAll, DatasetScores

\* What the nodes compute, as functions of the file.
ProfilesOf(f) == ProfileAll(f.table)

HierarchyOf(f) == BuildHierarchy(f.table, ProfilesOf(f))

ConfidenceOf(h) ==
    LET n == Len(h.edges)
    IN [c \in (IF n = 0 THEN {} ELSE {"hierarchy"}) |-> Sureness(h) \div n]

QualityOf(f) ==
    QualityDimensions(ProfilesOf(f), f.metadata, f.results, Joined({ConfidenceOf(HierarchyOf(f)), f.confidences}))

ReadinessOf(f, rec) == AssessAll(ProfilesOf(f), QualityOf(f), f.metadata, Roles, Len(f.table), rec)

ScoresOf(f) == DatasetScores(ReadinessOf(f, DeterministicFeatureSplit(ProfilesOf(f), Roles)))

\* The stages after the quality was assessed.
Late == {"assessed", "recommended", "rated", "finalized", "finalized_lightweight"}

\* Whatever a run has computed so far is the value of a function of the file.
FileInv ==
    /\ file \in Files
    /\ stage \in {"loaded", "profiled", "classified"} \cup Late
    /\ stage # "loaded" => profiles = ProfilesOf(file)
    /\ stage \in {"classified"} \cup Late => hierarchy = HierarchyOf(file)
    /\ stage \in Late => quality = QualityOf(file)
    /\ stage = "finalized" => cubes = GenerateCubes(file.table, hierarchy.columns)

\* The scores of every completed run are the one value the file determines.
ScoreInv ==
    /\ FileInv
    /\ stage = "recommended" => recommendation.given
    /\ stage = "rated" => DatasetScores(readiness) = ScoresOf(file)
    /\ \A r \in stored : DatasetScores(r) = ScoresOf(file)

LEMMA InitFile == Init => FileInv
  BY DEF Init, FileInv, Late

LEMMA NextFile == FileInv /\ [Next]_vars => FileInv'
<1> SUFFICES ASSUME FileInv, [Next]_vars PROVE FileInv'
  OBVIOUS
<1> USE DEF FileInv, Late
<1>1. CASE ProfileData
  BY <1>1 DEF ProfileData, ProfilesOf
<1>2. CASE ClassifyAndBuildHierarchy
  BY <1>2 DEF ClassifyAndBuildHierarchy, HierarchyOf
<1>3. CASE AssessQuality
  <2>1. HierarchyConfidence = ConfidenceOf(hierarchy)
    BY DEF HierarchyConfidence, ConfidenceOf
  <2>2. quality' = QualityOf(file)
    BY <1>3, <2>1 DEF AssessQuality, QualityOf
  <2> QED BY <1>3, <2>2 DEF AssessQuality
<1>4. CASE RecommendTargetFeatures
  BY <1>4 DEF RecommendTargetFeatures
<1>5. CASE AssessReadiness
  BY <1>5 DEF AssessReadiness
<1>6. CASE GenerateCharts
  BY <1>6 DEF GenerateCharts
<1>8. CASE RunAgain
  BY <1>8 DEF RunAgain
<1>9. CASE UNCHANGED vars
  BY <1>9 DEF vars
<1> QED BY <1>1, <1>2, <1>3, <1>4, <1>5, <1>6, <1>8, <1>9 DEF Next

LEMMA FileInvariant == Spec => []FileInv
<1> QED BY InitFile, NextFile, PTL DEF Spec

LEMMA NextScore == ScoreInv /\ [Next]_vars => ScoreInv'
<1> SUFFICES ASSUME ScoreInv, [Next]_vars PROVE ScoreInv'
  OBVIOUS
<1>0. FileInv /\ FileInv'
  BY NextFile DEF ScoreInv
<1> USE DEF ScoreInv
<1>1. CASE ProfileData
  BY <1>0, <1>1 DEF ProfileData
<1>2. CASE ClassifyAndBuildHierarchy
  BY <1>0, <1>2 DEF ClassifyAndBuildHierarchy
<1>3. CASE AssessQuality
  BY <1>0, <1>3 DEF AssessQuality
<1>4. CASE RecommendTargetFeatures
  <2>1. recommendation'.given
    BY <1>4, SplitIsGiven, AnswersAssumption DEF RecommendTargetFeatures
  <2> QED BY <1>0, <1>4, <2>1 DEF RecommendTargetFeatures
<1>5. CASE AssessReadiness
  <2>1. readiness' = ReadinessOf(file, recommendation)
    BY <1>5 DEF AssessReadiness, ReadinessOf, FileInv, Late
  <2>2. recommendation.given
    BY <1>5 DEF AssessReadiness
  <2>3. DatasetScores(readiness') = ScoresOf(file)
    <3> DEFINE split == DeterministicFeatureSplit(ProfilesOf(file), Roles)
    <3>1. split.given
      BY SplitIsGiven
    <3> HIDE DEF split
    <3>2. DatasetScores(ReadinessOf(file, recommendation)) = DatasetScores(ReadinessOf(file, split))
      BY <2>2, <3>1, ScoresIgnoreAnswer DEF ReadinessOf
    <3> QED BY <2>1, <3>2 DEF ScoresOf, split
  <2> QED BY <1>0, <1>5, <2>3 DEF AssessReadiness
<1>6. CASE GenerateCharts
  BY <1>0, <1>6 DEF GenerateCharts
<1>8. CASE RunAgain
  BY <1>0, <1>8 DEF RunAgain
<1>9. CASE UNCHANGED vars
  BY <1>0, <1>9 DEF vars
<1> QED BY <1>1, <1>2, <1>3, <1>4, <1>5, <1>6, <1>8, <1>9 DEF Next

(* What the completed runs of one file say of the dataset itself is the    *)
(* same, whatever was asked and whatever features were recommended         *)
(* (readiness_engine.py, dataset_score).                                   *)
THEOREM ScoresFollowTheFile == Spec => []DatasetScoreIgnoresQuestion
<1>1. Init => ScoreInv
  BY InitFile DEF Init, ScoreInv
<1>2. ScoreInv => DatasetScoreIgnoresQuestion
  <2> SUFFICES ASSUME ScoreInv, NEW a \in stored, NEW b \in stored
               PROVE  DatasetScores(a) = DatasetScores(b) 
    BY DEF DatasetScoreIgnoresQuestion, DatasetScores
  <2> QED BY DEF ScoreInv
<1> QED BY <1>1, <1>2, NextScore, PTL DEF Spec

----------------------------------------------------------------------------
\* What an edge counts, and that it is valid exactly when the rows hold along it.

\* A function of a finite set has finitely many values.
LEMMA FiniteRange ==
    ASSUME NEW D, IsFiniteSet(D), NEW g, g = [x \in D |-> g[x]]
    PROVE  IsFiniteSet({g[x] : x \in D})
<1> DEFINE T == {g[x] : x \in D}
<1>1. g \in [D -> T]
  OBVIOUS
<1>2. g \in Surjection(D, T)
  BY <1>1 DEF Surjection
<1> QED BY <1>2, FS_Surjection

\* More than one member means two that differ.
LEMMA TwoMembers ==
    ASSUME NEW S, IsFiniteSet(S)
    PROVE  Cardinality(S) > 1 <=> \E x, y \in S : x # y
<1>1. Cardinality(S) \in Nat
  BY FS_CardinalityType
<1>2. Cardinality(S) = 0 <=> S = {}
  BY FS_EmptySet
<1>3. Cardinality(S) = 1 <=> \E x : S = {x}
  BY FS_Singleton
<1>4. S # {} /\ ~(\E x : S = {x}) <=> \E x, y \in S : x # y
  OBVIOUS
<1> QED BY <1>1, <1>2, <1>3, <1>4

\* A file has rows, finitely many.
LEMMA TableOf == ASSUME FileInv PROVE IsFiniteSet(DOMAIN file.table) /\ Len(file.table) \in Nat /\ Len(file.table) > 0
<1>1. file.table \in Seq([ToSet(Columns) -> Cells]) /\ file.table # << >>
  BY FilesAssumption DEF FileInv
<1> QED BY <1>1, FS_Interval, LenProperties, EmptySeq

\* What ValidateEdge counts: the values of the child, those with a parent, those with two.
Children(t, c) == {t[r][c] : r \in DOMAIN t} \ {NULL}

Mapped(t, p, c) == {v \in Children(t, c) : ParentsOf(t, p, c, v) # {}}

Violating(t, p, c) == {v \in Children(t, c) : \E x, y \in ParentsOf(t, p, c, v) : x # y}

LEMMA EdgeCounts ==
    ASSUME FileInv, NEW p, NEW c
    PROVE  LET t == file.table
               e == ValidateEdge(t, p, c)
           IN /\ IsFiniteSet(Children(t, c))
              /\ e.distinct = Cardinality(Children(t, c))
              /\ e.mapped = Cardinality(Mapped(t, p, c))
              /\ e.violating = Cardinality(Violating(t, p, c))
              /\ e.status = IF Children(t, c) = {} THEN "rejected" ELSE EdgeStatus(e.distinct, e.mapped, e.violating)
<1> DEFINE t == file.table
<1>1. IsFiniteSet(DOMAIN t)
  BY TableOf
<1>2. ASSUME NEW col PROVE IsFiniteSet({t[r][col] : r \in DOMAIN t})
  <2> DEFINE g == [r \in DOMAIN t |-> t[r][col]]
  <2>1. IsFiniteSet({g[r] : r \in DOMAIN t})
    <3>1. g = [r \in DOMAIN t |-> g[r]]
      OBVIOUS
    <3> HIDE DEF g
    <3> QED BY <1>1, <3>1, FiniteRange
  <2>2. {g[r] : r \in DOMAIN t} = {t[r][col] : r \in DOMAIN t}
    OBVIOUS
  <2> QED BY <2>1, <2>2
<1>3. IsFiniteSet(Children(t, c))
  <2>1. IsFiniteSet({t[r][c] : r \in DOMAIN t})
    BY <1>2
  <2> QED BY <2>1, FS_Difference DEF Children
<1>4. \A v : IsFiniteSet(ParentsOf(t, p, c, v))
  <2> SUFFICES ASSUME NEW v PROVE IsFiniteSet(ParentsOf(t, p, c, v))
    OBVIOUS
  <2>1. ParentsOf(t, p, c, v) \subseteq {t[r][p] : r \in DOMAIN t}
    BY DEF ParentsOf
  <2>2. IsFiniteSet({t[r][p] : r \in DOMAIN t})
    BY <1>2
  <2> HIDE DEF t
  <2> QED BY <2>1, <2>2, FS_Subset
<1>5. {v \in Children(t, c) : Count(ParentsOf(t, p, c, v)) > 1} = Violating(t, p, c)
  BY <1>4, TwoMembers DEF Count, Violating
<1> QED BY <1>3, <1>5 DEF ValidateEdge, Count, Children, Mapped

\* The property counts the same sets, in its own words.
LEMMA HoldsCounts ==
    ASSUME FileInv, NEW p, NEW c, NEW tolerated
    PROVE  LET t         == file.table
               children  == Children(t, c)
               mapped    == Mapped(t, p, c)
               violating == Violating(t, p, c)
           IN Holds(p, c, tolerated) <=>
                /\ children # {}
                /\ 100 * Cardinality(violating) <= (100 - tolerated) * Cardinality(children)
                /\ 100 * Cardinality(children \ mapped) <= (100 - MinCoverage) * Cardinality(children)
<1> DEFINE t         == file.table
           children  == Children(t, c)
           mapped    == Mapped(t, p, c)
           violating == Violating(t, p, c)
           rows      == {r \in DOMAIN t : t[r][c] # NULL}
           values    == {t[r][c] : r \in rows}
           clash     == {t[r][c] : r \in {x \in rows : \E q \in rows :
                            t[q][c] = t[x][c] /\ NULL \notin {t[q][p], t[x][p]} /\ t[q][p] # t[x][p]}}
           fed       == {t[r][c] : r \in {x \in rows : t[x][p] # NULL}}
<1>1. values = children
  BY DEF Children
<1>2. clash = violating
  <2>1. ASSUME NEW v \in clash PROVE v \in violating
    <3>1. PICK x \in rows : /\ v = t[x][c]
                            /\ \E q \in rows : /\ t[q][c] = t[x][c]
                                               /\ NULL \notin {t[q][p], t[x][p]}
                                               /\ t[q][p] # t[x][p]
      BY <2>1
    <3>2. PICK q \in rows : t[q][c] = t[x][c] /\ NULL \notin {t[q][p], t[x][p]} /\ t[q][p] # t[x][p]
      BY <3>1
    <3>3. t[q][p] \in ParentsOf(t, p, c, v) /\ t[x][p] \in ParentsOf(t, p, c, v)
      BY <3>1, <3>2 DEF ParentsOf
    <3> QED BY <1>1, <3>1, <3>2, <3>3 DEF Violating
  <2>2. ASSUME NEW v \in violating PROVE v \in clash
    <3>0. v \in children
      BY <2>2 DEF Violating
    <3>1. PICK a, b \in ParentsOf(t, p, c, v) : a # b
      BY <2>2 DEF Violating
    <3>2. PICK x \in DOMAIN t : t[x][c] = v /\ t[x][p] = a /\ a # NULL
      BY <3>1 DEF ParentsOf
    <3>3. PICK q \in DOMAIN t : t[q][c] = v /\ t[q][p] = b /\ b # NULL
      BY <3>1 DEF ParentsOf
    <3>4. x \in rows /\ q \in rows
      BY <1>1, <3>0, <3>2, <3>3
    <3> QED BY <3>1, <3>2, <3>3, <3>4
  <2> HIDE DEF clash, violating
  <2> QED BY <2>1, <2>2
<1>3. fed = mapped
  BY <1>1 DEF ParentsOf, Mapped
<1>4. Holds(p, c, tolerated) <=>
        /\ values # {}
        /\ 100 * Count(clash) <= (100 - tolerated) * Count(values)
        /\ 100 * Count(values \ fed) <= (100 - MinCoverage) * Count(values)
  BY DEF Holds
<1> HIDE DEF values, clash, fed
<1> QED BY <1>1, <1>2, <1>3, <1>4 DEF Count

LEMMA Share100 ==
    ASSUME NEW n \in Nat, NEW k \in Nat, NEW p \in 0..100
    PROVE  100 * k <= (100 - p) * n <=> 100 * (n - k) >= p * n
<1>1. (100 - p) * n = 100 * n - p * n
  OBVIOUS
<1>2. p * n \in Int
  OBVIOUS
<1> QED BY <1>1, <1>2

\* An edge is not rejected when the rows hold within Warning, accepted when within Accepted.
LEMMA EdgeHolds ==
    ASSUME FileInv, NEW p, NEW c
    PROVE  LET e == ValidateEdge(file.table, p, c)
           IN /\ e.distinct \in Nat /\ e.mapped \in Nat /\ e.violating \in Nat
              /\ e.status # "rejected" <=> Holds(p, c, Warning)
              /\ e.status = "accepted" <=> Holds(p, c, Accepted)
              /\ e.status \in {"accepted", "retained_with_warning", "rejected"}
<1> DEFINE t         == file.table
           e         == ValidateEdge(t, p, c)
           children  == Children(t, c)
           mapped    == Mapped(t, p, c)
           violating == Violating(t, p, c)
           n == Cardinality(children)
           m == Cardinality(mapped)
           v == Cardinality(violating)
<1>1. IsFiniteSet(children) /\ e.distinct = n /\ e.mapped = m /\ e.violating = v
  BY EdgeCounts
<1>2. e.status = IF children = {} THEN "rejected" ELSE EdgeStatus(n, m, v)
  BY EdgeCounts
<1>3. \A tolerated : Holds(p, c, tolerated) <=>
        /\ children # {}
        /\ 100 * v <= (100 - tolerated) * n
        /\ 100 * Cardinality(children \ mapped) <= (100 - MinCoverage) * n
  BY HoldsCounts
<1>4. mapped \subseteq children /\ violating \subseteq children
  BY DEF Mapped, Violating
<1> HIDE DEF children, mapped, violating, e
<1>5. n \in Nat /\ m \in Nat /\ v \in Nat
  BY <1>1, <1>4, FS_Subset, FS_CardinalityType
<1>6. Cardinality(children \ mapped) = n - m
  <2>1. children \cap mapped = mapped
    BY <1>4
  <2>2. Cardinality(children \ mapped) = Cardinality(children) - Cardinality(children \cap mapped)
    BY <1>1, FS_Difference
  <2> QED BY <2>1, <2>2
<1>7. n - m \in Nat
  BY <1>1, <1>4, <1>5, FS_Subset
<1> HIDE DEF n, m, v
<1>8. Accepted \in 0..100 /\ Warning \in 0..100 /\ MinCoverage \in 0..100 /\ Warning <= Accepted
  BY ThresholdsAssumption
<1>9. \A q \in 0..100 : Holds(p, c, q) <=>
        children # {} /\ 100 * (n - v) >= q * n /\ 100 * m >= MinCoverage * n
  <2> SUFFICES ASSUME NEW q \in 0..100
               PROVE  Holds(p, c, q) <=>
                        children # {} /\ 100 * (n - v) >= q * n /\ 100 * m >= MinCoverage * n
    OBVIOUS
  <2>1. 100 * v <= (100 - q) * n <=> 100 * (n - v) >= q * n
    BY <1>5, Share100
  <2>2. 100 * (n - m) <= (100 - MinCoverage) * n <=> 100 * (n - (n - m)) >= MinCoverage * n
    BY <1>5, <1>7, <1>8, Share100
  <2>3. n - (n - m) = m
    BY <1>5
  <2> QED BY <1>3, <1>6, <2>1, <2>2, <2>3
<1>10. Warning * n <= Accepted * n /\ Warning * n \in Int /\ Accepted * n \in Int /\ MinCoverage * n \in Int
  BY <1>5, <1>8
<1>11. EdgeStatus(n, m, v) =
         IF ~(100 * m >= MinCoverage * n) THEN "rejected"
         ELSE IF 100 * (n - v) >= Accepted * n THEN "accepted"
         ELSE IF 100 * (n - v) >= Warning * n THEN "retained_with_warning"
         ELSE "rejected"
  BY DEF EdgeStatus, AtLeast
<1>12. Holds(p, c, Warning) <=> children # {} /\ 100 * (n - v) >= Warning * n /\ 100 * m >= MinCoverage * n
  BY <1>8, <1>9
<1>13. Holds(p, c, Accepted) <=> children # {} /\ 100 * (n - v) >= Accepted * n /\ 100 * m >= MinCoverage * n
  BY <1>8, <1>9
<1>14. 100 * (n - v) \in Int
  BY <1>5
<1>15. e.status # "rejected" <=> Holds(p, c, Warning)
  BY <1>2, <1>10, <1>11, <1>12, <1>14
<1>16. e.status = "accepted" <=> Holds(p, c, Accepted)
  BY <1>2, <1>11, <1>13
<1>17. e.status \in {"accepted", "retained_with_warning", "rejected"}
  BY <1>2, <1>11
<1> QED BY <1>1, <1>5, <1>15, <1>16, <1>17 DEF e

----------------------------------------------------------------------------
\* The longest valid segment of a chain.

\* A bounded set of natural numbers has a greatest member.
LEMMA GreatestNumber ==
    ASSUME NEW S \in SUBSET Nat, S # {}, NEW n \in Nat, \A k \in S : k <= n
    PROVE  \E k \in S : \A j \in S : j <= k
<1> DEFINE R == {n - k : k \in S}
<1>1. R \in SUBSET Nat /\ R # {}
  <2>1. \A k \in S : n - k \in Nat
    OBVIOUS
  <2> QED BY <2>1
<1>2. PICK m \in R : \A j \in R : m <= j
  <2> HIDE DEF R
  <2> QED BY <1>1, LeastNumber
<1>3. PICK k \in S : m = n - k
  BY <1>2
<1>4. \A j \in S : n - k <= n - j
  BY <1>2, <1>3
<1> QED BY <1>4

\* The runs of edges none of which is rejected, those without an edge included.
Valid(edges) == {i \in DOMAIN edges : edges[i].status # "rejected"}

Segments(edges) ==
    {s \in [start : 1..(Len(edges) + 1), length : 0..Len(edges)] :
        s.start..(s.start + s.length - 1) \subseteq Valid(edges)}

\* LongestValidSegment returns one of them, and none is longer.
LEMMA LongestSegment ==
    ASSUME NEW edges, Len(edges) \in Nat
    PROVE  LET best == LongestValidSegment(edges)
           IN best \in Segments(edges) /\ \A s \in Segments(edges) : s.length <= best.length
<1> DEFINE n       == Len(edges)
           longest == {s \in Segments(edges) : \A x \in Segments(edges) : x.length <= s.length}
<1>1. LongestValidSegment(edges) = CHOOSE s \in longest : \A x \in longest : s.start <= x.start
  BY DEF LongestValidSegment, Segments, Valid
<1>2. \A s \in Segments(edges) : s.length \in Nat /\ s.length <= n /\ s.start \in Nat
  BY DEF Segments
<1>3. [start |-> 1, length |-> 0] \in Segments(edges)
  BY DEF Segments
<1>4. longest # {}
  <2> DEFINE L == {s.length : s \in Segments(edges)}
  <2>1. L \in SUBSET Nat /\ L # {} /\ \A k \in L : k <= n
    BY <1>2, <1>3
  <2>2. PICK k \in L : \A j \in L : j <= k
    <3> HIDE DEF L
    <3> QED BY <2>1, GreatestNumber
  <2>3. PICK s \in Segments(edges) : s.length = k
    BY <2>2
  <2> QED BY <2>2, <2>3
<1>5. \E s \in longest : \A x \in longest : s.start <= x.start
  <2> DEFINE L == {s.start : s \in longest}
  <2>1. L \in SUBSET Nat /\ L # {}
    BY <1>2, <1>4
  <2>2. PICK k \in L : \A j \in L : k <= j
    <3> HIDE DEF L
    <3> QED BY <2>1, LeastNumber
  <2>3. PICK s \in longest : s.start = k
    BY <2>2
  <2> QED BY <2>2, <2>3
<1>6. LongestValidSegment(edges) \in longest
  <2> HIDE DEF longest
  <2> QED BY <1>1, <1>5
<1> QED BY <1>6

\* What is used of sequences: that they are numbered from 1 to their length.
IsList(s) == Len(s) \in Nat /\ DOMAIN s = 1..Len(s)

LEMMA SameInterval == ASSUME NEW m \in Nat, NEW n \in Nat, 1..m = 1..n PROVE m = n
<1>1. m = 0 \/ m \in 1..n
  OBVIOUS
<1>2. n = 0 \/ n \in 1..m
  OBVIOUS
<1> QED BY <1>1, <1>2

\* A function on 1..n is a sequence of length n.
LEMMA LenOf ==
    ASSUME NEW n \in Int, NEW s, s = [i \in 1..n |-> s[i]]
    PROVE  IsList(s) /\ Len(s) = IF n < 0 THEN 0 ELSE n
<1> DEFINE m == IF n < 0 THEN 0 ELSE n
           S == {s[i] : i \in 1..n}
<1>1. m \in Nat /\ 1..n = 1..m
  OBVIOUS
<1>2. s \in [1..m -> S]
  <2>1. \A i \in 1..m : s[i] \in S
    BY <1>1
  <2> HIDE DEF S, m
  <2> QED BY <1>1, <2>1
<1>3. s \in Seq(S)
  <2> HIDE DEF S, m
  <2> QED BY <1>1, <1>2
<1>4. Len(s) \in Nat /\ DOMAIN s = 1..Len(s)
  BY <1>3, LenProperties
<1>5. DOMAIN s = 1..m
  <2> HIDE DEF S, m
  <2> QED BY <1>2
<1> HIDE DEF m, S
<1>6. Len(s) = m
  BY <1>1, <1>4, <1>5, SameInterval
<1> QED BY <1>4, <1>6 DEF IsList, m

\* The members of a SubSeq are those of the sequence, in place.
LEMMA SubSeqIs ==
    ASSUME NEW s, IsList(s), NEW i \in Int, NEW j \in Int, i >= 1, j <= Len(s)
    PROVE  LET r == SubSeq(s, i, j)
           IN /\ IsList(r)
              /\ Len(r) = IF i <= j THEN j - i + 1 ELSE 0
              /\ \A k \in 1..Len(r) : r[k] = s[i + k - 1] /\ i + k - 1 \in i..j
<1> DEFINE S == {s[k] : k \in DOMAIN s}
           r == SubSeq(s, i, j)
<1>1. \A k \in i..j : s[k] \in S
  BY DEF IsList
<1>2. r \in Seq(S) /\ Len(r) = (IF i <= j THEN j - i + 1 ELSE 0) /\ \A k \in 1..(j - i + 1) : r[k] = s[i + k - 1]
  <2> HIDE DEF S
  <2> QED BY <1>1, SubSeqProperties
<1> HIDE DEF S, r
<1>3. IsList(r)
  BY <1>2 DEF IsList
<1>4. \A k \in 1..Len(r) : k \in 1..(j - i + 1) /\ i + k - 1 \in i..j
  BY <1>2
<1> QED BY <1>2, <1>3, <1>4 DEF r

\* Neighbouring columns from i to j hold.
Along(columns, i, j, tolerated) == \A k \in i..(j - 1) : Holds(columns[k], columns[k + 1], tolerated)

\* The property says the same of the SubSeq from i to j.
LEMMA StretchHolds ==
    ASSUME NEW columns, IsList(columns), NEW i \in DOMAIN columns, NEW j \in DOMAIN columns, NEW tolerated
    PROVE  HoldsAlong(SubSeq(columns, i, j), tolerated) <=> Along(columns, i, j, tolerated)
<1> DEFINE s == SubSeq(columns, i, j)
<1>1. i \in 1..Len(columns) /\ j \in 1..Len(columns) /\ Len(columns) \in Nat
  BY DEF IsList
<1>2. /\ Len(s) = IF i <= j THEN j - i + 1 ELSE 0
      /\ \A k \in 1..Len(s) : s[k] = columns[i + k - 1]
  BY <1>1, SubSeqIs
<1> HIDE DEF s
<1>3. ASSUME HoldsAlong(s, tolerated), NEW k \in i..(j - 1)
      PROVE  Holds(columns[k], columns[k + 1], tolerated)
  <2>1. k - i + 1 \in 1..(Len(s) - 1) /\ k - i + 1 \in 1..Len(s) /\ k - i + 2 \in 1..Len(s)
    BY <1>1, <1>2
  <2>2. Holds(s[k - i + 1], s[(k - i + 1) + 1], tolerated)
    BY <1>3, <2>1 DEF HoldsAlong
  <2>3. s[k - i + 1] = columns[k] /\ s[(k - i + 1) + 1] = columns[k + 1]
    <3>1. (k - i + 1) + 1 = k - i + 2 /\ i + (k - i + 1) - 1 = k /\ i + (k - i + 2) - 1 = k + 1
      BY <1>1
    <3> QED BY <1>2, <2>1, <3>1
  <2> QED BY <2>2, <2>3
<1>4. ASSUME Along(columns, i, j, tolerated), NEW k \in 1..(Len(s) - 1)
      PROVE  Holds(s[k], s[k + 1], tolerated)
  <2>1. i + k - 1 \in i..(j - 1) /\ k \in 1..Len(s) /\ k + 1 \in 1..Len(s) /\ i + (k + 1) - 1 = (i + k - 1) + 1
    BY <1>1, <1>2
  <2>2. s[k] = columns[i + k - 1] /\ s[k + 1] = columns[(i + k - 1) + 1]
    BY <1>2, <2>1
  <2> QED BY <1>4, <2>1, <2>2 DEF Along
<1> QED BY <1>3, <1>4 DEF Along, HoldsAlong, s

\* The edges of a chain; the valid ones are those along which the rows hold.
EdgesOf(t, columns) == [i \in 1..(Len(columns) - 1) |-> ValidateEdge(t, columns[i], columns[i + 1])]

LEMMA EdgesAre ==
    ASSUME FileInv, NEW columns, IsList(columns)
    PROVE  LET e == EdgesOf(file.table, columns)
           IN /\ IsList(e)
              /\ Len(e) = IF Len(columns) = 0 THEN 0 ELSE Len(columns) - 1
              /\ Valid(e) = {k \in 1..(Len(columns) - 1) : Holds(columns[k], columns[k + 1], Warning)}
              /\ \A k \in DOMAIN e : e[k] = ValidateEdge(file.table, columns[k], columns[k + 1])
<1> DEFINE e == EdgesOf(file.table, columns)
<1>1. Len(columns) \in Nat
  BY DEF IsList
<1>2. IsList(e) /\ Len(e) = IF Len(columns) - 1 < 0 THEN 0 ELSE Len(columns) - 1
  <2>1. e = [i \in 1..(Len(columns) - 1) |-> e[i]] /\ Len(columns) - 1 \in Int
    BY <1>1 DEF EdgesOf
  <2> HIDE DEF e
  <2> QED BY <2>1, LenOf
<1>3. /\ DOMAIN e = 1..(Len(columns) - 1)
      /\ \A k \in DOMAIN e : e[k] = ValidateEdge(file.table, columns[k], columns[k + 1])
  BY DEF EdgesOf
<1>4. \A k \in DOMAIN e : e[k].status # "rejected" <=> Holds(columns[k], columns[k + 1], Warning)
  BY <1>3, EdgeHolds
<1> HIDE DEF e
<1>5. Valid(e) = {k \in 1..(Len(columns) - 1) : Holds(columns[k], columns[k + 1], Warning)}
  BY <1>3, <1>4 DEF Valid
<1> QED BY <1>1, <1>2, <1>3, <1>5 DEF e

\* A stretch of two or more columns that hold, and one that no other is longer than.
Stretch(columns, i, j) == i < j /\ Along(columns, i, j, Warning)

Longest(columns, i, j) == \A k, l \in DOMAIN columns : Stretch(columns, k, l) => l - k <= j - i

\* What ValidateChain should return for these columns: a longest stretch, if there is any.
ChainOf(columns, chain) ==
    IF \E i, j \in DOMAIN columns : Stretch(columns, i, j)
    THEN /\ chain.status # "unresolved"
         /\ \E i, j \in DOMAIN columns :
               /\ Stretch(columns, i, j) /\ Longest(columns, i, j)
               /\ chain.columns = SubSeq(columns, i, j)
               /\ chain.status = "accepted" <=> Along(columns, i, j, Accepted)
    ELSE chain = Unresolved

\* The confidences of its edges are numbers.
Sure(chain) == IsList(chain.edges) /\ \A k \in DOMAIN chain.edges : Confidence(chain.edges[k]) \in Int

\* Stretches of columns are segments of edges, and the other way round.
LEMMA StretchIsSegment ==
    ASSUME FileInv, NEW columns, IsList(columns), NEW i \in DOMAIN columns, NEW j \in DOMAIN columns,
           Stretch(columns, i, j)
    PROVE  [start |-> i, length |-> j - i] \in Segments(EdgesOf(file.table, columns))
<1> DEFINE e == EdgesOf(file.table, columns)
           n == Len(columns)
<1>1. n \in Nat /\ i \in 1..n /\ j \in 1..n /\ i < j
  BY DEF IsList, Stretch
<1>2. Len(e) = n - 1 /\ Valid(e) = {k \in 1..(n - 1) : Holds(columns[k], columns[k + 1], Warning)}
  BY <1>1, EdgesAre
<1> HIDE DEF e, n
<1>3. i..(i + (j - i) - 1) \subseteq Valid(e)
  <2>1. \A k \in i..(i + (j - i) - 1) : k \in i..(j - 1) /\ k \in 1..(n - 1)
    BY <1>1
  <2> QED BY <1>2, <2>1 DEF Stretch, Along
<1>4. i \in 1..(Len(e) + 1) /\ j - i \in 0..Len(e)
  BY <1>1, <1>2
<1> QED BY <1>3, <1>4 DEF Segments, e

LEMMA SegmentIsStretch ==
    ASSUME FileInv, NEW columns, IsList(columns), NEW b \in Segments(EdgesOf(file.table, columns)), b.length >= 1
    PROVE  /\ b.start \in DOMAIN columns /\ b.start + b.length \in DOMAIN columns
           /\ Stretch(columns, b.start, b.start + b.length)
           /\ b.start \in Nat /\ b.length \in Nat
<1> DEFINE e == EdgesOf(file.table, columns)
           n == Len(columns)
<1>1. n \in Nat /\ DOMAIN columns = 1..n
  BY DEF IsList
<1>2. Valid(e) = {k \in 1..(n - 1) : Holds(columns[k], columns[k + 1], Warning)} /\ Len(e) \in Nat
  BY EdgesAre DEF IsList
<1> HIDE DEF e, n
<1>3. b.start \in 1..(Len(e) + 1) /\ b.length \in 0..Len(e) /\ b.start..(b.start + b.length - 1) \subseteq Valid(e)
  BY DEF Segments, e
<1>4. b.start + b.length - 1 \in Valid(e)
  BY <1>2, <1>3
<1>5. b.start \in Nat /\ b.length \in Nat /\ b.start + b.length <= n
  BY <1>1, <1>2, <1>3, <1>4
<1>6. Along(columns, b.start, b.start + b.length, Warning)
  BY <1>2, <1>3 DEF Along
<1> QED BY <1>1, <1>3, <1>5, <1>6 DEF Stretch

LEMMA ConfidenceIsNumber ==
    ASSUME FileInv, NEW p, NEW c
    PROVE  Confidence(ValidateEdge(file.table, p, c)) \in Int
<1> DEFINE e == ValidateEdge(file.table, p, c)
<1>1. e.distinct \in Nat /\ e.mapped \in Nat /\ e.violating \in Nat
  BY EdgeHolds
<1> HIDE DEF e
<1>2. (e.distinct - e.violating) * e.mapped \in Int /\ e.distinct * e.distinct \in Nat
  BY <1>1
<1> QED BY <1>2 DEF Confidence, Share, Scale, e

\* ValidateChain returns a longest stretch of its columns, or finds that there is none.
LEMMA ChainIsFound ==
    ASSUME FileInv, NEW columns, IsList(columns)
    PROVE  LET chain == ValidateChain(file.table, columns)
           IN ChainOf(columns, chain) /\ Sure(chain)
<1> DEFINE t     == file.table
           e     == EdgesOf(t, columns)
           b     == LongestValidSegment(e)
           kept  == SubSeq(e, b.start, b.start + b.length - 1)
           chain == ValidateChain(t, columns)
<1>1. chain = IF b.length < 1 THEN Unresolved
              ELSE [status  |-> IF \E i \in DOMAIN kept : kept[i].status = "retained_with_warning"
                                THEN "partial" ELSE "accepted",
                    columns |-> SubSeq(columns, b.start, b.start + b.length),
                    edges   |-> kept]
  BY DEF ValidateChain, EdgesOf
<1>2. IsList(e) /\ \A k \in DOMAIN e : e[k] = ValidateEdge(t, columns[k], columns[k + 1])
  BY EdgesAre
<1>3. b \in Segments(e) /\ \A s \in Segments(e) : s.length <= b.length
  BY <1>2, LongestSegment DEF IsList
<1>4. b.length \in Nat /\ b.start \in Nat
  BY <1>2, <1>3 DEF Segments, IsList
<1> HIDE DEF e, b, chain
<1>5. CASE b.length < 1
  <2>1. ASSUME NEW i \in DOMAIN columns, NEW j \in DOMAIN columns, Stretch(columns, i, j) PROVE FALSE
    <3>1. [start |-> i, length |-> j - i] \in Segments(e)
      BY <2>1, StretchIsSegment DEF e
    <3>2. j - i <= b.length
      BY <1>3, <3>1
    <3>3. i < j /\ i \in Nat /\ j \in Nat
      BY <2>1 DEF Stretch, IsList
    <3> QED BY <1>4, <1>5, <3>2, <3>3
  <2>2. chain = Unresolved
    BY <1>1, <1>5
  <2>3. IsList(<< >>) /\ DOMAIN << >> = {}
    BY DEF IsList
  <2> QED BY <2>1, <2>2, <2>3 DEF ChainOf, Sure, Unresolved, chain
<1>6. CASE b.length >= 1
  <2> DEFINE i == b.start
             j == b.start + b.length
  <2>1. i \in DOMAIN columns /\ j \in DOMAIN columns /\ Stretch(columns, i, j)
    BY <1>3, <1>6, SegmentIsStretch DEF e
  <2>2. Longest(columns, i, j)
    <3> SUFFICES ASSUME NEW k \in DOMAIN columns, NEW l \in DOMAIN columns, Stretch(columns, k, l)
                 PROVE  l - k <= j - i
      BY DEF Longest
    <3>1. [start |-> k, length |-> l - k] \in Segments(e)
      BY StretchIsSegment DEF e
    <3>2. l - k <= b.length
      BY <1>3, <3>1
    <3> QED BY <1>4, <3>2
  <2>3. /\ IsList(kept) /\ Len(kept) = j - i
        /\ \A k \in 1..Len(kept) : kept[k] = e[i + k - 1] /\ i + k - 1 \in DOMAIN e
    <3>1. i..(j - 1) \subseteq DOMAIN e
      BY <1>3 DEF Segments, Valid
    <3>2. i >= 1 /\ j - 1 <= Len(e) /\ i <= j - 1
      BY <1>2, <1>4, <1>6, <3>1 DEF IsList, Segments
    <3> DEFINE m == j - 1
    <3>3. m \in Int /\ i \in Int /\ kept = SubSeq(e, i, m)
      BY <1>4
    <3> HIDE DEF kept, i, m
    <3>4. /\ IsList(kept) /\ Len(kept) = m - i + 1
          /\ \A k \in 1..Len(kept) : kept[k] = e[i + k - 1] /\ i + k - 1 \in i..m
      BY <1>2, <3>2, <3>3, SubSeqIs DEF m
    <3> QED BY <1>4, <3>1, <3>4 DEF m, i
  <2> HIDE DEF kept
  <2>4. Along(columns, i, j, Accepted) <=> ~ \E k \in DOMAIN kept : kept[k].status = "retained_with_warning"
    <3>1. ASSUME NEW k \in DOMAIN kept
          PROVE  /\ kept[k].status = "accepted" <=> Holds(columns[i + k - 1], columns[i + k], Accepted)
                 /\ kept[k].status \in {"accepted", "retained_with_warning"}
      <4>1. k \in 1..Len(kept) /\ k \in Nat /\ (i + k - 1) + 1 = i + k
        BY <1>4, <2>3 DEF IsList
      <4>2. kept[k] = ValidateEdge(t, columns[i + k - 1], columns[i + k])
        BY <1>2, <2>3, <4>1
      <4>3. i + k - 1 \in i..(j - 1)
        BY <1>4, <2>3, <4>1
      <4>4. Holds(columns[i + k - 1], columns[i + k], Warning)
        BY <2>1, <4>1, <4>3 DEF Stretch, Along
      <4> QED BY <4>2, <4>4, EdgeHolds
    <3>2. ASSUME NEW x \in i..(j - 1)
          PROVE  x - i + 1 \in DOMAIN kept /\ i + (x - i + 1) - 1 = x /\ i + (x - i + 1) = x + 1
      BY <1>4, <2>3 DEF IsList
    <3>3. ASSUME NEW k \in DOMAIN kept
          PROVE  i + k - 1 \in i..(j - 1) /\ (i + k - 1) + 1 = i + k
      BY <1>4, <2>3 DEF IsList
    <3>4. Along(columns, i, j, Accepted) <=> \A k \in DOMAIN kept : kept[k].status = "accepted"
      <4>1. ASSUME Along(columns, i, j, Accepted), NEW k \in DOMAIN kept PROVE kept[k].status = "accepted"
        <5>1. Holds(columns[i + k - 1], columns[(i + k - 1) + 1], Accepted)
          BY <3>3, <4>1 DEF Along
        <5> QED BY <3>1, <3>3, <5>1
      <4>2. ASSUME \A k \in DOMAIN kept : kept[k].status = "accepted", NEW x \in i..(j - 1)
            PROVE  Holds(columns[x], columns[x + 1], Accepted)
        <5>1. kept[x - i + 1].status = "accepted" /\ x - i + 1 \in DOMAIN kept
          BY <3>2, <4>2
        <5>2. Holds(columns[i + (x - i + 1) - 1], columns[i + (x - i + 1)], Accepted)
          BY <3>1, <5>1
        <5> QED BY <3>2, <5>2
      <4> QED BY <4>1, <4>2 DEF Along
    <3> QED BY <3>1, <3>4
  <2>5. /\ chain.columns = SubSeq(columns, i, j)
        /\ chain.edges = kept
        /\ chain.status = IF \E k \in DOMAIN kept : kept[k].status = "retained_with_warning"
                          THEN "partial" ELSE "accepted"
    <3>1. ~(b.length < 1)
      BY <1>4, <1>6
    <3> DEFINE status == IF \E k \in DOMAIN kept : kept[k].status = "retained_with_warning"
                         THEN "partial" ELSE "accepted"
    <3>2. chain = [status |-> status, columns |-> SubSeq(columns, i, j), edges |-> kept]
      BY <1>1, <3>1
    <3> HIDE DEF status
    <3>3. chain.columns = SubSeq(columns, i, j) /\ chain.edges = kept /\ chain.status = status
      BY <3>2
    <3> QED BY <3>3 DEF status
  <2>6. ChainOf(columns, chain)
    BY <2>1, <2>2, <2>4, <2>5 DEF ChainOf
  <2>7. Sure(chain)
    <3>1. ASSUME NEW k \in DOMAIN kept PROVE Confidence(kept[k]) \in Int
      <4>1. k \in 1..Len(kept)
        BY <2>3 DEF IsList
      <4>2. kept[k] = ValidateEdge(t, columns[i + k - 1], columns[(i + k - 1) + 1])
        BY <1>2, <2>3, <4>1
      <4> QED BY <4>2, ConfidenceIsNumber
    <3> QED BY <2>3, <2>5, <3>1 DEF Sure
  <2> QED BY <2>6, <2>7 DEF chain
<1> QED BY <1>4, <1>5, <1>6

----------------------------------------------------------------------------
\* The choice between the chains of all templates.

\* Some member of a finite set has the highest key.
LEMMA HighestExists ==
    ASSUME NEW S, IsFiniteSet(S), S # {}, NEW key, \A k \in S : key[k] \in Int
    PROVE  Highest(S, key) # {}
<1> DEFINE Bad == {U \in SUBSET S : U # {} /\ Highest(U, key) = {}}
<1>1. ASSUME Bad # {} PROVE FALSE
  <2>1. Bad \in SUBSET SUBSET S
    OBVIOUS
  <2>2. PICK U \in Bad : \A V \in Bad : V \subseteq U => V = U
    <3> HIDE DEF Bad
    <3> QED BY <1>1, <2>1, LeastSubset
  <2>3. PICK x \in U : TRUE
    OBVIOUS
  <2>4. U \ {x} \notin Bad
    BY <2>2, <2>3
  <2>5. CASE U \ {x} = {}
    BY <2>3, <2>5 DEF Highest
  <2>6. CASE U \ {x} # {}
    <3>1. PICK h \in U \ {x} : \A j \in U \ {x} : key[j] <= key[h]
      BY <2>4, <2>6 DEF Highest
    <3>2. \A j \in U : key[j] \in Int
      OBVIOUS
    <3>3. h \in Highest(U, key) \/ x \in Highest(U, key)
      BY <3>1, <3>2 DEF Highest
    <3> QED BY <3>3
  <2> QED BY <2>5, <2>6
<1> QED BY <1>1 DEF Highest

\* What a template is matched to is a list of columns, with numbers to compare it by.
LEMMA MatchIs ==
    ASSUME NEW template, template.levels \in Seq(DOMAIN Likeness), template.priority \in Int, NEW available
    PROVE  LET m == MatchTemplate(template, available)
           IN IsList(m.columns) /\ m.concepts \in Nat /\ m.priority \in Int
<1> DEFINE m == MatchTemplate(template, available)
           column  == [i \in DOMAIN template.levels |-> FindMatchingColumn(template.levels[i], available)]
           places  == {i \in DOMAIN column : column[i] # << >> /\ \A j \in 1..(i - 1) : column[j] # column[i]}
           matched == Ascending(places)
           names   == [k \in DOMAIN matched |-> column[matched[k]][1]]
<1>1. m = [priority |-> template.priority, concepts |-> Len(template.levels), columns |-> names]
  BY DEF MatchTemplate
<1>2. Len(template.levels) \in Nat /\ IsFiniteSet(DOMAIN template.levels)
  <2>1. Len(template.levels) \in Nat /\ DOMAIN template.levels = 1..Len(template.levels)
    BY LenProperties
  <2> QED BY <2>1, FS_Interval
<1>3. IsFiniteSet(places)
  <2>1. places \subseteq DOMAIN template.levels
    OBVIOUS
  <2> HIDE DEF places
  <2> QED BY <1>2, <2>1, FS_Subset
<1>4. Count(places) \in Nat
  <2> HIDE DEF places
  <2> QED BY <1>3, FS_CardinalityType DEF Count
<1>5. DOMAIN matched = 1..Count(places)
  BY DEF Ascending
<1>6. IsList(names)
  <2> DEFINE n == Count(places)
  <2>1. names = [k \in 1..n |-> names[k]]
    <3> HIDE DEF column, matched, n
    <3>1. DOMAIN matched = 1..n
      BY <1>5 DEF n
    <3> QED BY <3>1
  <2>2. n \in Int
    BY <1>4
  <2> HIDE DEF names, n
  <2> QED BY <2>1, <2>2, LenOf
<1> HIDE DEF m, names
<1> QED BY <1>1, <1>2, <1>6 DEF m

LEMMA MatchesAre ==
    ASSUME NEW ps
    PROVE  LET M == MatchTemplates(ps)
           IN /\ IsFiniteSet(DOMAIN M) /\ DOMAIN M \subseteq Nat
              /\ \A k \in DOMAIN M : IsList(M[k].columns) /\ M[k].concepts \in Nat /\ M[k].priority \in Int
<1> DEFINE M == MatchTemplates(ps)
<1>1. DOMAIN M = DOMAIN Templates /\ \A k \in DOMAIN M : M[k] = MatchTemplate(Templates[k], Available(ps))
  BY DEF MatchTemplates
<1>2. Len(Templates) \in Nat /\ DOMAIN Templates = 1..Len(Templates)
  BY TemplatesAssumption, LenProperties
<1>3. IsFiniteSet(DOMAIN Templates) /\ DOMAIN Templates \subseteq Nat
  BY <1>2, FS_Interval
<1>4. \A k \in DOMAIN Templates : Templates[k].levels \in Seq(DOMAIN Likeness) /\ Templates[k].priority \in Int
  BY TemplatesAssumption DEF Range
<1> HIDE DEF M
<1>5. ASSUME NEW k \in DOMAIN M PROVE IsList(M[k].columns) /\ M[k].concepts \in Nat /\ M[k].priority \in Int
  BY <1>1, <1>4, MatchIs
<1> QED BY <1>1, <1>3, <1>5 DEF M

LEMMA SurenessIsNumber == ASSUME NEW chain, Sure(chain) PROVE Sureness(chain) \in Int
<1> DEFINE f == [i \in DOMAIN chain.edges |-> Confidence(chain.edges[i])]
<1>1. Sureness(chain) = SumFunctionOnSet(f, DOMAIN f)
  BY SumOfAll DEF Sureness
<1>2. IsFiniteSet(DOMAIN f) /\ \A x \in DOMAIN f : f[x] \in Int
  BY FS_Interval DEF Sure, IsList
<1> HIDE DEF f
<1> QED BY <1>1, <1>2, SumIsNumber

\* The chains of all templates, and those that are not empty, as in SelectChain.
Tried(t, matches) ==
    {[place |-> k, match |-> matches[k], chain |-> ValidateChain(t, matches[k].columns)] : k \in DOMAIN matches}

Found(t, matches) == {x \in Tried(t, matches) : x.chain.status # "unresolved"}

\* There are finitely many, each the chain of its match, each with numbers to compare it by.
LEMMA FoundIs ==
    ASSUME FileInv, NEW ps
    PROVE  LET found == Found(file.table, MatchTemplates(ps))
           IN /\ IsFiniteSet(found)
              /\ \A x \in found :
                    /\ x.place \in DOMAIN MatchTemplates(ps)
                    /\ x.match = MatchTemplates(ps)[x.place]
                    /\ x.chain = ValidateChain(file.table, x.match.columns)
                    /\ IsList(x.match.columns)
                    /\ x.chain.status # "unresolved"
                    /\ Len(x.chain.columns) \in Int
                    /\ Sureness(x.chain) \in Int
                    /\ Share(Len(x.match.columns), x.match.concepts) \in Int
                    /\ x.match.priority \in Int
<1> DEFINE t == file.table
           M == MatchTemplates(ps)
           tried == Tried(t, M)
           found == Found(t, M)
<1>1. /\ IsFiniteSet(DOMAIN M) /\ DOMAIN M \subseteq Nat
      /\ \A k \in DOMAIN M : IsList(M[k].columns) /\ M[k].concepts \in Nat /\ M[k].priority \in Int
  BY MatchesAre
<1> HIDE DEF M
<1>2. IsFiniteSet(tried)
  <2> DEFINE g == [k \in DOMAIN M |-> [place |-> k, match |-> M[k], chain |-> ValidateChain(t, M[k].columns)]]
  <2>1. g = [k \in DOMAIN M |-> g[k]] /\ tried = {g[k] : k \in DOMAIN M}
    BY DEF Tried
  <2> HIDE DEF g
  <2> QED BY <1>1, <2>1, FiniteRange
<1>3. IsFiniteSet(found)
  BY <1>2, FS_Subset DEF Found
<1>4. ASSUME NEW x \in found
      PROVE  /\ x.place \in DOMAIN M
             /\ x.match = M[x.place]
             /\ x.chain = ValidateChain(t, x.match.columns)
             /\ IsList(x.match.columns)
             /\ x.chain.status # "unresolved"
             /\ Len(x.chain.columns) \in Int
             /\ Sureness(x.chain) \in Int
             /\ Share(Len(x.match.columns), x.match.concepts) \in Int
             /\ x.match.priority \in Int
  <2>1. /\ x.place \in DOMAIN M
        /\ x.match = M[x.place]
        /\ x.chain = ValidateChain(t, x.match.columns)
        /\ x.chain.status # "unresolved"
    BY DEF Found, Tried
  <2>2. IsList(x.match.columns) /\ x.match.concepts \in Nat /\ x.match.priority \in Int
    BY <1>1, <2>1
  <2>3. ChainOf(x.match.columns, x.chain) /\ Sure(x.chain)
    BY <2>1, <2>2, ChainIsFound
  <2>4. Len(x.chain.columns) \in Int
    <3>1. x.chain # Unresolved
      BY <2>1 DEF Unresolved
    <3>2. PICK i, j \in DOMAIN x.match.columns :
             Stretch(x.match.columns, i, j) /\ x.chain.columns = SubSeq(x.match.columns, i, j)
      BY <2>3, <3>1 DEF ChainOf
    <3>3. i \in Int /\ j \in Int /\ i >= 1 /\ j <= Len(x.match.columns)
      BY <2>2 DEF IsList
    <3>4. IsList(x.chain.columns)
      BY <2>2, <3>2, <3>3, SubSeqIs
    <3> QED BY <3>4 DEF IsList
  <2>5. Sureness(x.chain) \in Int
    BY <2>3, SurenessIsNumber
  <2>6. Share(Len(x.match.columns), x.match.concepts) \in Int
    BY <2>2 DEF Share, Scale, IsList
  <2> QED BY <2>1, <2>2, <2>4, <2>5, <2>6
<1> QED BY <1>3, <1>4 DEF M

\* The hierarchy is one of the chains found, and none of them is longer.
LEMMA SelectedIsLongest ==
    ASSUME FileInv, NEW ps
    PROVE  LET found == Found(file.table, MatchTemplates(ps))
           IN IF found = {} THEN BuildHierarchy(file.table, ps) = Unresolved
              ELSE \E x \in found : /\ BuildHierarchy(file.table, ps) = x.chain
                                    /\ \A y \in found : Len(y.chain.columns) <= Len(x.chain.columns)
<1> DEFINE found   == Found(file.table, MatchTemplates(ps))
           length  == [x \in found |-> Len(x.chain.columns)]
           longest == Highest(found, length)
           sure    == [x \in longest |-> Sureness(x.chain)]
           surest  == Highest(longest, sure)
           full    == [x \in surest |-> Share(Len(x.match.columns), x.match.concepts)]
           fullest == Highest(surest, full)
           prior   == [x \in fullest |-> x.match.priority]
           first   == Highest(fullest, prior)
           chosen  == CHOOSE x \in first : \A y \in first : x.place <= y.place
<1>1. BuildHierarchy(file.table, ps) = IF found = {} THEN Unresolved ELSE chosen.chain
  BY DEF BuildHierarchy, SelectChain, Found, Tried
<1>2. /\ IsFiniteSet(found)
      /\ \A x \in found : /\ x.place \in DOMAIN MatchTemplates(ps)
                           /\ Len(x.chain.columns) \in Int
                           /\ Sureness(x.chain) \in Int
                           /\ Share(Len(x.match.columns), x.match.concepts) \in Int
                           /\ x.match.priority \in Int
  BY FoundIs
<1>3. \A x \in found : x.place \in Nat
  BY <1>2, MatchesAre
<1> HIDE DEF found
<1>4. longest \subseteq found /\ surest \subseteq longest /\ fullest \subseteq surest /\ first \subseteq fullest
  BY DEF Highest
<1>5. ASSUME found # {} PROVE first # {}
  <2>1. IsFiniteSet(longest) /\ IsFiniteSet(surest) /\ IsFiniteSet(fullest)
    <3> HIDE DEF longest, surest, fullest, first
    <3>1. IsFiniteSet(longest)
      BY <1>2, <1>4, FS_Subset
    <3>2. IsFiniteSet(surest)
      BY <1>4, <3>1, FS_Subset
    <3>3. IsFiniteSet(fullest)
      BY <1>4, <3>2, FS_Subset
    <3> QED BY <3>1, <3>2, <3>3
  <2>2. longest # {}
    <3>1. \A x \in found : length[x] \in Int
      BY <1>2
    <3> HIDE DEF length
    <3> QED BY <1>2, <1>5, <3>1, HighestExists
  <2>3. surest # {}
    <3>1. \A x \in longest : sure[x] \in Int
      BY <1>2, <1>4
    <3> HIDE DEF sure, longest
    <3> QED BY <2>1, <2>2, <3>1, HighestExists
  <2>4. fullest # {}
    <3>1. \A x \in surest : full[x] \in Int
      BY <1>2, <1>4
    <3> HIDE DEF full, surest
    <3> QED BY <2>1, <2>3, <3>1, HighestExists
  <2>5. first # {}
    <3>1. \A x \in fullest : prior[x] \in Int
      BY <1>2, <1>4
    <3> HIDE DEF prior, fullest
    <3> QED BY <2>1, <2>4, <3>1, HighestExists
  <2> QED BY <2>5
<1>6. \A x \in longest : \A y \in found : Len(y.chain.columns) <= Len(x.chain.columns)
  BY DEF Highest
<1> HIDE DEF longest, surest, fullest, first
<1>7. ASSUME found # {} PROVE chosen \in first
  <2> DEFINE places == {x.place : x \in first}
  <2>1. places \in SUBSET Nat /\ places # {}
    BY <1>3, <1>4, <1>5, <1>7
  <2>2. PICK k \in places : \A j \in places : k <= j
    <3> HIDE DEF places
    <3> QED BY <2>1, LeastNumber
  <2>3. \E x \in first : \A y \in first : x.place <= y.place
    BY <2>2
  <2> QED BY <2>3
<1> HIDE DEF chosen
<1> QED BY <1>1, <1>4, <1>6, <1>7 DEF found

LEMMA StretchesAre ==
    ASSUME NEW s
    PROVE  s \in Stretches <=>
             /\ Len(s) >= 2 /\ HoldsAlong(s, Warning)
             /\ \E k \in DOMAIN MatchTemplates(profiles) :
                   \E i, j \in DOMAIN MatchTemplates(profiles)[k].columns :
                      s = SubSeq(MatchTemplates(profiles)[k].columns, i, j)
<1> DEFINE M       == MatchTemplates(profiles)
           matched == {m.columns : m \in Range(M)}
<1>1. \A c : c \in matched <=> \E k \in DOMAIN M : c = M[k].columns
  BY DEF Range
<1>2. s \in Stretches <=>
        /\ s \in UNION {{SubSeq(c, i, j) : i, j \in DOMAIN c} : c \in matched}
        /\ Len(s) >= 2 /\ HoldsAlong(s, Warning)
  BY DEF Stretches
<1> HIDE DEF M, matched
<1>3. s \in UNION {{SubSeq(c, i, j) : i, j \in DOMAIN c} : c \in matched}
        <=> \E c \in matched : \E i, j \in DOMAIN c : s = SubSeq(c, i, j)
  OBVIOUS
<1>4. (\E c \in matched : \E i, j \in DOMAIN c : s = SubSeq(c, i, j))
        <=> \E k \in DOMAIN M : \E i, j \in DOMAIN M[k].columns : s = SubSeq(M[k].columns, i, j)
  BY <1>1
<1>5. s \in Stretches <=>
        /\ Len(s) >= 2 /\ HoldsAlong(s, Warning)
        /\ \E k \in DOMAIN M : \E i, j \in DOMAIN M[k].columns : s = SubSeq(M[k].columns, i, j)
  BY <1>2, <1>3, <1>4
<1> QED BY <1>5 DEF M

\* So the hierarchy that follows from the file is a longest stretch of any template.
LEMMA ChainFollows == FileInv /\ stage = "classified" => ChainIsLongest
<1> SUFFICES ASSUME FileInv, stage = "classified" PROVE ChainIsLongest
  OBVIOUS
<1> DEFINE M     == MatchTemplates(profiles)
           found == Found(file.table, M)
<1>1. hierarchy = BuildHierarchy(file.table, profiles)
  BY DEF FileInv, HierarchyOf
<1>2. \A k \in DOMAIN M : IsList(M[k].columns)
  BY MatchesAre
<1>3. /\ \A x \in found : x.chain = ValidateChain(file.table, x.match.columns) /\ IsList(x.match.columns)
      /\ \A x \in found : x.place \in DOMAIN M /\ x.match = M[x.place]
      /\ \A x \in found : x.chain.status # "unresolved"
  BY FoundIs
<1>4. IF found = {} THEN hierarchy = Unresolved
      ELSE \E x \in found : /\ hierarchy = x.chain
                            /\ \A y \in found : Len(y.chain.columns) <= Len(x.chain.columns)
  BY <1>1, SelectedIsLongest
<1>5. \A k \in DOMAIN M : \E x \in Tried(file.table, M) :
         x.match = M[k] /\ x.chain = ValidateChain(file.table, M[k].columns)
  <2> SUFFICES ASSUME NEW k \in DOMAIN M
               PROVE  \E x \in Tried(file.table, M) :
                         x.match = M[k] /\ x.chain = ValidateChain(file.table, M[k].columns)
    OBVIOUS
  <2> DEFINE x == [place |-> k, match |-> M[k], chain |-> ValidateChain(file.table, M[k].columns)]
  <2>1. x \in Tried(file.table, M) /\ x.match = M[k] /\ x.chain = ValidateChain(file.table, M[k].columns)
    BY DEF Tried
  <2> HIDE DEF x
  <2> QED BY <2>1
<1> HIDE DEF M
<1>6. ASSUME NEW s \in Stretches
      PROVE  Len(s) \in Nat /\ \E x \in found : Len(s) <= Len(x.chain.columns)
  <2>1. PICK k \in DOMAIN M : \E i, j \in DOMAIN M[k].columns : s = SubSeq(M[k].columns, i, j)
    BY StretchesAre DEF M
  <2> DEFINE c == M[k].columns
  <2>2. PICK i \in DOMAIN c, j \in DOMAIN c : s = SubSeq(c, i, j)
    BY <2>1
  <2>3. IsList(c)
    BY <1>2
  <2>4. i \in Nat /\ j \in Nat /\ i >= 1 /\ j <= Len(c) /\ i \in Int /\ j \in Int
    BY <2>3 DEF IsList
  <2>5. Len(s) >= 2 /\ HoldsAlong(s, Warning)
    BY StretchesAre
  <2> HIDE DEF c
  <2>6. i < j /\ Len(s) = j - i + 1
    BY <2>2, <2>3, <2>4, <2>5, SubSeqIs
  <2>7. Stretch(c, i, j)
    BY <2>2, <2>3, <2>5, <2>6, StretchHolds DEF Stretch
  <2>8. PICK x \in Tried(file.table, M) : x.match = M[k] /\ x.chain = ValidateChain(file.table, c)
    BY <1>5 DEF c
  <2>9. ChainOf(c, x.chain)
    BY <2>3, <2>8, ChainIsFound
  <2>10. PICK a \in DOMAIN c, b \in DOMAIN c : Stretch(c, a, b) /\ Longest(c, a, b) /\ x.chain.columns = SubSeq(c, a, b)
    BY <2>7, <2>9 DEF ChainOf
  <2>11. x \in found
    BY <2>7, <2>8, <2>9 DEF Found, ChainOf
  <2>12. a \in Int /\ b \in Int /\ a >= 1 /\ b <= Len(c) /\ a < b
    BY <2>3, <2>10 DEF IsList, Stretch
  <2>13. Len(x.chain.columns) = b - a + 1
    BY <2>3, <2>10, <2>12, SubSeqIs
  <2>14. j - i <= b - a
    BY <2>7, <2>10 DEF Longest
  <2> QED BY <2>4, <2>6, <2>11, <2>12, <2>13, <2>14
<1>7. ASSUME NEW x \in found
      PROVE  /\ x.chain.columns \in Stretches
             /\ x.chain.status = "accepted" <=> HoldsAlong(x.chain.columns, Accepted)
             /\ Len(x.chain.columns) \in Nat
  <2> DEFINE c == x.match.columns
  <2>1. IsList(c) /\ x.chain = ValidateChain(file.table, c) /\ x.chain.status # "unresolved"
    BY <1>3
  <2>2. x.place \in DOMAIN M /\ c = M[x.place].columns
    BY <1>3
  <2> HIDE DEF c, found
  <2>3. ChainOf(c, x.chain) /\ x.chain # Unresolved
    BY <2>1, ChainIsFound DEF Unresolved
  <2>4. PICK i \in DOMAIN c, j \in DOMAIN c :
           /\ Stretch(c, i, j)
           /\ x.chain.columns = SubSeq(c, i, j)
           /\ x.chain.status = "accepted" <=> Along(c, i, j, Accepted)
    BY <2>3 DEF ChainOf
  <2>5. i \in Int /\ j \in Int /\ i >= 1 /\ j <= Len(c) /\ i < j
    BY <2>1, <2>4 DEF IsList, Stretch
  <2>6. Len(SubSeq(c, i, j)) = j - i + 1
    BY <2>1, <2>5, SubSeqIs
  <2>7. HoldsAlong(SubSeq(c, i, j), Warning)
    BY <2>1, <2>4, StretchHolds DEF Stretch
  <2>8. HoldsAlong(SubSeq(c, i, j), Accepted) <=> Along(c, i, j, Accepted)
    BY <2>1, StretchHolds
  <2>9. Len(SubSeq(c, i, j)) >= 2 /\ Len(SubSeq(c, i, j)) \in Nat
    BY <2>5, <2>6
  <2>10. SubSeq(c, i, j) \in Stretches
    BY <2>2, <2>7, <2>9, StretchesAre DEF M
  <2> QED BY <2>4, <2>8, <2>9, <2>10
<1> HIDE DEF found
<1>8. IF Stretches = {} THEN hierarchy = Unresolved
      ELSE /\ hierarchy.columns \in Stretches
           /\ \A s \in Stretches : Len(s) <= Len(hierarchy.columns)
           /\ hierarchy.status = "accepted" <=> HoldsAlong(hierarchy.columns, Accepted)
  <2>1. CASE found = {}
    BY <1>4, <1>6, <2>1
  <2>2. CASE found # {}
    <3>1. PICK x \in found : hierarchy = x.chain /\ \A y \in found : Len(y.chain.columns) <= Len(x.chain.columns)
      BY <1>4, <2>2
    <3>2. ASSUME NEW s \in Stretches PROVE Len(s) <= Len(hierarchy.columns)
      <4>1. PICK y \in found : Len(s) <= Len(y.chain.columns)
        BY <1>6
      <4>2. Len(s) \in Nat
        BY <1>6
      <4> QED BY <1>7, <3>1, <4>1, <4>2
    <3> QED BY <1>7, <3>1, <3>2
  <2> QED BY <2>1, <2>2
<1> QED BY <1>8 DEF ChainIsLongest

(* The hierarchy of a run is a stretch of neighbouring levels of one       *)
(* template along which the rows give every value one parent, within the   *)
(* thresholds; none of the templates has a longer one, and it is accepted  *)
(* only within the stricter threshold (chain_selector.py,                  *)
(* functional_dependency.py).                                              *)
THEOREM HierarchyIsLongest == Spec => []ChainIsLongest
<1>1. FileInv => ChainIsLongest
  <2>1. stage # "classified" => ChainIsLongest
    BY DEF ChainIsLongest
  <2> QED BY <2>1, ChainFollows
<1> QED BY <1>1, FileInvariant, PTL

----------------------------------------------------------------------------
\* The weighted mean of the quality dimensions and the gate.

\* Sums of natural numbers are natural, of positive ones positive, and keep an order.
LEMMA SumIsNatural ==
    ASSUME NEW S, IsFiniteSet(S), NEW f, \A x \in S : f[x] \in Nat
    PROVE  SumFunctionOnSet(f, S) \in Nat
<1> DEFINE Bad == {u \in SUBSET S : SumFunctionOnSet(f, u) \notin Nat}
<1>1. ASSUME Bad # {} PROVE FALSE
  <2>1. PICK u \in Bad : \A v \in Bad : v \subseteq u => v = u
    <3>1. Bad \in SUBSET SUBSET S
      OBVIOUS
    <3> HIDE DEF Bad
    <3> QED BY <1>1, <3>1, LeastSubset
  <2>2. IsFiniteSet(u)
    BY FS_Subset
  <2>3. SumFunctionOnSet(f, u) = IF u = {} THEN 0 ELSE f[One(u)] + SumFunctionOnSet(f, u \ {One(u)})
    BY <2>2, SumUnfolds
  <2>4. u # {} => One(u) \in u /\ u \ {One(u)} \notin Bad
    BY <2>1, OneIsMember
  <2> QED BY <2>1, <2>3, <2>4
<1> QED BY <1>1

LEMMA SumIsPositive ==
    ASSUME NEW S, IsFiniteSet(S), S # {}, NEW f, \A x \in S : f[x] \in Nat \ {0}
    PROVE  SumFunctionOnSet(f, S) \in Nat \ {0}
<1>1. SumFunctionOnSet(f, S) = f[One(S)] + SumFunctionOnSet(f, S \ {One(S)})
  BY SumUnfolds
<1>2. SumFunctionOnSet(f, S \ {One(S)}) \in Nat
  <2>1. IsFiniteSet(S \ {One(S)}) /\ \A x \in S \ {One(S)} : f[x] \in Nat
    BY FS_Subset
  <2> QED BY <2>1, SumIsNatural
<1> QED BY <1>1, <1>2, OneIsMember

(* Where every summand is worth a fifth of another, so is their sum. *)
LEMMA SumsCompare ==
    ASSUME NEW S, IsFiniteSet(S), NEW f, NEW g,
           \A x \in S : f[x] \in Int /\ g[x] \in Int /\ 100 * f[x] >= 50400 * g[x]
    PROVE  100 * SumFunctionOnSet(f, S) >= 50400 * SumFunctionOnSet(g, S)
<1> DEFINE F(u) == SumFunctionOnSet(f, u)
           G(u) == SumFunctionOnSet(g, u)
           Bad == {u \in SUBSET S : ~(100 * F(u) >= 50400 * G(u))}
<1>1. ASSUME Bad # {} PROVE FALSE
  <2>1. PICK u \in Bad : \A v \in Bad : v \subseteq u => v = u
    <3>1. Bad \in SUBSET SUBSET S
      OBVIOUS
    <3> HIDE DEF Bad
    <3> QED BY <1>1, <3>1, LeastSubset
  <2>2. IsFiniteSet(u)
    BY FS_Subset
  <2>3. /\ F(u) = IF u = {} THEN 0 ELSE f[One(u)] + F(u \ {One(u)})
        /\ G(u) = IF u = {} THEN 0 ELSE g[One(u)] + G(u \ {One(u)})
    <3> HIDE DEF Bad
    <3>1. F(u) = IF u = {} THEN 0 ELSE f[One(u)] + F(u \ {One(u)})
      BY <2>2, SumUnfolds
    <3>2. G(u) = IF u = {} THEN 0 ELSE g[One(u)] + G(u \ {One(u)})
      BY <2>2, SumUnfolds
    <3> QED BY <3>1, <3>2
  <2>4. u # {} => One(u) \in u /\ u \ {One(u)} \notin Bad
    BY <2>1, OneIsMember
  <2>5. IsFiniteSet(u \ {One(u)})
    BY <2>2, FS_Subset
  <2>6. u # {} => F(u \ {One(u)}) \in Int /\ G(u \ {One(u)}) \in Int
    BY <2>5, SumIsNumber
  <2> HIDE DEF F, G
  <2>7. u # {} => /\ 100 * F(u \ {One(u)}) >= 50400 * G(u \ {One(u)})
                  /\ f[One(u)] \in Int /\ g[One(u)] \in Int /\ 100 * f[One(u)] >= 50400 * g[One(u)]
    BY <2>4
  <2> QED BY <2>1, <2>3, <2>6, <2>7
<1> QED BY <1>1

\* The dimensions that weigh; of these, some are rated, with integers.
Dimensions == DOMAIN Weights

Rated(q, dims) == DOMAIN q \subseteq dims /\ \A d \in DOMAIN q : q[d] \in Int

\* Joined ratings are ratings.
LEMMA JoinedRated ==
    ASSUME NEW parts, NEW dims, \A f \in parts : Rated(f, dims) PROVE Rated(Joined(parts), dims)
<1> DEFINE part(d) == CHOOSE f \in parts : d \in DOMAIN f
           q == Joined(parts)
<1>1. DOMAIN q = UNION {DOMAIN f : f \in parts} /\ \A d \in DOMAIN q : q[d] = part(d)[d]
  BY DEF Joined
<1>2. \A d \in DOMAIN q : part(d) \in parts /\ d \in DOMAIN part(d)
  BY <1>1
<1> HIDE DEF part, q
<1> QED BY <1>1, <1>2 DEF Rated, q

LEMMA ShareIsNumber == ASSUME NEW n \in Int, NEW d \in Nat PROVE Share(n, d) \in Int
  BY DEF Share, Scale

\* Each group of dimensions rates what it names, and nothing else.
LEMMA CellsRated ==
    ASSUME NEW ps, IsFiniteSet(DOMAIN ps), NEW dim, NEW names, NEW spoilt,
           \A i \in DOMAIN ps : ps[i].rows \in Nat /\ ps[i][spoilt] \in Int
    PROVE  Rated(CellsDimension(dim, ps, names, spoilt), {dim})
<1> DEFINE of    == Named(ps, names)
           rows  == [i \in of |-> ps[i].rows]
           bad   == [i \in of |-> ps[i][spoilt]]
           share == Share(SumFunction(rows) - SumFunction(bad), SumFunction(rows))
<1>1. IsFiniteSet(of)
  <2>1. of \subseteq DOMAIN ps
    BY DEF Named
  <2> HIDE DEF of
  <2> QED BY <2>1, FS_Subset
<1>2. SumFunction(rows) \in Nat
  <2>1. DOMAIN rows = of /\ \A i \in of : rows[i] \in Nat
    BY DEF Named
  <2> HIDE DEF rows, of
  <2> QED BY <1>1, <2>1, SumIsNatural, SumOfAll
<1>3. SumFunction(bad) \in Int
  <2>1. DOMAIN bad = of /\ \A i \in of : bad[i] \in Int
    BY DEF Named
  <2> HIDE DEF bad, of
  <2> QED BY <1>1, <2>1, SumIsNumber, SumOfAll
<1>4. share \in Int
  <2> HIDE DEF rows, bad
  <2> QED BY <1>2, <1>3, ShareIsNumber
<1>5. CellsDimension(dim, ps, names, spoilt) = [d \in (IF of = {} THEN {} ELSE {dim}) |-> share]
  BY DEF CellsDimension
<1> HIDE DEF share, of
<1> QED BY <1>4, <1>5 DEF Rated

LEMMA RulesRated ==
    ASSUME NEW results, IsFiniteSet(results), NEW dim, \A r \in results : r.checked \in Nat /\ r.passed \in Nat
    PROVE  Rated(RulesDimension(dim, results), {dim})
<1> DEFINE checked == [r \in results |-> r.checked]
           passed  == [r \in results |-> r.passed]
           share   == Share(SumFunction(passed), SumFunction(checked))
<1>1. SumFunction(checked) \in Nat
  <2>1. DOMAIN checked = results /\ \A r \in results : checked[r] \in Nat
    OBVIOUS
  <2> HIDE DEF checked
  <2> QED BY <2>1, SumIsNatural, SumOfAll
<1>2. SumFunction(passed) \in Int
  <2>1. DOMAIN passed = results /\ \A r \in results : passed[r] \in Int
    OBVIOUS
  <2> HIDE DEF passed
  <2> QED BY <2>1, SumIsNumber, SumOfAll
<1>3. share \in Int
  <2> HIDE DEF checked, passed
  <2> QED BY <1>1, <1>2, ShareIsNumber
<1>4. RulesDimension(dim, results) = [d \in (IF results = {} THEN {} ELSE {dim}) |-> share]
  BY DEF RulesDimension
<1> HIDE DEF share
<1> QED BY <1>3, <1>4 DEF Rated

LEMMA SemanticRated ==
    ASSUME NEW c, Rated(c, DOMAIN SemanticWeights)
    PROVE  Rated(SemanticQuality(c), {"semantic_quality"})
<1> DEFINE of    == DOMAIN c
           parts == [x \in of |-> SemanticWeights[x] * c[x]]
           sum   == SumFunction(parts)
           weight == SumFunctionOnSet(SemanticWeights, of)
           value == sum \div weight
<1>1. of \subseteq {"schema", "classification", "domain", "hierarchy"} /\ \A x \in of : c[x] \in Int
  BY DEF Rated, SemanticWeights
<1>2. IsFiniteSet(of)
  <2>1. IsFiniteSet({"schema", "classification", "domain", "hierarchy"})
    <3>1. IsFiniteSet({"schema"})
      BY FS_Singleton
    <3>2. IsFiniteSet({"schema"} \cup {"classification"})
      BY <3>1, FS_AddElement
    <3>3. IsFiniteSet({"schema", "classification"} \cup {"domain"})
      <4>1. {"schema"} \cup {"classification"} = {"schema", "classification"}
        OBVIOUS
      <4> QED BY <3>2, <4>1, FS_AddElement
    <3>4. IsFiniteSet({"schema", "classification", "domain"} \cup {"hierarchy"})
      <4>1. {"schema", "classification"} \cup {"domain"} = {"schema", "classification", "domain"}
        OBVIOUS
      <4> QED BY <3>3, <4>1, FS_AddElement
    <3>5. {"schema", "classification", "domain"} \cup {"hierarchy"}
            = {"schema", "classification", "domain", "hierarchy"}
      OBVIOUS
    <3> QED BY <3>4, <3>5
  <2> QED BY <1>1, <2>1, FS_Subset
<1>3. \A x \in of : SemanticWeights[x] \in Nat \ {0}
  BY <1>1 DEF SemanticWeights
<1>4. sum \in Int
  <2>1. DOMAIN parts = of /\ \A x \in of : parts[x] \in Int
    BY <1>1, <1>3
  <2> HIDE DEF parts, of
  <2> QED BY <1>2, <2>1, SumIsNumber, SumOfAll
<1>5. of # {} => weight \in Nat \ {0}
  BY <1>2, <1>3, SumIsPositive
<1>6. SemanticQuality(c) = [d \in (IF of = {} THEN {} ELSE {"semantic_quality"}) |-> value]
  BY DEF SemanticQuality
<1> HIDE DEF sum, weight, of
<1>7. of # {} => value \in Int
  BY <1>4, <1>5
<1> HIDE DEF value
<1> QED BY <1>6, <1>7 DEF Rated

\* The counts of a column's profile are numbers.
LEMMA ProfilesAre ==
    ASSUME FileInv
    PROVE  LET ps == ProfilesOf(file)
           IN /\ IsFiniteSet(DOMAIN ps)
              /\ \A i \in DOMAIN ps : ps[i].rows \in Nat /\ ps[i].nulls \in Int /\ ps[i].duplicates \in Int
<1> DEFINE t  == file.table
           ps == ProfilesOf(file)
<1>1. IsFiniteSet(DOMAIN t) /\ Len(t) \in Nat
  BY TableOf
<1>2. IsFiniteSet(DOMAIN Columns)
  <2>1. Len(Columns) \in Nat /\ DOMAIN Columns = 1..Len(Columns)
    BY ColumnsAssumption, LenProperties
  <2> QED BY <2>1, FS_Interval
<1>3. DOMAIN ps = DOMAIN Columns /\ \A i \in DOMAIN ps : ps[i] = ProfileColumn(t, Columns[i])
  BY DEF ProfilesOf, ProfileAll
<1>4. ASSUME NEW c
      PROVE  LET p == ProfileColumn(t, c) IN p.rows \in Nat /\ p.nulls \in Int /\ p.duplicates \in Int
  <2> DEFINE filled == {r \in DOMAIN t : t[r][c] # NULL}
             cell   == [r \in filled |-> t[r][c]]
             values == {t[r][c] : r \in filled}
             p      == ProfileColumn(t, c)
  <2>1. IsFiniteSet(filled)
    <3>1. filled \subseteq DOMAIN t
      OBVIOUS
    <3> HIDE DEF filled, t
    <3> QED BY <1>1, <3>1, FS_Subset
  <2>2. IsFiniteSet(values)
    <3>1. cell = [r \in filled |-> cell[r]] /\ values = {cell[r] : r \in filled}
      OBVIOUS
    <3> HIDE DEF filled, cell, values
    <3> QED BY <2>1, <3>1, FiniteRange
  <2>3. p.rows = Len(t) /\ p.nulls = Len(t) - Count(filled) /\ p.duplicates = Count(filled) - Count(values)
    BY DEF ProfileColumn
  <2> HIDE DEF filled, values, p
  <2>4. Count(filled) \in Nat /\ Count(values) \in Nat
    BY <2>1, <2>2, FS_CardinalityType DEF Count
  <2> QED BY <1>1, <2>3, <2>4 DEF p
<1> HIDE DEF ps
<1> QED BY <1>2, <1>3, <1>4 DEF ps

\* The confidence of the hierarchy is a number too.
LEMMA HierarchySure == ASSUME FileInv PROVE Sure(HierarchyOf(file))
<1> DEFINE ps    == ProfilesOf(file)
           found == Found(file.table, MatchTemplates(ps))
<1>1. HierarchyOf(file) = Unresolved \/ \E x \in found : HierarchyOf(file) = x.chain
  BY SelectedIsLongest DEF HierarchyOf
<1>2. ASSUME NEW x \in found PROVE Sure(x.chain)
  <2>1. IsList(x.match.columns) /\ x.chain = ValidateChain(file.table, x.match.columns)
    BY FoundIs
  <2> QED BY <2>1, ChainIsFound
<1>3. Sure(Unresolved)
  <2>1. IsList(<< >>) /\ DOMAIN << >> = {}
    BY DEF IsList
  <2> QED BY <2>1 DEF Sure, Unresolved
<1> HIDE DEF found
<1> QED BY <1>1, <1>2, <1>3

LEMMA ConfidenceRated == ASSUME NEW h, Sure(h) PROVE Rated(ConfidenceOf(h), {"hierarchy"})
<1> DEFINE n     == Len(h.edges)
           value == Sureness(h) \div n
<1>1. n \in Nat /\ Sureness(h) \in Int
  BY SurenessIsNumber DEF Sure, IsList
<1>2. ConfidenceOf(h) = [c \in (IF n = 0 THEN {} ELSE {"hierarchy"}) |-> value]
  BY DEF ConfidenceOf
<1> HIDE DEF n
<1>3. n # 0 => value \in Int
  BY <1>1
<1> HIDE DEF value
<1> QED BY <1>2, <1>3 DEF Rated

LEMMA WiderRated == ASSUME NEW q, NEW narrow, Rated(q, narrow), NEW wide, narrow \subseteq wide PROVE Rated(q, wide)
  BY DEF Rated

\* So the quality that follows from the file rates dimensions that weigh, with integers.
LEMMA QualityRated == ASSUME FileInv PROVE Rated(QualityOf(file), Dimensions)
<1> DEFINE ps == ProfilesOf(file)
           rs == file.results
           joined == Joined({ConfidenceOf(HierarchyOf(file)), file.confidences})
<1>1. /\ IsFiniteSet(rs) /\ \A r \in rs : r.checked \in Nat /\ r.passed \in Nat
      /\ Rated(file.confidences, {"schema", "classification", "domain"})
  BY FilesAssumption DEF FileInv, Rated
<1>2. Dimensions = {"completeness", "uniqueness", "validity", "conformity", "consistency",
                    "business_rule_compliance", "timeliness", "integrity", "accuracy", "semantic_quality"}
  BY DEF Dimensions, Weights
<1>3. ASSUME NEW kept \in SUBSET rs, NEW dim \in Dimensions PROVE Rated(RulesDimension(dim, kept), Dimensions)
  <2>1. IsFiniteSet(kept)
    BY <1>1, FS_Subset
  <2>2. \A r \in kept : r.checked \in Nat /\ r.passed \in Nat
    BY <1>1
  <2> HIDE DEF rs
  <2>3. Rated(RulesDimension(dim, kept), {dim})
    BY <2>1, <2>2, RulesRated
  <2> QED BY <2>3, WiderRated
<1>4. \A types : Ran(rs, types) \in SUBSET rs
  BY DEF Ran
<1>5. Rated(Validity(rs), Dimensions)
  BY <1>2, <1>3, <1>4 DEF Validity
<1>6. Rated(Conformity(rs), Dimensions)
  BY <1>2, <1>3, <1>4 DEF Conformity
<1>7. Rated(Consistency(rs), Dimensions)
  BY <1>2, <1>3, <1>4 DEF Consistency
<1>8. Rated(BusinessRuleCompliance(rs), Dimensions)
  BY <1>2, <1>3 DEF BusinessRuleCompliance
<1>9. Rated(Completeness(ps, file.metadata), Dimensions)
  <2>1. Rated(Completeness(ps, file.metadata), {"completeness"})
    BY ProfilesAre, CellsRated DEF Completeness
  <2> QED BY <1>2, <2>1, WiderRated
<1>10. Rated(Uniqueness(ps, file.metadata), Dimensions)
  <2>1. Rated(Uniqueness(ps, file.metadata), {"uniqueness"})
    BY ProfilesAre, CellsRated DEF Uniqueness
  <2> QED BY <1>2, <2>1, WiderRated
<1>11. Rated(SemanticQuality(joined), Dimensions)
  <2>1. DOMAIN SemanticWeights = {"schema", "classification", "domain", "hierarchy"}
    BY DEF SemanticWeights
  <2>2. Rated(ConfidenceOf(HierarchyOf(file)), DOMAIN SemanticWeights)
    BY <2>1, HierarchySure, ConfidenceRated, WiderRated
  <2>3. Rated(file.confidences, DOMAIN SemanticWeights)
    BY <1>1, <2>1, WiderRated
  <2>4. Rated(joined, DOMAIN SemanticWeights)
    BY <2>2, <2>3, JoinedRated
  <2>5. Rated(SemanticQuality(joined), {"semantic_quality"})
    BY <2>4, SemanticRated
  <2> QED BY <1>2, <2>5, WiderRated
<1> HIDE DEF ps, rs, joined
<1>12. QualityOf(file) = Joined({Completeness(ps, file.metadata), Uniqueness(ps, file.metadata), Validity(rs),
            Conformity(rs), Consistency(rs), BusinessRuleCompliance(rs), SemanticQuality(joined)})
  BY DEF QualityOf, QualityDimensions, ps, rs, joined
<1> QED BY <1>5, <1>6, <1>7, <1>8, <1>9, <1>10, <1>11, <1>12, JoinedRated

LEMMA FiniteDimensions == IsFiniteSet(Dimensions)
<1> DEFINE place == [completeness |-> 1, uniqueness |-> 2, validity |-> 3, conformity |-> 4, consistency |-> 5,
                     business_rule_compliance |-> 6, timeliness |-> 7, integrity |-> 8, accuracy |-> 9,
                     semantic_quality |-> 10]
<1>1. place \in Injection(Dimensions, 1..10)
  BY DEF Injection, IsInjective, Dimensions, Weights
<1>2. IsFiniteSet(1..10)
  <2> HIDE DEF place
  <2>1. 1 \in Int /\ 10 \in Int
    OBVIOUS
  <2> QED BY <2>1, FS_Interval
<1> QED BY <1>1, <1>2, FS_Injection

\* If no weighing dimension were below the gate, their weighted mean would not be.
LEMMA GateFollows ==
    ASSUME NEW q, Rated(q, Dimensions), ~QualityGatePassed(CalculateOverallScore(q))
    PROVE  \E d \in DOMAIN q : Weights[d] > 0 /\ 100 * q[d] < QualityGateMinScore * Scale
<1> SUFFICES ASSUME \A d \in DOMAIN q : ~(Weights[d] > 0 /\ 100 * q[d] < QualityGateMinScore * Scale)
             PROVE  FALSE
  OBVIOUS
<1> DEFINE f == [d \in DOMAIN q |-> Weights[d] * q[d]]
           F == SumFunctionOnSet(f, DOMAIN q)
           G == SumFunctionOnSet(Weights, DOMAIN q)
<1>1. IsFiniteSet(DOMAIN q)
  BY FiniteDimensions, FS_Subset DEF Rated
<1>2. \A d \in DOMAIN q : Weights[d] \in 1..20 /\ q[d] \in Int
  BY DEF Rated, Dimensions, Weights
<1>3. QualityGateMinScore * Scale = 50400
  BY DEF QualityGateMinScore, Scale
<1>4. \A d \in DOMAIN q : 100 * q[d] >= 50400
  BY <1>2, <1>3
<1>5. \A d \in DOMAIN q : f[d] \in Int /\ 100 * f[d] >= 50400 * Weights[d]
  <2> SUFFICES ASSUME NEW d \in DOMAIN q PROVE f[d] \in Int /\ 100 * f[d] >= 50400 * Weights[d]
    OBVIOUS
  <2>1. f[d] = Weights[d] * q[d]
    OBVIOUS
  <2>2. ASSUME NEW w \in 1..20, NEW x \in Int, 100 * x >= 50400 PROVE w * x \in Int /\ 100 * (w * x) >= 50400 * w
    <3>1. w * (100 * x) >= w * 50400
      BY <2>2
    <3> QED BY <3>1
  <2> QED BY <1>2, <1>4, <2>1, <2>2
<1>6. 100 * F >= 50400 * G
  <2>1. \A d \in DOMAIN q : f[d] \in Int /\ Weights[d] \in Int /\ 100 * f[d] >= 50400 * Weights[d]
    BY <1>2, <1>5
  <2> HIDE DEF f
  <2> QED BY <1>1, <2>1, SumsCompare
<1>7. CalculateOverallScore(q).sum = F /\ CalculateOverallScore(q).weight = G
  <2>1. SumFunction(f) = F
    BY SumOfAll
  <2> QED BY <2>1 DEF CalculateOverallScore
<1> HIDE DEF F, G
<1> QED BY <1>3, <1>6, <1>7 DEF QualityGatePassed

\* A run at the end it comes to without suggestions is there because of the gate.
GateInv ==
    /\ FileInv
    /\ stage = "finalized_lightweight" => ~QualityGatePassed(CalculateOverallScore(quality))

LEMMA NextGate == GateInv /\ [Next]_vars => GateInv'
<1> SUFFICES ASSUME GateInv, [Next]_vars PROVE GateInv'
  OBVIOUS
<1>1. FileInv'
  BY NextFile DEF GateInv
<1>2. stage' = "finalized_lightweight" => ~QualityGatePassed(CalculateOverallScore(quality'))
  BY DEF GateInv, Next, vars, ProfileData, ClassifyAndBuildHierarchy, AssessQuality, RecommendTargetFeatures,
         AssessReadiness, GenerateCharts, RunAgain
<1> QED BY <1>1, <1>2 DEF GateInv

(* A run is only turned away by the quality gate when some dimension that  *)
(* was assessed is below it: what could not be assessed counts for nothing *)
(* (overall_score.py, nodes/pipeline.py assess_quality).                   *)
THEOREM GateIsFair == Spec => []GateTurnsAwayPoorData
<1>1. Init => GateInv
  BY InitFile DEF Init, GateInv
<1>2. GateInv => GateTurnsAwayPoorData
  <2> SUFFICES ASSUME GateInv, stage = "finalized_lightweight"
               PROVE  \E d \in DOMAIN quality : Weights[d] > 0 /\ 100 * quality[d] < QualityGateMinScore * Scale
    BY DEF GateTurnsAwayPoorData
  <2>1. Rated(quality, Dimensions)
    BY QualityRated DEF GateInv, FileInv, Late
  <2> QED BY <2>1, GateFollows DEF GateInv
<1> QED BY <1>1, <1>2, NextGate, PTL DEF Spec

----------------------------------------------------------------------------
\* Sets of numbers in their order, and the columns the levels are.

\* Ascending lists a finite set of integers, each after the smaller ones.
LEMMA AscendingIs ==
    ASSUME NEW S \in SUBSET Int, IsFiniteSet(S)
    PROVE  /\ DOMAIN Ascending(S) = 1..Count(S) /\ Count(S) \in Nat
           /\ \A k \in 1..Count(S) : Ascending(S)[k] \in S /\ Count({y \in S : y < Ascending(S)[k]}) = k - 1
           /\ \A v \in S : Count({y \in S : y < v}) + 1 \in 1..Count(S)
                           /\ Ascending(S)[Count({y \in S : y < v}) + 1] = v
<1> DEFINE Below(x) == {y \in S : y < x}
           rank == [x \in S |-> Cardinality(Below(x)) + 1]
           n == Cardinality(S)
<1>1. n \in Nat
  BY FS_CardinalityType
<1>2. ASSUME NEW x \in S PROVE IsFiniteSet(Below(x)) /\ Cardinality(Below(x)) \in Nat /\ Cardinality(Below(x)) < n
  <2>1. Below(x) \subseteq S /\ Below(x) # S
    OBVIOUS
  <2> HIDE DEF Below
  <2> QED BY <2>1, FS_Subset, FS_CardinalityType
<1>3. ASSUME NEW x \in S, NEW y \in S, x < y PROVE Cardinality(Below(x)) < Cardinality(Below(y))
  <2>0. x \in Int /\ y \in Int /\ \A z \in S : z \in Int
    OBVIOUS
  <2>1. Below(x) \subseteq Below(y) /\ x \in Below(y) /\ x \notin Below(x)
    <3>1. \A z : z \in Below(x) => z \in Below(y)
      BY <1>3, <2>0
    <3>2. x \in Below(y) /\ x \notin Below(x)
      BY <1>3, <2>0
    <3> HIDE DEF Below
    <3> QED BY <3>1, <3>2
  <2>2. Below(x) # Below(y)
    BY <2>1
  <2>3. IsFiniteSet(Below(y)) /\ Cardinality(Below(x)) \in Nat /\ Cardinality(Below(y)) \in Nat
    <3> HIDE DEF Below
    <3> QED BY <1>2
  <2> HIDE DEF Below
  <2> QED BY <2>1, <2>2, <2>3, FS_Subset
<1>4. rank \in Injection(S, 1..n)
  <2>1. rank \in [S -> 1..n]
    <3> HIDE DEF Below, n
    <3> QED BY <1>1, <1>2
  <2>2. ASSUME NEW x \in S, NEW y \in S, rank[x] = rank[y] PROVE x = y
    <3>1. Cardinality(Below(x)) = Cardinality(Below(y))
      <4> HIDE DEF Below
      <4> QED BY <1>2, <2>2
    <3>2. ~(x < y) /\ ~(y < x)
      <4> HIDE DEF Below
      <4> QED BY <1>2, <1>3, <3>1
    <3> QED BY <3>2
  <2> HIDE DEF rank, n
  <2> QED BY <2>1, <2>2 DEF Injection, IsInjective
<1>5. rank \in Surjection(S, 1..n)
  <2>1. IsFiniteSet(1..n) /\ Cardinality(1..n) = n
    BY <1>1, FS_Interval
  <2> HIDE DEF rank
  <2> QED BY <1>4, <2>1, FS_Injection
<1>6. \A k \in 1..n : \E x \in S : rank[x] = k
  <2> HIDE DEF rank, n
  <2> QED BY <1>5 DEF Surjection
<1>7. ASSUME NEW k \in 1..n PROVE Ascending(S)[k] \in S /\ Cardinality(Below(Ascending(S)[k])) = k - 1
  <2>1. Ascending(S)[k] = CHOOSE x \in S : Cardinality(Below(x)) = k - 1
    BY DEF Ascending, Count
  <2>2. PICK x \in S : rank[x] = k
    BY <1>6
  <2>3. Cardinality(Below(x)) = k - 1
    <3>1. rank[x] = Cardinality(Below(x)) + 1
      OBVIOUS
    <3> HIDE DEF Below, rank, n
    <3> QED BY <1>2, <2>2, <3>1
  <2> HIDE DEF Below
  <2> QED BY <2>1, <2>3
<1>8. ASSUME NEW v \in S
      PROVE  Cardinality(Below(v)) + 1 \in 1..n /\ Ascending(S)[Cardinality(Below(v)) + 1] = v
  <2> DEFINE k == Cardinality(Below(v)) + 1
  <2>1. k \in 1..n
    <3> HIDE DEF Below, n
    <3> QED BY <1>1, <1>2
  <2>2. Ascending(S)[k] \in S /\ Cardinality(Below(Ascending(S)[k])) = k - 1
    <3> HIDE DEF Below, n, k
    <3> QED BY <1>7, <2>1
  <2>3. Ascending(S)[k] = v
    <3> DEFINE w == Ascending(S)[k]
    <3>1. w \in S /\ Cardinality(Below(w)) = Cardinality(Below(v))
      <4> HIDE DEF Below
      <4> QED BY <1>2, <2>2
    <3>2. ~(w < v) /\ ~(v < w)
      <4> HIDE DEF Below, w
      <4> QED BY <1>2, <1>3, <3>1
    <3> HIDE DEF w, k
    <3>3. w = v
      BY <3>1, <3>2
    <3> QED BY <3>3 DEF w
  <2> QED BY <2>1, <2>3
<1>9. DOMAIN Ascending(S) = 1..n
  BY DEF Ascending, Count
<1> QED BY <1>1, <1>7, <1>8, <1>9 DEF Count

\* Min and Max return a member.
LEMMA MinIs ==
    ASSUME NEW S \in SUBSET Nat, S # {}
    PROVE  Min(S) \in S /\ \A j \in S : Min(S) <= j
<1>1. \E k \in S : \A j \in S : k <= j
  BY LeastNumber
<1> QED BY <1>1 DEF Min

LEMMA MaxIs ==
    ASSUME NEW S \in SUBSET Nat, S # {}, NEW n \in Nat, \A k \in S : k <= n
    PROVE  Max(S) \in S
<1>1. \E k \in S : \A j \in S : j <= k
  BY GreatestNumber
<1> QED BY <1>1 DEF Max

\* The columns that templates are matched to are columns of the file.
LEMMA AvailableAre ==
    ASSUME NEW t
    PROVE  LET A == Available(ProfileAll(t))
           IN DOMAIN A \subseteq Nat /\ \A k \in DOMAIN A : A[k] \in ToSet(Columns)
<1> DEFINE ps      == ProfileAll(t)
           free    == {i \in DOMAIN ps : ps[i].column \notin Grain(ps)}
           same(i) == {j \in free : ps[j].key = ps[i].key}
           places  == {j \in free : j = Min(same(j))}
           A       == Available(ps)
<1>1. A = [i \in places |-> ps[Max(same(i))].column]
  BY DEF Available
<1>2. DOMAIN ps = DOMAIN Columns /\ \A i \in DOMAIN ps : ps[i].column = Columns[i]
  BY DEF ProfileAll, ProfileColumn
<1>3. Len(Columns) \in Nat /\ DOMAIN Columns = 1..Len(Columns)
  BY ColumnsAssumption, LenProperties
<1> HIDE DEF ps, A
<1>4. ASSUME NEW i \in places PROVE A[i] \in ToSet(Columns)
  <2>1. i \in same(i) /\ same(i) \subseteq DOMAIN ps
    OBVIOUS
  <2>2. same(i) \in SUBSET Nat /\ \A k \in same(i) : k <= Len(Columns)
    <3> HIDE DEF same
    <3> QED BY <1>2, <1>3, <2>1
  <2>3. Max(same(i)) \in same(i)
    <3> HIDE DEF same
    <3> QED BY <1>3, <2>1, <2>2, MaxIs
  <2>4. Max(same(i)) \in DOMAIN ps
    <3> HIDE DEF same
    <3> QED BY <2>1, <2>3
  <2>5. A[i] = ps[Max(same(i))].column
    <3> HIDE DEF same
    <3> QED BY <1>1
  <2>6. A[i] = Columns[Max(same(i))] /\ Max(same(i)) \in DOMAIN Columns
    <3> HIDE DEF same
    <3> QED BY <1>2, <2>4, <2>5
  <2> QED BY <2>6 DEF ToSet
<1>5. DOMAIN A = places /\ places \subseteq Nat
  <2>1. places \subseteq DOMAIN ps
    OBVIOUS
  <2> HIDE DEF places
  <2> QED BY <1>1, <1>2, <1>3, <2>1
<1> HIDE DEF places
<1> QED BY <1>4, <1>5 DEF A, ps

LEMMA ColumnIs ==
    ASSUME NEW concept \in DOMAIN Likeness, NEW A, DOMAIN A \subseteq Nat,
           \A k \in DOMAIN A : A[k] \in ToSet(Columns)
    PROVE  \/ FindMatchingColumn(concept, A) = << >>
           \/ \E c \in ToSet(Columns) : FindMatchingColumn(concept, A) = << c >>
<1> DEFINE like == {k \in DOMAIN A : Likeness[concept][A[k]] < 5}
           marks == {Likeness[concept][A[k]] : k \in like}
           best == {k \in like : Likeness[concept][A[k]] = Min(marks)}
<1>1. FindMatchingColumn(concept, A) = IF like = {} THEN << >> ELSE << A[Min(best)] >>
  BY DEF FindMatchingColumn
<1>2. ASSUME like # {} PROVE A[Min(best)] \in ToSet(Columns)
  <2>1. marks \in SUBSET Nat /\ marks # {}
    BY <1>2, LikenessAssumption
  <2>2. Min(marks) \in marks
    <3> HIDE DEF marks
    <3> QED BY <2>1, MinIs
  <2>3. best \in SUBSET Nat /\ best # {}
    <3> HIDE DEF like
    <3>1. \E k \in like : Likeness[concept][A[k]] = Min(marks)
      BY <2>2
    <3>2. like \subseteq Nat
      BY DEF like
    <3> QED BY <3>1, <3>2
  <2>4. Min(best) \in best
    <3> HIDE DEF best
    <3> QED BY <2>3, MinIs
  <2>5. best \subseteq DOMAIN A
    OBVIOUS
  <2> HIDE DEF best
  <2> QED BY <2>4, <2>5
<1> HIDE DEF like, best
<1> QED BY <1>1, <1>2

LEMMA AscendingIsList == ASSUME NEW S PROVE Ascending(S) = [k \in 1..Count(S) |-> Ascending(S)[k]]
  BY DEF Ascending

\* No column is listed twice, and each is one of the file.
Distinct(columns) == \A i, j \in DOMAIN columns : columns[i] = columns[j] => i = j

Columned(columns) == \A i \in DOMAIN columns : columns[i] \in ToSet(Columns)

\* A template takes no column twice.
LEMMA MatchedApart ==
    ASSUME NEW template, template.levels \in Seq(DOMAIN Likeness), NEW t
    PROVE  LET m == MatchTemplate(template, Available(ProfileAll(t)))
           IN Distinct(m.columns) /\ Columned(m.columns)
<1> DEFINE A == Available(ProfileAll(t))
           m == MatchTemplate(template, A)
           column  == [i \in DOMAIN template.levels |-> FindMatchingColumn(template.levels[i], A)]
           places  == {i \in DOMAIN column : column[i] # << >> /\ \A j \in 1..(i - 1) : column[j] # column[i]}
           matched == Ascending(places)
           n       == Count(places)
<1>1. m.columns = [k \in DOMAIN matched |-> column[matched[k]][1]]
  BY DEF MatchTemplate
<1>2. DOMAIN A \subseteq Nat /\ \A k \in DOMAIN A : A[k] \in ToSet(Columns)
  BY AvailableAre
<1> HIDE DEF A
<1>3. \A i \in DOMAIN column : column[i] = << >> \/ \E c \in ToSet(Columns) : column[i] = << c >>
  <2>1. \A i \in DOMAIN template.levels : template.levels[i] \in DOMAIN Likeness
    OBVIOUS
  <2> QED BY <1>2, <2>1, ColumnIs
<1>4. DOMAIN column = 1..Len(template.levels) /\ Len(template.levels) \in Nat
  BY LenProperties
<1> HIDE DEF column
<1>5. places \subseteq 1..Len(template.levels)
  BY <1>4
<1>6. IsFiniteSet(places) /\ places \in SUBSET Int
  <2> HIDE DEF places
  <2>1. IsFiniteSet(1..Len(template.levels))
    BY <1>4, FS_Interval
  <2>2. IsFiniteSet(places)
    BY <1>5, <2>1, FS_Subset
  <2>3. \A k \in places : k \in Int
    BY <1>4, <1>5
  <2> QED BY <2>2, <2>3
<1>7. /\ DOMAIN matched = 1..n
      /\ \A k \in 1..n : matched[k] \in places
      /\ \A k \in 1..n : Count({y \in places : y < matched[k]}) = k - 1
  <2> HIDE DEF places
  <2> QED BY <1>6, AscendingIs
<1>8. \A i \in places : \E c \in ToSet(Columns) : column[i] = << c >> /\ column[i][1] = c
  BY <1>3
<1>9. \A i, j \in places : column[i] = column[j] => i = j
  <2> SUFFICES ASSUME NEW i \in places, NEW j \in places, column[i] = column[j] PROVE i = j
    OBVIOUS
  <2>1. i \in Nat /\ j \in Nat /\ i >= 1 /\ j >= 1
    BY <1>4, <1>5
  <2>2. ~(i \in 1..(j - 1)) /\ ~(j \in 1..(i - 1))
    OBVIOUS
  <2> QED BY <2>1, <2>2
<1> HIDE DEF places
<1>10. \A i, j \in places : column[i][1] = column[j][1] => i = j
  BY <1>8, <1>9
<1>11. \A k, l \in 1..n : matched[k] = matched[l] => k = l
  <2> SUFFICES ASSUME NEW k \in 1..n, NEW l \in 1..n, matched[k] = matched[l] PROVE k = l
    OBVIOUS
  <2>1. k - 1 = l - 1
    BY <1>7
  <2>2. k \in Int /\ l \in Int
    BY <1>6
  <2> QED BY <2>1, <2>2
<1> HIDE DEF matched, n, m
<1>12. DOMAIN m.columns = 1..n /\ \A k \in 1..n : m.columns[k] = column[matched[k]][1]
  BY <1>1, <1>7
<1>13. Distinct(m.columns)
  BY <1>7, <1>10, <1>11, <1>12 DEF Distinct
<1>14. Columned(m.columns)
  BY <1>7, <1>8, <1>12 DEF Columned
<1> QED BY <1>13, <1>14 DEF m, A

\* The levels of the hierarchy are different columns of the file, none or two at least.
LEMMA LevelsAre ==
    ASSUME FileInv
    PROVE  LET levels == HierarchyOf(file).columns
           IN /\ IsList(levels) /\ Distinct(levels) /\ Columned(levels)
              /\ Len(levels) = 0 \/ Len(levels) >= 2
<1> DEFINE ps    == ProfilesOf(file)
           M     == MatchTemplates(ps)
           found == Found(file.table, M)
           h     == HierarchyOf(file)
<1>1. \/ h = Unresolved
      \/ \E x \in found : h = x.chain
  BY SelectedIsLongest DEF HierarchyOf
<1>2. CASE h = Unresolved
  <2>1. h.columns = << >>
    BY <1>2 DEF Unresolved
  <2>2. Len(h.columns) = 0 /\ DOMAIN h.columns = {}
    BY <2>1
  <2> HIDE DEF h
  <2>3. IsList(h.columns)
    BY <2>2 DEF IsList
  <2> QED BY <2>2, <2>3 DEF Distinct, Columned, h
<1>3. CASE \E x \in found : h = x.chain
  <2>1. PICK x \in found : h = x.chain
    BY <1>3
  <2> DEFINE c == x.match.columns
  <2>2. /\ x.place \in DOMAIN M /\ c = M[x.place].columns /\ IsList(c)
        /\ x.chain = ValidateChain(file.table, c) /\ x.chain.status # "unresolved"
    BY FoundIs
  <2>3. Distinct(c) /\ Columned(c)
    <3>1. DOMAIN M = DOMAIN Templates /\ M[x.place] = MatchTemplate(Templates[x.place], Available(ps))
      BY <2>2 DEF MatchTemplates
    <3>2. Templates[x.place].levels \in Seq(DOMAIN Likeness)
      BY <2>2, <3>1, TemplatesAssumption DEF Range
    <3> HIDE DEF M, found
    <3> QED BY <2>2, <3>1, <3>2, MatchedApart DEF ProfilesOf
  <2> HIDE DEF c, found, h
  <2>4. ChainOf(c, x.chain) /\ x.chain # Unresolved
    BY <2>2, ChainIsFound DEF Unresolved
  <2>5. PICK i \in DOMAIN c, j \in DOMAIN c : Stretch(c, i, j) /\ h.columns = SubSeq(c, i, j)
    BY <2>1, <2>4 DEF ChainOf
  <2>6. i \in Int /\ j \in Int /\ i >= 1 /\ j <= Len(c) /\ i < j /\ DOMAIN c = 1..Len(c) /\ Len(c) \in Nat
    BY <2>2, <2>5 DEF IsList, Stretch
  <2>7. /\ IsList(h.columns) /\ Len(h.columns) = j - i + 1
        /\ \A k \in 1..Len(h.columns) : h.columns[k] = c[i + k - 1] /\ i + k - 1 \in i..j
    BY <2>2, <2>5, <2>6, SubSeqIs
  <2>8. DOMAIN h.columns = 1..Len(h.columns) /\ \A k \in 1..Len(h.columns) : i + k - 1 \in DOMAIN c
    BY <2>6, <2>7 DEF IsList
  <2>9. Columned(h.columns)
    BY <2>3, <2>7, <2>8 DEF Columned
  <2>10. Distinct(h.columns)
    <3> SUFFICES ASSUME NEW k \in DOMAIN h.columns, NEW l \in DOMAIN h.columns, h.columns[k] = h.columns[l]
                 PROVE  k = l
      BY DEF Distinct
    <3>1. i + k - 1 = i + l - 1
      BY <2>3, <2>7, <2>8 DEF Distinct
    <3>2. k \in Int /\ l \in Int
      BY <2>6, <2>7, <2>8
    <3> QED BY <2>6, <3>1, <3>2
  <2> QED BY <2>6, <2>7, <2>9, <2>10 DEF h
<1> HIDE DEF h, found
<1> QED BY <1>1, <1>2, <1>3 DEF h

----------------------------------------------------------------------------
\* The groups of a cube.

\* The rows under a path, their groups by a column, those that are large enough, their order.
Wanted(t, selected) == {r \in DOMAIN t : \A c \in DOMAIN selected : t[r][c] = selected[c]}

Metric == Metrics[1]

Counted(t, rows, level, v) == Numbers(t, Metric, {r \in rows : t[r][level] = v})

Shown(t, rows, level) ==
    {v \in {t[r][level] : r \in DOMAIN t} \ {NULL} : Count(Counted(t, rows, level, v)) >= MinGroup}

Ahead(S, v) == Count({w \in S : w < v})

Entry(t, rows, level, v) ==
    [label |-> v, count |-> Count(Counted(t, rows, level, v)),
     value |-> SumFunction([r \in Counted(t, rows, level, v) |-> Amount[t[r][Metric]]])]

LEMMA CellsAre ==
    ASSUME FileInv, NEW c \in ToSet(Columns), NEW r \in DOMAIN file.table, file.table[r][c] # NULL
    PROVE  file.table[r][c] \in Int
<1>1. file.table \in Seq([ToSet(Columns) -> Cells])
  BY FilesAssumption DEF FileInv
<1>2. file.table[r] \in [ToSet(Columns) -> Cells]
  BY <1>1
<1>3. file.table[r][c] \in Cells
  BY <1>2
<1> QED BY <1>3, CellsAssumption DEF Cells

\* A group that is large enough is one of these rows, and there are as many of them.
LEMMA ShownIs ==
    ASSUME FileInv, NEW level \in ToSet(Columns), NEW rows \in SUBSET DOMAIN file.table
    PROVE  LET t == file.table
           IN /\ Shown(t, rows, level) \in SUBSET Int
              /\ IsFiniteSet(Shown(t, rows, level))
              /\ Shown(t, rows, level) =
                   {v \in {t[r][level] : r \in rows} \ {NULL} : Count(Counted(t, rows, level, v)) >= MinGroup}
              /\ Shown(t, rows, level) # {} => Count(rows) >= MinGroup
<1> DEFINE t == file.table
           group(v) == Counted(t, rows, level, v)
<1>1. IsFiniteSet(DOMAIN t)
  BY TableOf
<1>2. IsFiniteSet(rows) /\ Count(rows) \in Nat
  BY <1>1, FS_Subset, FS_CardinalityType DEF Count
<1>3. MinGroup \in Nat /\ MinGroup > 0
  BY LimitsAssumption
<1>4. \A v : group(v) \subseteq {r \in rows : t[r][level] = v} /\ group(v) \subseteq rows
  BY DEF Counted, Numbers
<1>5. ASSUME NEW v
      PROVE  Count(group(v)) \in Nat /\ Count(group(v)) <= Count(rows) /\ (group(v) = {} => Count(group(v)) = 0)
  <2> HIDE DEF group
  <2>1. group(v) \in SUBSET rows
    BY <1>4
  <2> QED BY <1>2, <2>1, FS_Subset, FS_CardinalityType, FS_EmptySet DEF Count
<1>6. Shown(t, rows, level) \in SUBSET Int
  BY CellsAre DEF Shown
<1>7. IsFiniteSet(Shown(t, rows, level))
  <2> DEFINE g == [r \in DOMAIN t |-> t[r][level]]
             values == {g[r] : r \in DOMAIN t}
  <2>1. g = [r \in DOMAIN t |-> g[r]]
    OBVIOUS
  <2>2. Shown(t, rows, level) \subseteq values
    BY DEF Shown
  <2> HIDE DEF g
  <2>3. IsFiniteSet(values)
    BY <1>1, <2>1, FiniteRange
  <2> HIDE DEF values
  <2> QED BY <2>2, <2>3, FS_Subset
<1> HIDE DEF group
<1>8. ASSUME NEW v, Count(group(v)) >= MinGroup PROVE Count(rows) >= MinGroup /\ \E r \in rows : t[r][level] = v
  <2>1. group(v) # {}
    BY <1>3, <1>5, <1>8
  <2> QED BY <1>2, <1>3, <1>4, <1>5, <1>8, <2>1
<1>9. Shown(t, rows, level) = {v \in {t[r][level] : r \in rows} \ {NULL} : Count(group(v)) >= MinGroup}
  BY <1>8 DEF Shown, group
<1>10. ASSUME Shown(t, rows, level) # {} PROVE Count(rows) >= MinGroup
  BY <1>8, <1>10 DEF Shown, group
<1> QED BY <1>6, <1>7, <1>9, <1>10 DEF group

\* The first places of Ascending hold the members with few before them.
LEMMA FirstOnes ==
    ASSUME NEW S \in SUBSET Int, IsFiniteSet(S), NEW limit \in Nat
    PROVE  LET first == {v \in S : Ahead(S, v) < limit}
               n     == Min({limit, Count(S)})
           IN /\ n \in Nat /\ n <= Count(S) /\ Count(first) = n
              /\ \A k \in 1..n : Ascending(S)[k] \in first
              /\ \A v \in first : \E k \in 1..n : Ascending(S)[k] = v
<1> DEFINE A     == Ascending(S)
           first == {v \in S : Ahead(S, v) < limit}
           n     == Min({limit, Count(S)})
<1>1. /\ Count(S) \in Nat
      /\ \A k \in 1..Count(S) : A[k] \in S /\ Ahead(S, A[k]) = k - 1
      /\ \A v \in S : Ahead(S, v) + 1 \in 1..Count(S) /\ A[Ahead(S, v) + 1] = v
  BY AscendingIs DEF Ahead
<1>2. ASSUME NEW v \in S PROVE Ahead(S, v) \in Nat
  <2>1. {w \in S : w < v} \in SUBSET S
    OBVIOUS
  <2> QED BY <2>1, FS_Subset, FS_CardinalityType DEF Ahead, Count
<1> HIDE DEF A
<1>3. n \in {limit, Count(S)} /\ n <= limit /\ n <= Count(S)
  <2>1. {limit, Count(S)} \in SUBSET Nat /\ {limit, Count(S)} # {}
    BY <1>1
  <2> QED BY <2>1, MinIs
<1> HIDE DEF n
<1>4. n \in Nat
  BY <1>1, <1>3
<1>5. \A k \in 1..n : A[k] \in first
  <2> SUFFICES ASSUME NEW k \in 1..n PROVE A[k] \in first
    OBVIOUS
  <2>1. k \in 1..Count(S) /\ k - 1 < limit
    BY <1>1, <1>3, <1>4
  <2> QED BY <1>1, <2>1
<1>6. \A v \in first : Ahead(S, v) + 1 \in 1..n /\ A[Ahead(S, v) + 1] = v
  <2> SUFFICES ASSUME NEW v \in first PROVE Ahead(S, v) + 1 \in 1..n /\ A[Ahead(S, v) + 1] = v
    OBVIOUS
  <2>1. v \in S /\ Ahead(S, v) < limit
    OBVIOUS
  <2> HIDE DEF first
  <2> QED BY <1>1, <1>2, <1>3, <1>4, <2>1
<1>7. Count(first) = n
  <2> DEFINE g == [k \in 1..n |-> A[k]]
  <2>1. g \in Surjection(1..n, first)
    <3>1. g \in [1..n -> first]
      BY <1>5
    <3>2. \A v \in first : \E k \in 1..n : g[k] = v
      BY <1>6
    <3> HIDE DEF g, first
    <3> QED BY <3>1, <3>2 DEF Surjection
  <2>2. g \in Injection(1..n, first)
    <3>1. g \in [1..n -> first]
      BY <1>5
    <3>2. \A k, l \in 1..n : g[k] = g[l] => k = l
      <4> SUFFICES ASSUME NEW k \in 1..n, NEW l \in 1..n, g[k] = g[l] PROVE k = l
        OBVIOUS
      <4>1. A[k] = A[l] /\ k \in 1..Count(S) /\ l \in 1..Count(S)
        BY <1>1, <1>3, <1>4
      <4>2. k - 1 = l - 1
        BY <1>1, <4>1
      <4> QED BY <4>2
    <3> HIDE DEF g, first
    <3> QED BY <3>1, <3>2 DEF Injection, IsInjective
  <2>3. IsFiniteSet(1..n) /\ Cardinality(1..n) = n
    BY <1>4, FS_Interval
  <2> HIDE DEF g, first
  <2>4. Cardinality(first) = Cardinality(1..n)
    BY <2>1, <2>2, <2>3, FS_Surjection
  <2> QED BY <2>3, <2>4 DEF Count
<1>8. \A v \in first : \E k \in 1..n : A[k] = v
  BY <1>6
<1> QED BY <1>3, <1>4, <1>5, <1>7, <1>8 DEF A, n

\* What is to be shown of these rows by a column.
GroupsShow(t, rows, level, data) ==
    LET first == {v \in Shown(t, rows, level) : Ahead(Shown(t, rows, level), v) < MaxLabels}
    IN /\ data \in Seq(ToSet(data)) /\ Len(data) = Count(first)
       /\ ToSet(data) = {Entry(t, rows, level, v) : v \in first}

\* Groups shows it, and nothing of fewer than MinGroup rows.
LEMMA GroupsAre ==
    ASSUME FileInv, NEW level \in ToSet(Columns), NEW rows \in SUBSET DOMAIN file.table
    PROVE  LET data == Groups(file.table, rows, level, Metric)
           IN /\ GroupsShow(file.table, rows, level, data)
              /\ data # << >> => Count(rows) >= MinGroup
<1> DEFINE t     == file.table
           S     == Shown(t, rows, level)
           A     == Ascending(S)
           first == {v \in S : Ahead(S, v) < MaxLabels}
           n     == Min({MaxLabels, Count(S)})
           data  == Groups(t, rows, level, Metric)
<1>1. /\ S \in SUBSET Int /\ IsFiniteSet(S)
      /\ S = {v \in {t[r][level] : r \in rows} \ {NULL} : Count(Counted(t, rows, level, v)) >= MinGroup}
      /\ S # {} => Count(rows) >= MinGroup
  BY ShownIs
<1>2. MaxLabels \in Nat
  BY LimitsAssumption
<1>3. /\ n \in Nat /\ n <= Count(S) /\ Count(first) = n
      /\ \A k \in 1..n : A[k] \in first
      /\ \A v \in first : \E k \in 1..n : A[k] = v
  <2>1. S \in SUBSET Int /\ IsFiniteSet(S)
    BY <1>1
  <2> HIDE DEF S
  <2> QED BY <1>2, <2>1, FirstOnes
<1>4. DOMAIN A = 1..Count(S) /\ Count(S) \in Nat
  <2> HIDE DEF S
  <2> QED BY <1>1, AscendingIs
<1>5. Len(A) = Count(S)
  <2>1. A = [k \in 1..Count(S) |-> A[k]]
    BY AscendingIsList
  <2>2. Count(S) \in Int
    BY <1>4
  <2> HIDE DEF A, S
  <2> QED BY <1>4, <2>1, <2>2, LenOf
<1>6. data = [k \in 1..Min({MaxLabels, Len(A)}) |-> Entry(t, rows, level, A[k])]
  <2>1. S = {v \in {t[r][level] : r \in rows} \ {NULL} :
                Count(Numbers(t, Metric, {r \in rows : t[r][level] = v})) >= MinGroup}
    BY <1>1 DEF Counted
  <2> HIDE DEF S
  <2> QED BY <2>1 DEF Groups, Entry, Counted
<1>7. data = [k \in 1..n |-> Entry(t, rows, level, A[k])]
  <2> HIDE DEF A, S, data
  <2> QED BY <1>5, <1>6
<1> HIDE DEF A, S, data, n
<1>8. data \in Seq(ToSet(data)) /\ Len(data) = n /\ DOMAIN data = 1..n
  <2>1. data = [k \in 1..n |-> data[k]] /\ n \in Int /\ DOMAIN data = 1..n
    BY <1>3, <1>7
  <2>2. data \in [1..n -> ToSet(data)]
    BY <2>1 DEF ToSet
  <2> QED BY <1>3, <2>1, <2>2, LenOf
<1>9. ToSet(data) = {Entry(t, rows, level, v) : v \in first}
  <2>1. \A k \in 1..n : data[k] = Entry(t, rows, level, A[k])
    BY <1>7
  <2>2. ToSet(data) = {data[k] : k \in 1..n}
    BY <1>8 DEF ToSet
  <2> HIDE DEF first
  <2> QED BY <1>3, <2>1, <2>2
<1>10. ASSUME data # << >> PROVE S # {}
  <2>1. n # 0
    BY <1>3, <1>7, <1>10
  <2> QED BY <1>3, <2>1
<1> QED BY <1>1, <1>3, <1>8, <1>9, <1>10 DEF GroupsShow, S, data

----------------------------------------------------------------------------
\* The cubes and the one that answers a path.

\* The parts of a cube: the levels above it, the rows under its path, the path a row has.
Above(levels, depth) == {levels[i] : i \in 1..depth}

Under(t, depth, path) == IF depth = 0 THEN DOMAIN t ELSE RowsUnder(t, path)

Cube(t, levels, depth, path) ==
    [level |-> levels[depth + 1], path |-> path,
     data |-> Groups(t, Under(t, depth, path), levels[depth + 1], Metric)]

At(t, above, r) == [c \in above |-> t[r][c]]

Early(t, above, r) == Count({At(t, above, q) : q \in 1..(r - 1)}) < MaxPaths

Wide(t, depth, path) == depth = 0 \/ Count(Under(t, depth, path)) >= MinGroup

\* There is a cube for each depth and each early path with enough rows that has a group.
LEMMA CubesAre ==
    ASSUME NEW t, NEW levels, Len(levels) \in Nat, NEW c
    PROVE  c \in GenerateCubes(t, levels) <=>
             /\ Len(levels) >= 2 /\ Metrics # << >>
             /\ \E depth \in 0..(Len(levels) - 1) : \E r \in DOMAIN t :
                   LET above == Above(levels, depth)
                   IN /\ Early(t, above, r)
                      /\ Wide(t, depth, At(t, above, r))
                      /\ c = Cube(t, levels, depth, At(t, above, r)) /\ c.data # << >>
<1> DEFINE AtDepth(depth) ==
             \E r \in DOMAIN t :
                LET above == Above(levels, depth)
                IN /\ Early(t, above, r)
                   /\ Wide(t, depth, At(t, above, r))
                   /\ c = Cube(t, levels, depth, At(t, above, r)) /\ c.data # << >>
<1>1. ASSUME NEW depth PROVE c \in CubesAt(t, levels, depth, Metric) <=> AtDepth(depth)
  <2> DEFINE above == Above(levels, depth)
             paths == {At(t, above, r) : r \in {x \in DOMAIN t : Early(t, above, x)}}
             kept  == {q \in paths : Wide(t, depth, q)}
  <2>1. paths = Paths(t, above)
    BY DEF Paths, At, Early
  <2>2. CubesAt(t, levels, depth, Metric) =
          {x \in {Cube(t, levels, depth, p) :
                    p \in {q \in Paths(t, above) : Wide(t, depth, q)}} : x.data # << >>}
    BY DEF CubesAt, Cube, Under, Above, Wide
  <2>3. c \in CubesAt(t, levels, depth, Metric) <=> (\E p \in kept : c = Cube(t, levels, depth, p)) /\ c.data # << >>
    <3> HIDE DEF paths
    <3> QED BY <2>1, <2>2
  <2>4. \A p : p \in kept <=> \E r \in DOMAIN t : /\ Early(t, above, r) /\ p = At(t, above, r)
                                                 /\ Wide(t, depth, p)
    <3>1. \A p : p \in paths <=> \E r \in DOMAIN t : Early(t, above, r) /\ p = At(t, above, r)
      <4> HIDE DEF above
      <4> QED OBVIOUS
    <3>2. \A p : p \in kept <=> p \in paths /\ Wide(t, depth, p)
      <4> HIDE DEF paths
      <4> QED OBVIOUS
    <3> HIDE DEF paths, kept, above
    <3> QED BY <3>1, <3>2
  <2> HIDE DEF kept, above
  <2>5. c \in CubesAt(t, levels, depth, Metric) <=>
          (\E r \in DOMAIN t : /\ Early(t, above, r)
                               /\ Wide(t, depth, At(t, above, r))
                               /\ c = Cube(t, levels, depth, At(t, above, r))) /\ c.data # << >>
    BY <2>3, <2>4
  <2> QED BY <2>5 DEF above
<1> HIDE DEF AtDepth
<1>2. c \in GenerateCubes(t, levels) <=>
        /\ Len(levels) >= 2 /\ Metrics # << >>
        /\ \E depth \in 0..(Len(levels) - 1) : c \in CubesAt(t, levels, depth, Metric)
  BY DEF GenerateCubes, Metric
<1> QED BY <1>1, <1>2 DEF AtDepth

\* The groups of no cube are none, those of one cube are its own.
Chained(f, s) == IF s = {} THEN << >> ELSE One(s).data \o f[s \ {One(s)}]

LEMMA DataIs == ASSUME NEW S PROVE DataOf(S) = (CHOOSE f : f = [s \in SUBSET S |-> Chained(f, s)])[S]
  BY DEF DataOf, FoldSet, MapThenFoldSet, Chained, One

LEMMA NoData == DataOf({}) = << >>
<1> DEFINE Fits(f) == f = [s \in SUBSET {} |-> Chained(f, s)]
           g == [s \in SUBSET {} |-> << >>]
           chosen == CHOOSE f : Fits(f)
<1>1. Fits(g)
  BY DEF Chained
<1>2. Fits(chosen)
  BY <1>1
<1>3. chosen[{}] = << >>
  BY <1>2 DEF Chained
<1> HIDE DEF chosen
<1>4. DataOf({}) = chosen[{}]
  BY DataIs DEF chosen
<1> QED BY <1>3, <1>4

LEMMA DataOfOne == ASSUME NEW c, NEW T, c.data \in Seq(T) PROVE DataOf({c}) = c.data
<1> DEFINE Fits(f) == f = [s \in SUBSET {c} |-> Chained(f, s)]
           g == [s \in SUBSET {c} |-> IF s = {} THEN << >> ELSE c.data \o << >>]
           chosen == CHOOSE f : Fits(f)
<1>1. \A s \in SUBSET {c} : s = {} \/ (s = {c} /\ One(s) = c /\ s \ {One(s)} = {})
  BY DEF One
<1>2. Fits(g)
  <2>1. \A s \in SUBSET {c} : g[s] = Chained(g, s)
    BY <1>1 DEF Chained
  <2> QED BY <2>1
<1>3. Fits(chosen)
  BY <1>2
<1>4. chosen[{}] = << >>
  BY <1>3 DEF Chained
<1>5. chosen[{c}] = c.data \o chosen[{}]
  <2>1. chosen[{c}] = Chained(chosen, {c})
    BY <1>3
  <2>2. One({c}) = c /\ {c} \ {c} = {}
    BY DEF One
  <2> HIDE DEF chosen
  <2> QED BY <2>1, <2>2 DEF Chained
<1>6. DataOf({c}) = chosen[{c}]
  <2> HIDE DEF chosen
  <2> QED BY DataIs DEF chosen
<1> HIDE DEF chosen
<1> QED BY <1>4, <1>5, <1>6

\* There are as many levels above as the depth says.
LEMMA AboveCounts ==
    ASSUME NEW levels, IsList(levels), Distinct(levels), NEW depth \in 0..Len(levels)
    PROVE  IsFiniteSet(Above(levels, depth)) /\ Cardinality(Above(levels, depth)) = depth
<1> DEFINE g == [i \in 1..depth |-> levels[i]]
           T == Above(levels, depth)
<1>1. depth \in Nat /\ Len(levels) \in Nat /\ 1..depth \subseteq DOMAIN levels
  BY DEF IsList
<1>2. g \in [1..depth -> T] /\ \A v \in T : \E i \in 1..depth : g[i] = v
  BY DEF Above
<1>3. \A i, j \in 1..depth : g[i] = g[j] => i = j
  BY <1>1 DEF Distinct
<1> HIDE DEF g, T
<1>4. g \in Surjection(1..depth, T) /\ g \in Injection(1..depth, T)
  BY <1>2, <1>3 DEF Surjection, Injection, IsInjective
<1>5. IsFiniteSet(1..depth) /\ Cardinality(1..depth) = depth
  BY <1>1, FS_Interval
<1>6. IsFiniteSet(T) /\ Cardinality(T) = depth
  BY <1>4, <1>5, FS_Surjection
<1> QED BY <1>6 DEF T

\* A path asks for finitely many values that are there.
Asked(selected) == IsFiniteSet(DOMAIN selected) /\ \A c \in DOMAIN selected : selected[c] # NULL

\* The cubes of the file, those that match a path, and whether one should.
CubesOf(f) == GenerateCubes(f.table, HierarchyOf(f).columns)

Matching(f, selected) ==
    {c \in CubesOf(f) : /\ c.level = HierarchyOf(f).columns[Count(DOMAIN selected) + 1]
                        /\ Matches(c, selected)}

Answered(f, selected) ==
    /\ Metrics # << >>
    /\ DOMAIN selected = Above(HierarchyOf(f).columns, Count(DOMAIN selected))
    /\ \/ Count(DOMAIN selected) = 0
       \/ \E r \in Wanted(f.table, selected) : Early(f.table, DOMAIN selected, r)

\* The only one that can.
TheCube(f, selected) ==
    LET level == HierarchyOf(f).columns[Count(DOMAIN selected) + 1]
    IN [level |-> level, path |-> [c \in DOMAIN selected |-> selected[c]],
        data |-> Groups(f.table, Wanted(f.table, selected), level, Metric)]

LEMMA UnderIsWanted ==
    ASSUME NEW t, NEW selected, Asked(selected), NEW r \in Wanted(t, selected)
    PROVE  LET depth == Count(DOMAIN selected)
               path  == At(t, DOMAIN selected, r)
           IN /\ path = [c \in DOMAIN selected |-> selected[c]]
              /\ Under(t, depth, path) = Wanted(t, selected)
<1> DEFINE depth == Count(DOMAIN selected)
           path  == At(t, DOMAIN selected, r)
<1>1. path = [c \in DOMAIN selected |-> selected[c]]
  BY DEF At, Wanted
<1>2. RowsUnder(t, path) = Wanted(t, selected)
  BY <1>1 DEF RowsUnder, Wanted, Asked
<1>3. depth = 0 => DOMAIN selected = {}
  BY FS_EmptySet DEF Asked, Count
<1>4. depth = 0 => DOMAIN t = Wanted(t, selected)
  BY <1>3 DEF Wanted
<1> QED BY <1>1, <1>2, <1>4 DEF Under

\* A cube that matches is that one, and should be there.
LEMMA MatchingIs ==
    ASSUME FileInv, NEW selected, Asked(selected), Count(DOMAIN selected) < Len(HierarchyOf(file).columns),
           NEW c \in Matching(file, selected)
    PROVE  Answered(file, selected) /\ c = TheCube(file, selected) /\ c.data # << >>
<1> DEFINE t      == file.table
           levels == HierarchyOf(file).columns
           n      == Count(DOMAIN selected)
<1>1. IsList(levels) /\ Distinct(levels)
  BY LevelsAre
<1>2. n \in Nat /\ Len(levels) \in Nat /\ n < Len(levels) /\ DOMAIN levels = 1..Len(levels)
  BY <1>1, FS_CardinalityType DEF Asked, Count, IsList
<1>3. c \in GenerateCubes(t, levels) /\ c.level = levels[n + 1] /\ Matches(c, selected)
  BY DEF Matching, CubesOf
<1> HIDE DEF levels
<1>4. Metrics # << >> /\ \E d \in 0..(Len(levels) - 1) : \E r \in DOMAIN t :
             /\ Early(t, Above(levels, d), r)
             /\ c = Cube(t, levels, d, At(t, Above(levels, d), r)) /\ c.data # << >>
  BY <1>2, <1>3, CubesAre
<1>5. PICK d \in 0..(Len(levels) - 1), r \in DOMAIN t :
             /\ Early(t, Above(levels, d), r)
             /\ c = Cube(t, levels, d, At(t, Above(levels, d), r)) /\ c.data # << >>
  BY <1>4
<1>6. d = n
  <2>1. levels[d + 1] = levels[n + 1]
    BY <1>3, <1>5 DEF Cube
  <2>2. d + 1 \in DOMAIN levels /\ n + 1 \in DOMAIN levels
    BY <1>2
  <2>3. d + 1 = n + 1
    BY <1>1, <2>1, <2>2 DEF Distinct
  <2> QED BY <1>2, <2>3
<1>7. c.path = At(t, Above(levels, n), r)
  BY <1>5, <1>6 DEF Cube
<1>8. DOMAIN selected = Above(levels, n)
  <2>1. DOMAIN selected \subseteq Above(levels, n)
    BY <1>3, <1>7 DEF Matches, At
  <2>2. IsFiniteSet(Above(levels, n)) /\ Cardinality(Above(levels, n)) = n
    BY <1>1, <1>2, AboveCounts
  <2> QED BY <2>1, <2>2, FS_Subset DEF Count
<1>9. r \in Wanted(t, selected)
  BY <1>3, <1>7, <1>8 DEF Matches, At, Wanted
<1>10. /\ At(t, DOMAIN selected, r) = [x \in DOMAIN selected |-> selected[x]]
       /\ Under(t, n, At(t, DOMAIN selected, r)) = Wanted(t, selected)
  BY <1>9, UnderIsWanted
<1>11. c = TheCube(file, selected)
  BY <1>5, <1>6, <1>8, <1>10 DEF Cube, TheCube, levels
<1>12. Answered(file, selected)
  BY <1>4, <1>5, <1>6, <1>8, <1>9 DEF Answered, levels
<1> QED BY <1>5, <1>11, <1>12

\* When it should be there and has a group, it is.
LEMMA TheCubeMatches ==
    ASSUME FileInv, NEW selected, Asked(selected), Count(DOMAIN selected) < Len(HierarchyOf(file).columns),
           Answered(file, selected), TheCube(file, selected).data # << >>
    PROVE  TheCube(file, selected) \in Matching(file, selected)
<1> DEFINE t      == file.table
           levels == HierarchyOf(file).columns
           n      == Count(DOMAIN selected)
           above  == DOMAIN selected
           c      == TheCube(file, selected)
<1>1. IsList(levels) /\ Columned(levels) /\ (Len(levels) = 0 \/ Len(levels) >= 2)
  BY LevelsAre
<1>2. n \in Nat /\ Len(levels) \in Nat /\ n < Len(levels) /\ DOMAIN levels = 1..Len(levels)
  BY <1>1, FS_CardinalityType DEF Asked, Count, IsList
<1>3. above = Above(levels, n) /\ Metrics # << >>
  BY DEF Answered
<1>4. PICK r \in Wanted(t, selected) : Early(t, above, r)
  <2>1. CASE n = 0
    <3>1. above = {}
      BY <2>1, FS_EmptySet DEF Asked, Count
    <3>2. 1 \in DOMAIN t
      <4>1. t # << >> /\ t \in Seq([ToSet(Columns) -> Cells])
        BY FilesAssumption DEF FileInv
      <4> HIDE DEF t
      <4> QED BY <4>1, EmptySeq, LenProperties
    <3>3. 1 \in Wanted(t, selected)
      BY <3>1, <3>2 DEF Wanted
    <3>4. {At(t, above, q) : q \in 1..(1 - 1)} = {}
      OBVIOUS
    <3>5. Early(t, above, 1)
      <4>1. Cardinality({}) = 0 /\ MaxPaths > 0
        BY FS_EmptySet, LimitsAssumption
      <4>2. Cardinality({At(t, above, q) : q \in 1..(1 - 1)}) < MaxPaths
        <5> HIDE DEF t, above
        <5> QED BY <3>4, <4>1
      <4> QED BY <4>2 DEF Early, Count
    <3> QED BY <3>3, <3>5
  <2>2. CASE n # 0
    BY <2>2 DEF Answered
  <2> QED BY <2>1, <2>2
<1>5. /\ At(t, above, r) = [x \in above |-> selected[x]]
      /\ Under(t, n, At(t, above, r)) = Wanted(t, selected)
  BY UnderIsWanted
<1>6. c = Cube(t, levels, n, At(t, above, r))
  BY <1>5 DEF Cube, TheCube
<1>7. Count(Wanted(t, selected)) >= MinGroup
  <2>1. levels[n + 1] \in ToSet(Columns)
    BY <1>1, <1>2 DEF Columned
  <2>2. Wanted(t, selected) \in SUBSET DOMAIN t
    BY DEF Wanted
  <2>3. Groups(t, Wanted(t, selected), levels[n + 1], Metric) # << >>
    BY DEF TheCube
  <2> HIDE DEF levels
  <2> QED BY <2>1, <2>2, <2>3, GroupsAre
<1>8. Wide(t, n, At(t, above, r))
  BY <1>5, <1>7 DEF Wide
<1>9. r \in DOMAIN t /\ n \in 0..(Len(levels) - 1) /\ Len(levels) >= 2
  BY <1>1, <1>2 DEF Wanted
<1>10. c.data # << >> /\ c.level = levels[n + 1] /\ Matches(c, selected)
  BY DEF TheCube, Matches
<1> HIDE DEF c, levels
<1>11. c \in GenerateCubes(t, levels)
  BY <1>2, <1>3, <1>4, <1>6, <1>8, <1>9, <1>10, CubesAre
<1> QED BY <1>10, <1>11 DEF Matching, CubesOf, c, levels

\* So a path is answered with its groups, or with nothing.
LEMMA DataShown ==
    ASSUME FileInv, NEW selected, Asked(selected), Count(DOMAIN selected) < Len(HierarchyOf(file).columns)
    PROVE  LET level == HierarchyOf(file).columns[Count(DOMAIN selected) + 1]
               data  == DataOf(Matching(file, selected))
           IN IF Answered(file, selected)
              THEN GroupsShow(file.table, Wanted(file.table, selected), level, data)
              ELSE data = << >>
<1> DEFINE levels == HierarchyOf(file).columns
           level  == levels[Count(DOMAIN selected) + 1]
           data   == DataOf(Matching(file, selected))
           c      == TheCube(file, selected)
<1>1. GroupsShow(file.table, Wanted(file.table, selected), level, c.data)
  <2>1. IsList(levels) /\ Columned(levels)
    BY LevelsAre
  <2>2. level \in ToSet(Columns)
    BY <2>1, FS_CardinalityType DEF Columned, Asked, Count, IsList
  <2>3. Wanted(file.table, selected) \in SUBSET DOMAIN file.table
    BY DEF Wanted
  <2>4. c.data = Groups(file.table, Wanted(file.table, selected), level, Metric)
    BY DEF TheCube
  <2> HIDE DEF levels, level, c
  <2> QED BY <2>2, <2>3, <2>4, GroupsAre
<1>2. \A x \in Matching(file, selected) : Answered(file, selected) /\ x = c /\ x.data # << >>
  BY MatchingIs
<1>3. Answered(file, selected) /\ c.data # << >> => c \in Matching(file, selected)
  BY TheCubeMatches
<1>4. c.data \in Seq(ToSet(c.data))
  BY <1>1 DEF GroupsShow
<1> HIDE DEF c, level
<1>5. CASE Answered(file, selected) /\ c.data # << >>
  <2>1. Matching(file, selected) = {c}
    BY <1>2, <1>3, <1>5
  <2>2. data = c.data
    BY <1>4, <2>1, DataOfOne
  <2> QED BY <1>1, <1>5, <2>2 DEF level
<1>6. CASE ~(Answered(file, selected) /\ c.data # << >>)
  <2>1. Matching(file, selected) = {}
    BY <1>2, <1>6
  <2>2. data = << >>
    BY <2>1, NoData
  <2> QED BY <1>1, <1>6, <2>2 DEF level
<1> QED BY <1>5, <1>6

\* What the service answers of the cubes of a finished run.
LEMMA AnswerIs ==
    ASSUME FileInv, stage = "finalized", NEW selected, Asked(selected),
           NEW a, a = ExecuteDrillDown(cubes, hierarchy.columns, selected), a.error = "none"
    PROVE  LET levels == hierarchy.columns
           IN /\ hierarchy = HierarchyOf(file)
              /\ Count(DOMAIN selected) < Len(levels)
              /\ a.level = levels[Count(DOMAIN selected) + 1]
              /\ a.data = DataOf(Matching(file, selected))
<1> DEFINE levels == hierarchy.columns
           n      == Count(DOMAIN selected)
<1>1. hierarchy = HierarchyOf(file) /\ cubes = CubesOf(file)
  BY DEF FileInv, Late, CubesOf
<1>2. IsList(levels)
  BY <1>1, LevelsAre
<1>3. ~(n >= Len(levels)) /\ DOMAIN selected \subseteq ToSet(levels)
  BY DEF ExecuteDrillDown
<1>4. n < Len(levels)
  BY <1>2, <1>3, FS_CardinalityType DEF Asked, Count, IsList
<1>5. /\ a.level = levels[n + 1]
      /\ a.data = DataOf({c \in cubes : c.level = levels[n + 1] /\ Matches(c, selected)})
  BY <1>3 DEF ExecuteDrillDown
<1>6. {c \in cubes : c.level = levels[n + 1] /\ Matches(c, selected)} = Matching(file, selected)
  BY <1>1 DEF Matching
<1> QED BY <1>1, <1>4, <1>5, <1>6

\* A path that is looked up asks for finitely many values that are there.
LEMMA RequestsAreAsked == ASSUME FileInv, stage = "finalized", NEW request \in Requests PROVE Asked(request)
<1> DEFINE values(c) == {file.table[r][c] : r \in DOMAIN file.table} \ {NULL}
           along(C)  == {p \in [C -> UNION {values(c) : c \in C}] : \A c \in C : p[c] \in values(c)}
<1>1. PICK C \in SUBSET ToSet(hierarchy.columns) : request \in along(C)
  <2> HIDE DEF along
  <2>1. Requests = UNION {along(C) : C \in SUBSET ToSet(hierarchy.columns)}
    BY DEF Requests, along
  <2> QED BY <2>1
<1>2. DOMAIN request = C /\ \A c \in C : request[c] # NULL
  BY <1>1
<1>3. IsFiniteSet(ToSet(hierarchy.columns))
  <2>1. IsList(hierarchy.columns)
    BY LevelsAre DEF FileInv, Late
  <2> DEFINE levels == hierarchy.columns
             n      == Len(levels)
             T      == ToSet(levels)
  <2> HIDE DEF levels
  <2>2. n \in Nat /\ DOMAIN levels = 1..n
    BY <2>1 DEF IsList, levels
  <2> DEFINE g == [i \in 1..n |-> levels[i]]
  <2>3. T = {levels[i] : i \in 1..n}
    BY <2>2 DEF ToSet
  <2>4. g \in [1..n -> T] /\ \A v \in T : \E i \in 1..n : g[i] = v
    BY <2>3
  <2>5. IsFiniteSet(1..n)
    BY <2>2, FS_Interval
  <2> HIDE DEF g, n, T
  <2>6. g \in Surjection(1..n, T)
    BY <2>4 DEF Surjection
  <2>7. IsFiniteSet(T)
    BY <2>5, <2>6, FS_Surjection
  <2> QED BY <2>7 DEF T, levels
<1>4. IsFiniteSet(C)
  BY <1>1, <1>3, FS_Subset
<1> QED BY <1>2, <1>4 DEF Asked

\* What is found is what the property asks for.
LEMMA CubesFollow ==
    ASSUME FileInv, stage = "finalized", NEW request \in Requests,
           NEW answer, answer = ExecuteDrillDown(cubes, hierarchy.columns, request), answer.error = "none"
    PROVE  ShowsTheTable(request, answer.data)
<1> DEFINE t       == file.table
           depth   == Count(DOMAIN request)
           level   == hierarchy.columns[depth + 1]
           rows(v) == {r \in DOMAIN t : /\ \A c \in DOMAIN request : t[r][c] = request[c]
                                        /\ t[r][level] = v
                                        /\ \E x \in {t[r][Metrics[1]]} : x # NULL /\ "number" \in Traits[x]}
           groups  == {v \in {t[r][level] : r \in DOMAIN t} \ {NULL} : Count(rows(v)) >= MinGroup}
           first   == {v \in groups : Count({w \in groups : w < v}) < MaxLabels}
           early(r) == Count({[c \in DOMAIN request |-> t[q][c]] : q \in 1..(r - 1)}) < MaxPaths
           entry(v) == [label |-> v, count |-> Count(rows(v)),
                        value |-> SumFunction([r \in rows(v) |-> Amount[t[r][Metrics[1]]]])]
           wanted  == Wanted(t, request)
<1>1. Asked(request)
  BY RequestsAreAsked
<1>2. /\ hierarchy = HierarchyOf(file) /\ depth < Len(hierarchy.columns)
      /\ answer.data = DataOf(Matching(file, request))
  BY <1>1, AnswerIs
<1>3. IF Answered(file, request) THEN GroupsShow(t, wanted, level, answer.data) ELSE answer.data = << >>
  BY <1>1, <1>2, DataShown
<1>4. \A v : rows(v) = Counted(t, wanted, level, v)
  <2> SUFFICES ASSUME NEW v PROVE rows(v) = Counted(t, wanted, level, v)
    OBVIOUS
  <2>1. \A r : r \in rows(v) <=> r \in Counted(t, wanted, level, v)
    <3> HIDE DEF t, level
    <3> QED BY DEF Counted, Numbers, IsNumber, Wanted, Metric
  <2> HIDE DEF rows
  <2>2. Counted(t, wanted, level, v) = {r \in Counted(t, wanted, level, v) : TRUE}
    OBVIOUS
  <2> QED BY <2>1
<1>5. groups = Shown(t, wanted, level)
  <2> HIDE DEF rows, t, level, wanted
  <2> QED BY <1>4 DEF Shown
<1>6. first = {v \in Shown(t, wanted, level) : Ahead(Shown(t, wanted, level), v) < MaxLabels}
  <2> HIDE DEF groups
  <2> QED BY <1>5 DEF Ahead
<1>7. \A v : entry(v) = Entry(t, wanted, level, v)
  <2> HIDE DEF rows, t, level, wanted
  <2> QED BY <1>4 DEF Entry, Metric
<1>8. \A r : early(r) <=> Early(t, DOMAIN request, r)
  BY DEF Early, At
<1> DEFINE asked == /\ Metrics # << >> /\ DOMAIN request = {hierarchy.columns[i] : i \in 1..depth}
                    /\ depth = 0 \/ \E r \in DOMAIN t : early(r) /\ \A c \in DOMAIN request : t[r][c] = request[c]
<1>9. asked <=> Answered(file, request)
  <2>1. (\E r \in DOMAIN t : early(r) /\ \A c \in DOMAIN request : t[r][c] = request[c])
           <=> \E r \in wanted : Early(t, DOMAIN request, r)
    <3> HIDE DEF early
    <3> QED BY <1>8 DEF Wanted
  <2> HIDE DEF early, wanted
  <2> QED BY <1>2, <2>1 DEF Answered, Above, wanted
<1>10. asked => /\ Len(answer.data) = Count(first)
                /\ ToSet(answer.data) = {entry(v) : v \in first}
  <2>1. ASSUME asked PROVE GroupsShow(t, wanted, level, answer.data)
    BY <1>3, <1>9, <2>1
  <2>2. GroupsShow(t, wanted, level, answer.data) =>
          /\ Len(answer.data) = Count(first)
          /\ ToSet(answer.data) = {Entry(t, wanted, level, v) : v \in first}
    <3> HIDE DEF first
    <3> QED BY <1>6 DEF GroupsShow
  <2>3. {Entry(t, wanted, level, v) : v \in first} = {entry(v) : v \in first}
    <3> HIDE DEF entry, first
    <3> QED BY <1>7
  <2> HIDE DEF asked, first, entry, wanted, t, level
  <2> QED BY <2>1, <2>2, <2>3
<1>11. ~asked => answer.data = << >>
  BY <1>3, <1>9
<1>12. IF asked THEN /\ Len(answer.data) = Count(first)
                     /\ ToSet(answer.data) = {entry(v) : v \in first}
       ELSE answer.data = << >>
  <2> HIDE DEF asked, first, entry
  <2> QED BY <1>10, <1>11
<1> QED BY <1>12 DEF ShowsTheTable

(* The cubes of a finished run are true to its table: whichever path is    *)
(* looked up in them, the service finds, under a path of the first levels, *)
(* each group of at least MinGroup numbers once, with its count and sum,   *)
(* the smallest labels when there are too many, and nothing under any      *)
(* other path (pipeline.py _generate_drill_down_cubes,                     *)
(* drilldown_service.py; the route itself looks paths up in no cubes).     *)
THEOREM CubesAreTrue == Spec => []CubesShowTheTable
<1>1. FileInv => CubesShowTheTable
  <2> SUFFICES ASSUME FileInv, stage = "finalized", NEW request \in Requests,
                      NEW answer, answer = ExecuteDrillDown(cubes, hierarchy.columns, request),
                      answer.error = "none"
               PROVE  ShowsTheTable(request, answer.data)
    BY DEF CubesShowTheTable
  <2> QED BY CubesFollow
<1> QED BY <1>1, FileInvariant, PTL

=============================================================================
