-------------------------- MODULE DatasetProfiling --------------------------
(***************************************************************************)
(* The deterministic side of Agent 2's profiling graph, on the data: what  *)
(* the nodes compute from a file, one after the other, for every run of it *)
(* (ProfilingGraph models the order of the nodes, their retries and their  *)
(* failures), the cubes for drilling down among them.                      *)
(*                                                                         *)
(* A file comes with the metadata of its upload and with what is not       *)
(* computed here: the results of the rules that were run on it and the     *)
(* confidences of the classifiers.  A run is started with a question or    *)
(* without one; the answer of the feature-target agent is any of Answers.  *)
(***************************************************************************)
EXTENDS DrillDown, Readiness

CONSTANTS
    Files,      \* [table, metadata, results, confidences, asked]
    Answers,    \* what the feature-target agent may recommend
    MaxRuns     \* bound: runs of the file

ASSUME FilesAssumption ==
    \A f \in Files :
        /\ f.table # << >> /\ f.table \in Seq([ToSet(Columns) -> Cells])
        /\ IsFiniteSet(f.results) /\ \A r \in f.results : r.checked \in Nat /\ r.passed \in Nat
        /\ DOMAIN f.confidences \subseteq {"schema", "classification", "domain"}
        /\ \A c \in DOMAIN f.confidences : f.confidences[c] \in Nat

ASSUME AnswersAssumption == \A a \in Answers : a.given

None == [none |-> TRUE]

VARIABLES
    file, stage,
    profiles, hierarchy, quality, recommendation, readiness, cubes,
    stored,     \* the readiness of the runs of this file that are completed
    runs        \* runs started

vars == <<file, stage, profiles, hierarchy, quality, recommendation, readiness, cubes,
          stored, runs>>

Init ==
    /\ file \in Files
    /\ stage = "loaded" /\ profiles = << >> /\ hierarchy = Unresolved
    /\ quality = << >> /\ recommendation = NoRecommendation /\ readiness = None /\ cubes = {}
    /\ stored = {} /\ runs = 1

ProfileData ==
    /\ stage = "loaded"
    /\ profiles' = ProfileAll(file.table)
    /\ stage' = "profiled"
    /\ UNCHANGED <<file, hierarchy, quality, recommendation, readiness, cubes, stored, runs>>

ClassifyAndBuildHierarchy ==
    /\ stage = "profiled"
    /\ hierarchy' = BuildHierarchy(file.table, profiles)
    /\ stage' = "classified"
    /\ UNCHANGED <<file, profiles, quality, recommendation, readiness, cubes, stored, runs>>

(* The mean confidence of a chain's edges; no chain has none. *)
HierarchyConfidence ==
    LET n == Len(hierarchy.edges)
    IN [c \in (IF n = 0 THEN {} ELSE {"hierarchy"}) |-> Sureness(hierarchy) \div n]

AssessQuality ==
    /\ stage = "classified"
    /\ quality' = QualityDimensions(profiles, file.metadata, file.results,
                                    Joined({HierarchyConfidence, file.confidences}))
    /\ stage' = IF QualityGatePassed(CalculateOverallScore(quality')) THEN "assessed" ELSE "finalized_lightweight"
    /\ recommendation' = IF stage' = "assessed" THEN NoRecommendation ELSE DeterministicFeatureSplit(profiles, Roles)
    /\ UNCHANGED <<file, profiles, hierarchy, readiness, cubes, stored, runs>>

RecommendTargetFeatures ==
    /\ stage = "assessed"
    /\ recommendation' \in {DeterministicFeatureSplit(profiles, Roles)} \cup (IF file.asked THEN Answers ELSE {})
    /\ stage' = "recommended"
    /\ UNCHANGED <<file, profiles, hierarchy, quality, readiness, cubes, stored, runs>>

AssessReadiness ==
    /\ stage = "recommended"
    /\ readiness' = AssessAll(profiles, quality, file.metadata, Roles, Len(file.table), recommendation)
    /\ stage' = "rated"
    /\ UNCHANGED <<file, profiles, hierarchy, quality, recommendation, cubes, stored, runs>>

GenerateCharts ==
    /\ stage = "rated"
    /\ cubes' = GenerateCubes(file.table, hierarchy.columns)
    /\ stored' = stored \cup {readiness}
    /\ stage' = "finalized"
    /\ UNCHANGED <<file, profiles, hierarchy, quality, recommendation, readiness, runs>>

(* The same file is profiled again: a run of its own. *)
RunAgain ==
    /\ stage \in {"finalized", "finalized_lightweight"} /\ runs < MaxRuns /\ file.asked
    /\ stage' = "loaded" /\ profiles' = << >> /\ hierarchy' = Unresolved
    /\ quality' = << >> /\ recommendation' = NoRecommendation /\ readiness' = None /\ cubes' = {}
    /\ runs' = runs + 1
    /\ UNCHANGED <<file, stored>>

Next ==
    \/ ProfileData \/ ClassifyAndBuildHierarchy \/ AssessQuality
    \/ RecommendTargetFeatures \/ AssessReadiness \/ GenerateCharts
    \/ RunAgain

Spec == Init /\ [][Next]_vars

----------------------------------------------------------------------------

(* A chain is judged by the rows alone.  A child value clashes when two    *)
(* rows give it different parents, and is an orphan when no row gives it   *)
(* one.                                                                    *)
Holds(parent, child, tolerated) ==
    LET rows     == {r \in DOMAIN file.table : file.table[r][child] # NULL}
        value(r) == file.table[r][child]
        above(r) == file.table[r][parent]
        values   == {value(r) : r \in rows}
        clash    == {value(r) : r \in {x \in rows : \E q \in rows :
                        value(q) = value(x) /\ NULL \notin {above(q), above(x)} /\ above(q) # above(x)}}
        fed      == {value(r) : r \in {x \in rows : above(x) # NULL}}
    IN /\ values # {}
       /\ 100 * Count(clash) <= (100 - tolerated) * Count(values)
       /\ 100 * Count(values \ fed) <= (100 - MinCoverage) * Count(values)

HoldsAlong(columns, tolerated) ==
    \A i \in 1..(Len(columns) - 1) : Holds(columns[i], columns[i + 1], tolerated)

(* The stretches of two or more neighbouring levels of one template.       *)
Stretches ==
    LET matched == {m.columns : m \in Range(MatchTemplates(profiles))}
    IN {s \in UNION {{SubSeq(c, i, j) : i, j \in DOMAIN c} : c \in matched} :
           Len(s) >= 2 /\ HoldsAlong(s, Warning)}

(* The hierarchy of a run is a stretch of neighbouring levels of one       *)
(* template along which the rows give every value one parent, within the   *)
(* thresholds; none of the templates has a longer such stretch, and it is  *)
(* called accepted only within the stricter threshold (chain_selector.py,  *)
(* functional_dependency.py).                                              *)
ChainIsLongest ==
    stage = "classified" =>
        LET stretches == Stretches
        IN IF stretches = {} THEN hierarchy = Unresolved
           ELSE /\ hierarchy.columns \in stretches
                /\ \A s \in stretches : Len(s) <= Len(hierarchy.columns)
                /\ hierarchy.status = "accepted" <=> HoldsAlong(hierarchy.columns, Accepted)

(* Paths of values of the table, along any of the levels. *)
Requests ==
    LET values(c) == {file.table[r][c] : r \in DOMAIN file.table} \ {NULL}
        along(C)  == {p \in [C -> UNION {values(c) : c \in C}] : \A c \in C : p[c] \in values(c)}
    IN UNION {along(C) : C \in SUBSET ToSet(hierarchy.columns)}

(* Under a path of the first levels, each group of at least MinGroup       *)
(* numbers once, with its count and sum, and the smallest labels when      *)
(* there are too many; under any other path, nothing.                      *)
ShowsTheTable(request, data) ==
    LET t      == file.table
        depth  == Count(DOMAIN request)
        level  == hierarchy.columns[depth + 1]
        rows(v) == {r \in DOMAIN t : /\ \A c \in DOMAIN request : t[r][c] = request[c]
                                     /\ t[r][level] = v
                                     /\ \E x \in {t[r][Metrics[1]]} : x # NULL /\ "number" \in Traits[x]}
        groups == {v \in {t[r][level] : r \in DOMAIN t} \ {NULL} : Count(rows(v)) >= MinGroup}
        first  == {v \in groups : Count({w \in groups : w < v}) < MaxLabels}
        early(r) == Count({[c \in DOMAIN request |-> t[q][c]] : q \in 1..(r - 1)}) < MaxPaths
    IN IF /\ Metrics # << >> /\ DOMAIN request = {hierarchy.columns[i] : i \in 1..depth}
          /\ depth = 0 \/ \E r \in DOMAIN t : early(r) /\ \A c \in DOMAIN request : t[r][c] = request[c]
       THEN /\ Len(data) = Count(first)
            /\ ToSet(data) =
                  {[label |-> v, count |-> Count(rows(v)),
                    value |-> SumFunction([r \in rows(v) |-> Amount[t[r][Metrics[1]]]])] : v \in first}
       ELSE data = << >>

(* The cubes of a finished run are true to its table: whichever path is    *)
(* looked up in them, the service finds what the table has under it        *)
(* (pipeline.py _generate_drill_down_cubes, drilldown_service.py).  This   *)
(* is about the run's result.drill_down_cubes, which nothing stores: the   *)
(* drill-down route looks its paths up in no cubes at all.                 *)
CubesShowTheTable ==
    stage = "finalized" => \A request \in Requests :
        LET answer == ExecuteDrillDown(cubes, hierarchy.columns, request)
        IN answer.error = "none" => ShowsTheTable(request, answer.data)

(* A run is only turned away by the quality gate when some dimension that  *)
(* was assessed is below it: what could not be assessed counts for nothing *)
(* (overall_score.py, nodes/pipeline.py assess_quality).                   *)
GateTurnsAwayPoorData ==
    stage = "finalized_lightweight" =>
        \E d \in DOMAIN quality : Weights[d] > 0 /\ 100 * quality[d] < QualityGateMinScore * Scale

(* What the runs of one file say of the dataset itself does not depend on  *)
(* the question asked or on the features recommended for it                *)
(* (readiness_engine.py, dataset_score).                                   *)
DatasetScoreIgnoresQuestion ==
    \A a, b \in stored :
        /\ a.analytics.dataset = b.analytics.dataset
        /\ a.ml.dataset = b.ml.dataset
        /\ a.llm.dataset = b.llm.dataset
        /\ a.overall.dataset = b.overall.dataset

=============================================================================
