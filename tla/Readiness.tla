------------------------------ MODULE Readiness ------------------------------
(***************************************************************************)
(* Agent 2, nodes assess_quality, recommend_target_features and            *)
(* assess_readiness: the quality dimensions, their weighted mean, and the  *)
(* readiness scores for analytics, machine learning and language models.   *)
(*                                                                         *)
(* A score is a whole number of 2520ths, which is exact for fractions of   *)
(* up to ten; readiness points are 2520ths of a point of 100.  A dimension *)
(* that cannot be assessed is not in the domain of the quality function.   *)
(***************************************************************************)
EXTENDS ColumnProfiles

CONSTANTS RowTiers      \* rows that earn 15, 10 and 5 points; the code's 10000, 1000, 100

Clamp(low, x, high) == Max({low, Min({x, high})})

----------------------------------------------------------------------------
(* The dimensions.  Metadata is a set of records about columns, the        *)
(* columns of the file or others; rule results say how many records each   *)
(* rule checked and how many of them passed.                               *)

Flagged(metadata, flag) == {m.column : m \in {x \in metadata : flag \in x.flags}}

Named(profiles, names) ==
    {i \in DOMAIN profiles : profiles[i].column \in names \/ profiles[i].key \in names}

(* The dimension, when some column is named: its share of unspoilt cells. *)
CellsDimension(dim, profiles, names, spoilt) ==
    LET of    == Named(profiles, names)
        cells == SumFunction([i \in of |-> profiles[i].rows])
        bad   == SumFunction([i \in of |-> profiles[i][spoilt]])
    IN [d \in (IF of = {} THEN {} ELSE {dim}) |-> Share(cells - bad, cells)]

Completeness(profiles, metadata) ==
    CellsDimension("completeness", profiles, Flagged(metadata, "mandatory"), "nulls")

Uniqueness(profiles, metadata) ==
    CellsDimension("uniqueness", profiles, Flagged(metadata, "expected_unique"), "duplicates")

(* The dimension, when rules of these types ran: the share of passes. *)
RulesDimension(dim, results) ==
    LET checked == SumFunction([r \in results |-> r.checked])
        passed  == SumFunction([r \in results |-> r.passed])
    IN [d \in (IF results = {} THEN {} ELSE {dim}) |-> Share(passed, checked)]

Ran(results, types) == {r \in results : r.type \in types /\ ~r.error}

Validity(results) == RulesDimension("validity", Ran(results, {"numeric_range", "allowed_values", "date_range"}))
Conformity(results) == RulesDimension("conformity", Ran(results, {"regex_match"}))
Consistency(results) ==
    RulesDimension("consistency",
        Ran(results, {"column_comparison", "cross_field_equality", "cross_field_inequality"}))
BusinessRuleCompliance(results) ==
    RulesDimension("business_rule_compliance", {r \in results : ~r.error /\ r.checked > 0})

(* Without reference data, a reference table or an SLA: never assessed. *)
Unassessed == {"timeliness", "integrity", "accuracy"}

SemanticWeights == [schema |-> 30, classification |-> 25, domain |-> 25, hierarchy |-> 20]

SemanticQuality(confidences) ==
    LET of     == DOMAIN confidences
        weight == SumFunctionOnSet(SemanticWeights, of)
    IN [d \in (IF of = {} THEN {} ELSE {"semantic_quality"}) |->
            SumFunction([c \in of |-> SemanticWeights[c] * confidences[c]]) \div weight]

(* Functions of different domains as one. *)
Joined(parts) == [d \in UNION {DOMAIN f : f \in parts} |-> (CHOOSE f \in parts : d \in DOMAIN f)[d]]

QualityDimensions(profiles, metadata, results, confidences) ==
    Joined({Completeness(profiles, metadata), Uniqueness(profiles, metadata), Validity(results),
            Conformity(results), Consistency(results), BusinessRuleCompliance(results),
            SemanticQuality(confidences)})

----------------------------------------------------------------------------
(* The overall score: the weighted mean of the dimensions assessed, kept   *)
(* as sum and weight.  Without any weight there is no score, and a dataset *)
(* without a score passes the gate.                                        *)

Weights ==
    [completeness |-> 20, uniqueness |-> 15, validity |-> 15, conformity |-> 10, consistency |-> 15,
     business_rule_compliance |-> 10, timeliness |-> 5, integrity |-> 3, accuracy |-> 2, semantic_quality |-> 5]

(* Mutant: the dimensions that were not assessed count as zero. *)
DividedByAllWeights(quality) ==
    [sum    |-> SumFunction([d \in DOMAIN quality |-> Weights[d] * quality[d]]),
     weight |-> SumFunction(Weights)]

CalculateOverallScore(quality) ==
    [sum    |-> SumFunction([d \in DOMAIN quality |-> Weights[d] * quality[d]]),
     weight |-> SumFunctionOnSet(Weights, DOMAIN quality)]

QualityGateMinScore == 20   \* percent

QualityGatePassed(overall) ==
    overall.weight = 0 \/ 100 * overall.sum >= QualityGateMinScore * Scale * overall.weight

----------------------------------------------------------------------------
(* recommend_target_features: with nothing asked, no provider or a failed  *)
(* call, every column of a usable role outside the grain is a feature.     *)

NoRecommendation ==
    [given |-> FALSE, features |-> {}, target |-> FALSE, reasoned |-> FALSE, approach |-> "unknown", confidence |-> 0]

(* Mutant: without an answer nothing is recommended. *)
NoFeatureSplit(profiles, roles) == NoRecommendation

DeterministicFeatureSplit(profiles, roles) ==
    LET usable == {c \in ToSet(Columns) : roles[c] \in {"metric", "dimension", "temporal_dimension", "flag"}}
    IN [NoRecommendation EXCEPT !.given = TRUE,
            !.features = {[column |-> c, usefulness |-> "high"] : c \in usable \ Grain(profiles)}]

----------------------------------------------------------------------------
(* ReadinessEngine *)

Pts(quality, dim, points) == IF dim \in DOMAIN quality THEN points * quality[dim] ELSE 0
Possible(quality, dim, points) == IF dim \in DOMAIN quality THEN points ELSE 0

DetermineStatus(score) ==
    IF score >= 80 * Scale THEN "ready" ELSE IF score >= 60 * Scale THEN "partially_ready" ELSE "not_ready"

CountRole(roles, role) == Count({c \in ToSet(Columns) : roles[c] = role})

AssessAnalytics(quality, roles, grain) ==
    LET metrics    == CountRole(roles, "metric")
        dimensions == CountRole(roles, "dimension")
        score == Min({100 * Scale,
                   Pts(quality, "completeness", 20) + Pts(quality, "validity", 15) + Pts(quality, "consistency", 15)
                   + Scale * ((IF metrics >= 2 THEN 15 ELSE Points(metrics = 1, 8))
                              + (IF dimensions >= 3 THEN 15 ELSE Points(dimensions >= 1, 8))
                              + Points(grain # {}, 10)
                              + Points(CountRole(roles, "temporal_dimension") > 0, 10))})
    IN [score |-> score, dataset |-> score, task |-> -1, status |-> DetermineStatus(score),
        blockers |-> IF grain = {} THEN {"NO_GRAIN_IDENTIFIED"} ELSE {}]

Usefulness == [high |-> 100, medium |-> 60, low |-> 25, other |-> 50]

(* Features worth ten of the highest usefulness earn all 15 points. *)
FeaturePoints(profiles, grain, rec) ==
    IF rec.given
    THEN (15 * Scale * Min({1000, SumFunction([f \in rec.features |-> Usefulness[f.usefulness]])})) \div 1000
    ELSE 15 * Share(Count({i \in DOMAIN profiles : profiles[i].column \notin grain}), Len(profiles))

FeatureNames(profiles, grain, rec) ==
    IF rec.given THEN {f.column : f \in rec.features} ELSE ToSet(Columns) \ grain

RowPoints(rows) ==
    IF rows >= RowTiers[1] THEN 15 ELSE IF rows >= RowTiers[2] THEN 10 ELSE Points(rows >= RowTiers[3], 5)

AssessML(profiles, quality, grain, rows, rec) ==
    LET leaked   == grain \cap FeatureNames(profiles, grain, rec)
        spoilt   == MoreThan(Count(leaked), Count(grain), 30)
        penalty  == Scale * Points(spoilt, 10)
        features == FeaturePoints(profiles, grain, rec)
        others   == {i \in DOMAIN profiles : profiles[i].column \notin grain}
        spread   == {i \in others : profiles[i].filled > 0 /\ MoreThan(profiles[i].distinct, profiles[i].filled, 90)}
        facts    == Pts(quality, "completeness", 20) + Pts(quality, "consistency", 15)
                    + Scale * RowPoints(rows)
                    + Scale * Points(others # {}, IF spread = {} THEN 10 ELSE 5)
                    + Pts(quality, "uniqueness", 10)
        possible == Possible(quality, "completeness", 20) + Possible(quality, "consistency", 15) + 15
                    + Points(others # {}, 10) + Possible(quality, "uniqueness", 10) + Points(~rec.given, 15)
        dataset  == IF rec.given THEN facts ELSE facts + features - penalty
        score    == Clamp(0, facts + features - penalty, 100 * Scale)
    IN [score   |-> score,
        dataset |-> Clamp(0, (100 * dataset) \div possible, 100 * Scale),
        task    |-> IF rec.given THEN Clamp(0, (100 * (features - penalty)) \div 15, 100 * Scale) ELSE -1,
        status  |-> DetermineStatus(score),
        blockers |-> (IF spoilt THEN {"IDENTIFIER_CONTAMINATION"} ELSE {})
                     \cup (IF rows < RowTiers[3] THEN {"INSUFFICIENT_ROWS"} ELSE {})
                     \cup (IF rec.given /\ ~rec.target /\ rec.reasoned THEN {"NO_TARGET_IDENTIFIED"} ELSE {})]

(* Descriptions are counted over the metadata, which may know of columns   *)
(* the file does not have.                                                 *)
DescriptionCoverage(profiles, metadata) ==
    Share(Count(Flagged(metadata, "described")), Len(profiles))

DescriptionPoints(coverage) ==
    IF coverage >= Share(8, 10) THEN 25 * Scale
    ELSE IF coverage >= Share(5, 10) THEN 15 * Scale ELSE 25 * coverage

AssessLLM(profiles, quality, coverage, rec) ==
    LET nulls   == SumFunction([i \in DOMAIN profiles |-> Share(profiles[i].nulls, profiles[i].rows)])
        sampled == Count({i \in DOMAIN profiles : profiles[i].samples > 0})
        dataset == Clamp(0, DescriptionPoints(coverage) + Pts(quality, "semantic_quality", 20)
                            + 15 * (Scale - nulls \div Len(profiles)) + 15 * Scale
                            + 10 * Share(sampled, Len(profiles))
                            + Min({15 * Scale, 15 * coverage}), 100 * Scale)
        suits   == rec.given /\ rec.approach = "llm"
        score   == IF suits THEN Min({100 * Scale, dataset + Min({10 * Scale, (10 * Scale * rec.confidence) \div 100})})
                   ELSE dataset
    IN [score |-> score, dataset |-> dataset, task |-> IF suits THEN Scale * rec.confidence ELSE -1,
        status |-> DetermineStatus(score),
        blockers |-> IF coverage < Share(5, 10) THEN {"LOW_DESCRIPTION_COVERAGE"} ELSE {}]

AssessAll(profiles, quality, metadata, roles, rows, rec) ==
    LET grain     == Grain(profiles)
        analytics == AssessAnalytics(quality, roles, grain)
        ml        == AssessML(profiles, quality, grain, rows, rec)
        llm       == AssessLLM(profiles, quality, DescriptionCoverage(profiles, metadata), rec)
        task      == [ml |-> ml.task, llm |-> llm.task]
        rated     == {a \in DOMAIN task : task[a] >= 0}
        overall   == (analytics.score + ml.score + llm.score) \div 3
    IN [analytics |-> analytics, ml |-> ml, llm |-> llm,
        overall |-> [score |-> overall,
                     dataset |-> (analytics.dataset + ml.dataset + llm.dataset) \div 3,
                     task |-> IF rated = {} THEN -1 ELSE SumFunctionOnSet(task, rated) \div Count(rated),
                     status |-> DetermineStatus(overall), blockers |-> {}]]

=============================================================================
