--------------------------- MODULE ModelSelection ---------------------------
(***************************************************************************)
(* Stage 6 of the analytics agent: the algorithms of                       *)
(* config/model_registry.yml in their order of preference, and the one     *)
(* ModelSelector picks for a scheduled analysis.                           *)
(***************************************************************************)
EXTENDS AnalyticsPlanner

CONSTANT MaxExpensive \* BudgetConfig.max_expensive_operations

ASSUME ExpensiveAssumption == MaxExpensive \in Nat

(* An enabled entry of the registry. *)
Algorithm(name, ml, rows, needs, features, cost) ==
    [name |-> name, ml |-> ml, rows |-> rows, needs |-> needs, features |-> features, cost |-> cost]

Plain(name, rows) == Algorithm(name, FALSE, rows, None, 0, "cheap")

SupervisedEntries ==
    [regression |->
        << Algorithm("LightGBM Regressor", TRUE, 30, "target", 0, "moderate"),
           Algorithm("Random Forest Regressor", TRUE, 30, "target", 0, "moderate"),
           Algorithm("Linear Regression", FALSE, 5, "target", 0, "cheap") >>,
     classification |->
        << Algorithm("XGBoost Classifier", TRUE, 30, "target", 0, "moderate"),
           Algorithm("Random Forest Classifier", TRUE, 30, "target", 0, "moderate"),
           Algorithm("Logistic Regression", TRUE, 20, "target", 0, "cheap"),
           Algorithm("Majority Class Baseline", FALSE, 1, "target", 0, "cheap") >>,
     feature_importance |->
        << Algorithm("SHAP", TRUE, 20, "target", 0, "expensive"),
           Algorithm("Permutation Importance", TRUE, 20, "target", 0, "moderate"),
           Algorithm("Correlation-Based Importance", FALSE, 5, "target", 0, "cheap") >>]

UnsupervisedEntries ==
    [segmentation |->
        << Algorithm("K-Means", TRUE, 10, None, 2, "moderate"), Algorithm("DBSCAN", TRUE, 10, None, 2, "moderate"),
           Algorithm("Hierarchical Clustering", TRUE, 10, None, 2, "moderate"), Plain("Quantile Binning", 4),
           Plain("Equal-Width Binning", 4), Plain("Equal-Frequency Binning", 4),
           Plain("Insurance Combined Ratio Buckets", 1), Plain("Categorical Grouping", 1) >>,
     clustering |->
        << Algorithm("K-Means", TRUE, 10, None, 2, "moderate"), Plain("Quantile Binning", 4), Plain("Categorical Grouping", 1) >>,
     anomaly_detection |->
        << Algorithm("Isolation Forest", TRUE, 10, None, 0, "moderate"), Algorithm("Local Outlier Factor", TRUE, 10, None, 0, "moderate"),
           Algorithm("One-Class SVM", TRUE, 10, None, 0, "expensive"), Plain("Z-Score", 3), Plain("IQR", 4),
           Plain("Modified Z-Score", 3) >>]

TemporalEntries ==
    [forecast |->
        << Algorithm("Prophet", TRUE, 24, "time", 0, "expensive"), Algorithm("XGBoost Regressor", TRUE, 30, None, 0, "moderate"),
           Algorithm("Moving Average", FALSE, 3, "time", 0, "cheap"), Algorithm("Linear Trend", FALSE, 5, "time", 0, "cheap"),
           Algorithm("Exponential Smoothing", FALSE, 5, "time", 0, "cheap") >>,
     trend |-> << Algorithm("Trend", FALSE, 2, "time", 0, "cheap") >>,
     time_series_analysis |-> << Algorithm("Time Series Descriptive", FALSE, 2, "time", 0, "cheap") >>]

DescriptiveEntries ==
    [correlation |-> << Plain("Pearson", 3), Plain("Spearman", 3) >>,
     association_rules |-> << Plain("Contingency Table Co-occurrence", 5) >>,
     distribution_analysis |-> << Plain("Descriptive Distribution", 2) >>,
     ranking |-> << Plain("Ranking", 1) >>,
     comparative_analysis |-> << Plain("Comparative Groupby", 2) >>,
     root_cause |-> << Plain("Deterministic Driver Decomposition", 1) >>,
     outlier_detection |-> << Plain("Z-Score", 3) >>,
     kpi_summary |-> << Plain("KPI Aggregation", 1) >>,
     kpi_variance |-> << Plain("KPI Variance Analysis", 1) >>]

AnalysisTypes ==
    UNION {DOMAIN SupervisedEntries, DOMAIN UnsupervisedEntries, DOMAIN TemporalEntries, DOMAIN DescriptiveEntries}

Registry ==
    [type \in AnalysisTypes |->
        CASE type \in DOMAIN SupervisedEntries   -> SupervisedEntries[type]
          [] type \in DOMAIN UnsupervisedEntries -> UnsupervisedEntries[type]
          [] type \in DOMAIN TemporalEntries     -> TemporalEntries[type]
          [] type \in DOMAIN DescriptiveEntries  -> DescriptiveEntries[type]]

(* _filter_by_requirements: the rows are those of the whole dataset. *)
MeetsRequirements(spec, ctx, cols) ==
    /\ ctx.rows >= spec.rows
    /\ spec.needs = "time" => Temporals(ctx) # << >>
    /\ spec.needs = "target" => Target(ctx) # None
    /\ Len(cols) >= spec.features

(* Positions of the registry's list for the analysis. *)
Candidates(ml, analysis, ctx) ==
    LET specs == Registry[analysis.type]
    IN {k \in DOMAIN specs : specs[k].ml = ml /\ MeetsRequirements(specs[k], ctx, analysis.columns)}

(* The first in the list, a preferred one before all others. *)
Foremost(offers, preferred) ==
    LET front == IF offers \intersect preferred = {} THEN offers ELSE offers \intersect preferred
    IN CHOOSE k \in front : \A j \in front : k <= j

\* Mutant: a slot of the schedule is enough for a model.
Reason_SlotOnly(scheduled, caps) ==
    IF scheduled.analysis.type \notin GatedTypes THEN "ungated" ELSE IF scheduled.ml THEN "allowed" ELSE "no_slot"

(* Why no model was allowed; "gate" is the reason the evidence and the      *)
(* trace take for a readiness score below the threshold.                   *)
Reason(scheduled, caps) ==
    CASE scheduled.analysis.type \notin GatedTypes                          -> "ungated"
      [] scheduled.analysis.type \in GatedTypes /\ ~scheduled.ml            -> "no_slot"
      [] scheduled.analysis.type \in GatedTypes /\ scheduled.ml ->
            IF MLViable(caps, scheduled.analysis.type) THEN "allowed" ELSE "gate"

(* Past the budget of expensive operations the first cheaper one is taken, *)
(* and the expensive one after all when there is none.                     *)
PickWithinBudget(specs, offers, preferred, used) ==
    LET cheaper == {k \in offers : specs[k].cost # "expensive"}
    IN specs[Foremost(IF used < MaxExpensive \/ cheaper = {} THEN offers ELSE cheaper, preferred)]

(* ModelSelector.select: the pick, and its reason; no pick, no algorithm. *)
Select(scheduled, ctx, caps, preferred, used) ==
    LET specs  == Registry[scheduled.analysis.type]
        reason == Reason(scheduled, caps)
        models == IF reason = "allowed" THEN Candidates(TRUE, scheduled.analysis, ctx) ELSE {}
        plain  == Candidates(FALSE, scheduled.analysis, ctx)
        pick   == IF models # {} THEN << PickWithinBudget(specs, models, {}, used) >>
                  ELSE IF plain = {} THEN << >>
                  ELSE << PickWithinBudget(specs, plain, {k \in plain : specs[k].name = preferred}, used) >>
    IN [spec |-> pick, reason |-> reason]
=============================================================================
