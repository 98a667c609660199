----------------------------- MODULE Analyzers -----------------------------
(***************************************************************************)
(* Stage 7 of the analytics agent: when an analyzer has something to show. *)
(*                                                                         *)
(* The frame an analyzer works on is what is left of the dataset under the *)
(* question's filters.  Of a column it matters how many of the rows have a *)
(* number in it, how many have any value, how many distinct ones, and      *)
(* whether its type is numeric; a value that does not read as a number is  *)
(* dropped (to_numeric, dropna).  An analyzer with no evidence to show     *)
(* returns an error; one that raises is caught in Analyzer.execute.        *)
(***************************************************************************)
EXTENDS ModelSelection

Least(a, b) == IF a < b THEN a ELSE b

(* The frame of a dataset when its filters leave `kept` rows. *)
Frame(ds, kept) ==
    [rows |-> kept,
     columns |-> [n \in {ds.columns[k].name : k \in DOMAIN ds.columns} |->
        LET col    == ds.columns[CHOOSE k \in DOMAIN ds.columns : ds.columns[k].name = n]
            filled == IF col.empty THEN 0 ELSE kept
        IN [numeric  |-> col.dtype \in {"integer", "decimal", "bool"},
            values   |-> IF col.dtype # "text" \/ col.dates THEN filled ELSE 0,
            filled   |-> filled,
            distinct |-> Least(filled, (col.card * ds.rows + 99) \div 100)]]]

Has(f, n) == n \in DOMAIN f.columns

Present(f, cols) == SelectSeq(cols, LAMBDA n : Has(f, n))

Values(f, n) == f.columns[n].values

(* build_time_series: one point per date that has a number. *)
Points(f, time, metric) == IF Values(f, metric) = 0 THEN 0 ELSE f.columns[time].distinct

(* Rows with a number in every / in some of the columns. *)
Complete(f, cols) == FoldLeft(LAMBDA acc, n : Least(acc, Values(f, n)), f.rows, cols)

Scoreable(f, cols) == FoldLeft(LAMBDA acc, n : IF Values(f, n) > acc THEN Values(f, n) ELSE acc, 0, cols)

Rest(cols) == SubSeq(cols, 2, Len(cols))

----------------------------------------------------------------------------
(* Time series *)

TimePoints(f, cols) ==
    IF Len(cols) >= 2 /\ Has(f, cols[1]) /\ Has(f, cols[2]) THEN Points(f, cols[1], cols[2]) ELSE 0

OtherMetrics(ctx, metric) == SelectSeq(NamesOf(Metrics(ctx)), LAMBDA n : n # metric)

(* LightGBM takes its features as given: a name the frame lacks raises. *)
BoostedRegression(f, target, features) ==
    /\ Has(f, target) /\ Present(f, features) = features
    /\ Values(f, target) >= 20

ProphetForecasts(points) == points >= 6

Extrapolates(points, name) == points >= IF name = "Moving Average" THEN 3 ELSE 5

Forecasts(f, ctx, cols, name) ==
    LET points == TimePoints(f, cols) IN
    CASE name = "Prophet" -> ProphetForecasts(points)
      [] name \in {"Moving Average", "Linear Trend", "Exponential Smoothing"} -> Extrapolates(points, name)
      [] name = "XGBoost Regressor" ->
            points > 0 /\ BoostedRegression(f, cols[2], IF Len(cols) > 2 THEN SubSeq(cols, 3, Len(cols))
                                                         ELSE Present(f, OtherMetrics(ctx, cols[2])))

Trends(f, cols) == TimePoints(f, cols) >= 2

DescribesSeries(f, cols) == TimePoints(f, cols) >= 2

----------------------------------------------------------------------------
(* A target and its features *)

ForestClassifies(f, target, features) ==
    Present(f, features) # << >> /\ f.columns[target].filled >= 30

LogisticClassifies(f, target, features) ==
    Present(f, features) # << >> /\ f.columns[target].filled >= 20

(* The boosted classifier falls back on the insurance variance columns when *)
(* it is given no feature; the datasets of the model have none of them.    *)
BoostedClassifies(f, target, features) ==
    /\ features # << >> /\ Present(f, features) = features
    /\ f.columns[target].filled >= 20

Classifies(f, cols, name) ==
    cols # << >> /\ Has(f, cols[1]) /\
    CASE name = "XGBoost Classifier"       -> BoostedClassifies(f, cols[1], Rest(cols))
      [] name = "Random Forest Classifier" -> ForestClassifies(f, cols[1], Rest(cols))
      [] name = "Logistic Regression"      -> LogisticClassifies(f, cols[1], Rest(cols))
      [] name = "Majority Class Baseline"  -> f.columns[cols[1]].filled > 0

ForestRegresses(f, target, features) == Present(f, features) # << >> /\ Values(f, target) >= 30

LineRegresses(f, target, features) ==
    LET used == Present(f, features) IN used # << >> /\ Complete(f, << target >> \o used) >= 5

Regresses(f, cols, name) ==
    Len(cols) >= 2 /\ Has(f, cols[1]) /\
    CASE name = "LightGBM Regressor"      -> BoostedRegression(f, cols[1], Rest(cols))
      [] name = "Random Forest Regressor" -> ForestRegresses(f, cols[1], Rest(cols))
      [] name = "Linear Regression"       -> LineRegresses(f, cols[1], Rest(cols))

PermutationRanks(f, target, features) == Present(f, features) # << >> /\ f.rows >= 20

CorrelationRanks(f, target, features) ==
    LET used == SelectSeq(Present(f, features), LAMBDA n : 2 * Values(f, n) >= f.rows)
    IN used # << >> /\ Complete(f, << target >> \o used) >= 5

RanksFeatures(f, cols, name) ==
    Len(cols) >= 2 /\ Has(f, cols[1]) /\
    CASE name = "SHAP"                         -> BoostedClassifies(f, cols[1], Rest(cols))
      [] name = "Permutation Importance"       -> PermutationRanks(f, cols[1], Rest(cols))
      [] name = "Correlation-Based Importance" -> CorrelationRanks(f, cols[1], Rest(cols))

----------------------------------------------------------------------------
(* Groups *)

(* K-Means and its alternatives impute what is not a number; a column with *)
(* no number at all leaves gaps no clustering accepts.                     *)
Clusters(f, cols, least) == f.rows >= least /\ Complete(f, cols) > 0

KMeansClusters(f, cols) == Clusters(f, cols, 6)

Bins(f, cols, least) == cols # << >> /\ Has(f, cols[1]) /\ Values(f, cols[1]) >= least

GroupsBy(f, cols) == cols # << >> /\ Has(f, cols[1]) /\ f.columns[cols[1]].filled > 0

RatioColumn(f, cols) ==
    IF \E k \in DOMAIN cols : cols[k] = "combined_ratio_actual" /\ Has(f, cols[k]) THEN "combined_ratio_actual" ELSE cols[1]

RatioBuckets(f, cols) == cols # << >> /\ Has(f, cols[1]) /\ f.columns[RatioColumn(f, cols)].numeric

ClustersOnFeatures(f, used, name) ==
    /\ Len(used) >= 2
    /\ CASE name = "K-Means"                 -> KMeansClusters(f, used)
         [] name = "Hierarchical Clustering" -> Clusters(f, used, 6)
         [] name = "DBSCAN"                  -> Clusters(f, used, 10)

Segments(f, cols, name) ==
    CASE name \in {"K-Means", "Hierarchical Clustering", "DBSCAN"} -> ClustersOnFeatures(f, Present(f, cols), name)
      [] name = "Quantile Binning"                       -> Bins(f, cols, 4)
      [] name \in {"Equal-Width Binning", "Equal-Frequency Binning"} -> Bins(f, cols, 3)
      [] name = "Insurance Combined Ratio Buckets"       -> RatioBuckets(f, cols)
      [] name = "Categorical Grouping"                   -> GroupsBy(f, cols)

----------------------------------------------------------------------------
(* Values *)

IsolationScores(f, cols) == Scoreable(f, cols) >= 10

NeighbourScores(f, cols) == Scoreable(f, cols) >= 10

RuleScores(f, cols) == Scoreable(f, cols) > 0

FeatureColumns(f, ctx, cols) == Present(f, IF cols = << >> THEN NamesOf(Metrics(ctx)) ELSE cols)

FindsAnomalies(f, ctx, cols, name) ==
    LET used == FeatureColumns(f, ctx, cols) IN
    /\ used # << >>
    /\ CASE name = "Isolation Forest"                         -> IsolationScores(f, used)
         [] name \in {"Local Outlier Factor", "One-Class SVM"} -> NeighbourScores(f, used)
         [] name \in {"Z-Score", "IQR", "Modified Z-Score"}    -> RuleScores(f, used)

FindsOutliers(f, ctx, cols) ==
    LET used == FeatureColumns(f, ctx, cols) IN used # << >> /\ RuleScores(f, used)

(* A matrix is shown even when no pair of the columns has three rows. *)
Correlates(f, cols) == Len(Present(f, cols)) >= 2

Associates(f, cols) ==
    LET used == Present(f, cols) IN
    \E j, k \in DOMAIN used : j < k /\ f.columns[used[j]].filled > 0 /\ f.columns[used[k]].filled > 0

Distributes(f, cols) == Bins(f, cols, 2)

(* Ranking reads [value, label], comparison [metric, dimension]. *)
RanksRecords(f, cols) == Len(cols) >= 2 /\ Has(f, cols[1]) /\ Has(f, cols[2]) /\ Values(f, cols[1]) > 0

ComparesGroups(f, cols) == Len(cols) >= 2 /\ Has(f, cols[1]) /\ Has(f, cols[2]) /\ Values(f, cols[1]) > 0

----------------------------------------------------------------------------
(* Root cause and curated indicators *)

DriverColumns(f, cols) == SelectSeq(Rest(cols), LAMBDA n : Has(f, n) /\ f.columns[n].numeric)

DriversExplain(f, drivers) == \E k \in DOMAIN drivers : Values(f, drivers[k]) > 0

(* Without drivers, the other metrics are correlated with the outcome; of  *)
(* those only the ones named like a driver, when there are any.            *)
CorrelatedCandidates(f, ctx, ds, metric) ==
    LET base(n)  == ds.columns[CHOOSE k \in DOMAIN ds.columns : ds.columns[k].name = n].base
        others   == SelectSeq(Present(f, OtherMetrics(ctx, metric)), LAMBDA n : base(n) # base(metric))
        named    == SelectSeq(others, LAMBDA n : \E k \in DOMAIN ds.columns :
                                           ds.columns[k].name = n /\ "driver" \in ds.columns[k].says)
    IN IF named # << >> THEN named ELSE others

ExplainsCause(f, ctx, ds, cols) ==
    IF cols = << >> THEN FALSE
    ELSE IF DriverColumns(f, cols) # << >> THEN DriversExplain(f, DriverColumns(f, cols))
    ELSE /\ Has(f, cols[1])
         /\ CorrelatedCandidates(f, ctx, ds, cols[1]) # << >>
         /\ Complete(f, << cols[1] >> \o CorrelatedCandidates(f, ctx, ds, cols[1])) >= 3

SummarizesKPI(f, kpi) == kpi # << >> /\ f.rows > 0 /\ Has(f, kpi[1].actual)

(* The prior year is optional, and so is the budget. *)
ComparesKPI(f, kpi) == kpi # << >> /\ f.rows > 0 /\ Has(f, kpi[1].actual)

----------------------------------------------------------------------------
(* AnalyzerRegistry and Analyzer.execute: the evidence of an analysis whose *)
(* algorithm `name` ran on the frame.                                      *)

Shows(f, ctx, ds, analysis, name, kpi) ==
    CASE analysis.type = "forecast"              -> Forecasts(f, ctx, analysis.columns, name)
      [] analysis.type = "trend"                 -> Trends(f, analysis.columns)
      [] analysis.type = "time_series_analysis"  -> DescribesSeries(f, analysis.columns)
      [] analysis.type = "classification"        -> Classifies(f, analysis.columns, name)
      [] analysis.type = "regression"            -> Regresses(f, analysis.columns, name)
      [] analysis.type = "feature_importance"    -> RanksFeatures(f, analysis.columns, name)
      [] analysis.type \in {"segmentation", "clustering"} -> Segments(f, analysis.columns, name)
      [] analysis.type = "anomaly_detection"     -> FindsAnomalies(f, ctx, analysis.columns, name)
      [] analysis.type = "outlier_detection"     -> FindsOutliers(f, ctx, analysis.columns)
      [] analysis.type = "correlation"           -> Correlates(f, analysis.columns)
      [] analysis.type = "association_rules"     -> Associates(f, analysis.columns)
      [] analysis.type = "distribution_analysis" -> Distributes(f, analysis.columns)
      [] analysis.type = "ranking"               -> RanksRecords(f, analysis.columns)
      [] analysis.type = "comparative_analysis"  -> ComparesGroups(f, analysis.columns)
      [] analysis.type = "root_cause"            -> ExplainsCause(f, ctx, ds, analysis.columns)
      [] analysis.type = "kpi_summary"           -> SummarizesKPI(f, kpi)
      [] analysis.type = "kpi_variance"          -> ComparesKPI(f, kpi)

(* Evidence: what it names as the model (or as the fallback) that made it,  *)
(* and whether it says that readiness kept a model from running.           *)
NoEvidence == [shown |-> FALSE, model |-> None, fallback |-> None, blocked |-> FALSE]

\* Mutant: every result that no model made is put down to the gate.
Execute_AlwaysBlocked(f, ctx, ds, analysis, selected, kpi, raises) ==
    IF selected.spec = << >> \/ raises THEN NoEvidence
    ELSE IF ~Shows(f, ctx, ds, analysis, selected.spec[1].name, kpi) THEN NoEvidence
    ELSE IF selected.spec[1].ml THEN [NoEvidence EXCEPT !.shown = TRUE, !.model = selected.spec[1].name]
    ELSE [shown |-> TRUE, model |-> None, fallback |-> selected.spec[1].name, blocked |-> selected.reason # "ungated"]

Execute(f, ctx, ds, analysis, selected, kpi, raises) ==
    IF \/ selected.spec = << >> \/ raises
       \/ ~Shows(f, ctx, ds, analysis, selected.spec[1].name, kpi)
    THEN NoEvidence
    ELSE LET spec == selected.spec[1] IN
         IF spec.ml THEN [NoEvidence EXCEPT !.shown = TRUE, !.model = spec.name]
         ELSE [shown |-> TRUE, model |-> None, fallback |-> spec.name, blocked |-> selected.reason = "gate"]
=============================================================================
