---------------------------- MODULE Capabilities ----------------------------
(***************************************************************************)
(* Stage 1 of the analytics agent: which analyses a dataset admits         *)
(* (structure) and whether a trained model may run them (execution, agent  *)
(* 2's machine-learning readiness against agent 3's threshold).            *)
(***************************************************************************)
EXTENDS DatasetContext

CONSTANT MLThreshold \* ML_READINESS_THRESHOLD, percent

ASSUME ThresholdAssumption == MLThreshold \in Nat

(* An analysis type without a capability is never gated. *)
GatedTypes == {"forecast", "time_series_analysis", "clustering", "classification", "regression",
               "segmentation", "correlation", "association_rules", "anomaly_detection"}

(* Dimensions that are neither an identifier in disguise nor constant. *)
WorkableCardinality(c) == c.cardinality \in 1..50

WorkableCategoricals(ctx) == SelectSeq(WithRole(ctx, "dimension"), WorkableCardinality)

TemporalAndMetric(ctx) == Temporals(ctx) # << >> /\ Metrics(ctx) # << >> /\ ctx.rows >= 10

MinMetrics(ctx, minimum) == Len(Metrics(ctx)) >= minimum

TargetOf(ctx, problem) == Target(ctx) # None /\ ctx.recommendation.problem = problem

Segmentable(ctx) == Metrics(ctx) # << >> \/ WorkableCategoricals(ctx) # << >>

TwoCategoricals(ctx) == Len(WorkableCategoricals(ctx)) >= 2

StructuralCheck(ctx, type) ==
    CASE type \in {"forecast", "time_series_analysis"} -> TemporalAndMetric(ctx)
      [] type \in {"clustering", "correlation"}        -> MinMetrics(ctx, 2)
      [] type = "anomaly_detection"                    -> MinMetrics(ctx, 1)
      [] type \in {"classification", "regression"}     -> TargetOf(ctx, type)
      [] type = "segmentation"                         -> Segmentable(ctx)
      [] type = "association_rules"                    -> TwoCategoricals(ctx)

(* A capability is kept with what the execution gate said of it; the gate   *)
(* is not asked of an analysis the structure already rules out.            *)
ResolveCapabilities(ctx, ml) ==
    [type \in GatedTypes |->
        LET fits == StructuralCheck(ctx, type)
        IN [structural |-> fits, execution |-> fits /\ ml >= MLThreshold]]

Possible(caps, type) == type \in GatedTypes => caps[type].structural

MLViable(caps, type) == type \in GatedTypes /\ caps[type].execution
=============================================================================
