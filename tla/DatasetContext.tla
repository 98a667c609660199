--------------------------- MODULE DatasetContext ---------------------------
(***************************************************************************)
(* Stages 0 and 2 of the analytics agent: what it takes a dataset to be    *)
(* (DatasetContextBuilder, LocalSchemaInferer) and the business indicators *)
(* it finds in it without knowing its domain (SemanticKPIDiscovery).       *)
(*                                                                         *)
(* A column of the file is a record of what the code looks at: what its    *)
(* name says (the patterns it matches: "id", "time", "status", "period",   *)
(* "driver"), the semantic type its name hints at, its physical type, the  *)
(* percentage of distinct values and whether its values read as dates or   *)
(* as a yes/no pair. Patterns over semantic types are sets of them.        *)
(***************************************************************************)
EXTENDS Integers, Sequences, SequencesExt, FiniteSets

None == "none"

Roles == {"metric", "dimension", "identifier", "temporal_dimension", "text_field", "flag", "unknown"}

----------------------------------------------------------------------------
(* Columns of a context *)

ColumnContext(name, type, role, card, temporal) ==
    [name |-> name, semantic_type |-> type, semantic_role |-> role,
     cardinality |-> card, is_temporal |-> temporal]

NamesOf(cols) == [k \in DOMAIN cols |-> cols[k].name]

WithRole(ctx, role) == SelectSeq(ctx.columns, LAMBDA c : c.semantic_role = role)

Metrics(ctx) == WithRole(ctx, "metric")

Temporals(ctx) == SelectSeq(ctx.columns, LAMBDA c : c.is_temporal)

HasColumn(ctx, name) == \E k \in DOMAIN ctx.columns : ctx.columns[k].name = name

Target(ctx) == ctx.recommendation.target

----------------------------------------------------------------------------
(* LocalSchemaInferer: no profile was forwarded *)

IsTemporal(col) == \/ col.dtype = "datetime"
                   \/ "time" \in col.says /\ col.dates /\ ~col.empty

IsFlag(col) == ~col.empty /\ (col.dtype = "bool" \/ col.yes_no)

InferredRole(col) ==
    IF IsTemporal(col) THEN "temporal_dimension"
    ELSE IF col.card >= 95 /\ "id" \in col.says THEN "identifier"
    ELSE IF IsFlag(col) THEN "flag"
    ELSE IF col.dtype \in {"integer", "decimal"} THEN "metric"
    ELSE IF col.card < 50 THEN "dimension"
    ELSE "text_field"

SemanticHint(col) == IF col.hint # None THEN col.hint
                     ELSE IF InferredRole(col) = "metric" THEN "numeric_measure" ELSE None

InferColumn(col) == ColumnContext(col.name, SemanticHint(col), InferredRole(col), col.card, IsTemporal(col))

----------------------------------------------------------------------------
(* DatasetContextBuilder: agent 2's profile of the column was forwarded.  A *)
(* confirmed type or role wins over a candidate; a date by its refined type *)
(* is temporal whatever its role.                                          *)

FirstOf(a, b) == IF a # None THEN a ELSE b

FromProfile(name, p) ==
    LET role == FirstOf(FirstOf(p.confirmed_role, p.candidate_role), "unknown") IN
    ColumnContext(name, FirstOf(p.confirmed_type, p.candidate_type), role, p.card,
                  role = "temporal_dimension" \/ p.refined \in {"date", "datetime"})

NoRecommendation == [target |-> None, problem |-> None, features |-> << >>]

BuildContext(ds) ==
    IF \E k \in DOMAIN ds.columns : ds.columns[k].profile # << >>
    THEN [source |-> "agent2", rows |-> ds.rows, recommendation |-> ds.recommendation,
          columns |-> [k \in DOMAIN ds.columns |-> FromProfile(ds.columns[k].name, ds.columns[k].profile[1])],
          levels |-> IF ds.hierarchy \in {None, "unresolved"} THEN << >> ELSE ds.levels]
    ELSE [source |-> "local_fallback", rows |-> ds.rows, recommendation |-> NoRecommendation,
          columns |-> [k \in DOMAIN ds.columns |-> InferColumn(ds.columns[k])], levels |-> << >>]

----------------------------------------------------------------------------
(* Layer 1 of the discovery: the measure category of a semantic type *)

InsuranceTypes == {"claims_amount", "premium_amount"}
CompensationTypes == {"salary_amount"}
RevenueTypes == {"revenue_amount"}
ExpenseTypes == {"expense_amount", "budget_amount", "actual_amount", "forecast_amount"}
PaymentTypes == {"monetary_amount"}

MeasureCategory(c) ==
    CASE c.semantic_type \in InsuranceTypes                -> "insurance"
      [] c.semantic_type \in CompensationTypes             -> "compensation"
      [] c.semantic_type \in RevenueTypes \union ExpenseTypes -> "financial"
      [] c.semantic_type \in PaymentTypes                  -> "payment"
      [] OTHER                                             -> None

Measures(ctx, category) == SelectSeq(Metrics(ctx), LAMBDA c : MeasureCategory(c) = category)

OfType(cols, types) == SelectSeq(cols, LAMBDA c : c.semantic_type \in types)

(* Layer 2: every rule contributes at most one indicator *)

KPI(name, cols) == << [name |-> name, source_columns |-> NamesOf(cols)] >>

FirstEach(lists) == [k \in DOMAIN lists |-> lists[k][1]]

ProfitMargin(ctx) ==
    LET pair == << OfType(Measures(ctx, "financial"), RevenueTypes), OfType(Measures(ctx, "financial"), ExpenseTypes) >>
    IN IF << >> \in {pair[1], pair[2]} THEN << >> ELSE KPI("profit_margin", FirstEach(pair))

(* The status column is one by its name, whatever agent 2 says of it. *)
SuccessRate(ctx, ds) ==
    LET named == SelectSeq(ctx.columns, LAMBDA c : \E k \in DOMAIN ds.columns :
                                            ds.columns[k].name = c.name /\ "status" \in ds.columns[k].says)
        pair  == << Measures(ctx, "payment"), named >>
    IN IF << >> \in {pair[1], pair[2]} THEN << >> ELSE KPI("success_rate", FirstEach(pair))

SalaryDistribution(ctx) ==
    LET pay  == Measures(ctx, "compensation")
        dims == WithRole(ctx, "dimension")
    IN IF pay = << >> THEN << >>
       ELSE KPI("salary_distribution", IF dims = << >> THEN << pay[1] >> ELSE << pay[1], dims[1] >>)

ClaimFrequency(ctx) ==
    LET claims == Measures(ctx, "insurance")
    IN IF claims = << >> THEN << >> ELSE KPI("claim_frequency", << claims[1] >>)

VarianceVsBudget(ctx) ==
    LET pair == << OfType(Measures(ctx, "financial"), {"actual_amount"}),
                   OfType(Measures(ctx, "financial"), {"budget_amount", "forecast_amount"}) >>
    IN IF << >> \in {pair[1], pair[2]} THEN << >> ELSE KPI("variance_vs_budget", FirstEach(pair))

RatioAnalysis(ctx) ==
    LET unclaimed == Measures(ctx, None)
    IN IF Len(unclaimed) < 2 THEN << >> ELSE KPI("ratio_analysis", SubSeq(unclaimed, 1, 2))

VolumeTrend(ctx) ==
    LET pair == << Metrics(ctx), Temporals(ctx) >>
    IN IF << >> \in {pair[1], pair[2]} THEN << >> ELSE KPI("volume_trend", FirstEach(pair))

DiscoverKPIs(ctx, ds) ==
    ProfitMargin(ctx) \o SuccessRate(ctx, ds) \o SalaryDistribution(ctx) \o ClaimFrequency(ctx)
        \o VarianceVsBudget(ctx) \o RatioAnalysis(ctx) \o VolumeTrend(ctx)
=============================================================================
