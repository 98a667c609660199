-------------------------- MODULE AnalyticsPlanner --------------------------
(***************************************************************************)
(* Stages 3, 4 and 5 of the analytics agent: what a question asks for      *)
(* (BusinessQuestionInterpreter and the curated-indicator flow of the      *)
(* graph's node), which analyses are planned for it (planning_rules,       *)
(* AnalyticsPlanner, the domain plugin's enhance_plan) and which of them   *)
(* the scheduler runs.                                                     *)
(*                                                                         *)
(* A question is the keywords it contains, the columns whose phrases it    *)
(* names, longest first, the curated indicator an alias of which it holds  *)
(* and the columns it filters on.                                          *)
(***************************************************************************)
EXTENDS Capabilities

CONSTANTS MaxAnalyses, \* BudgetConfig.max_parallel_analyses
          MaxML        \* BudgetConfig.max_ml_analyses

ASSUME BudgetAssumption == MaxAnalyses \in Nat /\ MaxML \in Nat

----------------------------------------------------------------------------
(* A stable sort of some of the positions of a sequence, DOMAIN key: in the *)
(* order of their keys, those of one key in the order they have.           *)

Earlier(key, j, k) == key[j] < key[k] \/ (key[j] = key[k] /\ j < k)

Place(key, k) == 1 + Cardinality({j \in DOMAIN key : Earlier(key, j, k)})

Arrange(s, key) == [i \in 1..Cardinality(DOMAIN key) |-> s[CHOOSE k \in DOMAIN key : Place(key, k) = i]]

Keep(s, positions) == Arrange(s, [k \in positions |-> 0])

----------------------------------------------------------------------------
(* Stage 3: interpretation *)

KeywordGroups == {
    << {"forecast"}, {"forecast", "trend", "time_series_analysis", "anomaly_detection"} >>,
    << {"anomaly"}, {"anomaly_detection", "outlier_detection"} >>,
    << {"why"}, {"root_cause", "feature_importance"} >>,
    << {"variance", "vs budget"}, {"comparative_analysis", "root_cause"} >>,
    << {"trend"}, {"trend", "time_series_analysis", "forecast"} >>,
    << {"segment", "segment by", "cluster"}, {"clustering", "segmentation", "comparative_analysis", "ranking"} >>,
    << {"correlat"}, {"correlation"} >>,
    << {"rank"}, {"ranking"} >>,
    << {"distribution"}, {"distribution_analysis"} >>,
    << {"associat"}, {"association_rules"} >>,
    << {"classify"}, {"classification", "feature_importance"} >>,
    << {"compar", "vs budget"}, {"comparative_analysis"} >> }

MatchedTypes(q) == UNION {g[2] : g \in {h \in KeywordGroups : h[1] \intersect q.words # {}}}

(* Without a keyword, or when all it asks for is impossible: no intent. *)
Interpret(q, caps) == {t \in MatchedTypes(q) : Possible(caps, t)}

Preferred(q, cols) == SelectSeq(q.names, LAMBDA n : \E k \in DOMAIN cols : cols[k].name = n)

(* The curated flow has one winner, the first of these. *)
KPIFlow == << << "forecast", {"forecast"} >>, << "anomaly_detection", {"anomaly"} >>,
              << "root_cause", {"why", "impact"} >>, << "kpi_variance", {"variance", "vs budget"} >>,
              << "trend", {"trend"} >>, << "segmentation", {"segment by", "cluster"} >> >>

FlowWinners(q) == SelectSeq(KPIFlow, LAMBDA f : f[2] \intersect q.words # {})

(* interpret_question: the types asked for, and "kpi" when a curated one    *)
(* was resolved (named in the question, else the conversation's last, else *)
(* the plugin's default).  An intent without types is none at all.         *)
QuestionIntent(q, ctx, caps, kpi) ==
    LET matched == Interpret(q, caps)
        types   == IF kpi = None THEN matched
                   ELSE IF FlowWinners(q) # << >> THEN {FlowWinners(q)[1][1]}
                   ELSE IF matched = {} THEN {"kpi_summary"} ELSE matched
    IN [given      |-> types # {},
        types      |-> types,
        kpi        |-> kpi,
        metrics    |-> IF matched = {} THEN << >> ELSE Preferred(q, Metrics(ctx)),
        dimensions |-> IF matched = {} THEN << >> ELSE Preferred(q, WithRole(ctx, "dimension"))]

----------------------------------------------------------------------------
(* Stage 4: the planning rules *)

Analysis(type, cols, priority, grounded) ==
    [type |-> type, columns |-> cols, priority |-> priority, grounded |-> grounded]

\* Mutant: proposals are made without asking the capabilities.
Propose_Ungated(caps, types, cols) ==
    [k \in DOMAIN types |-> Analysis(types[k][1], cols, types[k][2], FALSE)]

(* Each of a rule's proposals is made unless the capabilities rule it out. *)
Propose(caps, types, cols) ==
    LET open == Keep(types, {k \in DOMAIN types : Possible(caps, types[k][1])})
    IN [k \in DOMAIN open |-> Analysis(open[k][1], cols, open[k][2], FALSE)]

(* A month or a weekday without its year comes after the other dimensions. *)
PeriodFragment(ctx, ds, c) ==
    /\ \E k \in DOMAIN ds.columns : ds.columns[k].name = c.name /\ "period" \in ds.columns[k].says
    /\ c.cardinality * ctx.rows <= 12 * 100

WorkableDimensions(ctx, ds) ==
    LET dims == WorkableCategoricals(ctx)
    IN SelectSeq(dims, LAMBDA c : ~PeriodFragment(ctx, ds, c)) \o SelectSeq(dims, LAMBDA c : PeriodFragment(ctx, ds, c))

(* The recommended features, most useful first, that the dataset has. *)
RecommendedFeatures(ctx, target) ==
    SelectSeq(ctx.recommendation.features, LAMBDA n : n # target /\ HasColumn(ctx, n))

FirstName(preferred, cols) ==
    LET offered == SelectSeq(preferred, LAMBDA n : \E k \in DOMAIN cols : cols[k].name = n)
    IN IF offered = << >> THEN cols[1].name ELSE offered[1]

TargetRule(ctx, caps) ==
    LET target  == Target(ctx)
        problem == ctx.recommendation.problem
    IN IF target = None \/ problem \notin {"classification", "regression"} THEN << >>
       ELSE Propose(caps, << << problem, 1 >>, << "feature_importance", 1 >> >>,
                    << target >> \o RecommendedFeatures(ctx, target))

RootCauseRule(kpis, intent) ==
    IF intent.metrics # << >> THEN << Analysis("root_cause", << intent.metrics[1] >>, 1, FALSE) >>
    ELSE IF kpis = << >> THEN << >>
    ELSE << Analysis("root_cause", << kpis[1].source_columns[1] >>, 2, TRUE) >>

TemporalRule(ctx, caps, intent) ==
    IF Temporals(ctx) = << >> \/ Metrics(ctx) = << >> THEN << >>
    ELSE LET time   == Temporals(ctx)[1].name
             metric == FirstName(intent.metrics, Metrics(ctx))
             extra  == IF Target(ctx) = metric
                       THEN SelectSeq(RecommendedFeatures(ctx, metric), LAMBDA n : n # time) ELSE << >>
         IN Propose(caps, << << "trend", 2 >>, << "correlation", 3 >>, << "anomaly_detection", 3 >>,
                             << "time_series_analysis", 2 >> >>, << time, metric >>)
              \o Propose(caps, << << "forecast", 2 >> >>, << time, metric >> \o extra)

DimensionRule(ctx, ds, caps, intent) ==
    IF WorkableDimensions(ctx, ds) = << >> \/ Metrics(ctx) = << >> THEN << >>
    ELSE LET metric == FirstName(intent.metrics, Metrics(ctx))
         IN Propose(caps, << << "comparative_analysis", 4 >>, << "ranking", 4 >>, << "distribution_analysis", 4 >> >>,
                    << metric, FirstName(intent.dimensions, WorkableDimensions(ctx, ds)) >>)
              \o Propose(caps, << << "segmentation", 4 >> >>, << metric >>)

IdentifierRule(ctx, caps) ==
    LET ids == WithRole(ctx, "identifier")
    IN IF ids = << >> \/ Metrics(ctx) = << >> THEN << >>
       ELSE Propose(caps, << << "anomaly_detection", 3 >>, << "segmentation", 4 >>, << "ranking", 4 >> >>,
                    << ids[1].name, Metrics(ctx)[1].name >>)

HierarchyRule(ctx, caps) ==
    IF ctx.levels = << >> THEN << >>
    ELSE Propose(caps, << << "comparative_analysis", 5 >>, << "ranking", 5 >> >>, ctx.levels)

CategoricalsRule(ctx, ds, caps) ==
    LET dims == NamesOf(WorkableDimensions(ctx, ds))
    IN IF Len(dims) < 2 THEN << >> ELSE Propose(caps, << << "association_rules", 5 >> >>, SubSeq(dims, 1, 2))

NumericPairRule(ctx, caps) ==
    IF Target(ctx) # None \/ Len(Metrics(ctx)) < 2 THEN << >>
    ELSE Propose(caps, << << "correlation", 6 >>, << "clustering", 6 >>, << "outlier_detection", 6 >> >>,
                 SubSeq(NamesOf(Metrics(ctx)), 1, 2))

Proposals(ctx, ds, caps, kpis, intent) ==
    TargetRule(ctx, caps) \o RootCauseRule(kpis, intent) \o TemporalRule(ctx, caps, intent)
        \o DimensionRule(ctx, ds, caps, intent) \o IdentifierRule(ctx, caps) \o HierarchyRule(ctx, caps)
        \o CategoricalsRule(ctx, ds, caps) \o NumericPairRule(ctx, caps)

(* The first proposal of a type stands; an intent restricts the types. *)
Plan(ctx, ds, caps, kpis, intent) ==
    LET all   == Proposals(ctx, ds, caps, kpis, intent)
        first == {k \in DOMAIN all : \A j \in 1..(k - 1) : all[j].type # all[k].type}
        asked == {k \in first : intent.given => all[k].type \in intent.types}
    IN Arrange(all, [k \in asked |-> all[k].priority])

----------------------------------------------------------------------------
(* Stage 4, the domain plugin.  What it adds replaces what was planned.     *)

KPIColumns(kpi) == SelectSeq(<< kpi.actual, kpi.budget, kpi.prior >>, LAMBDA c : c # None)

Inject(plan, added) ==
    Keep(plan, {j \in DOMAIN plan : \A k \in DOMAIN added : added[k].type # plan[j].type}) \o added

Grounded(types, cols, intent) ==
    LET asked == Keep(types, {k \in DOMAIN types : types[k] \in intent.types})
    IN [k \in DOMAIN asked |-> Analysis(asked[k], cols, 0, TRUE)]

(* ThinKPIDomainPlugin (finance, human resources, payments, customers) *)
ThinEnhance(plan, intent, kpi) ==
    IF KPIColumns(kpi) = << >> THEN plan
    ELSE Inject(plan, Grounded(<< "kpi_summary" >>, KPIColumns(kpi), intent)
                        \o (IF kpi.budget = None THEN << >>
                            ELSE Grounded(<< "kpi_variance" >>, KPIColumns(kpi), intent)))

(* InsurancePlugin: its own feature columns for the model-driven analyses, *)
(* and the curated indicator's columns for what the question asks of it.   *)
OverrideFeatures(plan, ratios) ==
    [k \in DOMAIN plan |-> IF plan[k].type \in {"anomaly_detection", "segmentation", "clustering"}
                           THEN [plan[k] EXCEPT !.columns = ratios] ELSE plan[k]]

InsuranceEnhance(plan, ctx, intent, plugin, kpi) ==
    LET times == NamesOf(Temporals(ctx)) IN
    Inject(plan,
        Grounded(<< "kpi_summary", "kpi_variance" >>, KPIColumns(kpi), intent)
        \o (IF kpi.actual = None THEN << >> ELSE Grounded(<< "root_cause" >>, << kpi.actual >> \o plugin.drivers, intent))
        \o (IF kpi.actual = None \/ times = << >> THEN << >>
            ELSE Grounded(<< "forecast", "trend", "time_series_analysis" >>, << times[1], kpi.actual >>, intent)))

EnhancePlan(plan, ctx, intent, plugin) ==
    LET base == IF plugin.kind = "insurance" THEN OverrideFeatures(plan, plugin.ratios) ELSE plan IN
    IF ~intent.given \/ intent.kpi = None \/ intent.kpi \notin DOMAIN plugin.kpis THEN base
    ELSE CASE plugin.kind = "insurance" -> InsuranceEnhance(base, ctx, intent, plugin, plugin.kpis[intent.kpi])
           [] plugin.kind = "thin"      -> ThinEnhance(base, intent, plugin.kpis[intent.kpi])
           [] plugin.kind = "generic"   -> base

----------------------------------------------------------------------------
(* Stage 5: the scheduler.  What was asked for is kept whatever the budget; *)
(* the first MaxML in order may use a model.                               *)

Asked(intent, a) == intent.given /\ a.type \in intent.types

ScheduleKey(intent, a) == (IF Asked(intent, a) THEN 0 ELSE 20) + (IF a.grounded THEN 0 ELSE 10) + a.priority

Ordered(plan, intent) == Arrange(plan, [k \in DOMAIN plan |-> ScheduleKey(intent, plan[k])])

Slots(kept) == [k \in DOMAIN kept |-> [analysis |-> kept[k], ml |-> k <= MaxML]]

\* Mutant: the budget caps what was asked for, too.
Schedule_CapsAll(plan, intent) ==
    LET ordered == Ordered(plan, intent)
    IN Slots(Keep(ordered, {k \in DOMAIN ordered : k <= MaxAnalyses}))

(* What was asked for comes first in the order, so that what it leaves of   *)
(* the budget goes to the others before position MaxAnalyses.              *)
Schedule(plan, intent) ==
    LET ordered == Ordered(plan, intent)
    IN Slots(Keep(ordered, {k \in DOMAIN ordered : Asked(intent, ordered[k]) \/ k <= MaxAnalyses}))
=============================================================================
