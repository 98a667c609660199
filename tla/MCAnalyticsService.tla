------------------------- MODULE MCAnalyticsService -------------------------
(* Datasets, questions, plugins and calls for AnalyticsService. *)
EXTENDS TLC, AnalyticsService

Profile(role, type, card) ==
    << [confirmed_role |-> None, candidate_role |-> role, confirmed_type |-> None, candidate_type |-> type,
        refined |-> IF role = "temporal_dimension" THEN "date" ELSE "other", card |-> card] >>

Col(name, dtype, card) ==
    [name |-> name, says |-> {}, hint |-> None, dtype |-> dtype, card |-> card, yes_no |-> FALSE,
     dates |-> FALSE, empty |-> FALSE, base |-> name, profile |-> << >>]

Profiled(col, role, type) == [col EXCEPT !.profile = Profile(role, type, col.card)]

Month   == [Col("month", "text", 60) EXCEPT !.says = {"time"}, !.dates = TRUE]
Year    == [Col("year", "integer", 10) EXCEPT !.says = {"period"}]
Revenue == [Col("revenue", "decimal", 90) EXCEPT !.hint = "revenue_amount"]
Cost    == [Col("cost", "decimal", 90) EXCEPT !.hint = "expense_amount", !.says = {"driver"}]
Region  == Col("region", "text", 20)
Channel == Col("channel", "text", 20)
Key     == [Col("key", "text", 100) EXCEPT !.says = {"id"}]
Loss    == [Col("loss_actual", "decimal", 90) EXCEPT !.base = "loss"]
Budget  == [Col("loss_budget", "decimal", 90) EXCEPT !.base = "loss"]
Driver  == [Col("rate_variance", "decimal", 90) EXCEPT !.says = {"driver"}]

Local(columns, rows) ==
    [columns |-> columns, rows |-> rows, rigid |-> {},
     recommendation |-> NoRecommendation, hierarchy |-> None, levels |-> << >>]

Sales(rows, problem) ==
    [columns |-> << Profiled(Month, "temporal_dimension", "date"), Profiled(Year, "dimension", None),
                    Profiled(Revenue, "metric", "revenue_amount"), Profiled(Cost, "metric", "expense_amount"),
                    Profiled(Region, "dimension", None), Profiled(Key, "identifier", None) >>,
     rows |-> rows, rigid |-> {},
     recommendation |-> [target |-> IF problem = "classification" THEN "region" ELSE "revenue", problem |-> problem,
                         features |-> << "cost", "missing" >>],
     hierarchy |-> "strict", levels |-> << "region", "year" >>]

Datasets == {
    Sales(40, "classification"), Sales(40, "regression"), Sales(20, "regression"), Sales(8, "regression"),
    Local(<< Month, Year, Revenue, Cost, Region, Channel, Key >>, 26),
    Local(<< Region, Channel, Key >>, 30) }

Claims(rows) == Local(<< Month, Loss, Budget, Driver, Region >>, rows)

----------------------------------------------------------------------------
Generic == [kind |-> "generic", valid |-> TRUE, kpis |-> << >>, drivers |-> << >>, ratios |-> << >>, default |-> None, preferred |-> << >>]

Indicator(actual, budget) == [actual |-> actual, budget |-> budget, prior |-> None]

Finance == [Generic EXCEPT !.kind = "thin", !.kpis = "margin" :> Indicator("revenue", "cost")]

Insurance ==
    [kind |-> "insurance", valid |-> TRUE, drivers |-> << "rate_variance" >>, ratios |-> << "loss_actual", "rate_variance" >>,
     kpis |-> "loss" :> Indicator("loss_actual", "loss_budget") @@ "result" :> Indicator(None, None),
     default |-> "result", preferred |-> "segmentation" :> "Insurance Combined Ratio Buckets" @@ "forecast" :> "Linear Trend"]

Question(words, kpi, filters) == [words |-> words, names |-> << "cost", "region" >>, kpi |-> kpi, filters |-> filters]

Words == {{}, {"forecast"}, {"anomaly"}, {"why"}, {"variance"}, {"segment"}, {"segment by"}, {"cluster"}, {"correlat"},
          {"rank"}, {"distribution"}, {"associat"}, {"classify"}, {"compar"}, {"forecast", "classify"},
          {"forecast", "segment", "classify", "associat", "correlat"}}

Call(ds, question, ml, plugin) ==
    [ds |-> ds, question |-> question, ml |-> ml, llm |-> TRUE, client |-> FALSE, plugin |-> plugin, broken |-> None,
     last |-> [kpi |-> None, filters |-> {}]]

(* Three datasets, one without the columns of the others, and one whose     *)
(* regions are numbers; an indicator the plugin does not know; a question  *)
(* that plans nothing; what cannot be read or is not valid.                *)
Small == Local(<< Month, Revenue, Region >>, 30)
Coded == [Small EXCEPT !.rigid = {"region"}]
Tiny  == Local(<< Key >>, 30)

MCFollowUps ==
    {Call(Small, Question({}, None, {"region"}), 90, Finance),
     [Call(Small, Question({}, "unheard", {}), 90, Finance) EXCEPT !.client = TRUE],
     [Call(Small, Question({"rank"}, None, {}), 70, Generic) EXCEPT !.client = TRUE],
     Call(Tiny, Question({"rank"}, None, {"region"}), 90, Finance),
     Call(Coded, Question({"rank"}, None, {}), 90, Finance),
     Call(Small, Question({}, None, {}), 90, [Finance EXCEPT !.valid = FALSE])}
    \union {[Call(Small, Question({}, None, {"region"}), 90, Finance) EXCEPT !.broken = b] : b \in {"build", "context", "query"}}

MCCalls ==
    {Call(ds, Question(w, None, {}), ml, Generic) : ds \in Datasets, w \in Words, ml \in {70, 75}}
    \union {Call(ds, Question(w, None, {"year"}), 90, Finance) : ds \in Datasets, w \in {{}, {"trend"}, {"forecast"}}}
    \union {Call(Claims(rows), Question(w, kpi, {}), ml, Insurance) :
               rows \in {6, 30}, w \in Words, kpi \in {None, "loss"}, ml \in {70, 75}}
    \union {[Call(Sales(40, "regression"), Question(w, kpi, {}), 90, Finance) EXCEPT !.client = c, !.llm = l] :
               w \in {{}, {"variance"}}, kpi \in {None, "margin", "unheard"}, c \in BOOLEAN, l \in BOOLEAN}
    \union {Call(Small, Question({w}, None, {"year"}), 90, Finance) : w \in {"rank", "classify"}}
    \union MCFollowUps

=============================================================================
