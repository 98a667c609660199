---------------------------- MODULE AnalyticsRun ----------------------------
(***************************************************************************)
(* One call of the analytics agent's graph (POST /analyze): its nodes in   *)
(* their order, the two early exits, the narration and the decision trace  *)
(* built from the final state.  Calls do not share any of this state; what *)
(* they share, the conversation and the indicator files, is added by       *)
(* AnalyticsService, and the trained models are those of ModelStore.       *)
(*                                                                         *)
(* What came with a request may make a stage raise, call.broken: "build",  *)
(* when the upload has no header DuckDB can read or the forwarded metadata *)
(* has not the shape it is taken to have; "context", when pandas cannot    *)
(* read the upload; "query", when a value further down has not the type    *)
(* its column was taken to have.  Of a node that raises for a defect of    *)
(* its own code nothing is said, but for the analyzers', which is caught.  *)
(***************************************************************************)
EXTENDS Analyzers

CONSTANTS Calls \* the calls to be made: records of the fields below

VARIABLES
    call,      \* [ds, question, ml, llm, client, plugin, last, broken]: the request and the conversation's last turn
    pc,        \* the node to run next, "done" at the end
    ctx, caps, kpis, intent, plan, scheduled, \* what each node puts into the graph's state
    frame,     \* the filtered dataset, << >> before it was fetched
    entries,   \* EvidenceBuilder: [type, evidence] per analysis run
    used,      \* expensive operations the selector has granted
    response,  \* None, or where the answer came from
    narrator,  \* llm_engine_used
    turn,      \* what record_memory stored, << >> before
    trace,     \* execution_trace
    status,    \* None, then "ok" or "error"
    upload     \* whether the call's temporary file exists

vars == << call, pc, ctx, caps, kpis, intent, plan, scheduled, frame, entries, used,
           response, narrator, turn, trace, status, upload >>

Nodes == {"build_dataset_context", "resolve_capabilities", "discover_kpis", "interpret_question",
          "plan_analytics", "schedule", "execute_analyses", "narrate", "record_memory"}

Init ==
    /\ call \in Calls
    /\ pc = "build_dataset_context"
    /\ ctx = << >> /\ caps = << >> /\ kpis = << >> /\ intent = << >> /\ plan = << >> /\ scheduled = << >>
    /\ frame = << >> /\ entries = << >> /\ used = 0
    /\ response = None /\ narrator = None /\ turn = << >> /\ trace = << >>
    /\ status = None /\ upload = TRUE

----------------------------------------------------------------------------
(* run_analytics_graph answers whatever a node raises with an error and     *)
(* removes the temporary file: nothing is recorded of the call.            *)
Fail ==
    /\ status' = "error"
    /\ upload' = FALSE
    /\ pc' = "done"
    /\ UNCHANGED << call, ctx, caps, kpis, intent, plan, scheduled, frame, entries, used, response, narrator, turn, trace >>

----------------------------------------------------------------------------
(* Stages 0 to 2 *)

BuildDatasetContext ==
    /\ pc = "build_dataset_context" /\ call.broken # "context"
    /\ ctx' = BuildContext(call.ds)
    /\ pc' = "resolve_capabilities"
    /\ UNCHANGED << call, caps, kpis, intent, plan, scheduled, frame, entries, used, response, narrator, turn, trace, status, upload >>

ContextFails == pc = "build_dataset_context" /\ call.broken = "context" /\ Fail

Resolve ==
    /\ pc = "resolve_capabilities"
    /\ caps' = ResolveCapabilities(ctx, call.ml)
    /\ pc' = "discover_kpis"
    /\ UNCHANGED << call, ctx, kpis, intent, plan, scheduled, frame, entries, used, response, narrator, turn, trace, status, upload >>

Discover ==
    /\ pc = "discover_kpis"
    /\ kpis' = DiscoverKPIs(ctx, call.ds)
    /\ pc' = "interpret_question"
    /\ UNCHANGED << call, ctx, caps, intent, plan, scheduled, frame, entries, used, response, narrator, turn, trace, status, upload >>

----------------------------------------------------------------------------
(* Stage 3.  The indicator the question names, else the conversation's      *)
(* last, else the plugin's own; it counts when the rule engine knows it.   *)

ResolvedName(c) == FirstOf(FirstOf(c.question.kpi, c.last.kpi), c.plugin.default)

ResolvedKPI(c) == IF ResolvedName(c) \in DOMAIN c.plugin.kpis THEN ResolvedName(c) ELSE None

Filters(c) == c.last.filters \union c.question.filters

NoIntent == [given |-> FALSE, types |-> {}, kpi |-> None, metrics |-> << >>, dimensions |-> << >>]

InterpretQuestion ==
    /\ pc = "interpret_question"
    /\ IF call.question.kpi # None /\ ResolvedKPI(call) = None
       THEN /\ intent' = NoIntent
            /\ response' = "unknown_kpi"
            /\ pc' = "record_memory"
       ELSE /\ intent' = QuestionIntent(call.question, ctx, caps, ResolvedKPI(call))
            /\ pc' = "plan_analytics"
            /\ UNCHANGED response
    /\ UNCHANGED << call, ctx, caps, kpis, plan, scheduled, frame, entries, used, narrator, turn, trace, status, upload >>

----------------------------------------------------------------------------
(* Stages 4 and 5 *)

PlanAnalytics ==
    /\ pc = "plan_analytics"
    /\ plan' = EnhancePlan(Plan(ctx, call.ds, caps, kpis, intent), ctx, intent, call.plugin)
    /\ pc' = "schedule"
    /\ UNCHANGED << call, ctx, caps, kpis, intent, scheduled, frame, entries, used, response, narrator, turn, trace, status, upload >>

ScheduleAnalyses ==
    /\ pc = "schedule"
    /\ scheduled' = Schedule(plan, intent)
    /\ pc' = "execute_analyses"
    /\ UNCHANGED << call, ctx, caps, kpis, intent, plan, frame, entries, used, response, narrator, turn, trace, status, upload >>

----------------------------------------------------------------------------
(* Stages 6 and 7: one node, one step per analysis *)

NothingPlanned ==
    /\ pc = "execute_analyses" /\ scheduled = << >>
    /\ response' = "no_plan"
    /\ pc' = "record_memory"
    /\ UNCHANGED << call, ctx, caps, kpis, intent, plan, scheduled, frame, entries, used, narrator, turn, trace, status, upload >>

ActiveFilters == IF intent.given THEN Filters(call) ELSE {}

(* The columns a filter may name: those whose type its value can be cast to. *)
Queryable(c) == {c.ds.columns[k].name : k \in DOMAIN c.ds.columns} \ c.ds.rigid

(* The one query of the call: filters keep some of the rows. *)
FetchFiltered(kept) ==
    /\ pc = "execute_analyses" /\ scheduled # << >> /\ frame = << >>
    /\ ActiveFilters \subseteq Queryable(call) /\ call.broken # "query"
    /\ ActiveFilters = {} => kept = call.ds.rows
    /\ frame' = << Frame(call.ds, kept) >>
    /\ UNCHANGED << call, pc, ctx, caps, kpis, intent, plan, scheduled, entries, used, response, narrator, turn, trace, status, upload >>

(* A filter the dataset does not admit fails the query, and so does a value *)
(* the query cannot read.                                                  *)
FetchFails ==
    /\ pc = "execute_analyses" /\ scheduled # << >> /\ frame = << >>
    /\ ~(ActiveFilters \subseteq Queryable(call)) \/ call.broken = "query"
    /\ Fail

CurrentKPI == IF intent.kpi = None THEN << >> ELSE << call.plugin.kpis[intent.kpi] >>

Preferred_(type) == IF type \in DOMAIN call.plugin.preferred THEN call.plugin.preferred[type] ELSE None

Expensive(selected) == selected.spec # << >> /\ selected.spec[1].cost = "expensive"

(* An analyzer that raises leaves no evidence, and the next one runs.       *)
RunAnalysis(raises) ==
    /\ pc = "execute_analyses" /\ frame # << >> /\ Len(entries) < Len(scheduled)
    /\ LET item     == scheduled[Len(entries) + 1]
           selected == Select(item, ctx, caps, Preferred_(item.analysis.type), used)
       IN /\ entries' = Append(entries, [type |-> item.analysis.type,
                           evidence |-> Execute(frame[1], ctx, call.ds, item.analysis, selected, CurrentKPI, raises)])
          /\ used' = used + (IF Expensive(selected) THEN 1 ELSE 0)
    /\ UNCHANGED << call, pc, ctx, caps, kpis, intent, plan, scheduled, frame, response, narrator, turn, trace, status, upload >>

(* A single analysis without evidence is answered with its last reason; a   *)
(* report is narrated whatever its analyses found.                         *)
AdaptEvidence ==
    /\ pc = "execute_analyses" /\ frame # << >> /\ Len(entries) = Len(scheduled)
    /\ IF Len(entries) = 1 /\ ~entries[1].evidence.shown
       THEN response' = "no_evidence" /\ pc' = "record_memory"
       ELSE pc' = "narrate" /\ UNCHANGED response
    /\ UNCHANGED << call, ctx, caps, kpis, intent, plan, scheduled, frame, entries, used, narrator, turn, trace, status, upload >>

----------------------------------------------------------------------------
(* Narration: Groq when there is a client and the score admits it, and the  *)
(* template when the call to it fails.                                     *)

Narrate(engine) ==
    /\ pc = "narrate"
    /\ engine \in IF call.client /\ call.llm THEN {"Groq", "Template Formatter (Groq error)"} ELSE {"Template Formatter"}
    /\ narrator' = engine
    /\ response' = "narrated"
    /\ pc' = "record_memory"
    /\ UNCHANGED << call, ctx, caps, kpis, intent, plan, scheduled, frame, entries, used, turn, trace, status, upload >>

----------------------------------------------------------------------------
(* record_memory and the trace *)

(* The graph's "intent" is set for a single analysis with evidence only.   *)
Single == Len(entries) = 1 /\ entries[1].evidence.shown

NamedKPI == IF response = "unknown_kpi" THEN call.question.kpi ELSE ResolvedKPI(call)

ToolsUsed ==
    {"RuleEngine", "SQLTool", "AnalyticsTool", "ExplanationTool"}
        \union {"RootCauseTool" : k \in {j \in DOMAIN entries : entries[j].type = "root_cause"}}
        \union {entries[k].evidence.model : k \in {j \in DOMAIN entries : entries[j].evidence.model # None}}

RecordMemory ==
    /\ pc = "record_memory"
    /\ turn' = << [intent  |-> IF Single THEN entries[1].type ELSE "report",
                   kpi     |-> NamedKPI,
                   filters |-> ActiveFilters,
                   tools   |-> ToolsUsed] >>
    /\ pc' = "trace"
    /\ UNCHANGED << call, ctx, caps, kpis, intent, plan, scheduled, frame, entries, used, response, narrator, trace, status, upload >>

GatedEngines == [forecast |-> "Prophet", anomaly_detection |-> "Isolation Forest", segmentation |-> "K-Means"]

Step(step, engine, gate) == [step |-> step, engine |-> engine, gate |-> gate]

NarrationEntry ==
    IF narrator = None THEN << >>
    ELSE << Step("narration", narrator, IF call.llm THEN "passed" ELSE "blocked") >>

(* Several analyses: each names the algorithm of its evidence, and the gate *)
(* of one that no model made is shown only when it was the gate's doing.   *)
MultiTrace ==
    << Step("intent_detection", None, None) >>
    \o [k \in DOMAIN entries |->
          LET e == entries[k].evidence IN
          CASE e.model # None                     -> Step(entries[k].type, e.model, "passed")
            [] e.model = None /\ e.fallback # None -> Step(entries[k].type, e.fallback, IF e.blocked THEN "blocked" ELSE None)
            [] ~e.shown                           -> Step(entries[k].type, "analyzer", None)]
    \o NarrationEntry

(* One analysis: the three gated intents name their trained model unless    *)
(* the evidence says they were blocked.                                    *)
SingleTrace ==
    LET e == entries[1].evidence
        type == entries[1].type
    IN << Step("intent_detection", None, None),
          IF type \notin DOMAIN GatedEngines
          THEN Step(type, IF type = "root_cause" THEN "RootCauseTool" ELSE "AnalyticsTool", None)
          ELSE IF e.blocked THEN Step(type, e.fallback, "blocked")
          ELSE Step(type, GatedEngines[type], "passed") >>
       \o NarrationEntry

EarlyTrace == << Step("intent_detection", None, None), Step("unknown", None, None) >>

(* run_analytics_graph answers and removes the temporary file. *)
BuildTrace ==
    /\ pc = "trace"
    /\ trace' = IF Len(entries) > 1 THEN MultiTrace ELSE IF Single THEN SingleTrace ELSE EarlyTrace
    /\ status' = "ok"
    /\ upload' = FALSE
    /\ pc' = "done"
    /\ UNCHANGED << call, ctx, caps, kpis, intent, plan, scheduled, frame, entries, used, response, narrator, turn >>

Done == pc = "done" /\ UNCHANGED vars

(* The rows a filter may leave; at most one analyzer of a call raises.     *)
KeptRows == {0, 8, call.ds.rows}

MayRaise == \A k \in DOMAIN entries : entries[k].evidence.shown

GraphStep ==
    \/ BuildDatasetContext \/ ContextFails \/ Resolve \/ Discover
    \/ PlanAnalytics \/ ScheduleAnalyses
    \/ NothingPlanned \/ FetchFails \/ AdaptEvidence
    \/ \E kept \in KeptRows : kept <= call.ds.rows /\ FetchFiltered(kept)
    \/ \E raises \in {FALSE, MayRaise} : RunAnalysis(raises)
    \/ \E engine \in {"Groq", "Template Formatter (Groq error)", "Template Formatter"} : Narrate(engine)
    \/ BuildTrace

Next == GraphStep \/ InterpretQuestion \/ RecordMemory \/ Done

Spec == Init /\ [][Next]_vars

----------------------------------------------------------------------------
(* Properties *)

(* What the structure of the dataset rules out is scheduled only when the  *)
(* insurance plugin put it there for a curated indicator: every rule of    *)
(* the planner asks the capabilities, the plugin does not (enhance_plan    *)
(* runs after the planner and before the scheduler).                      *)
OnlyPluginPlansImpossible ==
    \A k \in DOMAIN scheduled :
        LET a == scheduled[k].analysis
        IN a.type \in GatedTypes /\ ~caps[a.type].structural
             => /\ call.plugin.kind = "insurance" /\ intent.kpi # None
                /\ a.grounded /\ a.type \in {"forecast", "time_series_analysis"}

(* The budget trims only what the question did not ask for, from the end   *)
(* of the order: what was asked for is all there, the rest fits the cap    *)
(* and nothing left out was worth more than something kept.                *)
RequestedNotTrimmed ==
    pc \notin Nodes \ {"execute_analyses", "narrate", "record_memory"} /\ plan # << >> =>
        LET kept  == {scheduled[k].analysis : k \in DOMAIN scheduled}
            all   == {plan[k] : k \in DOMAIN plan}
            asked == {a \in all : Asked(intent, a)}
        IN /\ asked \subseteq kept /\ kept \subseteq all
           /\ Cardinality(kept \ asked) > 0 => Len(scheduled) <= MaxAnalyses
           /\ \A a \in kept \ asked, b \in all \ kept :
                  ~(b.grounded /\ ~a.grounded) /\ (b.grounded = a.grounded => a.priority <= b.priority)

(* A cheaper model could have been run instead. *)
Avoidable(k) ==
    \E j \in Candidates(TRUE, scheduled[k].analysis, ctx) : Registry[entries[k].type][j].cost # "expensive"

(* A model's evidence needs the readiness score, the dataset's structure,  *)
(* a machine-learning slot of the schedule and the model's minimum of      *)
(* rows; and of the expensive ones at most the budget had a cheaper         *)
(* alternative, over however many analyses the call runs.                 *)
ModelsOnlyWhenReady ==
    LET modelled == {k \in DOMAIN entries : entries[k].evidence.model # None} IN
    /\ Cardinality(modelled) <= MaxML
    /\ \A k \in modelled :
          /\ call.ml >= MLThreshold
          /\ Possible(caps, entries[k].type)
          /\ scheduled[k].ml
          /\ ctx.rows >= 10
    /\ Cardinality({k \in modelled : entries[k].evidence.model \in {"Prophet", "One-Class SVM", "SHAP"} /\ Avoidable(k)})
         <= MaxExpensive

(* A blocked gate is shown to the user only for a score below the threshold *)
(* or for an analysis the plugin forced on a dataset that does not admit   *)
(* it; never because the schedule had no slot left or because the model    *)
(* had too few rows.                                                       *)
BlockedHasACause ==
    \A k \in DOMAIN trace : trace[k].gate = "blocked" =>
        IF trace[k].step = "narration" THEN ~call.llm
        ELSE call.ml < MLThreshold \/ ~Possible(caps, trace[k].step)

=============================================================================
