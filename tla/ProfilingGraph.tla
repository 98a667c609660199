--------------------------- MODULE ProfilingGraph ---------------------------
(***************************************************************************)
(* Agent 2's profiling pipeline: one call of run_profiling_graph.          *)
(*                                                                         *)
(* The pipeline is a graph that runs in supersteps: the nodes scheduled    *)
(* for a superstep run concurrently, what they return is applied to the    *)
(* shared state when all of them have ended, and the edges then say which  *)
(* nodes the next superstep holds.  The data a node computes is abstracted *)
(* to the fact that the node's update has been applied; what is kept is    *)
(* what the control depends on: the outcome of the LLM calls, the quality  *)
(* gate, and where the recommended target column comes from.               *)
(***************************************************************************)
EXTENDS Naturals

CONSTANTS
  Overrides,  \* target_column of a request: "none", "column" or "other" (no such column)
  Questions,  \* business_question: "none", "names_metric" (one metric, unambiguously) or "open"
  Faults      \* TRUE when any deterministic node may raise, and a removal may fail

Nodes ==
  {"validate_and_load", "profile_data", "schema_intelligence",
   "classify_and_build_hierarchy", "evaluate_business_rules", "assess_quality",
   "generate_suggestions", "recommend_target_features", "assess_readiness",
   "generate_charts", "finalize", "finalize_lightweight"}

ASSUME KnownRequests ==
  /\ Overrides \subseteq {"none", "column", "other"}
  /\ Questions \subseteq {"none", "names_metric", "open"}
  /\ Faults \in BOOLEAN

VARIABLES
  request,   \* the two optional inputs of the run
  pc,        \* "ready", "building", "running", "cleaning", "returned" or "raised"
  todo,      \* nodes of this superstep that have not ended
  ended,     \* nodes of this superstep that have
  next,      \* nodes the edges have scheduled for the next superstep
  applied,   \* nodes whose updates are in the shared state
  si,        \* si_result: "unset", "result" or "none" (the call raised)
  attempts,  \* calls of the schema-intelligence provider
  retries,   \* schema_intelligence_retry_count
  gate,      \* quality_gate_passed
  target,    \* target_column of the feature recommendation: "unset", "null",
             \* "column", "inferred", "chosen" or "other"
  dir,       \* TRUE while the run's temporary directory exists
  verdict,   \* "none", then the status of the PipelineResult
  swallowed  \* TRUE once rmtree has met an error and ignored it

vars == <<request, pc, todo, ended, next, applied, si, attempts, retries, gate,
          target, dir, verdict, swallowed>>

Init ==
  /\ request \in [question : Questions, override : Overrides]
  /\ pc = "ready"
  /\ todo = {} /\ ended = {} /\ next = {} /\ applied = {}
  /\ si = "unset" /\ attempts = 0 /\ retries = 0
  /\ gate = FALSE
  /\ target = "unset"
  /\ dir = FALSE
  /\ verdict = "none"
  /\ swallowed = FALSE

-----------------------------------------------------------------------------
(* The edges.                                                              *)

\* schema_intelligence_router, on the state the node has just written.
SchemaIntelligenceRouter(result, count) ==
  IF result = "none" /\ count < 1
  THEN {"schema_intelligence"} ELSE {"classify_and_build_hierarchy"}

QualityGateRouter(passed) ==
  IF passed THEN {"generate_suggestions", "recommend_target_features"}
            ELSE {"finalize_lightweight"}

\* Mutant: the rules are evaluated beside the classification they depend on.
Edge_ParallelRules ==
  [n \in Nodes |->
    CASE n = "validate_and_load" -> {"profile_data"}
      [] n = "profile_data" -> {"schema_intelligence", "evaluate_business_rules"}
      [] n = "evaluate_business_rules" -> {"assess_quality"}
      [] n \in {"generate_suggestions", "recommend_target_features"} -> {"assess_readiness"}
      [] n = "assess_readiness" -> {"generate_charts"}
      [] n = "generate_charts" -> {"finalize"}
      [] OTHER -> {}]

\* The fixed edges.  The two siblings lead to the same node, which one
\* superstep schedules once.
Edge ==
  [n \in Nodes |->
    CASE n = "validate_and_load" -> {"profile_data"}
      [] n = "profile_data" -> {"schema_intelligence"}
      [] n = "classify_and_build_hierarchy" -> {"evaluate_business_rules"}
      [] n = "evaluate_business_rules" -> {"assess_quality"}
      [] n \in {"generate_suggestions", "recommend_target_features"} -> {"assess_readiness"}
      [] n = "assess_readiness" -> {"generate_charts"}
      [] n = "generate_charts" -> {"finalize"}
      [] OTHER -> {}]

\* The nodes whose updates a node reads off the shared state.  assess_readiness
\* reads the recommendation with a default, but is documented to always have it.
Reads ==
  [n \in Nodes |->
    CASE n = "validate_and_load" -> {}
      [] n = "profile_data" -> {"validate_and_load"}
      [] n = "schema_intelligence" -> {"profile_data"}
      [] n = "classify_and_build_hierarchy" -> {"validate_and_load", "profile_data"}
      [] n = "evaluate_business_rules" ->
           {"validate_and_load", "profile_data", "classify_and_build_hierarchy"}
      [] n = "assess_quality" ->
           {"profile_data", "classify_and_build_hierarchy", "evaluate_business_rules"}
      [] n = "generate_suggestions" ->
           {"validate_and_load", "profile_data", "classify_and_build_hierarchy",
            "evaluate_business_rules"}
      [] n = "recommend_target_features" -> {"validate_and_load", "profile_data"}
      [] n = "assess_readiness" ->
           {"profile_data", "assess_quality", "recommend_target_features"}
      [] n = "generate_charts" ->
           {"validate_and_load", "profile_data", "classify_and_build_hierarchy",
            "assess_quality"}
      [] OTHER -> {"profile_data"}]

-----------------------------------------------------------------------------
(* The nodes.                                                              *)

\* What every node does when it ends: leave the superstep, schedule successors.
EndNode(n, successors) ==
  /\ pc = "running"
  /\ n \in todo
  /\ todo' = todo \ {n}
  /\ ended' = ended \cup {n}
  /\ next' = next \cup successors
  /\ UNCHANGED <<request, pc, applied, verdict, swallowed>>

\* The file is validated, saved and loaded.
SaveUpload ==
  /\ pc = "running"
  /\ "validate_and_load" \in todo
  /\ ~dir
  /\ dir' = TRUE
  /\ UNCHANGED <<request, pc, todo, ended, next, applied, si, attempts, retries,
                 gate, target, verdict, swallowed>>

ValidateAndLoad ==
  /\ dir
  /\ EndNode("validate_and_load", Edge["validate_and_load"])
  /\ UNCHANGED <<si, attempts, retries, gate, target, dir>>

\* The provider answers, or raises: the node swallows the exception and counts it.
SchemaIntelligence ==
  /\ \E result \in {"result", "none"} :
       /\ si' = result
       /\ retries' = IF result = "none" THEN retries + 1 ELSE retries
       /\ attempts' = attempts + 1
       /\ EndNode("schema_intelligence", SchemaIntelligenceRouter(result, retries'))
  /\ UNCHANGED <<gate, target, dir>>

AssessQuality ==
  /\ \E passed \in BOOLEAN :
       /\ gate' = passed
       /\ EndNode("assess_quality", QualityGateRouter(passed))
  /\ UNCHANGED <<si, attempts, retries, target, dir>>

\* Mutant: the question is looked at first.
EffectiveOverride_QuestionFirst ==
  IF request.question = "names_metric" THEN "inferred" ELSE request.override

\* target_column_override, or the metric the question names.
EffectiveOverride ==
  IF request.override # "none" THEN request.override
  ELSE IF request.question = "names_metric" THEN "inferred" ELSE "none"

\* run_feature_target_agent: the validated answer of the LLM, replaced by the
\* override when that is a column of the dataset.
AgentTargets ==
  IF EffectiveOverride \in {"column", "inferred"}
  THEN {EffectiveOverride} ELSE {"null", "chosen"}

\* Without a question or an override, and when the agent raises, the
\* deterministic split is used, which names no target.
RecommendTargetFeatures ==
  /\ target' \in {"null"} \cup
       (IF request.question = "none" /\ request.override = "none" THEN {} ELSE AgentTargets)
  /\ EndNode("recommend_target_features", Edge["recommend_target_features"])
  /\ UNCHANGED <<si, attempts, retries, gate, dir>>

\* finalize_lightweight replaces the recommendation by the deterministic split.
FinalizeLightweight ==
  /\ target' = "null"
  /\ EndNode("finalize_lightweight", {})
  /\ UNCHANGED <<si, attempts, retries, gate, dir>>

\* The other nodes only compute data; generate_suggestions swallows what its
\* agent raises and stores no suggestion then.
PlainNode(n) ==
  /\ EndNode(n, Edge[n])
  /\ UNCHANGED <<si, attempts, retries, gate, target, dir>>

PlainNodes ==
  {"profile_data", "classify_and_build_hierarchy", "evaluate_business_rules",
   "generate_suggestions", "assess_readiness", "generate_charts", "finalize"}

-----------------------------------------------------------------------------
(* run_profiling_graph.                                                    *)

Begin ==
  /\ pc = "ready"
  /\ pc' = "building"
  /\ UNCHANGED <<request, todo, ended, next, applied, si, attempts, retries, gate,
                 target, dir, verdict, swallowed>>

\* build_profiling_graph is called before the try: what it raises is not caught.
BuildFails ==
  /\ Faults
  /\ pc = "building"
  /\ pc' = "raised"
  /\ UNCHANGED <<request, todo, ended, next, applied, si, attempts, retries, gate,
                 target, dir, verdict, swallowed>>

Build ==
  /\ pc = "building"
  /\ pc' = "running"
  /\ todo' = {"validate_and_load"}
  /\ UNCHANGED <<request, ended, next, applied, si, attempts, retries, gate,
                 target, dir, verdict, swallowed>>

\* The end of a superstep.
Superstep ==
  /\ pc = "running"
  /\ todo = {} /\ next # {}
  /\ applied' = applied \cup ended
  /\ todo' = next
  /\ ended' = {} /\ next' = {}
  /\ UNCHANGED <<request, pc, si, attempts, retries, gate, target, dir, verdict, swallowed>>

\* No edge is left to follow: the state becomes a PipelineResult.
Complete ==
  /\ pc = "running"
  /\ todo = {} /\ next = {}
  /\ applied' = applied \cup ended
  /\ ended' = {}
  /\ verdict' = "COMPLETED"
  /\ pc' = "cleaning"
  /\ UNCHANGED <<request, todo, next, si, attempts, retries, gate, target, dir, swallowed>>

\* A node raises: an unsupported domain, an unreadable file, anything.  The two
\* siblings catch everything their agents raise.
NodeRaises ==
  /\ Faults
  /\ pc = "running"
  /\ todo \ {"generate_suggestions", "recommend_target_features"} # {}
  /\ verdict' = "FAILED"
  /\ pc' = "cleaning"
  /\ todo' = {} /\ next' = {} /\ ended' = {}
  /\ UNCHANGED <<request, applied, si, attempts, retries, gate, target, dir, swallowed>>

\* Mutant: the clean-up is written after the return instead of in a finally.
CleanUp_Success ==
  /\ pc = "cleaning"
  /\ dir' = IF verdict = "COMPLETED" THEN FALSE ELSE dir
  /\ pc' = "returned"
  /\ UNCHANGED <<request, todo, ended, next, applied, si, attempts, retries, gate,
                 target, verdict, swallowed>>

\* finally: temp_storage.cleanup_run(run_id).  An error the removal meets is
\* ignored, and what could not be removed stays.
CleanUp ==
  /\ pc = "cleaning"
  /\ \/ dir' = FALSE /\ UNCHANGED swallowed
     \/ Faults /\ dir /\ swallowed' = TRUE /\ UNCHANGED dir
  /\ pc' = "returned"
  /\ UNCHANGED <<request, todo, ended, next, applied, si, attempts, retries, gate,
                 target, verdict>>

Finished == pc \in {"returned", "raised"} /\ UNCHANGED vars

Next ==
  \/ Begin \/ BuildFails \/ Build
  \/ SaveUpload \/ ValidateAndLoad \/ SchemaIntelligence \/ AssessQuality
  \/ RecommendTargetFeatures \/ FinalizeLightweight
  \/ \E n \in PlainNodes : PlainNode(n)
  \/ Superstep \/ Complete \/ NodeRaises \/ CleanUp
  \/ Finished

Spec == Init /\ [][Next]_vars

-----------------------------------------------------------------------------
(* Properties.                                                             *)

\* A node never runs before the nodes whose results it takes from the shared
\* state: a missing key would raise in the middle of a run.
InputsReady == \A n \in todo : Reads[n] \subseteq applied

\* A column inferred from the question, or chosen by the LLM, never takes the
\* place of one the caller named; and what is recommended is a column of the
\* dataset, whatever the caller or the LLM said.
CallerNotOverruled ==
  /\ target # "other"
  /\ request.override # "none" => target # "inferred"
  /\ request.override = "column" => target # "chosen"

\* nodes/pipeline.py: "retries once on a hard failure instead of silently
\* accepting a fully-degraded result".
FailureIsRetried == si = "none" /\ verdict = "COMPLETED" => attempts = 2

Task ==
  INSTANCE ProfilingTask WITH
    phase <- IF pc = "building" THEN "running" ELSE pc

\* The graph keeps the promise the job manager relies on: a verdict, and a
\* directory that is gone when the task returns, or an error of the removal
\* that was swallowed.
KeepsTaskPromise == Task!TaskSpec

=============================================================================
