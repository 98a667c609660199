------------------------- MODULE GraphAndReviewProofs -------------------------
(***************************************************************************)
(* Proofs about Agent 2's profiling graph, for every set of requests, and  *)
(* whether or not its nodes raise; and about the rule suggestions it makes *)
(* and their reviews, for every number of suggestions, overlapping         *)
(* reviews, runs, domains and keys.                                        *)
(***************************************************************************)
EXTENDS ProfilingGraph, RuleReview, TLAPS

-----------------------------------------------------------------------------
(* The order of the nodes.                                                 *)

Siblings == {"generate_suggestions", "recommend_target_features"}

\* The nodes that have always ended before a node is reached.
Before ==
  [n \in Nodes |->
    CASE n = "validate_and_load" -> {}
      [] n = "profile_data" -> {"validate_and_load"}
      [] n = "schema_intelligence" -> {"validate_and_load", "profile_data"}
      [] n = "classify_and_build_hierarchy" -> {"validate_and_load", "profile_data"}
      [] n = "evaluate_business_rules" ->
           {"validate_and_load", "profile_data", "classify_and_build_hierarchy"}
      [] n = "assess_quality" ->
           {"validate_and_load", "profile_data", "classify_and_build_hierarchy",
            "evaluate_business_rules"}
      [] n \in Siblings \cup {"finalize_lightweight"} ->
           {"validate_and_load", "profile_data", "classify_and_build_hierarchy",
            "evaluate_business_rules", "assess_quality"}
      [] OTHER ->
           {"validate_and_load", "profile_data", "classify_and_build_hierarchy",
            "evaluate_business_rules", "assess_quality", "recommend_target_features"}]

Current == todo \cup ended

\* What a superstep holds has its predecessors applied, what the next one will
\* hold has them applied or in this superstep, and the siblings come together.
Ordered ==
  /\ todo \subseteq Nodes /\ ended \subseteq Nodes /\ next \subseteq Nodes
  /\ \A n \in Current : Before[n] \subseteq applied
  /\ \A n \in next : Before[n] \subseteq applied \cup Current
  /\ "generate_suggestions" \in Current => "recommend_target_features" \in Current
  /\ "generate_suggestions" \in next => "recommend_target_features" \in next

\* No node is scheduled before the graph is built, and nothing is on disk until
\* the first node saves the upload; until then the graph is at that node.
Saved ==
  /\ pc \in {"ready", "building"} => todo = {} /\ ended = {} /\ next = {}
  /\ pc \in {"ready", "building", "raised"} => ~dir
  /\ pc = "running" => dir \/ todo = {"validate_and_load"}

\* The caller's choice is one of the three kinds.
Asked == request.override \in {"none", "column", "other"}

GraphInv == Ordered /\ Saved /\ Asked /\ CallerNotOverruled

LEMMA StartsOrdered == Init => GraphInv
  BY KnownRequests DEF Init, GraphInv, Ordered, Saved, Asked, CallerNotOverruled, Current

\* What a node reads has ended before it is reached.
LEMMA ReadsAreBefore == \A n \in Nodes : Reads[n] \subseteq Before[n]
<1> SUFFICES ASSUME NEW n \in Nodes PROVE Reads[n] \subseteq Before[n]
  OBVIOUS
<1> QED BY DEF Reads, Before, Nodes, Siblings

\* The successors of a node have before them what it had, and itself or, after
\* the suggestions, the recommendation.
LEMMA EdgesGoForward ==
  ASSUME NEW n \in Nodes, NEW m \in Edge[n]
  PROVE  /\ m \in Nodes \ Siblings
         /\ n # "generate_suggestions" => Before[m] \subseteq Before[n] \cup {n}
         /\ n = "generate_suggestions" => Before[m] \subseteq Before[n] \cup {"recommend_target_features"}
  BY DEF Edge, Before, Nodes, Siblings

LEMMA RoutesGoForward ==
  /\ \A result, count : \A m \in SchemaIntelligenceRouter(result, count) :
       m \in Nodes \ Siblings /\ Before[m] \subseteq Before["schema_intelligence"]
  /\ \A passed : \A m \in QualityGateRouter(passed) :
       m \in Nodes /\ Before[m] \subseteq Before["assess_quality"] \cup {"assess_quality"}
  /\ \A passed : "generate_suggestions" \in QualityGateRouter(passed)
                   => "recommend_target_features" \in QualityGateRouter(passed)
  BY DEF SchemaIntelligenceRouter, QualityGateRouter, Before, Nodes, Siblings

\* A node that ends leaves the superstep as ordered as it was.
LEMMA EndKeepsOrder ==
  ASSUME Ordered, NEW n \in Nodes, NEW successors \in SUBSET Nodes, EndNode(n, successors),
         \A m \in successors : Before[m] \subseteq applied \cup Current,
         "generate_suggestions" \in successors => "recommend_target_features" \in successors
  PROVE  Ordered'
<1>1. Current' = Current /\ applied' = applied /\ next' = next \cup successors
  BY DEF EndNode, Current
<1>2. todo' \subseteq Nodes /\ ended' \subseteq Nodes
  BY DEF EndNode, Ordered
<1> QED BY <1>1, <1>2 DEF Ordered

LEMMA EdgeKeepsOrder ==
  ASSUME Ordered, NEW n \in Nodes, EndNode(n, Edge[n])
  PROVE  Ordered'
<1>1. n \in Current /\ Before[n] \subseteq applied
  BY DEF EndNode, Ordered, Current
<1>2. ASSUME NEW m \in Edge[n] PROVE Before[m] \subseteq applied \cup Current
  <2>1. CASE n # "generate_suggestions"
    BY <1>1, <2>1, EdgesGoForward
  <2>2. CASE n = "generate_suggestions"
    BY <1>1, <2>2, EdgesGoForward DEF Ordered
  <2> QED BY <2>1, <2>2
<1> QED BY <1>2, EdgesGoForward, EndKeepsOrder DEF Siblings

\* A node that ends needs the upload on disk.
LEMMA EndKeepsSaved ==
  ASSUME Saved, NEW n \in Nodes, NEW successors, EndNode(n, successors), dir' = dir,
         n = "validate_and_load" => dir
  PROVE  Saved'
  BY DEF Saved, EndNode

LEMMA OrderKept == GraphInv /\ [Next]_vars => GraphInv'
<1> SUFFICES ASSUME GraphInv, [Next]_vars PROVE GraphInv'
  OBVIOUS
<1> USE DEF GraphInv
<1>1. CASE UNCHANGED vars
  BY <1>1 DEF vars, Ordered, Saved, Asked, CallerNotOverruled, Current
<1>2. CASE Begin \/ BuildFails \/ Build \/ NodeRaises \/ CleanUp \/ SaveUpload
  <2>1. Ordered'
    <3>1. CASE Build
      BY <3>1 DEF Build, Saved, Ordered, Current, Before, Nodes, Siblings
    <3>2. CASE NodeRaises
      BY <3>2 DEF NodeRaises, Ordered, Current
    <3>3. CASE Begin \/ BuildFails \/ CleanUp \/ SaveUpload
      BY <3>3 DEF Begin, BuildFails, CleanUp, SaveUpload, Ordered, Current
    <3> QED BY <1>2, <3>1, <3>2, <3>3
  <2>2. Saved'
    BY <1>2 DEF Begin, BuildFails, Build, NodeRaises, CleanUp, SaveUpload, Saved
  <2> QED BY <1>2, <2>1, <2>2 DEF Begin, BuildFails, Build, NodeRaises, CleanUp, SaveUpload, Asked, CallerNotOverruled
<1>3. CASE Superstep \/ Complete
  <2>1. Ordered'
    BY <1>3 DEF Superstep, Complete, Ordered, Current
  <2>2. Saved'
    BY <1>3 DEF Superstep, Complete, Saved
  <2> QED BY <1>3, <2>1, <2>2 DEF Superstep, Complete, Asked, CallerNotOverruled
<1>4. ASSUME NEW n \in Nodes, EndNode(n, Edge[n]), UNCHANGED <<target, dir>>, n = "validate_and_load" => dir
      PROVE  GraphInv'
  BY <1>4, EdgeKeepsOrder, EndKeepsSaved DEF EndNode, Asked, CallerNotOverruled
<1>5. CASE ValidateAndLoad \/ \E n \in PlainNodes : PlainNode(n)
  BY <1>4, <1>5 DEF ValidateAndLoad, PlainNode, PlainNodes, Nodes
<1>6. CASE SchemaIntelligence
  <2> PICK result \in {"result", "none"} :
        EndNode("schema_intelligence", SchemaIntelligenceRouter(result, retries'))
    BY <1>6 DEF SchemaIntelligence
  <2>1. "schema_intelligence" \in Current /\ Before["schema_intelligence"] \subseteq applied
    BY DEF EndNode, Ordered, Current
  <2>2. Ordered'
    BY <2>1, RoutesGoForward, EndKeepsOrder DEF Siblings, Nodes
  <2>3. Saved'
    BY <1>6, EndKeepsSaved DEF SchemaIntelligence, Nodes
  <2> QED BY <1>6, <2>2, <2>3 DEF SchemaIntelligence, EndNode, Asked, CallerNotOverruled
<1>7. CASE AssessQuality
  <2> PICK passed \in BOOLEAN : EndNode("assess_quality", QualityGateRouter(passed))
    BY <1>7 DEF AssessQuality
  <2>1. "assess_quality" \in Current /\ Before["assess_quality"] \subseteq applied
    BY DEF EndNode, Ordered, Current
  <2>2. Ordered'
    BY <2>1, RoutesGoForward, EndKeepsOrder DEF Nodes
  <2>3. Saved'
    BY <1>7, EndKeepsSaved DEF AssessQuality, Nodes
  <2> QED BY <1>7, <2>2, <2>3 DEF AssessQuality, EndNode, Asked, CallerNotOverruled
<1>8. CASE RecommendTargetFeatures
  <2>1. EndNode("recommend_target_features", Edge["recommend_target_features"]) /\ dir' = dir
    BY <1>8 DEF RecommendTargetFeatures
  <2>2. Ordered' /\ Saved'
    BY <2>1, EdgeKeepsOrder, EndKeepsSaved DEF Nodes
  <2>3. request' = request
    BY <2>1 DEF EndNode
  <2>4. CallerNotOverruled'
    <3>1. EffectiveOverride = request.override \/ request.override = "none"
      BY DEF EffectiveOverride
    <3>2. EffectiveOverride \in {"none", "column", "inferred", "other"}
      BY DEF EffectiveOverride, Asked
    <3>3. target' \in {"null"} \cup AgentTargets
      BY <1>8 DEF RecommendTargetFeatures
    <3>4. target' \in {"null", "chosen"} \/ target' = EffectiveOverride
      BY <3>3 DEF AgentTargets
    <3>5. target' # "other"
      BY <3>3 DEF AgentTargets
    <3>6. request.override # "none" => target' # "inferred"
      BY <3>1, <3>4 DEF Asked
    <3>7. request.override = "column" => target' # "chosen"
      BY <3>1, <3>3 DEF AgentTargets
    <3> QED BY <2>3, <3>5, <3>6, <3>7 DEF CallerNotOverruled
  <2> QED BY <2>2, <2>3, <2>4 DEF Asked
<1>9. CASE FinalizeLightweight
  <2>1. Ordered'
    BY <1>9, EndKeepsOrder DEF FinalizeLightweight, Nodes
  <2>2. Saved'
    BY <1>9, EndKeepsSaved DEF FinalizeLightweight, Nodes
  <2> QED BY <1>9, <2>1, <2>2 DEF FinalizeLightweight, EndNode, Asked, CallerNotOverruled
<1>10. CASE Finished
  BY <1>1, <1>10 DEF Finished
<1> QED BY <1>1, <1>2, <1>3, <1>5, <1>6, <1>7, <1>8, <1>9, <1>10 DEF Next

\* graph.py: no node runs before the nodes whose updates it reads, through both
\* routers, the joined siblings and any failure.
THEOREM InputsAreReady == Spec => []InputsReady
<1>1. GraphInv => InputsReady
  BY ReadsAreBefore DEF GraphInv, Ordered, Current, InputsReady
<1> QED BY <1>1, StartsOrdered, OrderKept, PTL DEF Spec

\* nodes/pipeline.py, recommend_target_features_node: nothing takes the place
\* of the caller's column, and what is recommended is a column.
THEOREM CallerIsNotOverruled == Spec => []CallerNotOverruled
<1>1. GraphInv => CallerNotOverruled
  BY DEF GraphInv
<1> QED BY <1>1, StartsOrdered, OrderKept, PTL DEF Spec

-----------------------------------------------------------------------------
(* The refinement of ProfilingTask.                                        *)

TaskStep == [Task!TaskNext]_(Task!taskVars)

LEMMA StepsAreTaskSteps ==
  ASSUME GraphInv, [Next]_vars
  PROVE  TaskStep
<1>1. ASSUME UNCHANGED <<pc, dir, verdict, swallowed>> PROVE TaskStep
  BY <1>1 DEF TaskStep, Task!taskVars
<1>2. CASE UNCHANGED vars \/ Superstep \/ Finished
  BY <1>1, <1>2 DEF vars, Superstep, Finished
<1>3. ASSUME NEW n, NEW successors, EndNode(n, successors), dir' = dir PROVE TaskStep
  BY <1>1, <1>3 DEF EndNode
<1>4. CASE \/ ValidateAndLoad \/ SchemaIntelligence \/ AssessQuality
           \/ RecommendTargetFeatures \/ FinalizeLightweight
           \/ \E n \in PlainNodes : PlainNode(n)
  BY <1>3, <1>4 DEF ValidateAndLoad, SchemaIntelligence, AssessQuality, RecommendTargetFeatures,
     FinalizeLightweight, PlainNode
<1>5. CASE Begin
  BY <1>5 DEF Begin, TaskStep, Task!TaskNext, Task!Begin
<1>6. CASE BuildFails
  BY <1>6 DEF BuildFails, GraphInv, Saved, TaskStep, Task!TaskNext, Task!Raise
<1>7. CASE Build
  BY <1>7 DEF Build, TaskStep, Task!taskVars
<1>8. CASE SaveUpload
  BY <1>8 DEF SaveUpload, TaskStep, Task!TaskNext, Task!SaveUpload
<1>9. CASE Complete
  BY <1>9 DEF Complete, GraphInv, Saved, TaskStep, Task!TaskNext, Task!Conclude
<1>10. CASE NodeRaises
  BY <1>10 DEF NodeRaises, TaskStep, Task!TaskNext, Task!Conclude
<1>11. CASE CleanUp
  BY <1>11 DEF CleanUp, TaskStep, Task!TaskNext, Task!Return
<1> QED BY <1>2, <1>4, <1>5, <1>6, <1>7, <1>8, <1>9, <1>10, <1>11 DEF Next

\* graph.py, run_profiling_graph: the graph is a task the job manager can rely
\* on: it ends with a verdict, completes only on a saved upload, and returns
\* with its directory removed, or with an error of the removal swallowed.
THEOREM GraphKeepsPromise == Spec => KeepsTaskPromise
<1>1. Init => Task!TaskInit
  BY DEF Init, Task!TaskInit
<1>2. GraphInv /\ [Next]_vars => TaskStep
  BY StepsAreTaskSteps
<1>3. Spec => [][TaskStep]_vars
  BY <1>2, StartsOrdered, OrderKept, PTL DEF Spec
<1>4. [TaskStep]_vars => TaskStep
  BY DEF TaskStep, Task!taskVars, vars
<1> QED BY <1>1, <1>3, <1>4, PTL DEF KeepsTaskPromise, Task!TaskSpec, TaskStep, Spec

-----------------------------------------------------------------------------
(* Suggestions and reviews.                                                *)

SuggestionRecord == [status : {"absent", "proposed", "approved", "rejected"},
                     domain : Domains \cup {None}, key : Keys \cup {None}, loadable : BOOLEAN]

ReviewRecord == [pc : {"idle", "deciding", "committed", "done"}, of : Suggestions \cup {None},
                 verb : {"none", "approve", "reject"}, met : SUBSET Reviews,
                 decided : BOOLEAN, answer : {"none", "ok", "conflict", "error"}]

RunRecord == [pc : {"idle", "profiling", "stored", "dropped"}, domain : Domains \cup {None},
              active : SUBSET Reviews, byKey : [Keys -> Reviews \cup {None}]]

Typed ==
  /\ suggestion \in [Suggestions -> SuggestionRecord]
  /\ definitions \subseteq Reviews
  /\ review \in [Reviews -> ReviewRecord]
  /\ run \in [Runs -> RunRecord]
  /\ evaluations \subseteq [run : Runs, of : Reviews, cites : Reviews \cup {None}]

\* A review is of a suggestion that is there, and one that has committed has
\* decided it; the rules are the approvals that have committed.
ReviewTold(v) ==
  /\ review[v].pc # "done" => review[v].answer = "none"
  /\ review[v].pc # "idle" => /\ review[v].of \in Suggestions
                              /\ suggestion[review[v].of].status # "absent"
  /\ review[v].pc \in {"idle", "deciding"} => ~review[v].decided
  /\ review[v].pc = "committed" => review[v].decided
  /\ review[v].decided => /\ suggestion[review[v].of].status # "proposed"
                          /\ review[v].answer # "conflict"
  /\ review[v].answer = "ok" => review[v].decided
  /\ v \in definitions <=> (review[v].verb = "approve" /\ review[v].decided)

\* An approved suggestion has its rule.
SuggestionTold(s) ==
  suggestion[s].status = "approved" => \E d \in definitions : review[d].of = s

\* A run cites, if anything, what it has loaded.
RunTold(r) ==
  /\ run[r].active \subseteq definitions
  /\ \A k \in Keys : run[r].byKey[k] \in run[r].active \cup {None}

\* Evaluations are of runs that are over: what they had loaded does not change.
EvaluationTold(e) ==
  /\ run[e.run].pc = "stored"
  /\ e.cites \in run[e.run].active \cup {None}

\* Reviews that may yet decide, or have decided, one suggestion have met.
Live(v) == review[v].pc = "deciding" \/ review[v].decided

Met(v, w) ==
  v # w /\ review[v].of = review[w].of /\ Live(v) /\ Live(w)
    => v \in review[w].met \/ w \in review[v].met

ReviewInv ==
  /\ Typed
  /\ \A v \in Reviews : ReviewTold(v)
  /\ \A s \in Suggestions : SuggestionTold(s)
  /\ \A r \in Runs : RunTold(r)
  /\ \A e \in evaluations : EvaluationTold(e)
  /\ \A v, w \in Reviews : Met(v, w)

LEMMA StartsSound == ReviewInit => ReviewInv
<1> SUFFICES ASSUME ReviewInit PROVE ReviewInv
  OBVIOUS
<1>1. Typed
  BY DEF ReviewInit, Typed, SuggestionRecord, ReviewRecord, RunRecord
<1>2. \A v \in Reviews : ReviewTold(v)
  BY DEF ReviewInit, ReviewTold
<1>3. \A r \in Runs : RunTold(r)
  BY DEF ReviewInit, RunTold
<1>4. \A v, w \in Reviews : Met(v, w)
  BY DEF ReviewInit, Met, Live
<1> QED BY <1>1, <1>2, <1>3, <1>4 DEF ReviewInv, ReviewInit, SuggestionTold, EvaluationTold

\* The rules a run loads are rules, and the map it looks ids up in holds only those.
LEMMA StartKeeps ==
  ASSUME ReviewInv, NEW r \in Runs, StartRun(r)
  PROVE  ReviewInv'
<1> PICK domain \in Domains, byKey \in [Keys -> Reviews \cup {None}] :
      /\ ById(ActiveDefinitions(domain), byKey)
      /\ run' = [run EXCEPT ![r] = [pc |-> "profiling", domain |-> domain,
                                    active |-> ActiveDefinitions(domain), byKey |-> byKey]]
  BY DEF StartRun
<1> DEFINE loaded == [pc |-> "profiling", domain |-> domain,
                      active |-> ActiveDefinitions(domain), byKey |-> byKey]
<1>1. ActiveDefinitions(domain) \subseteq definitions
  BY DEF ActiveDefinitions
<1>2. loaded \in RunRecord
  BY <1>1 DEF ReviewInv, Typed, RunRecord
<1>3. \A k \in Keys : byKey[k] \in ActiveDefinitions(domain) \cup {None}
  BY DEF ById
<1>4. /\ run[r].pc = "idle" /\ run'[r] = loaded
      /\ \A x \in Runs \ {r} : run'[x] = run[x]
      /\ UNCHANGED <<suggestion, definitions, review, evaluations>>
  BY DEF StartRun, ReviewInv, Typed
<1>5. loaded.active = ActiveDefinitions(domain) /\ loaded.byKey = byKey
  OBVIOUS
<1> HIDE DEF loaded
<1>6. Typed'
  BY <1>2, <1>4 DEF ReviewInv, Typed
<1>7. ASSUME NEW x \in Runs PROVE RunTold(x)'
  BY <1>1, <1>3, <1>4, <1>5 DEF ReviewInv, RunTold
<1>8. ASSUME NEW e \in evaluations PROVE EvaluationTold(e)'
  BY <1>4 DEF ReviewInv, EvaluationTold, Typed
<1> QED BY <1>4, <1>6, <1>7, <1>8 DEF ReviewInv, ReviewTold, SuggestionTold, Met, Live

\* What a run stores: suggestions that were not there, and citations of rules
\* it had loaded.
LEMMA FinishKeeps ==
  ASSUME ReviewInv, NEW r \in Runs, FinishRun(r)
  PROVE  ReviewInv'
<1>0. /\ run[r] \in RunRecord /\ run[r].pc = "profiling" /\ RunTold(r)
      /\ UNCHANGED <<definitions, review>>
  BY DEF FinishRun, ReviewInv, Typed
<1> DEFINE over == [run[r] EXCEPT !.pc = "stored"]
           stored == {[run |-> r, of |-> d, cites |-> Cites(r, d)] :
                        d \in {e \in run[r].active : Origin(e).loadable}}
<1>1. /\ over \in RunRecord /\ over.pc = "stored" /\ over.active = run[r].active
      /\ over.byKey = run[r].byKey
  BY <1>0 DEF RunRecord
<1>2. /\ run' = [run EXCEPT ![r] = over]
      /\ evaluations' = evaluations \cup stored
  BY DEF FinishRun
<1> HIDE DEF over
<1>3. run'[r] = over /\ \A x \in Runs \ {r} : run'[x] = run[x]
  BY <1>2 DEF ReviewInv, Typed
<1>4. ASSUME NEW d \in run[r].active PROVE Cites(r, d) \in run[r].active \cup {None}
  <2>1. d \in Reviews /\ review[d].of \in Suggestions
    BY <1>0 DEF ReviewInv, Typed, RunTold, ReviewTold, ReviewRecord
  <2>2. Origin(d).key \in Keys \cup {None}
    BY <2>1 DEF Origin, ReviewInv, Typed, SuggestionRecord
  <2> QED BY <1>0, <2>2 DEF Cites, RunTold
<1>5. /\ suggestion' \in [Suggestions -> SuggestionRecord]
      /\ \A s \in Suggestions : suggestion[s].status # "absent" => suggestion'[s] = suggestion[s]
      /\ \A s \in Suggestions : suggestion'[s].status = "approved" => suggestion[s].status = "approved"
  <2> PICK new \in SUBSET Fresh :
        \E key \in [new -> Keys \cup {None}], loadable \in [new -> BOOLEAN] :
          suggestion' = [s \in Suggestions |->
            IF s \in new
            THEN [status |-> "proposed", domain |-> run[r].domain,
                  key |-> key[s], loadable |-> loadable[s]]
            ELSE suggestion[s]]
    BY DEF FinishRun
  <2> PICK key \in [new -> Keys \cup {None}], loadable \in [new -> BOOLEAN] :
        suggestion' = [s \in Suggestions |->
          IF s \in new
          THEN [status |-> "proposed", domain |-> run[r].domain,
                key |-> key[s], loadable |-> loadable[s]]
          ELSE suggestion[s]]
    OBVIOUS
  <2>1. run[r].domain \in Domains \cup {None}
    BY <1>0 DEF RunRecord
  <2>2. \A s \in new : [status |-> "proposed", domain |-> run[r].domain,
                        key |-> key[s], loadable |-> loadable[s]] \in SuggestionRecord
    BY <2>1 DEF SuggestionRecord
  <2>3. \A s \in new : suggestion[s].status = "absent"
    BY DEF Fresh
  <2> QED BY <2>2, <2>3 DEF ReviewInv, Typed
<1>6. stored \subseteq [run : Runs, of : Reviews, cites : Reviews \cup {None}]
  BY <1>0, <1>4 DEF RunRecord
<1>7. ASSUME NEW e \in evaluations' PROVE EvaluationTold(e)'
  <2>1. CASE e \in evaluations
    BY <2>1, <1>0, <1>3 DEF ReviewInv, EvaluationTold, Typed
  <2>2. CASE e \in stored
    BY <2>2, <1>1, <1>3, <1>4 DEF EvaluationTold
  <2> QED BY <1>2, <2>1, <2>2
<1>8. Typed'
  BY <1>0, <1>1, <1>2, <1>5, <1>6 DEF ReviewInv, Typed
<1>9. ASSUME NEW v \in Reviews PROVE ReviewTold(v)'
  BY <1>0, <1>5 DEF ReviewInv, ReviewTold
<1>10. ASSUME NEW x \in Runs PROVE RunTold(x)'
  BY <1>0, <1>1, <1>3 DEF ReviewInv, RunTold
<1>11. ASSUME NEW s \in Suggestions PROVE SuggestionTold(s)'
  BY <1>0, <1>5 DEF ReviewInv, SuggestionTold
<1> QED BY <1>0, <1>7, <1>8, <1>9, <1>10, <1>11 DEF ReviewInv, Met, Live

LEMMA DropKeeps ==
  ASSUME ReviewInv, NEW r \in Runs, DropRun(r)
  PROVE  ReviewInv'
<1> DEFINE over == [run[r] EXCEPT !.pc = "dropped"]
<1>1. run[r] \in RunRecord /\ run[r].pc = "profiling"
  BY DEF ReviewInv, Typed, DropRun
<1>2. over \in RunRecord /\ over.active = run[r].active /\ over.byKey = run[r].byKey
  BY <1>1 DEF RunRecord
<1>3. run' = [run EXCEPT ![r] = over] /\ UNCHANGED <<suggestion, definitions, review, evaluations>>
  BY DEF DropRun
<1> HIDE DEF over
<1>4. run'[r] = over /\ \A x \in Runs \ {r} : run'[x] = run[x]
  BY <1>3 DEF ReviewInv, Typed
<1>5. Typed'
  BY <1>2, <1>3 DEF ReviewInv, Typed
<1>6. ASSUME NEW x \in Runs PROVE RunTold(x)'
  BY <1>2, <1>3, <1>4 DEF ReviewInv, RunTold
<1>7. ASSUME NEW e \in evaluations PROVE EvaluationTold(e)'
  BY <1>1, <1>4 DEF ReviewInv, EvaluationTold, Typed
<1> QED BY <1>3, <1>5, <1>6, <1>7 DEF ReviewInv, ReviewTold, SuggestionTold, Met, Live

\* A review that goes on to decide finds its suggestion proposed: nobody has
\* decided it, so all who may are deciding, and it has met them.
LEMMA OpenKeeps ==
  ASSUME ReviewInv, NEW v \in Reviews, OpenReview(v)
  PROVE  ReviewInv'
<1> PICK s \in Suggestions \ Fresh, verb \in {"approve", "reject"} :
      review' = [review EXCEPT ![v] =
        [pc |-> IF suggestion[s].status # "proposed" THEN "done" ELSE "deciding", of |-> s, verb |-> verb,
         met |-> {w \in Reviews : review[w].pc = "deciding" /\ review[w].of = s},
         decided |-> FALSE, answer |-> IF suggestion[s].status # "proposed" THEN "conflict" ELSE "none"]]
  BY DEF OpenReview, InvalidTransition
<1> DEFINE company == {w \in Reviews : review[w].pc = "deciding" /\ review[w].of = s}
           opened == [pc |-> IF suggestion[s].status # "proposed" THEN "done" ELSE "deciding",
                      of |-> s, verb |-> verb, met |-> company, decided |-> FALSE,
                      answer |-> IF suggestion[s].status # "proposed" THEN "conflict" ELSE "none"]
<1>1. /\ review[v].pc = "idle" /\ ~review[v].decided
      /\ UNCHANGED <<suggestion, definitions, run, evaluations>>
  BY DEF OpenReview, ReviewInv, ReviewTold
<1>2. opened \in ReviewRecord
  BY DEF ReviewRecord
<1>3. /\ opened.of = s /\ opened.met = company /\ opened.answer \in {"conflict", "none"}
      /\ opened.pc \notin {"idle", "committed"} /\ ~opened.decided
      /\ opened.pc = "deciding" => opened.answer = "none" /\ suggestion[s].status = "proposed"
  OBVIOUS
<1>4. /\ review' = [review EXCEPT ![v] = opened] /\ review'[v] = opened
      /\ \A x \in Reviews \ {v} : review'[x] = review[x]
  BY DEF ReviewInv, Typed
<1>5. suggestion[s].status # "absent"
  BY DEF Fresh
<1> HIDE DEF opened
<1>6. Typed'
  BY <1>1, <1>2, <1>4 DEF ReviewInv, Typed
<1>7. v \notin definitions
  BY <1>1 DEF ReviewInv, ReviewTold
<1>8. ASSUME NEW x \in Reviews PROVE ReviewTold(x)'
  <2>1. CASE x = v
    BY <2>1, <1>1, <1>3, <1>4, <1>5, <1>7 DEF ReviewTold
  <2>2. CASE x # v
    BY <2>2, <1>1, <1>4 DEF ReviewInv, ReviewTold
  <2> QED BY <2>1, <2>2
<1>9. ASSUME NEW x \in Suggestions PROVE SuggestionTold(x)'
  <2>1. ASSUME NEW d \in definitions PROVE review'[d] = review[d]
    BY <1>4, <1>7 DEF ReviewInv, Typed
  <2> QED BY <1>1, <2>1 DEF ReviewInv, SuggestionTold
<1>10. ASSUME NEW w \in Reviews, w # v, review'[w].of = review'[v].of, Live(v)', Live(w)'
       PROVE  w \in review'[v].met
  <2>1. review[w].of = s /\ Live(w) /\ suggestion[s].status = "proposed"
    BY <1>3, <1>4, <1>10 DEF Live
  <2>2. ~review[w].decided
    BY <2>1 DEF ReviewInv, ReviewTold
  <2> QED BY <2>1, <2>2, <1>3, <1>4 DEF Live
<1>11. ASSUME NEW x \in Reviews, NEW w \in Reviews PROVE Met(x, w)'
  <2>1. CASE x = v
    BY <2>1, <1>10 DEF Met
  <2>2. CASE w = v
    BY <2>2, <1>10 DEF Met
  <2>3. CASE x # v /\ w # v
    BY <2>3, <1>4 DEF ReviewInv, Met, Live
  <2> QED BY <2>1, <2>2, <2>3
<1> QED BY <1>1, <1>6, <1>8, <1>9, <1>11 DEF ReviewInv, RunTold, EvaluationTold

\* What a review makes of its own state when it is about to decide or to answer:
\* it stays of its suggestion, and of those it has met, and decides nothing else.
LEMMA ReviewGoesOn ==
  ASSUME ReviewInv, NEW v \in Reviews, NEW now \in ReviewRecord,
         review[v].pc \in {"deciding", "committed"}, now.pc # "idle",
         now.of = review[v].of, now.met = review[v].met, now.verb = review[v].verb,
         review' = [review EXCEPT ![v] = now],
         now.pc = "deciding" \/ now.decided => Live(v),
         ReviewTold(v)',
         suggestion' \in [Suggestions -> SuggestionRecord],
         \A x \in Suggestions \ {review[v].of} : suggestion'[x] = suggestion[x],
         \/ suggestion' = suggestion
         \/ suggestion'[review[v].of].status \in {"approved", "rejected"},
         \/ suggestion'[review[v].of].status = suggestion[review[v].of].status
         \/ suggestion'[review[v].of].status = "approved" => v \in definitions',
         definitions' \in {definitions, definitions \cup {v}},
         UNCHANGED <<run, evaluations>>
  PROVE  ReviewInv'
<1> DEFINE s == review[v].of
<1>1. review'[v] = now /\ \A x \in Reviews \ {v} : review'[x] = review[x]
  BY DEF ReviewInv, Typed
<1>2. s \in Suggestions /\ suggestion[s].status # "absent"
  BY DEF ReviewInv, ReviewTold
<1>3. Typed'
  BY DEF ReviewInv, Typed
<1>4. ASSUME NEW x \in Reviews PROVE ReviewTold(x)'
  <2>1. CASE x = v
    BY <2>1
  <2>2. CASE x # v
    <3>1. ReviewTold(x) /\ review'[x] = review[x] /\ (x \in definitions' <=> x \in definitions)
      BY <2>2, <1>1 DEF ReviewInv
    <3>2. review[x].pc # "idle" => suggestion'[review[x].of].status # "absent"
      BY <3>1, <1>2 DEF ReviewTold
    <3>3. review[x].decided => review[x].of \in Suggestions
      BY <3>1 DEF ReviewTold
    <3>4. review[x].decided => suggestion'[review[x].of].status # "proposed"
      BY <3>1, <3>3, <1>2 DEF ReviewTold
    <3> QED BY <3>1, <3>2, <3>4 DEF ReviewTold
  <2> QED BY <2>1, <2>2
<1>5. ASSUME NEW x \in Suggestions PROVE SuggestionTold(x)'
  <2>1. \A d \in definitions : d \in definitions' /\ review'[d].of = review[d].of
    BY <1>1 DEF ReviewInv, Typed
  <2>2. CASE suggestion'[x].status = suggestion[x].status
    BY <2>1, <2>2 DEF ReviewInv, SuggestionTold
  <2>3. CASE suggestion'[x].status # suggestion[x].status
    <3>1. x = s /\ (suggestion'[x].status = "approved" => v \in definitions')
      BY <2>3
    <3> QED BY <3>1, <1>1 DEF SuggestionTold
  <2> QED BY <2>2, <2>3
<1>6. ASSUME NEW x \in Reviews
      PROVE  /\ review'[x].of = review[x].of /\ review'[x].met = review[x].met
             /\ Live(x)' => Live(x)
  BY <1>1 DEF Live
<1>7. ASSUME NEW x \in Reviews, NEW w \in Reviews PROVE Met(x, w)'
  BY <1>6 DEF ReviewInv, Met
<1>8. ASSUME NEW r \in Runs PROVE RunTold(r)'
  BY DEF ReviewInv, RunTold
<1> QED BY <1>3, <1>4, <1>5, <1>7, <1>8 DEF ReviewInv, EvaluationTold

\* A decision: the suggestion has it, and an approval its rule.
LEMMA CommitKeeps ==
  ASSUME ReviewInv, NEW v \in Reviews, review[v].pc = "deciding",
         NEW status \in {"approved", "rejected"}, Commit(v, status),
         review[v].verb = (IF status = "approved" THEN "approve" ELSE "reject"),
         definitions' = IF status = "approved" THEN definitions \cup {v} ELSE definitions
  PROVE  ReviewInv'
<1> DEFINE s == review[v].of
           now == [review[v] EXCEPT !.pc = "committed", !.decided = TRUE]
           decision == [suggestion[s] EXCEPT !.status = status]
<1>0. /\ review[v] \in ReviewRecord /\ s \in Suggestions /\ ReviewTold(v)
      /\ suggestion[s] \in SuggestionRecord
  BY DEF ReviewInv, Typed, ReviewTold
<1>1. /\ now \in ReviewRecord /\ now.pc = "committed" /\ now.decided
      /\ now.of = s /\ now.met = review[v].met /\ now.verb = review[v].verb
      /\ now.answer = review[v].answer
  BY <1>0 DEF ReviewRecord
<1>2. decision \in SuggestionRecord /\ decision.status = status
  BY <1>0 DEF SuggestionRecord
<1>3. /\ review' = [review EXCEPT ![v] = now]
      /\ suggestion' = [suggestion EXCEPT ![s] = decision]
      /\ UNCHANGED <<run, evaluations>>
  BY DEF Commit
<1> HIDE DEF now, decision
<1>4. /\ review'[v] = now /\ suggestion'[s] = decision
      /\ suggestion' \in [Suggestions -> SuggestionRecord]
      /\ \A x \in Suggestions \ {s} : suggestion'[x] = suggestion[x]
  BY <1>0, <1>2, <1>3 DEF ReviewInv, Typed
<1>5. v \notin definitions /\ review[v].answer \notin {"ok", "conflict"}
  BY <1>0 DEF ReviewInv, ReviewTold
<1>6. ReviewTold(v)'
  BY <1>0, <1>1, <1>2, <1>4, <1>5 DEF ReviewTold
<1> QED BY <1>0, <1>1, <1>2, <1>3, <1>4, <1>6, ReviewGoesOn DEF Live

\* An end that changes no table: a rolled back review has decided nothing, and
\* a committed one what it had, whatever it answers.
LEMMA EndKeeps ==
  ASSUME ReviewInv, NEW v \in Reviews, NEW answer \in {"ok", "error"},
         \/ review[v].pc = "deciding" /\ answer = "error"
         \/ review[v].pc = "committed",
         EndReview(v, answer), UNCHANGED <<suggestion, definitions, run, evaluations>>
  PROVE  ReviewInv'
<1> DEFINE now == [review[v] EXCEPT !.pc = "done", !.answer = answer]
<1>0. review[v] \in ReviewRecord /\ ReviewTold(v)
  BY DEF ReviewInv, Typed
<1>1. /\ now \in ReviewRecord /\ now.pc = "done" /\ now.decided = review[v].decided
      /\ now.of = review[v].of /\ now.met = review[v].met /\ now.verb = review[v].verb
      /\ now.answer = answer
  BY <1>0 DEF ReviewRecord
<1>2. review' = [review EXCEPT ![v] = now]
  BY DEF EndReview
<1> HIDE DEF now
<1>3. review'[v] = now /\ suggestion' \in [Suggestions -> SuggestionRecord]
  BY <1>2 DEF ReviewInv, Typed
<1>4. ReviewTold(v)'
  BY <1>0, <1>1, <1>3 DEF ReviewTold
<1> QED BY <1>0, <1>1, <1>2, <1>3, <1>4, ReviewGoesOn DEF Live

LEMMA SoundKept == ReviewInv /\ [ReviewNext]_reviewVars => ReviewInv'
<1> SUFFICES ASSUME ReviewInv, [ReviewNext]_reviewVars PROVE ReviewInv'
  OBVIOUS
<1>1. CASE UNCHANGED reviewVars
  BY <1>1 DEF reviewVars, ReviewInv, Typed, ReviewTold, SuggestionTold, RunTold, EvaluationTold, Met, Live
<1>2. ASSUME NEW v \in Reviews, Approve(v) \/ Reject(v) PROVE ReviewInv'
  BY <1>2, CommitKeeps DEF Approve, Reject, Deciding
<1>3. ASSUME NEW v \in Reviews, ReviewFails(v) \/ AnswerReview(v) PROVE ReviewInv'
  BY <1>3, EndKeeps DEF ReviewFails, AnswerReview
<1> QED BY <1>1, <1>2, <1>3, StartKeeps, FinishKeeps, DropKeeps, OpenKeeps DEF ReviewNext

\* Every reachable state has the types of the tables and of the calls.
THEOREM TypeCorrect == ReviewSpec => []Typed
<1>1. ReviewInv => Typed
  BY DEF ReviewInv
<1> QED BY <1>1, StartsSound, SoundKept, PTL DEF ReviewSpec

\* rule_suggestions.py, approve_suggestion: a suggestion shown as approved has its
\* rule, every rule is that of an approval whose suggestion is not offered again,
\* and answers of "ok" and of a conflict are true, however reviews overlap and
\* whether they fail before or after their commit.
THEOREM ApprovalsMaterialize == ReviewSpec => []ApprovedIsMaterialized
<1>1. ReviewInv => ApprovedIsMaterialized
  BY DEF ReviewInv, Typed, ReviewTold, SuggestionTold, ApprovedIsMaterialized, Origin
<1> QED BY <1>1, StartsSound, SoundKept, PTL DEF ReviewSpec

\* rule_repository.py, rule_definition_ids_by_key: an evaluation cites a rule
\* its run had loaded, whatever has been approved since.
THEOREM CitationsAreLoaded == ReviewSpec => []CitesLoadedRule
<1>1. ReviewInv => CitesLoadedRule
  BY DEF ReviewInv, EvaluationTold, CitesLoadedRule
<1> QED BY <1>1, StartsSound, SoundKept, PTL DEF ReviewSpec

\* rule_suggestions.py: two reviews decide one suggestion only if one of them
\* was under way when the other read it.
THEOREM TwiceOnlyByOverlap == ReviewSpec => []OnlyOverlapDecidesTwice
<1>1. ReviewInv => OnlyOverlapDecidesTwice
  BY DEF ReviewInv, Met, Live, OnlyOverlapDecidesTwice
<1> QED BY <1>1, StartsSound, SoundKept, PTL DEF ReviewSpec

===============================================================================
