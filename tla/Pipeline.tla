------------------------------ MODULE Pipeline ------------------------------
(***************************************************************************)
(* The Orchestrator: POST /pipeline/run as the graph of nodes it is, many  *)
(* requests at a time, around what they share: the Dataset Registry's      *)
(* cache of results, the results Agent 2 stores, and the administrator who *)
(* may delete a Master Dataset meanwhile; and POST /pipeline/ask, which    *)
(* goes back to a stored result.                                           *)
(*                                                                         *)
(* Agents 1, 2 and 3 are seen through their answers.  A body is named by   *)
(* the request that had it made, which is what the properties compare; the *)
(* registry's own rows are the subject of DatasetRegistry, Agent 2's of    *)
(* ProfileRuns.                                                            *)
(***************************************************************************)
CONSTANTS
  Requests,  \* calls of POST /pipeline/run; also Agent 2's run ids
  Asks,      \* calls of POST /pipeline/ask
  Contents,  \* byte contents, hence fingerprints
  None,      \* absence of a body
  Faults     \* whether services may be unreachable or fail

ASSUME FaultsIsBoolean == Faults \in BOOLEAN

VARIABLES
  request,     \* PipelineState and position of each request
  ask,         \* local state of each follow-up question
  registered,  \* fingerprints with a row in master_datasets
  cache,       \* table master_dataset_results, by fingerprint
  profile      \* Agent 2's side of the run a request started

vars == <<request, ask, registered, cache, profile>>

Agent1Body == [of : Requests, reclassified : BOOLEAN, classified : BOOLEAN]

\* full: GET /result's body; otherwise the two fields POST /profile-runs answers.
Agent2Body == [of : Requests, full : BOOLEAN]

\* domain names the request from whose Agent 1 body it was taken.
Entry == [a1 : Agent1Body, domain : Requests, a2 : Agent2Body]

ASSUME NoneIsNew ==
  /\ None \notin Requests
  /\ None \notin Agent1Body /\ None \notin Agent2Body /\ None \notin Entry

Request ==
  [pc : {"idle", "identify", "agent1", "extract", "agent2", "fetch", "persist",
         "agent3", "finalize", "answered"},
   content : Contents,
   revalidate : BOOLEAN,      \* force_revalidate
   reclassify : BOOLEAN,      \* force_reclassify, as the node before left it
   fingerprint : BOOLEAN,     \* known, that is, the registry answered
   hit : BOOLEAN,             \* was_cached
   a1 : Agent1Body \cup {None},
   domain : Requests \cup {None},
   a2 : Agent2Body \cup {None},
   error : {"none", "too_large", "agent1", "classification_missing", "agent2", "fetch_failed",
            "agent3"}]         \* stage of error_content; no node sets agent3

Ask ==
  [pc : {"idle", "fetch", "agent3", "answered"},
   of : Requests \cup {None},
   full : BOOLEAN,            \* the answer the run id was read from was complete
   answer : {"none", "unknown", "unreachable", "agent3"}]  \* 404, 502, or Agent 3's

TypeOK ==
  /\ request \in [Requests -> Request]
  /\ ask \in [Asks -> Ask]
  /\ registered \subseteq Contents
  /\ cache \in [Contents -> Entry \cup {None}]
  /\ profile \in [Requests -> {"none", "working", "stored", "unstored", "rejected"}]

Init ==
  /\ request \in [Requests ->
       [pc : {"idle"}, content : Contents, revalidate : BOOLEAN, reclassify : BOOLEAN,
        fingerprint : {FALSE}, hit : {FALSE}, a1 : {None}, domain : {None},
        a2 : {None}, error : {"none"}]]
  /\ ask = [k \in Asks |-> [pc |-> "idle", of |-> None, full |-> FALSE, answer |-> "none"]]
  /\ registered = {}
  /\ cache = [c \in Contents |-> None]
  /\ profile = [q \in Requests |-> "none"]

-----------------------------------------------------------------------------
(* The graph: every node returns an update of the state; the edge after it *)
(* ends the request when the node set error_content.                       *)

Node(q, name, update) ==
  /\ request[q].pc = name
  /\ request' = [request EXCEPT ![q] = update]

\* Mutant: the edge after a failed fetch goes on to persist_master_dataset.
RouteAfter_FetchGoesOn(node, next) ==
  IF node.error = "none" \/ next = "persist" THEN [node EXCEPT !.pc = next]
  ELSE [node EXCEPT !.pc = "answered"]

RouteAfter(node, next) ==
  [node EXCEPT !.pc = IF node.error = "none" THEN next ELSE "answered"]

Fail(q, stage) == [request[q] EXCEPT !.error = stage]

Arrive(q) ==
  /\ \/ Node(q, "idle", [request[q] EXCEPT !.pc = "identify"])
     \/ Node(q, "idle", RouteAfter(Fail(q, "too_large"), "identify"))
  /\ UNCHANGED <<ask, registered, cache, profile>>

\* Mutant: only force_reclassify gets past the cache.
Forced_Reclassify(q) == request[q].reclassify

Forced(q) == request[q].revalidate \/ request[q].reclassify

IsHit(q) ==
  /\ request[q].content \in registered
  /\ cache[request[q].content] # None
  /\ ~Forced(q)

\* resolve_dataset_identity: register() and, for a duplicate, its cached result.
Identify(q) ==
  LET c == request[q].content
      e == cache[c]
  IN /\ Node(q, "identify",
          IF IsHit(q)
          THEN [request[q] EXCEPT !.pc = "agent3", !.fingerprint = TRUE, !.hit = TRUE,
                                  !.a1 = e.a1, !.domain = e.domain, !.a2 = e.a2]
          ELSE [request[q] EXCEPT !.pc = "agent1", !.fingerprint = TRUE, !.reclassify = Forced(q)])
     /\ registered' = registered \cup {c}
     /\ UNCHANGED <<ask, cache, profile>>

\* The registry raises, before or after it inserted the row: run without a cache.
RegistryUnavailable(q) ==
  /\ Faults
  /\ Node(q, "identify", [request[q] EXCEPT !.pc = "agent1"])
  /\ registered' \in {registered, registered \cup {request[q].content}}
  /\ UNCHANGED <<ask, cache, profile>>

Agent1Answers(q) ==
  /\ \E classified \in BOOLEAN :
       LET body == [of |-> q, reclassified |-> request[q].reclassify, classified |-> classified]
       IN Node(q, "agent1", RouteAfter([request[q] EXCEPT !.a1 = body], "extract"))
  /\ UNCHANGED <<ask, registered, cache, profile>>

\* 422 of the quality gate, another status, or no answer within the timeout.
Agent1Fails(q) ==
  /\ Node(q, "agent1", RouteAfter(Fail(q, "agent1"), "extract"))
  /\ UNCHANGED <<ask, registered, cache, profile>>

\* extract_domain_and_metadata, and the request call_agent2 sends on its result.
Extract(q) ==
  /\ Node(q, "extract",
       RouteAfter(IF request[q].a1.classified
                  THEN [request[q] EXCEPT !.domain = request[q].a1.of]
                  ELSE Fail(q, "classification_missing"),
                  "agent2"))
  /\ profile' = [profile EXCEPT ![q] = IF request[q].a1.classified THEN "working" ELSE @]
  /\ UNCHANGED <<ask, registered, cache>>

\* Agent 2 ends the run, whether or not the Orchestrator still waits: it stores
\* the result, gives up on its thread and answers `processing', or refuses.
Agent2Ends(q) ==
  /\ profile[q] = "working"
  /\ profile' \in {[profile EXCEPT ![q] = s] : s \in {"stored", "unstored", "rejected"}}
  /\ UNCHANGED <<request, ask, registered, cache>>

CallAgent2Returns(q) ==
  /\ profile[q] \in {"stored", "unstored", "rejected"}
  /\ Node(q, "agent2",
       RouteAfter(IF profile[q] = "rejected" THEN Fail(q, "agent2")
                  ELSE [request[q] EXCEPT !.a2 = [of |-> q, full |-> FALSE]],
                  "fetch"))
  /\ UNCHANGED <<ask, registered, cache, profile>>

\* Mutant: the call has no timeout and only a refused connection ends it.
CallAgent2Fails_NoTimeout(q) ==
  /\ profile[q] = "none"
  /\ Node(q, "agent2", RouteAfter(Fail(q, "agent2"), "fetch"))
  /\ UNCHANGED <<ask, registered, cache, profile>>

\* Agent 2 cannot be reached or does not answer in time; its run goes on.
CallAgent2Fails(q) ==
  /\ Node(q, "agent2", RouteAfter(Fail(q, "agent2"), "fetch"))
  /\ UNCHANGED <<ask, registered, cache, profile>>

\* The statuses GET /profile-runs/{run}/result may answer.
ResultStatus(run) ==
  (IF profile[run] = "stored" THEN {200} ELSE {404}) \cup (IF Faults THEN {500} ELSE {})

\* Mutant: the body is taken for a result whatever the status.
FetchedBody_AnyStatus(q, status) == [of |-> request[q].a2.of, full |-> TRUE]

\* Mutant: without a result there is no body to go on with.
FetchedBody_NoFallback(q, status) ==
  IF status = 200 THEN [of |-> request[q].a2.of, full |-> TRUE] ELSE None

FetchedBody(q, status) ==
  IF status = 200 THEN [of |-> request[q].a2.of, full |-> TRUE] ELSE request[q].a2

FetchAgent2Result(q) ==
  /\ \/ \E status \in ResultStatus(q) :
          Node(q, "fetch", RouteAfter([request[q] EXCEPT !.a2 = FetchedBody(q, status)], "persist"))
     \/ Faults /\ Node(q, "fetch", RouteAfter(Fail(q, "fetch_failed"), "persist"))
  /\ UNCHANGED <<ask, registered, cache, profile>>

\* Mutant: a conflicting insert leaves agent1_body as it was.
Upsert_KeepsAgent1(old, new) == IF old = None THEN new ELSE [new EXCEPT !.a1 = old.a1]

\* INSERT .. ON CONFLICT DO UPDATE of every column.
Upsert(old, new) == new

\* The row is written when its master_datasets row still exists (foreign key)
\* and the database answers; a failure is logged and swallowed.
PersistMasterDataset(q) ==
  LET c == request[q].content
      entry == [a1 |-> request[q].a1, domain |-> request[q].domain, a2 |-> request[q].a2]
      written == request[q].fingerprint /\ c \in registered
  IN /\ Node(q, "persist", [request[q] EXCEPT !.pc = "agent3"])
     /\ \/ cache' = IF written THEN [cache EXCEPT ![c] = Upsert(@, entry)] ELSE cache
        \/ Faults /\ written /\ cache' = cache
     /\ UNCHANGED <<ask, registered, profile>>

\* Whatever comes of it is put into the answer and fails nothing.
AfterAgent3(q, outcome) == [request[q] EXCEPT !.pc = "finalize"]

\* Skipped without a business question or a CSV file, which nothing before needs.
CallAgent3(q) ==
  /\ \E outcome \in {"skipped", "ok", "failed"} :
       Node(q, "agent3", AfterAgent3(q, outcome))
  /\ UNCHANGED <<ask, registered, cache, profile>>

Finalize(q) ==
  /\ Node(q, "finalize", [request[q] EXCEPT !.pc = "answered"])
  /\ UNCHANGED <<ask, registered, cache, profile>>

-----------------------------------------------------------------------------
(* POST /pipeline/ask, with the run id of an earlier answer.               *)

Succeeded(q) == request[q].pc = "answered" /\ request[q].error = "none"

AskStep(k, from, update) ==
  /\ ask[k].pc = from
  /\ ask' = [ask EXCEPT ![k] = update]
  /\ UNCHANGED <<request, registered, cache, profile>>

AskArrives(k) ==
  \E q \in Requests :
    /\ Succeeded(q)
    /\ AskStep(k, "idle", [ask[k] EXCEPT !.pc = "fetch", !.of = request[q].a2.of,
                                         !.full = request[q].a2.full])

AskFetches(k) ==
  /\ ask[k].of # None
  /\ \/ \E status \in ResultStatus(ask[k].of) :
          AskStep(k, "fetch",
            CASE status = 200 -> [ask[k] EXCEPT !.pc = "agent3"]
              [] status = 404 -> [ask[k] EXCEPT !.pc = "answered", !.answer = "unknown"]
              [] OTHER -> [ask[k] EXCEPT !.pc = "answered", !.answer = "unreachable"])
     \/ Faults /\ AskStep(k, "fetch", [ask[k] EXCEPT !.pc = "answered", !.answer = "unreachable"])

AskAnalyzes(k) == AskStep(k, "agent3", [ask[k] EXCEPT !.pc = "answered", !.answer = "agent3"])

-----------------------------------------------------------------------------
\* DELETE /datasets/masters/{fingerprint}: the row and its cached result go.
DeleteMaster(c) ==
  /\ c \in registered
  /\ registered' = registered \ {c}
  /\ cache' = [cache EXCEPT ![c] = None]
  /\ UNCHANGED <<request, ask, profile>>

RequestStep(q) ==
  \/ Identify(q) \/ RegistryUnavailable(q)
  \/ Agent1Answers(q) \/ Agent1Fails(q)
  \/ Extract(q)
  \/ CallAgent2Returns(q) \/ CallAgent2Fails(q)
  \/ FetchAgent2Result(q)
  \/ PersistMasterDataset(q)
  \/ CallAgent3(q)
  \/ Finalize(q)

AskStepOn(k) == AskFetches(k) \/ AskAnalyzes(k)

Next ==
  \/ \E q \in Requests : Arrive(q) \/ RequestStep(q) \/ Agent2Ends(q)
  \/ \E k \in Asks : AskArrives(k) \/ AskStepOn(k)
  \/ \E c \in Contents : DeleteMaster(c)

Spec == Init /\ [][Next]_vars

\* Every await of the Orchestrator is an HTTP call with a timeout, so a request
\* that can move does.  Nothing is assumed of the agents or the administrator.
FairSpec ==
  /\ Spec
  /\ \A q \in Requests : WF_vars(RequestStep(q))
  /\ \A k \in Asks : WF_vars(AskStepOn(k))

-----------------------------------------------------------------------------
(* Properties.                                                             *)

\* One run made it all, for the very bytes uploaded: Agent 1's body, the
\* domain and Agent 2's body that are cached under a fingerprint, or that a
\* successful answer holds, stem from one request on that content, however
\* hits, refreshes and deletions of several requests interleave.
OneRunMadeIt(a1, domain, a2, c) ==
  a1 # None /\ a2 # None /\ domain = a1.of /\ a2.of = a1.of /\ request[a1.of].content = c

ResultsAreWhole ==
  /\ \A c \in Contents :
       cache[c] # None => OneRunMadeIt(cache[c].a1, cache[c].domain, cache[c].a2, c)
  /\ \A q \in Requests :
       LET r == request[q] IN Succeeded(q) => OneRunMadeIt(r.a1, r.domain, r.a2, r.content)

\* A forced request is answered with results made for it, whatever other
\* requests put into the cache meanwhile, and while the registry answers its
\* Agent 1 call asked for a new classification.
ForcedIsFresh ==
  \A q \in Requests :
    Succeeded(q) /\ (request[q].revalidate \/ request[q].reclassify) =>
      /\ request[q].a1.of = q /\ request[q].a2.of = q
      /\ request[q].fingerprint => request[q].a1.reclassified

\* A request that was answered with an error has left nothing that any other
\* request is served: neither the cache nor a hit holds a body made for it.
FailuresAreNotServed ==
  \A q \in Requests :
    request[q].error # "none" =>
      /\ \A c \in Contents : cache[c] # None => cache[c].a1.of # q /\ cache[c].a2.of # q
      /\ \A other \in Requests : request[other].hit => request[other].a1.of # q

\* Whoever got a full result, from his own run or from the cache, may ask about
\* its run id: POST /pipeline/ask never calls it unknown.
FullResultCanBeAsked ==
  \A k \in Asks : ask[k].answer = "unknown" => ~ask[k].full

\* Every request, and every follow-up, is answered although agents may hang.
EveryCallAnswered ==
  /\ \A q \in Requests : request[q].pc = "identify" ~> request[q].pc = "answered"
  /\ \A k \in Asks : ask[k].pc = "fetch" ~> ask[k].pc = "answered"

=============================================================================
