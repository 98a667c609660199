# A verification of the MVA dataset pipeline

MVA takes an uploaded spreadsheet through three services and an orchestrator:
Agent 1 (`Schema-Intelligence-Layer`) says what the file is about, Agent 2
(`Data-Profiling-Agent`) profiles it, Agent 3 (`Analytics-Agent`) answers
business questions about it, and `Agent-Orchestrator` calls them in turn,
remembers what it has seen in a Dataset Registry, and answers the caller. This
directory holds TLA+ models of the parts whose correctness depends on the order
of things, the TLC runs that check them on small instances, and proofs for TLAPS
of what matters most. `PROJECT.json` lists the components, the runs, the lines
every definition stands for, the hazards and the theorems.

Paths below are relative to the repository; `AO`, `SI`, `DP`, `AA` stand for
`Agent-Orchestrator/app`, `Schema-Intelligence-Layer/app`,
`Data-Profiling-Agent/app` and `Analytics-Agent/app`.

## 1. The system

### Parts, state and operations

| Part | State it keeps | Operations that change it |
|---|---|---|
| Orchestrator: pipeline graph (`AO/agents/orchestration_agent`) | `PipelineState` of each request | eight nodes, routes after each, `POST /pipeline/run`, `POST /pipeline/ask` |
| Orchestrator: Dataset Registry (`AO/services/dataset_registry`) | `master_datasets`, `dataset_copies`, `master_dataset_results` in Postgres; one file per master | `register`, `persist_result`, soft delete of a copy, deletion of a master |
| Agent 1: catalogue (`SI/services/database.py`, `SI/agents/schema_intelligence_agent`) | `dataset_metadata`, an id sequence, data frames in memory | upload: validate, look up by name, quality gate, insert or update, classify or reuse, finalize |
| Agent 2: run API and job manager (`DP/api/routes/profile_runs.py`, `DP/services/orchestration/job_manager.py`) | jobs in memory, a thread per run, `profile_runs` and its child tables, a directory per run | submit, wait, persist; the thread's steps |
| Agent 2: profiling graph (`DP/agents/data_profiling_agent`) | the run's shared state | twelve nodes in supersteps, two routers, clean-up |
| Agent 2: rules (`DP/api/routes/rule_suggestions.py`, `DP/services/rules`, `DP/repositories/rule_repository.py`) | `rule_suggestions`, `rule_definitions`, `rule_evaluations` | suggest, approve, reject, load, evaluate |
| Agent 2: analysis (`DP/services/profiling`, `quality`, `readiness`, `hierarchy`, `charts`) | none of its own: what the graph's nodes compute from one file | profile the columns, find the grain, score quality and gate, score readiness, find a hierarchy, build cubes; a drill-down only reads |
| Agent 3: analytics graph (`AA/agents/analytics_agent`, `AA/services/planning`, `scheduling`, `models_registry`, `analyzers`) | the state of one call | ten nodes: context, capabilities, indicators, question, plan, schedule, execution, narration, memory, trace |
| Agent 3: conversation and indicators (`AA/services/memory.py`, `database.py`, `tools/knowledge_update_service.py`) | `conversation_turns` in Postgres, an indicator file for each domain plugin | load and store turns, add an indicator to the file |
| Agent 3: models (`AA/services/boot_trainer.py`, `AA/services/ml`, `Analytics-Agent/train.py`) | model files, `model_registry.json` | train at start-up or by hand, record what a question has fitted |

`start-all.ps1` starts each service as one uvicorn process (with `--reload`) on
one Postgres server. Inside a process an `async def` route holds the event loop
between two awaits, and a plain `def` route runs on a thread of a pool. That
difference decides most of what can interleave:

* `register()` is called, without an await, from an async node: one call at a
  time per process. `persist_result` is called in the same way, but the
  deletions under `/datasets` are plain functions and interleave with both,
  transaction by transaction.
* `POST /profile-runs` is async and sleeps while it waits for its job: the event
  loop of Agent 2 is blocked until the job ends or the deadline passes. The job
  itself runs on a daemon thread that outlives both.
* approvals and rejections are plain functions: two may overlap.
* the upload of Agent 1 and `/analyze` of Agent 3 run their whole graphs on the
  event loop: the calls of one process follow each other. Agent 3's start,
  however, runs `train.py` as a child process, which may outlive it.

### How the parts interact

The Orchestrator calls Agents 1 to 3 by HTTP, each call with a timeout of 120 s.
The registry and its pipeline meet in two places: `resolve_dataset_identity`
(before Agent 1) registers the upload and may answer it from the cache, and
`persist_master_dataset` (after Agent 2) writes the cache. Agent 2's database is
the only thing `POST /pipeline/ask` relies on, by a run id an earlier answer
handed out. Within Agent 2, the job manager relies on the graph to end with a
verdict and to try to remove its directory; the rules that runs evaluate are what
reviewers have approved of earlier runs' suggestions.

### What is hard here, and what makes each part correct

| Part | Hard behaviour | What must hold |
|---|---|---|
| Registry | each call is several transactions and file operations; threads and crashes fall between any two | versions of a name form one chain; a copy carries its row's version; the reference count never misses an active copy; a row never loses its file |
| Pipeline graph | many requests share the cache; any service may hang or fail; an administrator may delete a master meanwhile | a result is the work of one run on that content; a forced request is fresh; failures are not served; Agent 3 and the cache fail nothing; every request is answered |
| Job manager | a thread outlives its request; its writes are not read under its lock; restarts, also between a commit and its answer | rows agree with verdicts and answers; the event loop comes back |
| Profiling graph | concurrent siblings, joins, two routers, failures at any node | a node finds its inputs; nothing runs twice; the gate decides what runs; the caller's target column is kept |
| Rules | overlapping reviews, runs that load rules while reviews go on | an approved suggestion has its rule; evaluations cite what the run had loaded, in its domain |
| Agent 1's catalogue | re-uploads by name, crashes between insert and classification, two servers | ids are unique; a name has one row; what is reported is the upload's |
| Agent 2's analysis | partial matches of templates, columns that differ in case, cells that are missing, scores over whatever could be assessed, several questions of one file | the chain of columns found is the longest one the data bear; the cubes show the table; only poor data are turned away; what is said of the data does not depend on the question |
| Agent 3: one call | planning rules, a plugin that adds to the plan behind their back, budgets, fallbacks, analyzers that raise, a filter that leaves nothing | only the plugin plans what the data do not admit; what was asked for is never trimmed; models run only when the score, the data and the budget admit them; a blocked gate is reported for its cause |
| Agent 3: conversation | a database out of reach, restarts, a window of turns, an indicator file cut short | a call continues the latest turn; an error is due to the call itself or to an earlier one in a way that can be named |
| Agent 3: models | trainers and the service write the same files without a lock; children of dead services; time stamps | an update loses nobody's entry; skipped training means trained models; the start ends |

## 2. Modules

| Module | Models | Form |
|---|---|---|
| `DatasetRegistry` | the registry: every transaction and every file operation is an action | state machine, parameterised by contents, names, uploads, servers, admin threads |
| `VersionLineage` | what the registry promises about versions: per name, a numbered history that only gains or loses its end | abstract specification |
| `RegistryLineage` | the refinement mapping from the first to the second | `INSTANCE ... WITH` |
| `MCDatasetRegistry` | symmetry for TLC | |
| `Pipeline` | the Orchestrator's graph, its cache, `/pipeline/ask`, Agents 1 to 3 through their answers | state machine, own run module |
| `ProfilingTask` | what the job manager may rely on of one profiling task | abstract specification |
| `ProfilingGraph` | Agent 2's graph in supersteps, node by node | state machine, implements `ProfilingTask` |
| `ProfileRuns` | job manager, threads, route, persistence, restarts | state machine; each of its threads implements `ProfilingTask` |
| `RuleReview`, `MCRuleReview` | suggestions, reviews, rules, the runs that use them | state machine |
| `SchemaCatalog`, `MCSchemaCatalog` | Agent 1's upload, its catalogue and id sequence, processes that start and die | state machine, parameterised by uploads, names, server processes |
| `ColumnProfiles` | Agent 2's counts of a column, its refined type, identifiers and grain | operators over a table |
| `HierarchyDetection`, `DrillDown` | templates matched to columns, the edges that hold, the chain chosen; cubes and how a path is looked up in them | operators |
| `Readiness` | quality dimensions, overall score, the three readiness assessments | operators |
| `DatasetProfiling`, `MCDatasetProfiling` | the deterministic nodes of Agent 2's graph on one file, run after run | state machine over the operators above |
| `DatasetContext`, `Capabilities`, `AnalyticsPlanner`, `ModelSelection`, `Analyzers` | the stages of Agent 3's graph: what it knows of a dataset, what that admits, question, plan and schedule, the algorithm picked, what an analyzer needs and shows | operators, each module on the one before |
| `AnalyticsRun` | one call of `/analyze`, node by node | state machine over the operators above |
| `AnalyticsService`, `MCAnalyticsService` | the calls of a conversation, its turns, the indicator files, outages and deaths | state machine that extends `AnalyticsRun` |
| `ModelStore`, `MCModelStore` | model files and registry, trainers, the service's start | state machine, parameterised by trainers, models and bounds |
| `DatasetRegistryProofs` (with `RegistryLineage`), `PipelineProofs`, `SchemaCatalogProofs`, `GraphAndReviewProofs` (with `ProfilingGraph` and `RuleReview`), `ProfileRunsProofs`, `DatasetProfilingProofs` (with its operators), `AnalyticsServiceProofs` (with `AnalyticsRun` and its operators), `ModelStoreProofs` | theorems | TLAPS |

`ProfilingTask` is where two modules meet: `ProfilingGraph` shows that the graph
keeps its promise, and `ProfileRuns`, which abstracts the graph to just that
promise, shows that what the threads do is such a task whatever the route, the
other threads and a restart do. `Pipeline` composes the Orchestrator with an
Agent 2 that either stores a result, gives up on its thread (`processing`) or
refuses: the three answers `ProfileRuns` shows it to give. `ProfilingGraph` and
`DatasetProfiling` are two views of one graph: the first has its control
(supersteps, routers, failures), the second what its deterministic nodes compute
when they run in the order of the first. `AnalyticsService` composes a run of
Agent 3's graph with the state its calls share.

### Correspondence with the code

**`DatasetRegistry`.** `masters`, `copies`, `results` are the three tables
(`metadata_cache.py`), `files` the directory of `storage.py`. A request's local
variables are the record `calls[u]`, whose `pc` names the next step of
`register()` (`dataset_registry.py:60-133`): `DetectDuplicate`, `DetectVersion`,
`WriteMasterFile`, `InsertMaster` (`ON CONFLICT DO NOTHING`, foreign key on
`previous_fingerprint`), `CreateCopy` (one transaction with the increment),
`GetCachedResult`. `loop` says which call holds the event loop of each server.
Any exception ends in `Degrade`: the node logs it and goes on with no
fingerprint. `UpsertResult` and `UpdateCounts` are `persist_result`;
`SoftDelete` and `Decrement` are the two transactions of
`DELETE /datasets/copies`; `CheckGuardrail`, `ReadMasterRow`, `DeleteMasterRow`
and `UnlinkMasterFile` are `DELETE /datasets/masters`. `overtaken` is a history
variable: the contents whose file an old deletion removed after a new
registration had begun to use it. Hashes are abstracted to the contents
themselves (no collisions), counts and timestamps of a row to `counted`.

**`Pipeline`.** `request[q]` is `PipelineState` plus the node the request is at.
A body is named by the request that had it made (`of`), which is what the
properties compare. `Node` and `RouteAfter` are what every node and every
conditional edge has in common: the update, and the end of the request once
`error_content` is set. `RegistryUnavailable`, `Agent1Fails`, `CallAgent2Fails`
and the failing branches of `FetchAgent2Result` and `PersistMasterDataset` are
the exception handlers. `profile[q]` is Agent 2's side of the run: it goes on
when the Orchestrator has given up.

**`ProfilingGraph`.** LangGraph runs in supersteps; `todo`, `ended`, `next` and
`applied` are a superstep's nodes that still run, those that have ended, what
the edges have scheduled, and the nodes whose updates are in the shared state.
`Edge`, `SchemaIntelligenceRouter` and `QualityGateRouter` are the topology of
`graph.py`; `Reads` lists the state keys each node takes without a default,
translated to the node that writes them. What a node computes is abstracted to
the fact that it has, except where control depends on it (`si`, `retries`,
`gate`, `target`).

**`ProfileRuns`.** `jobs` is `JobManager._jobs`; since the waiting side takes no
lock, each assignment of `_execute` is a step (`SettleStatus`,
`SettleOutcome`). The route's steps are `Submit`, `SeesJobEnd` or
`DeadlinePasses`, `ReadResult`, then `Persist` and `AnswerStored`, `PersistFails`
or `AnswerWithoutResult`. The commit and the answer are two steps: a process that
dies between them leaves a row its caller was never told of, and so does a commit
the connection breaks over before it is confirmed (`PersistFails`, answered 500).
`Restart` is the end of the process and its successor's start, between any two
steps: memory and threads are lost, rows and directories are not. In this module
and in `ProfilingGraph`, `CleanUp` may leave the directory: `cleanup_run` passes
`ignore_errors=True` to `rmtree`. `swallowed` records that it did.

**`RuleReview`.** A review reads (`OpenReview`), commits (`Approve`, `Reject`) and
answers (`AnswerReview`) in different steps. An approval reads the id of its rule
after the commit, which expires the row and has it loaded again: this may raise,
and the answer is then an error though the rule is there. `decided` says that a
review has committed, `ReviewFails` is what raises before. A rule is named by
the approving call, since one suggestion can be given two. `byKey` is the dict
`rule_definition_ids_by_key`, which keeps any one of several rules of one key.

**`SchemaCatalog`.** `rows` is the table `dataset_metadata`, `sequence` the last
value of `dataset_id_seq`, `frames` each process's dict of data frames. A call's
`pc` names the node of the graph it is at; `loop` is the event loop, which
`upload_dataset` holds from `validate_and_load` to its answer because nothing in
the graph awaits. `ReadSequence` and `SetSequence` are the two ends of
`init_db`: the statement that computes the new value of the sequence, and the
commit; the `ALTER TABLE` before them keeps the table, but not the sequence, from
everybody else (`TableFree`). What is read off a file (`shape`, `quality`,
`class.of`) is named by the upload that brought it, so that a row says whose
words it holds. `met` and `setBack` are history variables: which uploads of the
name were under way when this one looked its name up, and whether a start has
moved the sequence backward.

**`ColumnProfiles`.** A table is a sequence of rows of `[column -> cell]`. Both
loaders read every cell as text, so a cell is a label and two cells are equal
when their texts are; what a label looks like (`Traits`: a number, whole, a date,
...) and how long it is are constants. `ProfileColumn` has the counts the later
stages read, `Refine` the type told from them, `Keys` makes normalised names
unique (`dataset_profiler.py`), `Grain` takes the columns that identify rows. The
samples of 500 and 1000 rows, the five top patterns and the ten representative
values lie beyond the tables of the runs.

**`HierarchyDetection`.** `MatchTemplates` tries each template's levels against the
column names (`template_matcher.py`; how much a name resembles a concept is
`Likeness`), `ValidateEdge` is the functional dependency of
`functional_dependency.py` with its thresholds, `ValidateChain`,
`LongestValidSegment` and `SelectChain` are `chain_selector.py`: stretches of
valid edges, then of the chains found the longest, the surest of those (sums of
confidences instead of means: chains of one length have as many edges), and the
first match. **`DrillDown`** builds the cubes of
every path (`GenerateCubes`) and looks a path up in cubes (`ExecuteDrillDown`).

**`Readiness`.** Scores are 2520ths, exact for fractions of up to ten; the rounding
of the answer to four digits is not told apart. A dimension that cannot be
assessed is not in the quality function's domain, the overall score is the
weighted mean over the others (weights of `config/quality_weights.yaml`), and an
assessment is points by category out of the pool of what applies, with its band
and its blocking issues (`readiness_engine.py`). What an LLM recommended
(`Answers`) and whether a question was asked are inputs.

**`DatasetProfiling`.** One file is taken in, profiled, classified, scored and
stored or turned away (`stage`), again for another question while `stored` holds
the earlier results. Roles, rule results, confidences and the feature agent's
answers are inputs. A drill-down request is no action: its route changes no
state and passes no cubes to the service, nothing storing them yet
(`profile_runs.py:477-482`), so that its answer is an error or empty data. What
is checked instead is what the run leaves for it: that the cubes of a finished
run, looked up as the service would, are true to the table (`CubesShowTheTable`).

**`AnalyticsRun`** and its operator modules. A dataset is a sequence of columns with
what the code reads off them (name hints `says`, type, cardinality in percent,
Agent 2's profile of it when there is one) and a number of rows. `BuildContext`
is `dataset_context/`, from Agent 2's body or inferred; `ResolveCapabilities`
evaluates structure and score of every capability apart. A question is the set
of keywords it contains, the columns it names, the indicator an alias of which
it holds, and its filters. `Plan` is the list of rules in their order with the
first proposal of a type kept and a stable sort; `EnhancePlan` is the plugin's
hook; `Schedule` the budget. Where the code filters or sorts a list, the model
says which positions remain and in which order of keys (`Keep`, `Arrange`): the
sort is stable, so equal keys stay in the order of their positions. `Registry`
maps an analysis to its entries of `model_registry.yml` in their order. `Select` is
`ModelSelector.select`: its reason, the positions whose requirements the whole
dataset's rows meet (`Candidates`), a preferred one first (`Foremost`), the budget
of expensive models.
`Shows` says what each analyzer needs of the rows left by the filters; an
exception inside one becomes `NoEvidence`. `call.broken` names the stage at which
what came with a request makes the code raise: the view over the upload
(`sql_tool.py:41`), pandas reading it (`nodes/pipeline.py:161`), or the query over
all its rows. A column is `rigid` when DuckDB cannot cast the values filters have
to its type, and `Queryable` are the columns left. `Fail` is
`run_analytics_graph`'s handler. `MultiTrace`, `SingleTrace` and
`EarlyTrace` are `_build_execution_trace` and its helper for reports. Numbers
and texts of answers are left out.

**`AnalyticsService`.** `turns` is the table; `mem` is the `MemoryManager` that each
call makes anew: the turns loaded, with `LoadTurns` any order of equal numbers,
and its counter. `OpenKPIFile` and `WriteKPIFile` are the two ends of rewriting
the indicator file; a process that dies between them leaves it torn, and so does
a write that is refused half-way (`WriteRefused`; refused at the opening, it
leaves the file alone). `Buildable` says when rule engine and view can be made:
the file whole, the plugin's configuration valid (`rule_engine.py:145-166`), the
upload readable; otherwise the call ends in `ReceiveFails`.
`KPIFileMissing` is the generic plugin, whose path lies in no directory.
`missed` and `refused` are history variables: a call could not load turns that
were stored; the present call's indicator could not be written.

**`ModelStore`.** A process has the writes left of the model it is at (`todo`: open,
dump, and the three steps of a registry update) and the models it trains after
this one (`queue`): the calls of `train.py`'s `main` one after the other, `Script`
being the dataset it loads first. Two processes may be anywhere in theirs. `Boot`
compares times (`UpToDate`); `BootSkips` is the check that raises (no dataset, a
time stamp that cannot be read, a child that cannot be started), after which the
service is up, `"unchecked"`, with whatever models there are. `TrainingTimesOut`
kills the child, `ServiceDies` leaves it alone. `ReplaceDataset` brings a dataset
newer than every model, or one copied with its old time stamp, which the check
takes for older than the models. `cut`, `outdated` and `blame` are history
variables for the properties' exceptions.

## 3. Runs

| Run | Instance | Shows |
|---|---|---|
| `registry_core` | 3 contents, 1 name, 3 uploads, 1 server, 1 admin, faults | types, lineage, copy versions, files; refinement of `VersionLineage` |
| `registry_uploads` | 2 contents, 2 uploads, no admin, faults, forced or not | the count's lower bound; every queued upload served |
| `pipeline` | 2 requests, 1 question, 1 content, faults | results of one run, freshness, failures not served, full results can be asked about; every call answered |
| `graph` | every request shape, faults | inputs ready, target column; refinement of `ProfilingTask` |
| `profile_runs` | 2 runs, faults, restarts between any two steps | rows against answers, tasks, answers despite hanging threads |
| `rule_review` | 2 suggestions, 3 reviews, 2 runs, 2 domains, 1 key | materialisation, also behind an answer that fails; citation; what overlap can do |
| `catalog` | 3 uploads, 1 name, 2 processes, faults | ids, one row for a name, a row against its upload's answer, rows completed but never classified |
| `profiling` | every table of up to 3 rows in sorted order over 6 columns; 3 tables with all metadata, rule results and confidences; 2 runs | the chain found, the cubes, the gate, dataset scores |
| `analytics` | a first call of 373 combinations, follow-ups of 9, up to 4 calls, 1 outage, 1 death, 1 refused write | plan, budget, models, blocked gates, memory, errors |
| `models` | 2 trainers, 2 of the 4 models, 2 checkouts, 2 datasets (the second newer than the models or not), 1 fit, 1 death | registry, skipped training, the start's end |
| `graph_retry`, `profile_runs_torn` | as small as the case allows | a sentence of the repository that the code does not keep; see `findings` |

Why the bounds are enough to be interesting. Three contents of one name are
the least with a middle version, which is where a broken chain would show; a
second name adds nothing, since no operation touches rows of two names. Three
uploads let one register, one overtake it and one find its result. One server
suffices for the lineage because that is how the service is started; with two,
lineages may fork (the hazard at `dataset_registry.py:95`), and the theorem says
where one server is used. Two requests of one content are the least that share a
cache entry; that contents do not influence each other is part of the theorem
`WholeResults`, which holds for any set of contents. Three reviews of two
suggestions allow two that overlap and one that does not. No counter needs an
artificial cap: versions and counts are bounded by the number of uploads. For
the catalogue, two processes are the least with which uploads overlap and a
start races a `nextval`, and three uploads let two overlap and a third find
either of their rows; processes start any number of times.

`profiling` keeps the six columns, three templates and thresholds of
`MCDatasetProfiling`: three rows are the least with an edge that holds for most
rows but not all, two columns whose names differ in case only are the collision
that key normalisation is there for, and of the two templates that match one is
the other reversed. Smaller than the code's are the warning threshold (50 for
90 percent, since three rows have no 90), the tiers of rows (3, 2, 1 for 10000,
1000, 100), the least group of a cube (1 for 5) and the labels of a level (2 for
100): each case on both sides of them occurs (accepted, partial and unresolved
hierarchies, capped labels, gated files, lookups of a path that is no prefix).
The order of rows is fixed because no computation looks at it.

`analytics` has datasets on both sides of every minimum of rows, with and without
Agent 2's profile, hierarchy and target, the three kinds of plugin, readiness on
both sides of the threshold, each group of keywords; its window has 2 turns for
the code's 10, so that four calls fill it and drop one. Among the follow-ups
are a dataset without the columns of the one before, one whose regions are
numbers, an indicator nobody knows, an invalid plugin and an upload that breaks
at each of the three stages. `models`
takes LightGBM and K-Means of `train.py`'s four models (one that writes a single
file and one that writes two), LightGBM for an operator's training, one key that
the service writes itself, and a checkout as the repository ships it or one
without the registry and a file (`Checkouts`).

### Fairness

* `DatasetRegistry!Fairness`: a call that holds the event loop is taken forward,
  a started thread too. Requests and deletions may never come.
* `Pipeline!FairSpec`: every await of the Orchestrator is an HTTP call with a
  timeout, so a request that can move does; nothing is assumed of the agents.
* `ProfileRuns!FairSpec`: only the route's steps. It polls and looks at the
  clock; the profiling thread may hang for ever.
* `ModelStore!Spec`: `subprocess.run` returns when its child has ended, and at its
  deadline; nothing is assumed of the trainers, which may hang.
* `ProfilingGraph`, `RuleReview`, `SchemaCatalog`, `DatasetProfiling` and
  `AnalyticsService` have safety properties only.

`CHECK_DEADLOCK FALSE` is set where the system really may stop: every request
has been served and none comes, or the bounds are used up. `ProfilingGraph` and
`AnalyticsService` state their end explicitly (`Finished`), so deadlock is checked
there, and in the registry run with an administrator, who can always ask again.

## 4. Proofs

Every theorem holds for all values of the constants that satisfy the named
assumptions: absent values are none of the present ones, `Uploads` is finite,
the window of turns is not empty, calls have the fields they are read by.

* **`DatasetRegistryProofs`.** `TypeCorrect`: in particular the count stays a
  natural number. `RowsKeepTheirFiles`: `DanglingOnlyWhenOvertaken` for any
  number of servers, admin threads, failures. The invariant is not inductive:
  an insert relies on a file written one step earlier, so it is strengthened by
  "a call at its insert has its file on disk, or it was overtaken". Every action
  that removes a file is the unlink, which records what it overtakes.
  `CountsNeverFallShort`: `NeverUnderCounts` where no master is deleted (`Admins`
  empty, as in the run `registry_uploads`; a decrement that outlives its master
  would lower the count of the next one). The count covers, besides the active
  copies, the deleted ones whose decrement is still to come (`Counted`), so that
  both transactions of a deletion keep the bound and a lost one only loosens it.
  `LineageHolds`: on one server process,
  `LineageChained`, `CopyVersionCurrent` (`CopiesAreCurrent`) and that no two rows
  of a name share a predecessor. The strengthening says what the call that holds
  the event loop has read: while it is between its lookup and its insert, its
  predecessor is still the latest version of the name or is gone (then the
  insert fails on the foreign key); nobody else inserts, because nobody else has
  the loop. `RegistryImplementsLineage` is the refinement of `VersionLineage`:
  an insert is an `AddVersion`, a deletion a `RemoveLatest` (the foreign key
  refuses every other, which takes the least version above a row that has one),
  and each other step leaves the histories alone.
* **`PipelineProofs`.** `TypeCorrect` needs that a node finds the bodies it
  reads (`Present`). `WholeResults`, `ForcedStaysFresh` and
  `FailuresStayPrivate` rest on one invariant (`RunInv`): cache entries are
  sound, a request's bodies are sound from the node that sets them on, and a
  hit carries a sound entry of a request that did not fail. `FullResultsAreKnown` adds that
  a full body is of a stored run, and that a stored run stays stored.
* **`SchemaCatalogProofs`.** `TypeCorrect`; `IdsAreNew`, for any number of
  processes; `SecondRowsOverlapped`; `PendingExplained`. The invariants speak of
  uploads between two steps: ids drawn but not inserted lie below the sequence
  and differ (`IdsAscend`); uploads of a name that are both under way have met
  (`CompanyMet`), and one about to insert has met whoever inserted a row of its
  name since its lookup (`InsertersMet`); a pending classification read off a
  row already had its cause when it was read (`PendingReadCaused`).
  `CatalogueSaysWhatWasAnswered` is `RowSaysWhatWasAnswered`: whoever still works on
  a row that another's file describes has met that other (`WritersMet`), so that
  an upload nobody met writes report, classification, status and frame
  undisturbed. `Effect` and
  `Aside` say once what a step of an upload and a step of a process do, and the
  invariants are carried along them.

* **`GraphAndReviewProofs`, the graph.** Under the assumption `KnownRequests` on
  the requests. `InputsAreReady`: the inductive invariant says of each
  node that is scheduled or has run which nodes have ended before it, superstep
  by superstep, through both routers. `CallerIsNotOverruled` needs what the
  feature-target agent may return. `GraphKeepsPromise` is the refinement of
  `ProfilingTask`, from an invariant that ties the verdict to the saved upload: a
  task that returns has removed its directory or met an error there (`swallowed`).
* **`ProfileRunsProofs`.** `RowsAreAnswers`: each assignment of `_execute` is a step,
  so the invariant says what the job's fields can be at each position of thread
  and route, and that a route which read a result still holds the verdict of
  its task, through its commit to its answer. What it says of a row and an answer
  is one-sided on purpose: who is told of a verdict finds it stored, but a row
  may be there behind an error or a lost request. `ThreadsImplementTasks` is a
  refinement for every run at once: the steps of other threads, of routes and of
  a restart are stutters or its `Kill`.
* **`GraphAndReviewProofs`, the reviews.** `ApprovalsMaterialize`, `CitationsAreLoaded`,
  `TwiceOnlyByOverlap` for any number of suggestions, reviews, runs and domains,
  from one invariant on what open reviews have read, what committed ones have
  written and what runs have loaded.
* **`AnalyticsServiceProofs`, the conversation.** `LatestIsRemembered`, for any
  window and any faults: unless turns were missed, the table is numbered 1, 2, ...
  in the order of its inserts (`Numbered`), hence the last one loaded is the last
  one stored, and a call's counter is the length of the table until it has stored
  its own. `ErrorsAreExplained`: a stored turn that queried its file carries
  filters of that file only (`RowOfItsFile`), an indicator file is torn only while
  a call writes it or after a death or a refused write (`TornWhenCut`), and a call
  that failed has ended.
* **`AnalyticsServiceProofs`, one call.** The properties speak of lists that rules,
  a plugin and a sort produce, and are not inductive: they hold of what a node
  has computed because of what the node before it had. The lemmas come first.
  The place of a position in a sort is one more than the number of positions that
  come earlier (`Place`); places are distinct and all are taken (`PlaceKeepsOrder`,
  `PlaceIsTaken`), so that `Arrange` is a permutation of what it is given in the
  order of the keys (`Arranged`), and `Keep` has no other elements (`Kept`).
  With these, every planning rule and each plugin's hook yields a `PlannedList`:
  analyses the capabilities admit, or grounded ones of the two types the
  insurance plugin adds to a curated question. `PlanInv` says at each node what
  has been computed from what: the capabilities from the context, the schedule
  from plan and intent. From it follow `ImpossibleOnlyFromPlugin` and, with
  `Fits` of a schedule (`OrderedPlan`, `ScheduledPlan`: what was asked for comes
  first in the order), `RequestedIsKept`. `EvidenceInv` adds what explains each
  entry of the evidence: its analysis is the one scheduled at its position, and
  a model among them has been picked by `Select` from a registry entry
  (`Registered` holds of each: which types have models, which of them are
  expensive, ten rows at least). The expensive models that had an alternative
  (`Spares`) number at most `used` and at most `MaxExpensive`; this is
  `ModelsRunWhenReady`. `TraceInv` follows the trace through its three forms to
  `BlockedForACause`.
* **`ModelStoreProofs`.** `RegistryIsKept`, for any number of trainers and deaths:
  unless two updates overlapped (`Calm`), one process at a time is between its
  read and its write, it has seen every key written so far (`SeenAll`), a torn
  registry is that process's or was cut by a death, and what was written is there
  while nobody is about to write (`KeptAll`). `SkippedOnlyWhenTrained`: unless a
  dataset was replaced under a trainer, a file newer than the dataset is of that
  dataset or older than its coming (`outdated`), and a file that is not whole
  has somebody who writes it or died writing it (`TornIsAccounted`).

* **`DatasetProfilingProofs`.** All four properties of Agent 2's analysis. `FileInv`
  says that whatever a run has computed so far is the value of a function of the
  file, which leaves a fact about each function.
  `ScoresFollowTheFile`: no pool of points of the dataset depends on the
  recommendation, once one is given (`ScoresIgnoreAnswer`), and the runs of a
  file store nothing else (`ScoreInv`).
  `HierarchyIsLongest`: the sets an edge counts are those the property speaks of
  (`HoldsCounts`), so that valid edges are the neighbouring columns that hold
  (`EdgeHolds`); segments of edges are stretches of columns (`StretchIsSegment`,
  `SegmentIsStretch`), a longest one exists and is returned (`LongestSegment`,
  `ChainIsFound`), and the tie-breaks between the templates choose among the
  longest (`SelectedIsLongest`).
  `GateIsFair`: the dimensions rated are among those that weigh (`QualityRated`),
  and a weighted mean of scores at the gate is at the gate. The sums are the
  library's folds; that they unfold, are integers and keep an order
  (`SumUnfolds`, `SumIsNumber`, `SumsCompare`) is shown by descent on finite
  subsets, from the library's facts on well-founded orders.
  `CubesAreTrue`: the levels are different columns of the file
  (`LevelsAre`), hence of all cubes one at most matches a path, which must then be
  one of the first levels (`MatchingIs`); its groups are those of the rows under
  the path, the smallest labels first (`AscendingIs`, `FirstOnes`, `GroupsAre`);
  and if there is a group to show, the cube was built (`TheCubeMatches`).
  The assumptions: columns, cells and tables fit together and missing values are
  no cells; thresholds are percentages with the warning below the acceptance;
  templates name concepts with a likeness to every column; counts and
  confidences are natural numbers; an answer of the agent counts as given; and
  `LimitsAssumption`: the least group and the two caps are 1 at least. The code
  fixes the caps at 100 and 50 and defaults the least group to 5, which a
  setting could make 0: groups without a number would then be shown with an
  empty sum, and the property does not speak of them.

Only model-checked is liveness (`UploadAnswered`, `RequestAnswered`,
`EveryCallAnswered`, `StartEnds`), which needs fairness and `ENABLED`.

## 5. Disagreements between the code and what is said of it

Two runs show one each; `findings` quotes the sentences.

1. The retry of schema intelligence is never taken (`graph_retry`).
2. A job's status is visible before its result, and the route then answers
   `processing` (`profile_runs_torn`).

Seen while modelling, and not shown by a run of their own. In the Orchestrator
and Agents 1 and 2:

* the guardrail of a master's deletion counts active copies in one transaction
  and is relied on in a later one (`reference_counter.py:112`,
  `metadata_cache.py:338-340`): a copy committed in between goes with its master;
* overlapping reviews decide one suggestion twice (`rule_suggestions.py:78`,
  `approval_service.py:17`); `OnlyOverlapDecidesTwice` says that nothing else does;
* a `processing` answer of Agent 2 is cached as the result of the content
  (`AO/agents/orchestration_agent/nodes/pipeline.py:612`);
* a deletion's unlink may remove the file of a row registered after the deletion
  committed (`dataset_registry.py`, `storage.py`); `DanglingOnlyWhenOvertaken`
  says that this is the only way;
* a different file uploaded under a known name keeps the classification and the
  column descriptions of the earlier one
  (`SI/agents/schema_intelligence_agent/nodes/pipeline.py`,
  `reuse_existing_classification_node`), while the row's counts and types are
  the new file's;
* a process that starts may set the id sequence back, if another draws an id
  between the statement and the commit, though `SI/services/database.py:122-123`
  says it only moves forward; `NoIdClash` says that this is the only way to a
  clash. The first id of a new database is `DS_002`;
* the listing of masters reports `has_cached_results` as false for every row
  (`metadata_cache.py:369`);
* a forced deletion still fails when a newer version's foreign key names the
  row (`metadata_cache.py:44`; `DeleteMasterRow`'s "blocked"), though
  `reference_counter.py:98` lets `force` override;
* a decrement that comes late may be charged to a row created anew for the same
  content (`reference_counter.py:87`), so the lower bound of the count is only
  claimed while no master is deleted;
* a slow unforced run that ends after a `force_revalidate` run overwrites its
  refreshed cache entry (`metadata_cache.py:287`);
* a cache hit ignores the question, target column and rules of the request, the
  fingerprint being the only key;
* with the registry unavailable, `force_revalidate` does not reach Agent 1 as
  `force_reclassify` (`AO/agents/orchestration_agent/nodes/pipeline.py:413-422`),
  which is why `ForcedIsFresh` asks for the fingerprint there;
* `/pipeline/ask` answers 404 for ever for a run answered `processing`;
* a named target column is lost when the feature-target agent raises
  (`DP/agents/data_profiling_agent/nodes/pipeline.py:387-392`), so
  `CallerNotOverruled` says what may not take its place, not that it is kept;
* a run's directory stays on disk after a restart, and after an error of its
  removal, which `temporary_storage.py:61` ignores and reports as success;
  `cleanup_all` has no caller. `graph.py:174` ("always clean up the temp file") and
  `temporary_storage.py:1` ("cleanup guarantees") say otherwise. `ThreadsRunTasks`
  and `KeepsTaskPromise` say that nothing else leaves one;
* a profile run may be stored though its caller got an error or nothing, when
  the process dies or the connection breaks between commit and answer
  (`profile_runs.py:243-271`): a caller who tries again stores it twice;
* an approval that fails after its commit (`rule_suggestions.py:83-87`) has made
  its rule; whoever repeats it is told of a conflict;
* an approved suggestion of a type the loader does not know is never evaluated,
  and of two approved rules with one key either may be cited.

In Agent 2's analysis:

* the drill-down route passes no cubes (`profile_runs.py:477-482`, "not yet
  persisted"), so that over HTTP its data are always empty; its tests pass cubes
  to the service directly. `drilldown_service.py` says that levels follow the
  order of the hierarchy and does not check it: a path that is no prefix gets
  empty data and no error, whatever the cubes. The cubes hold sums of the first
  metric whatever metric a chart shows;
* `dataset_profiler.py:94-110` makes normalised keys unique by a suffix that may
  itself be taken (`amount`, `amount`, `amount_1`); the template matcher's dict
  then loses a column;
* "ready" is possible with blocking issues; `config/readiness_weights.yaml` and
  the hierarchy thresholds of the configuration are not read by the engines,
  whose own numbers differ; a task compatibility is reported without a question,
  against `readiness_engine.py:39-41`;
* `chain_selector.py` promises template priority as its last tie-break and takes
  the order of match ratios first; its average confidence does not tell apart
  stretches of one template;
* coverage by descriptions may exceed 1, a described column being one the file
  need not have; a file none of whose dimensions could be assessed passes the
  gate.

In Agent 3:

* the trace of a single analysis names Prophet, Isolation Forest or K-Means for a
  gated intent also when another algorithm ran (`graph.py:53-59`; `SingleTrace`);
* a forecast that the insurance plugin adds for less than ten rows is shown as
  blocked by readiness though the score admits it, against
  `model_selector.py:76-81`;
* a curated question may plan nothing, which `thin_kpi_plugin.py:20-27` rules out;
* `scheduling_budget.yml` speaks of falling through past the budget of expensive
  models, and the selector takes the expensive one when there is no other;
* some rules plan columns in another order than their analyzer reads them
  (correlation gets a date first, ranking an identifier, comparison two levels);
* the rows a model requires are counted before the filters are applied;
* in report mode `_compute_confidence` finds none of the fields it looks for: the
  path through Groq always reports "LOW";
* a fit for a question overwrites `trained_at` in the registry of models, which
  `graph.py:177-201` presents as the training's time;
* an indicator generated without a domain plugin is written into a directory that
  does not exist: the call fails, and so does each later one that carries the
  indicator; the same goes for a filter on a column another file does not have or
  whose values it cannot be compared with (`ErrorHasACause` lists these);
* a torn `model_registry.json` or indicator file is never repaired, as every
  update reads it first;
* models are "up to date" when their files are newer than the dataset, also when
  they were trained on the dataset before it, and always when the dataset was
  copied with an old time stamp; a check that raises starts the service with
  whatever models there are (`boot_trainer.py:138-143`); the trainer a killed
  service leaves behind overlaps with the next one's.

## 6. What is not modelled

Numerical and statistical code on data frames (clustering, forecasting, the
statistics of an analyzer), the semantic roles and keyword scores of Agent 2
(`semantic_candidate_generator.py`, `DP/services/classification`: constants and
inputs of `DatasetProfiling`), how one quality rule is evaluated on a row, Agent
1's scores of a file (an outcome of its gate), SQL, prompts and LLM loops (their
outcomes are choices of the nodes that use them), the choice and layout of
charts, wording of answers, settings, logging, HTTP plumbing, and the services'
read-only listings. Of Agent 3, the parsing of forms, the limit of upload sizes
and predictors persisted for one question are left out, and so are defects of a node's
own code that make it raise on inputs it takes (`AnalyticsRun` says nothing of
them, except in an analyzer, whose exceptions are caught). Which models a
selector picked is checked (`ModelsOnlyWhenReady`), not what an analyzer fits by
itself. The legacy
sequential orchestrator of Agent 2 is superseded by the graph. Postgres is
modelled through what the code uses of it: a statement or a commit is atomic,
foreign keys and conflicts behave as declared.

## 7. Plan

Done, in this order: registry, its lineage, profiling task, graph, runs, rule
review, pipeline, catalogue of Agent 1; one call of Agent 3, its service, its
models; Agent 2's analysis; proofs of every safety property of every state
machine.

Left, in this order:

1. Agent 1's quality validator and Agent 2's rule engine as operators over the
   tables of `ColumnProfiles`.
