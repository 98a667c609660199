----------------------- MODULE AnalyticsServiceProofs -----------------------
(***************************************************************************)
(* What a call of the analytics agent remembers of its conversation, why   *)
(* it fails, what it plans, schedules and lets a model run, and whom its   *)
(* trace blames: proved for any calls, any window of turns, any budgets    *)
(* and threshold and any number of outages and killed processes.           *)
(***************************************************************************)
EXTENDS AnalyticsService, FiniteSetTheorems, WellFoundedInduction, TLAPS

ServiceVars == << vars, service >>

\* Stored turns are numbered in the order of their inserts.
Numbered == \A i \in 1..Len(turns) : turns[i].id = i

\* What a call that has not recorded its turn knows of them.
CallKnows ==
  /\ turn = << >>
  /\ IF mem.loaded
     THEN /\ mem.counter = Len(turns)
          /\ turns # << >> => Last(mem.history) = Last(turns)
     ELSE turns = << >> /\ mem.counter = 0

MemoryInv ==
  /\ \E S : turns \in Seq(S)
  /\ ~missed =>
       /\ Numbered
       /\ pc \notin {"done", "trace"} => CallKnows

LEMMA StartsInOrder == ServiceInit => MemoryInv
  BY DEF ServiceInit, MemoryInv, Numbered, CallKnows

\* The nodes of the graph leave the turns and the call's memory alone, and
\* only record_memory sets its turn.
LEMMA GraphKeepsMemory ==
  ASSUME MemoryInv, GraphStep \/ InterpretQuestion, pc # "done", UNCHANGED service
  PROVE  MemoryInv'
<1>1. turn' = turn /\ pc \notin {"done"}
  BY DEF GraphStep, BuildDatasetContext, ContextFails, Fail, Resolve, Discover, PlanAnalytics, ScheduleAnalyses, NothingPlanned,
         FetchFails, AdaptEvidence, FetchFiltered, RunAnalysis, Narrate, BuildTrace, InterpretQuestion
<1>2. pc = "trace" => pc' = "done"
  BY DEF GraphStep, BuildDatasetContext, ContextFails, Fail, Resolve, Discover, PlanAnalytics, ScheduleAnalyses, NothingPlanned,
         FetchFails, AdaptEvidence, FetchFiltered, RunAnalysis, Narrate, BuildTrace, InterpretQuestion
<1>3. turns' = turns /\ mem' = mem /\ missed' = missed
  BY DEF service
<1> QED BY <1>1, <1>2, <1>3 DEF MemoryInv, Numbered, CallKnows

\* The turn loaded last is the one stored last: of the highest numbers it is
\* the highest.
LEMMA LoadsLatest ==
  ASSUME NEW S, turns \in Seq(S), Numbered, NEW h \in LoadTurns(turns)
  PROVE  /\ turns = << >> => h = << >>
         /\ turns # << >> => h # << >> /\ Last(h) = Last(turns) /\ Last(h).id = Len(turns)
<1> DEFINE n == IF Len(turns) < MaxTurns THEN Len(turns) ELSE MaxTurns
<1>1. Len(turns) \in Nat /\ n \in Nat /\ n <= Len(turns) /\ DOMAIN turns = 1..Len(turns)
  BY MaxTurnsAssumption
<1>2. PICK pick \in [1..n -> DOMAIN turns] :
        /\ \A i, j \in DOMAIN pick : i < j => pick[i] # pick[j] /\ turns[pick[i]].id <= turns[pick[j]].id
        /\ \A k \in DOMAIN turns \ Range(pick) : \A i \in DOMAIN pick : turns[k].id <= turns[pick[i]].id
        /\ h = [i \in DOMAIN pick |-> turns[pick[i]]]
  BY DEF LoadTurns
<1>3. DOMAIN pick = 1..n /\ h = [i \in 1..n |-> turns[pick[i]]] /\ \A i \in 1..n : pick[i] \in 1..Len(turns)
  BY <1>1, <1>2
<1> HIDE DEF n
<1>4. h \in Seq(S) /\ Len(h) = n
  BY <1>1, <1>3
<1>5. \A i \in 1..n : turns[pick[i]].id = pick[i]
  BY <1>3 DEF Numbered
<1>6. ASSUME turns # << >> PROVE n >= 1 /\ Len(turns) >= 1
  BY <1>1, <1>6, MaxTurnsAssumption DEF n
<1>7. ASSUME turns # << >> PROVE pick[n] = Len(turns)
  <2>1. CASE Len(turns) \notin Range(pick)
    <3>1. turns[Len(turns)].id = Len(turns) /\ Len(turns) \in DOMAIN turns
      BY <1>1, <1>6, <1>7 DEF Numbered
    <3>2. Len(turns) <= pick[n]
      BY <1>1, <1>2, <1>3, <1>5, <1>6, <1>7, <2>1, <3>1
    <3> QED BY <1>1, <1>3, <1>6, <1>7, <3>2
  <2>2. CASE Len(turns) \in Range(pick)
    <3>1. PICK j \in 1..n : pick[j] = Len(turns)
      BY <1>3, <2>2 DEF Range
    <3>2. n \in DOMAIN pick /\ j \in DOMAIN pick
      BY <1>1, <1>3, <1>6, <1>7
    <3>3. j < n => pick[j] # pick[n] /\ turns[pick[j]].id <= turns[pick[n]].id
      BY <1>2, <3>2
    <3> QED BY <1>1, <1>3, <1>5, <1>6, <1>7, <3>1, <3>2, <3>3
  <2> QED BY <2>1, <2>2
<1>8. ASSUME turns = << >> PROVE h = << >>
  BY <1>1, <1>3, <1>4, <1>8 DEF n
<1>9. ASSUME turns # << >> PROVE h # << >> /\ Last(h) = Last(turns) /\ Last(h).id = Len(turns)
  BY <1>1, <1>3, <1>4, <1>5, <1>6, <1>7, <1>9 DEF Last
<1> QED BY <1>8, <1>9

----------------------------------------------------------------------------
(* The steps of the service *)

LEMMA ReceiveKeeps ==
  ASSUME MemoryInv, NEW c, Receive(c)
  PROVE  MemoryInv'
<1>1. turns' = turns /\ turn' = << >> /\ missed' \in {missed, missed \/ turns # << >>}
  BY DEF Receive, NewRun, ClearRun
<1>2. PICK S : turns \in Seq(S)
  BY DEF MemoryInv
<1>3. SUFFICES ASSUME ~missed' PROVE Numbered' /\ CallKnows'
  BY <1>1, <1>2 DEF MemoryInv
<1>4. ~missed /\ Numbered
  BY <1>1, <1>3 DEF MemoryInv
<1>5. CASE Stored
  <2>1. PICK h \in LoadTurns(turns) : mem' = Memory(h)
    BY <1>5 DEF Receive, NewRun
  <2>2. /\ turns = << >> => h = << >>
        /\ turns # << >> => h # << >> /\ Last(h) = Last(turns) /\ Last(h).id = Len(turns)
    BY <1>2, <1>4, LoadsLatest
  <2>3. mem'.loaded /\ mem'.history = h /\ mem'.counter = Len(turns)
    BY <1>2, <2>1, <2>2 DEF Memory
  <2> QED BY <1>1, <1>4, <2>2, <2>3 DEF Numbered, CallKnows
<1>6. CASE ~Stored
  <2>1. turns = << >> /\ mem' = NoMemory
    BY <1>3, <1>6 DEF Receive, NewRun
  <2> QED BY <1>1, <1>4, <2>1 DEF Numbered, CallKnows, NoMemory
<1> QED BY <1>5, <1>6

LEMMA RememberKeeps ==
  ASSUME MemoryInv, Remember
  PROVE  MemoryInv'
<1>1. pc = "record_memory" /\ pc' = "trace" /\ missed' = missed
  BY DEF Remember, RecordMemory
<1>2. PICK S : turns \in Seq(S)
  BY DEF MemoryInv
<1> DEFINE row == NewRow(mem, turn'[1])
<1>3. turns' = turns \/ turns' = Append(turns, row)
  BY DEF Remember
<1>4. turns' \in Seq(S \cup {row})
  BY <1>2, <1>3
<1>5. ASSUME ~missed PROVE Numbered'
  <2>1. row.id = Len(turns) + 1
    BY <1>1, <1>2, <1>5 DEF MemoryInv, CallKnows, NewRow, TurnNumber
  <2>2. Numbered
    BY <1>5 DEF MemoryInv
  <2> HIDE DEF row
  <2>3. CASE turns' = turns
    BY <2>2, <2>3 DEF Numbered
  <2>4. CASE turns' = Append(turns, row)
    <3>1. /\ Len(turns') = Len(turns) + 1
          /\ \A i \in 1..Len(turns) : turns'[i] = turns[i]
          /\ turns'[Len(turns) + 1] = row
      BY <1>2, <2>4
    <3>2. Len(turns) \in Nat
      BY <1>2
    <3> QED BY <2>1, <2>2, <3>1, <3>2 DEF Numbered
  <2> QED BY <1>3, <2>3, <2>4
<1> QED BY <1>1, <1>4, <1>5 DEF MemoryInv

\* A start, an outage, a killed process, an indicator that is written.
LEMMA AsideKeeps ==
  ASSUME MemoryInv,
         \/ StartService \/ DatabaseFails \/ DatabaseRecovers \/ ServiceDies
         \/ \E c \in NextCalls : ReceiveFails(c)
         \/ OpenKPIFile \/ WriteKPIFile \/ WriteRefused \/ KPIFileMissing \/ Finished
         \/ UNCHANGED ServiceVars
  PROVE  MemoryInv'
<1>1. turns' = turns /\ missed' = missed
  BY DEF StartService, DatabaseFails, DatabaseRecovers, ServiceDies, ReceiveFails, OpenKPIFile, WriteKPIFile,
         WriteRefused, KPIFileMissing, Fail, Finished, ServiceVars, service
<1>2. \/ pc' = "done"
      \/ turn' = turn /\ mem' = mem /\ pc \notin {"done", "trace"}
      \/ turn' = turn /\ mem' = mem /\ pc' = pc
  BY DEF StartService, DatabaseFails, DatabaseRecovers, ServiceDies, ReceiveFails, Begin, OpenKPIFile, WriteKPIFile,
         WriteRefused, KPIFileMissing, Fail, Finished, ServiceVars, service, vars
<1> QED BY <1>1, <1>2 DEF MemoryInv, Numbered, CallKnows

LEMMA MemoryKept == MemoryInv /\ [ServiceNext]_ServiceVars => MemoryInv'
<1> SUFFICES ASSUME MemoryInv, [ServiceNext]_ServiceVars PROVE MemoryInv'
  OBVIOUS
<1>1. CASE \E c \in NextCalls : Receive(c)
  BY <1>1, ReceiveKeeps
<1>2. CASE Remember
  BY <1>2, RememberKeeps
<1>3. CASE InterpretKnown
  BY <1>3, GraphKeepsMemory DEF InterpretKnown
<1>4. CASE pc # "done" /\ GraphStep /\ UNCHANGED service
  BY <1>4, GraphKeepsMemory
<1> QED BY <1>1, <1>2, <1>3, <1>4, AsideKeeps DEF ServiceNext

\* memory.py, MemoryManager.load: whatever the size of the window, the calls
\* and the restarts, a call carries over the turn that was stored last, unless
\* a call before it found the database out of reach.
THEOREM LatestIsRemembered == ServiceSpec => []MemoryIsLatest
<1>1. MemoryInv => MemoryIsLatest
  BY DEF MemoryInv, CallKnows, MemoryIsLatest, Nodes
<1> QED BY <1>1, StartsInOrder, MemoryKept, PTL DEF ServiceSpec, ServiceVars

----------------------------------------------------------------------------
(* The causes of errors.  A turn that queried its file carries filters of  *)
(* that file only, an indicator file is torn only while it is written or   *)
(* after a process was killed or a write refused, and only a call that has *)
(* ended has failed.                                                       *)

KPIFiles == \E A : kpiFile \in [PluginKinds -> [torn : BOOLEAN, added : A]]

Counts == count \in [calls : Nat, outages : Nat, deaths : Nat, refusals : Nat]

RowOfItsFile(row) == row.fetched => row.filters \subseteq row.columns

RowsOfTheirFiles ==
  /\ \E S : turns \in Seq(S)
  /\ \A i \in 1..Len(turns) : RowOfItsFile(turns[i])

CallShape(c) ==
  /\ {"ds", "question", "ml", "plugin", "last", "broken"} \subseteq DOMAIN c
  /\ c.ml \in Nat /\ c.ds.rows \in Nat
  /\ {"kind", "kpis", "valid"} \subseteq DOMAIN c.plugin
  /\ c.plugin.kind \in PluginKinds

TornWhenCut ==
  \A kind \in PluginKinds :
    kpiFile[kind].torn => count.deaths + count.refusals > 0 \/ (pc = "write_kpi" /\ kind = call.plugin.kind)

Early == {"build_dataset_context", "resolve_capabilities", "discover_kpis", "interpret_question", "write_kpi"}

\* What a call that has not recorded its turn has carried over and fetched.
Carried ==
  /\ CallShape(call)
  /\ call.last = LastTurn(mem)
  /\ mem.history # << >> => RowOfItsFile(Last(mem.history))
  /\ frame # << >> => ActiveFilters \subseteq Queryable(call)
  /\ pc \in Early => frame = << >>

CauseInv ==
  /\ KPIFiles
  /\ Counts
  /\ RowsOfTheirFiles
  /\ TornWhenCut
  /\ status = "error" => pc = "done"
  /\ ErrorHasACause
  /\ pc \notin {"done", "trace"} => Carried

LEMMA StartsWithoutCause == ServiceInit => CauseInv
<1> SUFFICES ASSUME ServiceInit PROVE CauseInv
  OBVIOUS
<1>1. KPIFiles
  <2>1. kpiFile \in [PluginKinds -> [torn : BOOLEAN, added : {{}}]]
    BY DEF ServiceInit
  <2> QED BY <2>1 DEF KPIFiles
<1>2. RowsOfTheirFiles
  <2>1. turns \in Seq({})
    BY DEF ServiceInit
  <2> QED BY <2>1 DEF RowsOfTheirFiles, ServiceInit
<1>3. Counts /\ pc = "done" /\ status # "error" /\ TornWhenCut
  BY DEF ServiceInit, Counts, TornWhenCut, None
<1> QED BY <1>1, <1>2, <1>3 DEF CauseInv, ErrorHasACause

\* What a call does to its own state only.
LEMMA OwnStepKeeps ==
  ASSUME CauseInv, kpiFile' = kpiFile, count' = count, turns' = turns,
         pc # "write_kpi", pc' # "write_kpi",
         status' = "error" => pc' = "done",
         ErrorHasACause',
         (pc' \notin {"done", "trace"}) => Carried'
  PROVE  CauseInv'
<1>1. KPIFiles' /\ Counts' /\ RowsOfTheirFiles'
  BY DEF CauseInv, KPIFiles, Counts, RowsOfTheirFiles
<1>2. TornWhenCut'
  BY DEF CauseInv, TornWhenCut
<1> QED BY <1>1, <1>2 DEF CauseInv

\* A node that neither fetches nor fails.
LEMMA NodeKeepsCause ==
  ASSUME CauseInv, UNCHANGED service, call' = call, frame' = frame, pc # "done", pc # "write_kpi",
         pc' \notin Early \/ pc \in Early, pc' # "write_kpi",
         frame = << >> \/ intent' = intent,
         pc = "trace" => pc' = "done",
         status' # "error"
  PROVE  CauseInv'
<1>1. mem' = mem /\ kpiFile' = kpiFile /\ count' = count /\ turns' = turns
  BY DEF service
<1>2. ErrorHasACause'
  BY DEF ErrorHasACause
<1>3. (pc' \notin {"done", "trace"}) => Carried'
  BY <1>1 DEF CauseInv, Carried, ActiveFilters
<1> QED BY <1>1, <1>2, <1>3, OwnStepKeeps

LEMMA PlainNodesKeepCause ==
  ASSUME CauseInv, UNCHANGED service,
         \/ BuildDatasetContext \/ Resolve \/ Discover \/ InterpretQuestion
         \/ PlanAnalytics \/ ScheduleAnalyses \/ NothingPlanned \/ AdaptEvidence
         \/ \E raises : RunAnalysis(raises)
         \/ \E engine : Narrate(engine)
         \/ BuildTrace
  PROVE  CauseInv'
<1>1. call' = call /\ frame' = frame /\ (pc' \notin Early \/ pc \in Early)
  BY DEF BuildDatasetContext, Resolve, Discover, InterpretQuestion, PlanAnalytics, ScheduleAnalyses,
         NothingPlanned, AdaptEvidence, RunAnalysis, Narrate, BuildTrace, Early
<1>2. pc \notin {"done", "write_kpi"} /\ pc' # "write_kpi" /\ (pc = "trace" => pc' = "done")
  BY DEF BuildDatasetContext, Resolve, Discover, InterpretQuestion, PlanAnalytics, ScheduleAnalyses,
         NothingPlanned, AdaptEvidence, RunAnalysis, Narrate, BuildTrace
<1>3. status' = status \/ status' = "ok"
  BY DEF BuildDatasetContext, Resolve, Discover, InterpretQuestion, PlanAnalytics, ScheduleAnalyses,
         NothingPlanned, AdaptEvidence, RunAnalysis, Narrate, BuildTrace
<1>4. intent' = intent \/ pc = "interpret_question"
  BY DEF BuildDatasetContext, Resolve, Discover, InterpretQuestion, PlanAnalytics, ScheduleAnalyses,
         NothingPlanned, AdaptEvidence, RunAnalysis, Narrate, BuildTrace
<1>5. pc = "interpret_question" => frame = << >>
  BY DEF CauseInv, Carried, Early
<1>6. status' # "error"
  BY <1>2, <1>3 DEF CauseInv
<1> QED BY <1>1, <1>2, <1>4, <1>5, <1>6, NodeKeepsCause

\* The query of the call names columns of the file that its filters fit.
LEMMA FetchKeepsCause ==
  ASSUME CauseInv, UNCHANGED service, NEW kept, FetchFiltered(kept)
  PROVE  CauseInv'
<1>1. /\ pc = "execute_analyses" /\ pc' = pc /\ call' = call /\ intent' = intent /\ status' = status
      /\ ActiveFilters \subseteq Queryable(call)
  BY DEF FetchFiltered
<1>2. mem' = mem /\ kpiFile' = kpiFile /\ count' = count /\ turns' = turns
  BY DEF service
<1>3. status' # "error"
  BY <1>1 DEF CauseInv
<1>4. Carried'
  BY <1>1, <1>2 DEF CauseInv, Carried, ActiveFilters, Early
<1> QED BY <1>1, <1>2, <1>3, <1>4, OwnStepKeeps DEF ErrorHasACause

\* A query that fails meets a value it cannot read, or names a column of the
\* question or of the last turn that the file does not admit.
LEMMA FetchFailsForACause ==
  ASSUME CauseInv, UNCHANGED service, FetchFails
  PROVE  CauseInv'
<1>1. /\ pc = "execute_analyses" /\ pc' = "done" /\ call' = call
      /\ ~(ActiveFilters \subseteq Queryable(call)) \/ call.broken = "query"
  BY DEF FetchFails, Fail
<1>2. mem' = mem /\ kpiFile' = kpiFile /\ count' = count /\ turns' = turns
  BY DEF service
<1>3. call.last = LastTurn(mem) /\ (mem.history # << >> => RowOfItsFile(Last(mem.history)))
  BY <1>1 DEF CauseInv, Carried
<1>4. \/ ~(call.question.filters \subseteq Queryable(call)) \/ ~(call.last.filters \subseteq Queryable(call))
      \/ call.broken = "query"
  BY <1>1 DEF ActiveFilters, Filters
<1>5. CASE ~(call.last.filters \subseteq Queryable(call))
  <2>1. mem.history # << >> /\ call.last.filters = Last(mem.history).filters
    BY <1>3, <1>5 DEF LastTurn
  <2>2. Last(mem.history).columns # Queryable(call) \/ ~Last(mem.history).fetched
    BY <1>3, <1>5, <2>1 DEF RowOfItsFile
  <2> QED BY <1>1, <1>2, <2>1, <2>2, OwnStepKeeps DEF ErrorHasACause, Queryable
<1>6. CASE ~(call.question.filters \subseteq Queryable(call))
  BY <1>1, <1>2, <1>6, OwnStepKeeps DEF ErrorHasACause, Queryable
<1>7. CASE call.broken = "query"
  <2>1. call'.broken # None
    BY <1>1, <1>7 DEF None
  <2> QED BY <1>1, <1>2, <2>1, OwnStepKeeps DEF ErrorHasACause
<1> QED BY <1>4, <1>5, <1>6, <1>7

\* So does an upload that cannot be read.
LEMMA ContextFailsForACause ==
  ASSUME CauseInv, UNCHANGED service, ContextFails
  PROVE  CauseInv'
<1>1. pc # "write_kpi" /\ pc' = "done" /\ call'.broken # None
  BY DEF ContextFails, Fail, None
<1>2. kpiFile' = kpiFile /\ count' = count /\ turns' = turns
  BY DEF service
<1> QED BY <1>1, <1>2, OwnStepKeeps DEF ErrorHasACause

LEMMA GraphKeepsCause ==
  ASSUME CauseInv, GraphStep \/ InterpretQuestion, UNCHANGED service
  PROVE  CauseInv'
  BY PlainNodesKeepCause, FetchKeepsCause, FetchFailsForACause, ContextFailsForACause DEF GraphStep

----------------------------------------------------------------------------
(* The causes of errors: the steps of the service *)

LEMMA LoadsStored ==
  ASSUME NEW S, turns \in Seq(S), NEW h \in LoadTurns(turns), h # << >>
  PROVE  \E k \in 1..Len(turns) : Last(h) = turns[k]
<1> DEFINE n == IF Len(turns) < MaxTurns THEN Len(turns) ELSE MaxTurns
<1>1. Len(turns) \in Nat /\ n \in Nat /\ n <= Len(turns) /\ DOMAIN turns = 1..Len(turns)
  BY MaxTurnsAssumption
<1>2. PICK pick \in [1..n -> DOMAIN turns] : h = [i \in DOMAIN pick |-> turns[pick[i]]]
  BY DEF LoadTurns
<1> HIDE DEF n
<1>3. h = [i \in 1..n |-> turns[pick[i]]] /\ \A i \in 1..n : pick[i] \in 1..Len(turns)
  BY <1>1, <1>2
<1>4. h \in Seq(S) /\ Len(h) = n
  BY <1>1, <1>3
<1>5. n >= 1
  BY <1>1, <1>4
<1> QED BY <1>1, <1>3, <1>4, <1>5 DEF Last

LEMMA ReceiveCarries ==
  ASSUME CauseInv, NEW c \in NextCalls, Receive(c)
  PROVE  CauseInv'
<1>1. /\ pc = "done" /\ pc' = "build_dataset_context" /\ status' = None /\ frame' = << >>
      /\ turns' = turns /\ kpiFile' = kpiFile
      /\ call' = [c EXCEPT !.plugin.kpis = WithAdded(@, kpiFile[c.plugin.kind].added), !.last = LastTurn(mem')]
  BY DEF Receive, Begin, NewRun, ClearRun
<1>2. CallShape(c)
  BY CallsAssumption DEF NextCalls, CallShape
<1>3. CallShape(call') /\ call'.last = LastTurn(mem')
  BY <1>1, <1>2 DEF CallShape
<1>4. mem'.history # << >> => RowOfItsFile(Last(mem'.history))
  <2>1. CASE mem' = NoMemory
    BY <2>1 DEF NoMemory
  <2>2. ASSUME NEW h \in LoadTurns(turns), mem' = Memory(h)
        PROVE  mem'.history # << >> => RowOfItsFile(Last(mem'.history))
    BY <2>2, LoadsStored DEF CauseInv, RowsOfTheirFiles, Memory
  <2> QED BY <2>1, <2>2 DEF Receive, NewRun
<1>5. Carried'
  BY <1>1, <1>3, <1>4 DEF Carried
<1>6. Counts' /\ count'.deaths = count.deaths /\ count'.refusals = count.refusals
  BY DEF Receive, Begin, CauseInv, Counts
<1>7. TornWhenCut'
  BY <1>1, <1>6 DEF CauseInv, TornWhenCut
<1>8. KPIFiles' /\ RowsOfTheirFiles' /\ status' # "error"
  BY <1>1 DEF CauseInv, KPIFiles, RowsOfTheirFiles, None
<1> QED BY <1>1, <1>5, <1>6, <1>7, <1>8 DEF CauseInv, ErrorHasACause

\* A call whose rule engine cannot be built finds a file that was cut short, or
\* one that is not valid; else its own upload cannot be read.
LEMMA ReceiveFailsForACause ==
  ASSUME CauseInv, NEW c \in NextCalls, ReceiveFails(c)
  PROVE  CauseInv'
<1>1. /\ pc = "done" /\ pc' = "done" /\ call' = c /\ ~Buildable(c)
      /\ turns' = turns /\ kpiFile' = kpiFile
  BY DEF ReceiveFails, Begin
<1>2. Counts' /\ count'.deaths = count.deaths /\ count'.refusals = count.refusals
  BY DEF ReceiveFails, Begin, CauseInv, Counts
<1>3. c.plugin.kind \in PluginKinds
  BY CallsAssumption DEF NextCalls
<1>4. kpiFile[c.plugin.kind].torn => count'.deaths + count'.refusals > 0
  BY <1>1, <1>2, <1>3 DEF CauseInv, TornWhenCut
<1>5. TornWhenCut'
  BY <1>1, <1>2 DEF CauseInv, TornWhenCut
<1>6. ErrorHasACause'
  BY <1>1, <1>4 DEF ErrorHasACause, Buildable, None
<1> QED BY <1>1, <1>2, <1>5, <1>6 DEF CauseInv, KPIFiles, RowsOfTheirFiles

LEMMA DeathKeepsCause ==
  ASSUME CauseInv, ServiceDies
  PROVE  CauseInv'
<1>1. pc' = "done" /\ status' # "error" /\ turns' = turns /\ kpiFile' = kpiFile
  BY DEF ServiceDies, ClearRun, None
<1>2. Counts' /\ count'.deaths + count'.refusals > 0
  BY DEF ServiceDies, CauseInv, Counts
<1> QED BY <1>1, <1>2 DEF CauseInv, KPIFiles, RowsOfTheirFiles, TornWhenCut, ErrorHasACause

\* A start, an outage and its end.
LEMMA WorldKeepsCause ==
  ASSUME CauseInv, StartService \/ DatabaseFails \/ DatabaseRecovers \/ Finished \/ UNCHANGED ServiceVars
  PROVE  CauseInv'
<1>1. UNCHANGED << vars, turns, mem, kpiFile, refused >>
  BY DEF StartService, DatabaseFails, DatabaseRecovers, Finished, ServiceVars, service
<1>2. Counts' /\ count'.deaths = count.deaths /\ count'.refusals = count.refusals
  BY DEF StartService, DatabaseFails, DatabaseRecovers, Finished, ServiceVars, service, CauseInv, Counts
<1>3. KPIFiles' /\ RowsOfTheirFiles' /\ TornWhenCut'
  BY <1>1, <1>2 DEF vars, CauseInv, KPIFiles, RowsOfTheirFiles, TornWhenCut
<1>4. ErrorHasACause'
  BY <1>1, <1>2 DEF vars, CauseInv, ErrorHasACause, Queryable, Unknown, ResolvedName, ResolvedKPI
<1>5. (pc' \notin {"done", "trace"}) => Carried'
  BY <1>1 DEF vars, CauseInv, Carried, ActiveFilters
<1> QED BY <1>1, <1>2, <1>3, <1>4, <1>5 DEF vars, CauseInv

\* The indicator file is torn from its opening to its last write.
LEMMA OpenKeepsCause ==
  ASSUME CauseInv, OpenKPIFile
  PROVE  CauseInv'
<1>1. /\ pc = "interpret_question" /\ pc' = "write_kpi" /\ status' = status
      /\ call' = call /\ frame' = frame /\ intent' = intent /\ turns' = turns /\ mem' = mem /\ count' = count
      /\ kpiFile' = [kpiFile EXCEPT ![call.plugin.kind].torn = TRUE]
  BY DEF OpenKPIFile
<1>2. call.plugin.kind \in PluginKinds
  BY <1>1 DEF CauseInv, Carried, CallShape
<1>3. PICK A : kpiFile \in [PluginKinds -> [torn : BOOLEAN, added : A]]
  BY DEF CauseInv, KPIFiles
<1>4. kpiFile' \in [PluginKinds -> [torn : BOOLEAN, added : A]]
  BY <1>1, <1>2, <1>3
<1>5. \A kind \in PluginKinds \ {call.plugin.kind} : kpiFile'[kind] = kpiFile[kind]
  BY <1>1, <1>2, <1>3
<1>6. TornWhenCut'
  BY <1>1, <1>5 DEF CauseInv, TornWhenCut
<1>7. Carried'
  BY <1>1 DEF CauseInv, Carried, ActiveFilters, Early
<1> QED BY <1>1, <1>4, <1>6, <1>7 DEF CauseInv, KPIFiles, Counts, RowsOfTheirFiles, ErrorHasACause

LEMMA WriteKeepsCause ==
  ASSUME CauseInv, WriteKPIFile
  PROVE  CauseInv'
<1> DEFINE k == call.plugin.kind
           added == kpiFile[k].added \union {ResolvedName(call)}
<1>1. /\ pc = "write_kpi" /\ pc' = "interpret_question" /\ status' = status
      /\ frame' = frame /\ intent' = intent /\ turns' = turns /\ mem' = mem /\ count' = count
      /\ kpiFile' = [kpiFile EXCEPT ![k] = [torn |-> FALSE, added |-> added]]
      /\ call' = [call EXCEPT !.plugin.kpis = WithAdded(@, {ResolvedName(call)})]
  BY DEF WriteKPIFile
<1>2. CallShape(call) /\ k \in PluginKinds
  BY <1>1 DEF CauseInv, Carried, CallShape
<1>3. PICK A : kpiFile \in [PluginKinds -> [torn : BOOLEAN, added : A]]
  BY DEF CauseInv, KPIFiles
<1> HIDE DEF added
<1>4. kpiFile' \in [PluginKinds -> [torn : BOOLEAN, added : A \union {added}]]
  BY <1>1, <1>2, <1>3
<1>5. CallShape(call') /\ call'.last = call.last /\ call'.plugin.kind = k
  BY <1>1, <1>2 DEF CallShape
<1>6. \A kind \in PluginKinds : kpiFile'[kind].torn => kind # k /\ kpiFile'[kind] = kpiFile[kind]
  BY <1>1, <1>2, <1>3
<1>7. TornWhenCut'
  BY <1>1, <1>6 DEF CauseInv, TornWhenCut
<1>8. Carried'
  BY <1>1, <1>5 DEF CauseInv, Carried, Early
<1>9. status' # "error"
  BY <1>1 DEF CauseInv
<1> QED BY <1>1, <1>4, <1>7, <1>8, <1>9 DEF CauseInv, KPIFiles, Counts, RowsOfTheirFiles, ErrorHasACause

\* A write that is refused, before or after the file was cut.
LEMMA RefusalIsACause ==
  ASSUME CauseInv, WriteRefused
  PROVE  CauseInv'
<1>1. pc' = "done" /\ turns' = turns /\ kpiFile' = kpiFile /\ refused' = TRUE
  BY DEF WriteRefused, Fail
<1>2. Counts' /\ count'.deaths + count'.refusals > 0
  BY DEF WriteRefused, CauseInv, Counts
<1> QED BY <1>1, <1>2 DEF CauseInv, KPIFiles, RowsOfTheirFiles, TornWhenCut, ErrorHasACause

\* The plugin without a directory of its own is the generic one.
LEMMA MissingFileIsACause ==
  ASSUME CauseInv, KPIFileMissing
  PROVE  CauseInv'
<1>1. /\ pc = "interpret_question" /\ pc' = "done" /\ call' = call
      /\ call.plugin.kind = "generic" /\ Unknown
  BY DEF KPIFileMissing, Fail, MayGenerate, HasKPIFile
<1>2. mem' = mem /\ kpiFile' = kpiFile /\ count' = count /\ turns' = turns
  BY DEF KPIFileMissing, service
<1>3. ErrorHasACause'
  BY <1>1 DEF ErrorHasACause, Unknown, ResolvedName, ResolvedKPI
<1> QED BY <1>1, <1>2, <1>3, OwnStepKeeps

\* What is stored of a call is what it queried its file with.
LEMMA RememberKeepsCause ==
  ASSUME CauseInv, Remember
  PROVE  CauseInv'
<1> DEFINE row == NewRow(mem, turn'[1])
<1>1. /\ pc = "record_memory" /\ pc' = "trace" /\ status' = status
      /\ kpiFile' = kpiFile /\ count' = count /\ call' = call
      /\ turn'[1].filters = ActiveFilters
      /\ turns' = turns \/ turns' = Append(turns, row)
  BY DEF Remember, RecordMemory
<1>2. RowOfItsFile(row)
  BY <1>1 DEF CauseInv, Carried, RowOfItsFile, NewRow
<1>3. PICK S : turns \in Seq(S)
  BY DEF CauseInv, RowsOfTheirFiles
<1> HIDE DEF row
<1>4. turns' \in Seq(S \union {row})
  BY <1>1, <1>3
<1>5. \A i \in 1..Len(turns') : RowOfItsFile(turns'[i])
  <2>1. CASE turns' = turns
    BY <2>1 DEF CauseInv, RowsOfTheirFiles
  <2>2. CASE turns' = Append(turns, row)
    <3>1. /\ Len(turns) \in Nat /\ Len(turns') = Len(turns) + 1
          /\ \A i \in 1..Len(turns) : turns'[i] = turns[i]
          /\ turns'[Len(turns) + 1] = row
      BY <1>3, <2>2
    <3> QED BY <1>2, <3>1 DEF CauseInv, RowsOfTheirFiles
  <2> QED BY <1>1, <2>1, <2>2
<1>6. status' # "error"
  BY <1>1 DEF CauseInv
<1>7. KPIFiles' /\ Counts' /\ TornWhenCut'
  BY <1>1 DEF CauseInv, KPIFiles, Counts, TornWhenCut
<1> QED BY <1>1, <1>4, <1>5, <1>6, <1>7 DEF CauseInv, RowsOfTheirFiles, ErrorHasACause

LEMMA CauseKept == CauseInv /\ [ServiceNext]_ServiceVars => CauseInv'
<1> SUFFICES ASSUME CauseInv, [ServiceNext]_ServiceVars PROVE CauseInv'
  OBVIOUS
<1>1. CASE \E c \in NextCalls : Receive(c) \/ ReceiveFails(c)
  BY <1>1, ReceiveCarries, ReceiveFailsForACause
<1>2. CASE InterpretKnown \/ (GraphStep /\ UNCHANGED service)
  BY <1>2, GraphKeepsCause DEF InterpretKnown
<1>3. CASE OpenKPIFile \/ WriteKPIFile \/ WriteRefused \/ KPIFileMissing
  BY <1>3, OpenKeepsCause, WriteKeepsCause, RefusalIsACause, MissingFileIsACause
<1> QED BY <1>1, <1>2, <1>3, DeathKeepsCause, WorldKeepsCause, RememberKeepsCause DEF ServiceNext

\* graph.py, run_analytics_graph: whatever its analyses, outages, restarts and
\* refused writes do, a call is answered with an error only for a reason of its
\* own, its upload, its plugin's files, its indicator's write or its filter, or
\* for what an earlier call left behind: a filter of another file, an indicator
\* of another plugin, a torn indicator file.
THEOREM ErrorsAreExplained == ServiceSpec => []ErrorHasACause
<1>1. CauseInv => ErrorHasACause
  BY DEF CauseInv
<1> QED BY <1>1, StartsWithoutCause, CauseKept, PTL DEF ServiceSpec, ServiceVars

----------------------------------------------------------------------------
(* The four theorems that follow are about one call.  First the lists that *)
(* the planner and the scheduler build, for which the provers need to know *)
(* only which elements they have and in which order.                       *)

List(s) == \E S : s \in Seq(S)

\* Positions of a sequence.
Positions(K) == IsFiniteSet(K) /\ K \subseteq Nat

LEMMA SomePositions == ASSUME NEW K, Positions(K), NEW J \in SUBSET K PROVE Positions(J)
  BY FS_Subset DEF Positions

LEMMA ListPositions == ASSUME NEW s, List(s) PROVE Positions(DOMAIN s)
<1>1. Len(s) \in Nat /\ DOMAIN s = 1..Len(s)
  BY DEF List
<1> QED BY <1>1, FS_Interval DEF Positions

\* The keys of some positions of a sequence.
Keys(key) ==
  /\ Positions(DOMAIN key)
  /\ \A k \in DOMAIN key : key[k] \in Int

\* The places are 1 to the number of positions, each taken once.
LEMMA PlaceCounts ==
  ASSUME NEW key, Keys(key), NEW k \in DOMAIN key
  PROVE  Place(key, k) \in 1..Cardinality(DOMAIN key)
<1> DEFINE B == {j \in DOMAIN key : Earlier(key, j, k)}
<1>1. IsFiniteSet(DOMAIN key) /\ IsFiniteSet(DOMAIN key \ {k})
  BY FS_Subset DEF Keys, Positions
<1>2. B \subseteq DOMAIN key \ {k}
  BY DEF Keys, Positions, Earlier
<1>3. IsFiniteSet(B) /\ Cardinality(B) <= Cardinality(DOMAIN key \ {k})
  BY <1>1, <1>2, FS_Subset
<1>4. Cardinality(DOMAIN key \ {k}) = Cardinality(DOMAIN key) - 1
  BY <1>1, FS_RemoveElement
<1>5. Cardinality(B) \in Nat /\ Cardinality(DOMAIN key) \in Nat
  BY <1>1, <1>3, FS_CardinalityType
<1>6. Place(key, k) = 1 + Cardinality(B)
  BY DEF Place
<1> HIDE DEF B
<1> QED BY <1>3, <1>4, <1>5, <1>6

LEMMA PlaceKeepsOrder ==
  ASSUME NEW key, Keys(key), NEW j \in DOMAIN key, NEW k \in DOMAIN key, Earlier(key, j, k)
  PROVE  Place(key, j) < Place(key, k)
<1> DEFINE B(m) == {i \in DOMAIN key : Earlier(key, i, m)}
<1>1. IsFiniteSet(B(j)) /\ IsFiniteSet(B(k))
  BY FS_Subset DEF Keys, Positions
<1>2. \A i \in DOMAIN key : i \in Nat /\ key[i] \in Int
  BY DEF Keys, Positions
<1>3. B(j) \subseteq B(k)
  BY <1>2 DEF Earlier
<1>4. j \in B(k) /\ j \notin B(j)
  BY <1>2 DEF Earlier
<1>5. Cardinality(B(j)) <= Cardinality(B(k)) /\ Cardinality(B(j)) # Cardinality(B(k))
  BY <1>1, <1>3, <1>4, FS_Subset
<1>6. Cardinality(B(j)) \in Nat /\ Cardinality(B(k)) \in Nat
  BY <1>1, FS_CardinalityType
<1>7. Place(key, j) = 1 + Cardinality(B(j)) /\ Place(key, k) = 1 + Cardinality(B(k))
  BY DEF Place
<1> HIDE DEF B
<1> QED BY <1>5, <1>6, <1>7

LEMMA PlaceIsTaken ==
  ASSUME NEW key, Keys(key)
  PROVE  /\ \A j, k \in DOMAIN key : Place(key, j) = Place(key, k) => j = k
         /\ \A i \in 1..Cardinality(DOMAIN key) : \E k \in DOMAIN key : Place(key, k) = i
<1> DEFINE n == Cardinality(DOMAIN key)
           p == [k \in DOMAIN key |-> Place(key, k)]
<1>1. n \in Nat
  BY FS_CardinalityType DEF Keys, Positions
<1>2. ASSUME NEW j \in DOMAIN key, NEW k \in DOMAIN key, Place(key, j) = Place(key, k) PROVE j = k
  <2>1. ~Earlier(key, j, k) /\ ~Earlier(key, k, j)
    BY <1>1, <1>2, PlaceKeepsOrder, PlaceCounts
  <2> QED BY <2>1 DEF Earlier, Keys, Positions
<1>3. p \in [DOMAIN key -> 1..n]
  BY PlaceCounts
<1>4. p \in Injection(DOMAIN key, 1..n)
  BY <1>2, <1>3 DEF Injection, IsInjective
<1>5. IsFiniteSet(1..n) /\ Cardinality(1..n) = n
  BY <1>1, FS_Interval
<1>6. p \in Surjection(DOMAIN key, 1..n)
  BY <1>4, <1>5, FS_Injection
<1> QED BY <1>2, <1>6 DEF Surjection

LEMMA Arranged ==
  ASSUME NEW key, Keys(key), NEW s
  PROVE  /\ Cardinality(DOMAIN key) \in Nat
         /\ DOMAIN Arrange(s, key) = 1..Cardinality(DOMAIN key)
         /\ List(Arrange(s, key))
         /\ \A k \in DOMAIN key :
              Place(key, k) \in DOMAIN Arrange(s, key) /\ Arrange(s, key)[Place(key, k)] = s[k]
         /\ \A i \in DOMAIN Arrange(s, key) :
              \E k \in DOMAIN key : Place(key, k) = i /\ Arrange(s, key)[i] = s[k]
<1> DEFINE n == Cardinality(DOMAIN key)
           at(i) == CHOOSE k \in DOMAIN key : Place(key, k) = i
<1>1. n \in Nat
  BY FS_CardinalityType DEF Keys, Positions
<1>2. Arrange(s, key) = [i \in 1..n |-> s[at(i)]]
  BY DEF Arrange
<1>3. \A k \in DOMAIN key : Place(key, k) \in 1..n /\ at(Place(key, k)) = k
  BY PlaceCounts, PlaceIsTaken
<1>4. \A i \in 1..n : at(i) \in DOMAIN key /\ Place(key, at(i)) = i
  BY PlaceIsTaken
<1> HIDE DEF at
<1>5. Arrange(s, key) \in Seq({s[k] : k \in DOMAIN key})
  BY <1>1, <1>2, <1>4
<1>6. List(Arrange(s, key))
  BY <1>5 DEF List
<1> QED BY <1>1, <1>2, <1>3, <1>4, <1>6

LEMMA Kept ==
  ASSUME NEW s, NEW K, Positions(K)
  PROVE  /\ Cardinality(K) \in Nat
         /\ DOMAIN Keep(s, K) = 1..Cardinality(K)
         /\ List(Keep(s, K))
         /\ \A k \in K : \E i \in DOMAIN Keep(s, K) : Keep(s, K)[i] = s[k]
         /\ \A i \in DOMAIN Keep(s, K) : \E k \in K : Keep(s, K)[i] = s[k]
<1> DEFINE key == [k \in K |-> 0]
<1>1. DOMAIN key = K /\ Keys(key)
  BY DEF Keys, Positions
<1> HIDE DEF key
<1>2. Keep(s, K) = Arrange(s, key)
  BY DEF Keep, key
<1>3. Cardinality(K) \in Nat /\ DOMAIN Arrange(s, key) = 1..Cardinality(K) /\ List(Arrange(s, key))
  BY <1>1, Arranged
<1>4. \A k \in K : Place(key, k) \in DOMAIN Arrange(s, key) /\ Arrange(s, key)[Place(key, k)] = s[k]
  BY <1>1, Arranged
<1>5. \A i \in DOMAIN Arrange(s, key) : \E k \in DOMAIN key : Place(key, k) = i /\ Arrange(s, key)[i] = s[k]
  BY <1>1, Arranged
<1>6. \A k \in K : \E i \in DOMAIN Arrange(s, key) : Arrange(s, key)[i] = s[k]
  BY <1>4
<1>7. \A i \in DOMAIN Arrange(s, key) : \E k \in K : Arrange(s, key)[i] = s[k]
  BY <1>1, <1>5
<1> QED BY <1>2, <1>3, <1>6, <1>7

----------------------------------------------------------------------------
(* What the planner and the plugin put into a plan.                         *)

IsAnalysis(a) ==
  /\ a = Analysis(a.type, a.columns, a.priority, a.grounded)
  /\ a.type \in AnalysisTypes
  /\ a.priority \in 0..9
  /\ a.grounded \in BOOLEAN

\* What a plan may hold: analyses the dataset admits and, with a curated
\* indicator of the insurance plugin, those the plugin put there for it.
Planned(a, caps_, curated) ==
  /\ IsAnalysis(a)
  /\ \/ Possible(caps_, a.type)
     \/ curated /\ a.grounded /\ a.type \in {"forecast", "time_series_analysis"}

PlannedList(p, caps_, curated) ==
  /\ List(p)
  /\ \A k \in DOMAIN p : Planned(p[k], caps_, curated)

LEMMA NoPlan == ASSUME NEW c, NEW curated PROVE PlannedList(<< >>, c, curated)
<1>1. << >> \in Seq({})
  OBVIOUS
<1> QED BY <1>1 DEF PlannedList, List

LEMMA AllTypes ==
  AnalysisTypes = {"regression", "classification", "feature_importance", "segmentation", "clustering",
                   "anomaly_detection", "forecast", "trend", "time_series_analysis", "correlation",
                   "association_rules", "distribution_analysis", "ranking", "comparative_analysis", "root_cause",
                   "outlier_detection", "kpi_summary", "kpi_variance"}
<1>1. DOMAIN SupervisedEntries = {"regression", "classification", "feature_importance"}
  BY DEF SupervisedEntries
<1>2. DOMAIN UnsupervisedEntries = {"segmentation", "clustering", "anomaly_detection"}
  BY DEF UnsupervisedEntries
<1>3. DOMAIN TemporalEntries = {"forecast", "trend", "time_series_analysis"}
  BY DEF TemporalEntries
<1>4. DOMAIN DescriptiveEntries = {"correlation", "association_rules", "distribution_analysis", "ranking",
         "comparative_analysis", "root_cause", "outlier_detection", "kpi_summary", "kpi_variance"}
  BY DEF DescriptiveEntries
<1> QED BY <1>1, <1>2, <1>3, <1>4 DEF AnalysisTypes

\* What is in a concatenation is in one of its parts.
InEither(r, p, q) ==
  \A k \in DOMAIN r : (\E i \in DOMAIN p : r[k] = p[i]) \/ (\E i \in DOMAIN q : r[k] = q[i])

LEMMA Concatenated ==
  ASSUME NEW p, NEW q, List(p), List(q)
  PROVE  List(p \o q) /\ InEither(p \o q, p, q)
<1>1. PICK S : p \in Seq(S)
  BY DEF List
<1>2. PICK R : q \in Seq(R)
  BY DEF List
<1>3. p \in Seq(S \union R) /\ q \in Seq(S \union R)
  BY <1>1, <1>2
<1>4. p \o q \in Seq(S \union R)
  BY <1>3
<1>5. Len(p) \in Nat /\ Len(q) \in Nat /\ DOMAIN p = 1..Len(p) /\ DOMAIN q = 1..Len(q)
  BY <1>3
<1>6. ASSUME NEW k \in 1..(Len(p) + Len(q))
      PROVE  \/ \E i \in DOMAIN p : (p \o q)[k] = p[i]
             \/ \E i \in DOMAIN q : (p \o q)[k] = q[i]
  <2>1. CASE k <= Len(p)
    BY <1>3, <1>5, <2>1
  <2>2. CASE k > Len(p)
    <3>1. k - Len(p) \in DOMAIN q /\ (p \o q)[k] = q[k - Len(p)]
      BY <1>3, <1>5, <2>2
    <3> QED BY <3>1
  <2> QED BY <1>5, <2>1, <2>2
<1>7. DOMAIN (p \o q) = 1..(Len(p) + Len(q))
  BY <1>3, <1>5
<1> QED BY <1>4, <1>6, <1>7 DEF List, InEither

LEMMA Joined ==
  ASSUME NEW p, NEW q, NEW c, NEW curated, PlannedList(p, c, curated), PlannedList(q, c, curated)
  PROVE  PlannedList(p \o q, c, curated)
<1>1. List(p) /\ List(q)
  BY DEF PlannedList
<1>2. List(p \o q) /\ InEither(p \o q, p, q)
  BY <1>1, Concatenated
<1> QED BY <1>2 DEF PlannedList, InEither

\* Analyses at some positions of a plan are a plan.
LEMMA KeptPlan ==
  ASSUME NEW p, NEW c, NEW curated, PlannedList(p, c, curated), NEW K \in SUBSET DOMAIN p
  PROVE  PlannedList(Keep(p, K), c, curated)
<1>1. Positions(DOMAIN p)
  BY ListPositions DEF PlannedList
<1>2. Positions(K)
  BY <1>1, SomePositions
<1>3. List(Keep(p, K)) /\ \A i \in DOMAIN Keep(p, K) : \E k \in K : Keep(p, K)[i] = p[k]
  BY <1>2, Kept
<1> QED BY <1>3 DEF PlannedList

----------------------------------------------------------------------------
\* A rule's proposals: types and priorities.
Proposal(t) == t[1] \in AnalysisTypes /\ t[2] \in 0..9

ProposalList(ts) ==
  /\ Positions(DOMAIN ts)
  /\ \A k \in DOMAIN ts : Proposal(ts[k])

LEMMA ListOfProposals ==
  /\ \A a : Proposal(a) => ProposalList(<< a >>)
  /\ \A a, b : Proposal(a) /\ Proposal(b) => ProposalList(<< a, b >>)
  /\ \A a, b, c : Proposal(a) /\ Proposal(b) /\ Proposal(c) => ProposalList(<< a, b, c >>)
  /\ \A a, b, c, d : Proposal(a) /\ Proposal(b) /\ Proposal(c) /\ Proposal(d) => ProposalList(<< a, b, c, d >>)
<1> DEFINE Finite(n) == IsFiniteSet(1..n)
<1>1. \A n \in Nat : Finite(n)
  BY FS_Interval
<1> HIDE DEF Finite
<1>0. Finite(1) /\ Finite(2) /\ Finite(3) /\ Finite(4)
  BY <1>1
<1>2. ASSUME NEW a, Proposal(a) PROVE ProposalList(<< a >>)
  <2>1. DOMAIN << a >> = 1..1 /\ \A k \in 1..1 : Proposal(<< a >>[k])
    BY <1>2
  <2> QED BY <1>0, <2>1 DEF ProposalList, Positions, Finite
<1>3. ASSUME NEW a, NEW b, Proposal(a), Proposal(b) PROVE ProposalList(<< a, b >>)
  <2>1. DOMAIN << a, b >> = 1..2 /\ \A k \in 1..2 : Proposal(<< a, b >>[k])
    BY <1>3
  <2> QED BY <1>0, <2>1 DEF ProposalList, Positions, Finite
<1>4. ASSUME NEW a, NEW b, NEW c, Proposal(a), Proposal(b), Proposal(c) PROVE ProposalList(<< a, b, c >>)
  <2>1. DOMAIN << a, b, c >> = 1..3 /\ \A k \in 1..3 : Proposal(<< a, b, c >>[k])
    BY <1>4
  <2> QED BY <1>0, <2>1 DEF ProposalList, Positions, Finite
<1>5. ASSUME NEW a, NEW b, NEW c, NEW d, Proposal(a), Proposal(b), Proposal(c), Proposal(d)
      PROVE  ProposalList(<< a, b, c, d >>)
  <2>1. DOMAIN << a, b, c, d >> = 1..4 /\ \A k \in 1..4 : Proposal(<< a, b, c, d >>[k])
    BY <1>5
  <2> QED BY <1>0, <2>1 DEF ProposalList, Positions, Finite
<1> QED BY <1>2, <1>3, <1>4, <1>5

LEMMA FunctionIsList ==
  ASSUME NEW n \in Nat, NEW p, DOMAIN p = 1..n, p = [k \in DOMAIN p |-> p[k]]
  PROVE  List(p)
<1> DEFINE S == {p[k] : k \in 1..n}
<1>1. \A k \in 1..n : p[k] \in S
  OBVIOUS
<1> HIDE DEF S
<1>2. p \in [1..n -> S]
  BY <1>1
<1>3. p \in Seq(S)
  BY <1>2
<1> QED BY <1>3 DEF List

LEMMA KeptProposals ==
  ASSUME NEW c, NEW ts, NEW cols, NEW curated, NEW K, Positions(K),
         \A k \in K : Proposal(ts[k]) /\ Possible(c, ts[k][1])
  PROVE  PlannedList([i \in DOMAIN Keep(ts, K) |-> Analysis(Keep(ts, K)[i][1], cols, Keep(ts, K)[i][2], FALSE)],
                     c, curated)
<1> DEFINE open == Keep(ts, K)
           n == Cardinality(K)
           p == [i \in DOMAIN open |-> Analysis(open[i][1], cols, open[i][2], FALSE)]
<1>1. n \in Nat /\ DOMAIN open = 1..n
  BY Kept
<1>2. \A i \in DOMAIN Keep(ts, K) : \E k \in K : Keep(ts, K)[i] = ts[k]
  BY Kept
<1> HIDE DEF open, n
<1>3. \A i \in DOMAIN open : Proposal(open[i]) /\ Possible(c, open[i][1])
  BY <1>2 DEF open
<1>4. p = [i \in DOMAIN open |-> Analysis(open[i][1], cols, open[i][2], FALSE)]
  OBVIOUS
<1>5. \A i \in DOMAIN p : Planned(p[i], c, curated)
  BY <1>3 DEF Planned, IsAnalysis, Analysis, Proposal
<1>6. DOMAIN p = 1..n /\ p = [k \in DOMAIN p |-> p[k]]
  BY <1>1
<1> HIDE DEF p
<1>7. List(p)
  BY <1>1, <1>6, FunctionIsList
<1> QED BY <1>5, <1>7 DEF PlannedList, p, open

LEMMA ProposedPlan ==
  ASSUME NEW c, NEW ts, NEW cols, NEW curated, ProposalList(ts)
  PROVE  PlannedList(Propose(c, ts, cols), c, curated)
<1> DEFINE K == {k \in DOMAIN ts : Possible(c, ts[k][1])}
<1>1. Positions(K)
  BY SomePositions DEF ProposalList
<1>2. \A k \in K : Proposal(ts[k]) /\ Possible(c, ts[k][1])
  BY DEF ProposalList
<1> HIDE DEF K
<1>3. PlannedList([i \in DOMAIN Keep(ts, K) |-> Analysis(Keep(ts, K)[i][1], cols, Keep(ts, K)[i][2], FALSE)],
                  c, curated)
  BY <1>1, <1>2, KeptProposals
<1> QED BY <1>3 DEF Propose, K

LEMMA SinglePlan ==
  ASSUME NEW a, NEW c, NEW curated, Planned(a, c, curated)
  PROVE  PlannedList(<< a >>, c, curated)
<1>1. << a >> \in Seq({a})
  OBVIOUS
<1>2. DOMAIN << a >> = {1} /\ << a >>[1] = a
  OBVIOUS
<1> QED BY <1>1, <1>2 DEF PlannedList, List

\* A proposal of each type the rules name.
LEMMA TypesProposed ==
  \A n \in 0..9, t \in {"regression", "classification", "feature_importance", "segmentation", "clustering",
                        "anomaly_detection", "forecast", "trend", "time_series_analysis", "correlation",
                        "association_rules", "distribution_analysis", "ranking", "comparative_analysis",
                        "outlier_detection"} : Proposal(<< t, n >>)
  BY AllTypes DEF Proposal

LEMMA TargetPlan ==
  ASSUME NEW x, NEW c, NEW curated
  PROVE  PlannedList(TargetRule(x, c), c, curated)
<1> DEFINE problem == x.recommendation.problem
           cols == << Target(x) >> \o RecommendedFeatures(x, Target(x))
           two == << << problem, 1 >>, << "feature_importance", 1 >> >>
<1> HIDE DEF problem, cols
<1>1. ASSUME problem \in {"classification", "regression"} PROVE ProposalList(two)
  <2> DEFINE a == << problem, 1 >>
             b == << "feature_importance", 1 >>
  <2>1. Proposal(a) /\ Proposal(b)
    BY <1>1, AllTypes DEF Proposal
  <2> HIDE DEF a, b
  <2>2. ProposalList(<< a, b >>)
    BY <2>1, ListOfProposals
  <2> QED BY <2>2 DEF a, b
<1>2. \/ TargetRule(x, c) = << >>
      \/ /\ problem \in {"classification", "regression"}
         /\ TargetRule(x, c) = Propose(c, two, cols)
  BY DEF TargetRule, problem, cols
<1> HIDE DEF two
<1> QED BY <1>1, <1>2, ProposedPlan, NoPlan

LEMMA RootCausePlan ==
  ASSUME NEW k, NEW i, NEW c, NEW curated
  PROVE  PlannedList(RootCauseRule(k, i), c, curated)
<1>1. ASSUME NEW cols, NEW n \in 0..9, NEW g \in BOOLEAN
      PROVE  PlannedList(<< Analysis("root_cause", cols, n, g) >>, c, curated)
  <2>1. IsAnalysis(Analysis("root_cause", cols, n, g)) /\ Analysis("root_cause", cols, n, g).type = "root_cause"
    BY AllTypes DEF IsAnalysis, Analysis
  <2>2. Possible(c, "root_cause")
    BY DEF Possible, GatedTypes
  <2>3. Planned(Analysis("root_cause", cols, n, g), c, curated)
    BY <2>1, <2>2 DEF Planned
  <2> QED BY <2>3, SinglePlan
<1>2. \/ RootCauseRule(k, i) = << >>
      \/ \E cols : RootCauseRule(k, i) = << Analysis("root_cause", cols, 1, FALSE) >>
      \/ \E cols : RootCauseRule(k, i) = << Analysis("root_cause", cols, 2, TRUE) >>
  BY DEF RootCauseRule
<1>3. ASSUME NEW cols PROVE PlannedList(<< Analysis("root_cause", cols, 1, FALSE) >>, c, curated)
  <2>1. 1 \in 0..9 /\ FALSE \in BOOLEAN
    OBVIOUS
  <2> QED BY <1>1, <2>1, Zenon
<1>4. ASSUME NEW cols PROVE PlannedList(<< Analysis("root_cause", cols, 2, TRUE) >>, c, curated)
  <2>1. 2 \in 0..9 /\ TRUE \in BOOLEAN
    OBVIOUS
  <2> QED BY <1>1, <2>1, Zenon
<1> QED BY <1>2, <1>3, <1>4, NoPlan, Zenon

LEMMA TemporalPlan ==
  ASSUME NEW x, NEW c, NEW i, NEW curated
  PROVE  PlannedList(TemporalRule(x, c, i), c, curated)
<1> DEFINE four == << << "trend", 2 >>, << "correlation", 3 >>, << "anomaly_detection", 3 >>,
                      << "time_series_analysis", 2 >> >>
           one == << << "forecast", 2 >> >>
<1>1. /\ Proposal(<< "trend", 2 >>) /\ Proposal(<< "correlation", 3 >>) /\ Proposal(<< "anomaly_detection", 3 >>)
      /\ Proposal(<< "time_series_analysis", 2 >>) /\ Proposal(<< "forecast", 2 >>)
  BY TypesProposed
<1>2. ProposalList(four) /\ ProposalList(one)
  BY <1>1, ListOfProposals
<1> HIDE DEF four, one
<1>3. ASSUME NEW f, NEW g PROVE PlannedList(Propose(c, four, f) \o Propose(c, one, g), c, curated)
  BY <1>2, ProposedPlan, Joined
<1>4. TemporalRule(x, c, i) = << >> \/ \E f, g : TemporalRule(x, c, i) = Propose(c, four, f) \o Propose(c, one, g)
  BY DEF TemporalRule, four, one
<1> QED BY <1>3, <1>4, NoPlan

LEMMA DimensionPlan ==
  ASSUME NEW x, NEW d, NEW c, NEW i, NEW curated
  PROVE  PlannedList(DimensionRule(x, d, c, i), c, curated)
<1> DEFINE three == << << "comparative_analysis", 4 >>, << "ranking", 4 >>, << "distribution_analysis", 4 >> >>
           one == << << "segmentation", 4 >> >>
<1>1. /\ Proposal(<< "comparative_analysis", 4 >>) /\ Proposal(<< "ranking", 4 >>)
      /\ Proposal(<< "distribution_analysis", 4 >>) /\ Proposal(<< "segmentation", 4 >>)
  BY TypesProposed
<1>2. ProposalList(three) /\ ProposalList(one)
  BY <1>1, ListOfProposals
<1> HIDE DEF three, one
<1>3. ASSUME NEW f, NEW g PROVE PlannedList(Propose(c, three, f) \o Propose(c, one, g), c, curated)
  BY <1>2, ProposedPlan, Joined
<1>4. DimensionRule(x, d, c, i) = << >>
        \/ \E f, g : DimensionRule(x, d, c, i) = Propose(c, three, f) \o Propose(c, one, g)
  BY DEF DimensionRule, three, one
<1> QED BY <1>3, <1>4, NoPlan

\* The rules for an identifier, a hierarchy, two categoricals and two numbers.
LEMMA OtherRulesPlan ==
  ASSUME NEW x, NEW d, NEW c, NEW curated
  PROVE  /\ PlannedList(IdentifierRule(x, c), c, curated)
         /\ PlannedList(HierarchyRule(x, c), c, curated)
         /\ PlannedList(CategoricalsRule(x, d, c), c, curated)
         /\ PlannedList(NumericPairRule(x, c), c, curated)
<1> DEFINE ids == << << "anomaly_detection", 3 >>, << "segmentation", 4 >>, << "ranking", 4 >> >>
           levels == << << "comparative_analysis", 5 >>, << "ranking", 5 >> >>
           pairs == << << "association_rules", 5 >> >>
           numbers == << << "correlation", 6 >>, << "clustering", 6 >>, << "outlier_detection", 6 >> >>
<1>1. /\ Proposal(<< "anomaly_detection", 3 >>) /\ Proposal(<< "segmentation", 4 >>) /\ Proposal(<< "ranking", 4 >>)
      /\ Proposal(<< "comparative_analysis", 5 >>) /\ Proposal(<< "ranking", 5 >>)
      /\ Proposal(<< "association_rules", 5 >>)
      /\ Proposal(<< "correlation", 6 >>) /\ Proposal(<< "clustering", 6 >>) /\ Proposal(<< "outlier_detection", 6 >>)
  BY TypesProposed
<1>2. ProposalList(ids) /\ ProposalList(levels) /\ ProposalList(pairs) /\ ProposalList(numbers)
  BY <1>1, ListOfProposals
<1> HIDE DEF ids, levels, pairs, numbers
<1>3. IdentifierRule(x, c) = << >> \/ \E f : IdentifierRule(x, c) = Propose(c, ids, f)
  BY DEF IdentifierRule, ids
<1>4. HierarchyRule(x, c) = << >> \/ \E f : HierarchyRule(x, c) = Propose(c, levels, f)
  BY DEF HierarchyRule, levels
<1>5. CategoricalsRule(x, d, c) = << >> \/ \E f : CategoricalsRule(x, d, c) = Propose(c, pairs, f)
  BY DEF CategoricalsRule, pairs
<1>6. NumericPairRule(x, c) = << >> \/ \E f : NumericPairRule(x, c) = Propose(c, numbers, f)
  BY DEF NumericPairRule, numbers
<1>7. \A f : /\ PlannedList(Propose(c, ids, f), c, curated) /\ PlannedList(Propose(c, levels, f), c, curated)
             /\ PlannedList(Propose(c, pairs, f), c, curated) /\ PlannedList(Propose(c, numbers, f), c, curated)
  BY <1>2, ProposedPlan
<1> QED BY <1>3, <1>4, <1>5, <1>6, <1>7, NoPlan

LEMMA ProposalsPlan ==
  ASSUME NEW x, NEW d, NEW c, NEW k, NEW i, NEW curated
  PROVE  PlannedList(Proposals(x, d, c, k, i), c, curated)
<1>1. /\ PlannedList(TargetRule(x, c), c, curated) /\ PlannedList(RootCauseRule(k, i), c, curated)
      /\ PlannedList(TemporalRule(x, c, i), c, curated) /\ PlannedList(DimensionRule(x, d, c, i), c, curated)
  BY TargetPlan, RootCausePlan, TemporalPlan, DimensionPlan
<1> DEFINE a == TargetRule(x, c) \o RootCauseRule(k, i)
           b == a \o TemporalRule(x, c, i)
           e == b \o DimensionRule(x, d, c, i)
           f == e \o IdentifierRule(x, c)
           g == f \o HierarchyRule(x, c)
           h == g \o CategoricalsRule(x, d, c)
<1>2. PlannedList(a, c, curated)
  BY <1>1, Joined
<1>3. PlannedList(b, c, curated)
  BY <1>1, <1>2, Joined
<1>4. PlannedList(e, c, curated)
  BY <1>1, <1>3, Joined
<1>5. PlannedList(f, c, curated)
  BY <1>4, OtherRulesPlan, Joined
<1>6. PlannedList(g, c, curated)
  BY <1>5, OtherRulesPlan, Joined
<1>7. PlannedList(h, c, curated)
  BY <1>6, OtherRulesPlan, Joined
<1>8. PlannedList(h \o NumericPairRule(x, c), c, curated)
  BY <1>7, OtherRulesPlan, Joined
<1> QED BY <1>8 DEF Proposals

\* The plan is its proposals, the first of each type, in order of priority.
LEMMA PlanPlan ==
  ASSUME NEW x, NEW d, NEW c, NEW k, NEW i, NEW curated
  PROVE  PlannedList(Plan(x, d, c, k, i), c, curated)
<1> DEFINE all == Proposals(x, d, c, k, i)
           first == {n \in DOMAIN all : \A j \in 1..(n - 1) : all[j].type # all[n].type}
           K == {n \in first : i.given => all[n].type \in i.types}
           key == [n \in K |-> all[n].priority]
<1>1. PlannedList(all, c, curated)
  BY ProposalsPlan
<1>2. Plan(x, d, c, k, i) = Arrange(all, key)
  BY DEF Plan
<1>3. K \subseteq DOMAIN all
  OBVIOUS
<1> HIDE DEF all, K
<1>4. \A n \in K : all[n].priority \in Int
  BY <1>1, <1>3 DEF PlannedList, Planned, IsAnalysis
<1>5. DOMAIN key = K /\ Keys(key)
  <2>1. Positions(DOMAIN all)
    BY <1>1, ListPositions DEF PlannedList
  <2>2. Positions(K)
    BY <1>3, <2>1, SomePositions
  <2> QED BY <1>4, <2>2 DEF Keys
<1> HIDE DEF key
<1>6. List(Arrange(all, key))
  BY <1>5, Arranged
<1>7. \A n \in DOMAIN Arrange(all, key) : \E m \in DOMAIN key : Place(key, m) = n /\ Arrange(all, key)[n] = all[m]
  BY <1>5, Arranged
<1> QED BY <1>1, <1>2, <1>3, <1>5, <1>6, <1>7 DEF PlannedList

\* What the plugin may ask for: types without a capability, and for a curated
\* indicator of the insurance plugin the two temporal ones.
CuratedType(t, curated) ==
  t \in AnalysisTypes /\ (t \in GatedTypes => curated /\ t \in {"forecast", "time_series_analysis"})

CuratedList(ts, curated) ==
  Positions(DOMAIN ts) /\ \A k \in DOMAIN ts : CuratedType(ts[k], curated)

LEMMA ListOfCurated ==
  ASSUME NEW curated
  PROVE  /\ \A a : CuratedType(a, curated) => CuratedList(<< a >>, curated)
         /\ \A a, b : CuratedType(a, curated) /\ CuratedType(b, curated) => CuratedList(<< a, b >>, curated)
         /\ \A a, b, c : CuratedType(a, curated) /\ CuratedType(b, curated) /\ CuratedType(c, curated)
              => CuratedList(<< a, b, c >>, curated)
<1> DEFINE Finite(n) == IsFiniteSet(1..n)
<1>1. \A n \in Nat : Finite(n)
  BY FS_Interval
<1> HIDE DEF Finite
<1>0. Finite(1) /\ Finite(2) /\ Finite(3)
  BY <1>1
<1>2. ASSUME NEW a, CuratedType(a, curated) PROVE CuratedList(<< a >>, curated)
  <2>1. DOMAIN << a >> = 1..1 /\ \A k \in 1..1 : CuratedType(<< a >>[k], curated)
    BY <1>2
  <2> QED BY <1>0, <2>1 DEF CuratedList, Positions, Finite
<1>3. ASSUME NEW a, NEW b, CuratedType(a, curated), CuratedType(b, curated) PROVE CuratedList(<< a, b >>, curated)
  <2>1. DOMAIN << a, b >> = 1..2 /\ \A k \in 1..2 : CuratedType(<< a, b >>[k], curated)
    BY <1>3
  <2> QED BY <1>0, <2>1 DEF CuratedList, Positions, Finite
<1>4. ASSUME NEW a, NEW b, NEW c, CuratedType(a, curated), CuratedType(b, curated), CuratedType(c, curated)
      PROVE  CuratedList(<< a, b, c >>, curated)
  <2>1. DOMAIN << a, b, c >> = 1..3 /\ \A k \in 1..3 : CuratedType(<< a, b, c >>[k], curated)
    BY <1>4
  <2> QED BY <1>0, <2>1 DEF CuratedList, Positions, Finite
<1> QED BY <1>2, <1>3, <1>4

LEMMA KeptGrounded ==
  ASSUME NEW ts, NEW cols, NEW c, NEW curated, NEW K, Positions(K), \A k \in K : CuratedType(ts[k], curated)
  PROVE  PlannedList([k \in DOMAIN Keep(ts, K) |-> Analysis(Keep(ts, K)[k], cols, 0, TRUE)], c, curated)
<1> DEFINE asked == Keep(ts, K)
           n == Cardinality(K)
           p == [k \in DOMAIN asked |-> Analysis(asked[k], cols, 0, TRUE)]
<1>1. n \in Nat /\ DOMAIN asked = 1..n
  BY Kept
<1>2. \A i \in DOMAIN Keep(ts, K) : \E k \in K : Keep(ts, K)[i] = ts[k]
  BY Kept
<1> HIDE DEF asked, n
<1>3. \A i \in DOMAIN asked : CuratedType(asked[i], curated)
  BY <1>2 DEF asked
<1>4. ASSUME NEW t, CuratedType(t, curated) PROVE Planned(Analysis(t, cols, 0, TRUE), c, curated)
  <2> DEFINE a == Analysis(t, cols, 0, TRUE)
  <2>1. IsAnalysis(a) /\ a.type = t /\ a.grounded
    BY <1>4 DEF IsAnalysis, Analysis, CuratedType
  <2> HIDE DEF a
  <2>2. CASE t \in GatedTypes
    <3>1. curated /\ t \in {"forecast", "time_series_analysis"}
      BY <1>4, <2>2 DEF CuratedType
    <3> QED BY <2>1, <3>1 DEF Planned, a
  <2>3. CASE t \notin GatedTypes
    BY <2>1, <2>3 DEF Planned, Possible, a
  <2> QED BY <2>2, <2>3
<1>5. \A i \in DOMAIN p : Planned(p[i], c, curated)
  BY <1>3, <1>4
<1>6. DOMAIN p = 1..n /\ p = [k \in DOMAIN p |-> p[k]]
  BY <1>1
<1> HIDE DEF p
<1>7. List(p)
  BY <1>1, <1>6, FunctionIsList
<1> QED BY <1>5, <1>7 DEF PlannedList, p, asked

LEMMA GroundedPlan ==
  ASSUME NEW ts, NEW cols, NEW i, NEW c, NEW curated, CuratedList(ts, curated)
  PROVE  PlannedList(Grounded(ts, cols, i), c, curated)
<1> DEFINE K == {k \in DOMAIN ts : ts[k] \in i.types}
<1>1. Positions(K)
  BY SomePositions DEF CuratedList
<1>2. \A k \in K : CuratedType(ts[k], curated)
  BY DEF CuratedList
<1> HIDE DEF K
<1>3. PlannedList([k \in DOMAIN Keep(ts, K) |-> Analysis(Keep(ts, K)[k], cols, 0, TRUE)], c, curated)
  BY <1>1, <1>2, KeptGrounded
<1> QED BY <1>3 DEF Grounded, K

LEMMA InjectedPlan ==
  ASSUME NEW p, NEW added, NEW c, NEW curated, PlannedList(p, c, curated), PlannedList(added, c, curated)
  PROVE  PlannedList(Inject(p, added), c, curated)
<1> DEFINE K == {j \in DOMAIN p : \A k \in DOMAIN added : added[k].type # p[j].type}
<1>1. K \in SUBSET DOMAIN p
  OBVIOUS
<1> HIDE DEF K
<1>2. PlannedList(Keep(p, K), c, curated)
  BY <1>1, KeptPlan
<1>3. PlannedList(Keep(p, K) \o added, c, curated)
  BY <1>2, Joined
<1> QED BY <1>3 DEF Inject, K

LEMMA OverriddenPlan ==
  ASSUME NEW p, NEW ratios, NEW c, NEW curated, PlannedList(p, c, curated)
  PROVE  PlannedList(OverrideFeatures(p, ratios), c, curated)
<1> DEFINE o == OverrideFeatures(p, ratios)
<1>1. Len(p) \in Nat /\ DOMAIN p = 1..Len(p)
  BY DEF PlannedList, List
<1>2. o = [k \in DOMAIN p |-> IF p[k].type \in {"anomaly_detection", "segmentation", "clustering"}
                              THEN [p[k] EXCEPT !.columns = ratios] ELSE p[k]]
  BY DEF OverrideFeatures
<1> HIDE DEF o
<1>3. DOMAIN o = 1..Len(p) /\ o = [k \in DOMAIN o |-> o[k]]
  BY <1>1, <1>2
<1>4. List(o)
  BY <1>1, <1>3, FunctionIsList
<1>5. ASSUME NEW k \in DOMAIN o PROVE Planned(o[k], c, curated)
  <2>1. Planned(p[k], c, curated) /\ (o[k] = p[k] \/ o[k] = [p[k] EXCEPT !.columns = ratios])
    BY <1>2, <1>5 DEF PlannedList
  <2>2. Planned([p[k] EXCEPT !.columns = ratios], c, curated)
    BY <2>1 DEF Planned, IsAnalysis, Analysis
  <2> QED BY <2>1, <2>2
<1> QED BY <1>4, <1>5 DEF PlannedList, o

LEMMA ThinPlan ==
  ASSUME NEW p, NEW i, NEW k, NEW c, NEW curated, PlannedList(p, c, curated)
  PROVE  PlannedList(ThinEnhance(p, i, k), c, curated)
<1> DEFINE s == << "kpi_summary" >>
           v == << "kpi_variance" >>
<1>1. CuratedType("kpi_summary", curated) /\ CuratedType("kpi_variance", curated)
  BY AllTypes DEF CuratedType, GatedTypes
<1>2. CuratedList(s, curated) /\ CuratedList(v, curated)
  BY <1>1, ListOfCurated
<1> HIDE DEF s, v
<1>3. \A cols : PlannedList(Grounded(s, cols, i), c, curated) /\ PlannedList(Grounded(v, cols, i), c, curated)
  BY <1>2, GroundedPlan
<1> DEFINE g == Grounded(s, KPIColumns(k), i)
           h == IF k.budget = None THEN << >> ELSE Grounded(v, KPIColumns(k), i)
<1>4. PlannedList(g, c, curated) /\ PlannedList(h, c, curated)
  BY <1>3, NoPlan
<1> HIDE DEF g, h
<1>5. PlannedList(Inject(p, g \o h), c, curated)
  BY <1>4, Joined, InjectedPlan
<1>6. ThinEnhance(p, i, k) = p \/ ThinEnhance(p, i, k) = Inject(p, g \o h)
  BY DEF ThinEnhance, g, h, s, v
<1> QED BY <1>5, <1>6

\* What the insurance plugin adds for a curated indicator.
LEMMA InsurancePlan ==
  ASSUME NEW p, NEW x, NEW i, NEW plugin, NEW k, NEW c, PlannedList(p, c, TRUE)
  PROVE  PlannedList(InsuranceEnhance(p, x, i, plugin, k), c, TRUE)
<1> DEFINE s == << "kpi_summary", "kpi_variance" >>
           r == << "root_cause" >>
           t == << "forecast", "trend", "time_series_analysis" >>
<1>1. /\ CuratedType("kpi_summary", TRUE) /\ CuratedType("kpi_variance", TRUE) /\ CuratedType("root_cause", TRUE)
      /\ CuratedType("forecast", TRUE) /\ CuratedType("trend", TRUE) /\ CuratedType("time_series_analysis", TRUE)
  BY AllTypes DEF CuratedType, GatedTypes
<1>2. CuratedList(s, TRUE) /\ CuratedList(r, TRUE) /\ CuratedList(t, TRUE)
  BY <1>1, ListOfCurated
<1> HIDE DEF s, r, t
<1>3. \A cols : /\ PlannedList(Grounded(s, cols, i), c, TRUE)
                /\ PlannedList(Grounded(r, cols, i), c, TRUE)
                /\ PlannedList(Grounded(t, cols, i), c, TRUE)
  BY <1>2, GroundedPlan
<1> DEFINE times == NamesOf(Temporals(x))
           f == Grounded(s, KPIColumns(k), i)
           g == IF k.actual = None THEN << >> ELSE Grounded(r, << k.actual >> \o plugin.drivers, i)
           h == IF k.actual = None \/ times = << >> THEN << >> ELSE Grounded(t, << times[1], k.actual >>, i)
<1>4. PlannedList(f, c, TRUE) /\ PlannedList(g, c, TRUE) /\ PlannedList(h, c, TRUE)
  BY <1>3, NoPlan
<1> HIDE DEF f, g, h
<1>5. PlannedList(f \o g, c, TRUE)
  BY <1>4, Joined
<1>6. PlannedList((f \o g) \o h, c, TRUE)
  BY <1>4, <1>5, Joined
<1>7. PlannedList(Inject(p, (f \o g) \o h), c, TRUE)
  BY <1>6, InjectedPlan
<1>8. InsuranceEnhance(p, x, i, plugin, k) = Inject(p, (f \o g) \o h)
  BY DEF InsuranceEnhance, f, g, h, s, r, t
<1> QED BY <1>7, <1>8

LEMMA EnhancedPlan ==
  ASSUME NEW p, NEW x, NEW i, NEW plugin, NEW c, plugin.kind \in PluginKinds,
         PlannedList(p, c, plugin.kind = "insurance" /\ i.kpi # None)
  PROVE  PlannedList(EnhancePlan(p, x, i, plugin), c, plugin.kind = "insurance" /\ i.kpi # None)
<1> DEFINE curated == plugin.kind = "insurance" /\ i.kpi # None
           base == IF plugin.kind = "insurance" THEN OverrideFeatures(p, plugin.ratios) ELSE p
<1>1. PlannedList(base, c, curated)
  BY OverriddenPlan
<1>2. EnhancePlan(p, x, i, plugin) =
        IF ~i.given \/ i.kpi = None \/ i.kpi \notin DOMAIN plugin.kpis THEN base
        ELSE CASE plugin.kind = "insurance" -> InsuranceEnhance(base, x, i, plugin, plugin.kpis[i.kpi])
               [] plugin.kind = "thin"      -> ThinEnhance(base, i, plugin.kpis[i.kpi])
               [] plugin.kind = "generic"   -> base
  BY DEF EnhancePlan
<1> HIDE DEF base
<1>3. CASE ~i.given \/ i.kpi = None \/ i.kpi \notin DOMAIN plugin.kpis
  BY <1>1, <1>2, <1>3
<1>4. CASE ~(~i.given \/ i.kpi = None \/ i.kpi \notin DOMAIN plugin.kpis)
  <2>1. CASE plugin.kind = "insurance"
    <3>1. curated = TRUE
      BY <1>4, <2>1
    <3>2. PlannedList(base, c, TRUE)
      BY <1>1, <3>1
    <3>3. PlannedList(InsuranceEnhance(base, x, i, plugin, plugin.kpis[i.kpi]), c, TRUE)
      BY <3>2, InsurancePlan
    <3> QED BY <1>2, <1>4, <2>1, <3>1, <3>3
  <2>2. CASE plugin.kind = "thin"
    <3>1. PlannedList(ThinEnhance(base, i, plugin.kpis[i.kpi]), c, curated)
      BY <1>1, ThinPlan
    <3> QED BY <1>2, <1>4, <2>2, <3>1
  <2>3. CASE plugin.kind = "generic"
    BY <1>1, <1>2, <1>4, <2>3
  <2> QED BY <2>1, <2>2, <2>3 DEF PluginKinds
<1> QED BY <1>3, <1>4

----------------------------------------------------------------------------
(* The scheduler.                                                           *)

LEMMA KeyBounds ==
  ASSUME NEW i, NEW a, IsAnalysis(a)
  PROVE  /\ ScheduleKey(i, a) \in Int
         /\ Asked(i, a) => ScheduleKey(i, a) <= 19
         /\ ~Asked(i, a) => ScheduleKey(i, a) = 20 + (IF a.grounded THEN 0 ELSE 10) + a.priority
         /\ ~Asked(i, a) => ScheduleKey(i, a) >= 20
<1> DEFINE g == IF a.grounded THEN 0 ELSE 10
<1>1. g \in 0..10 /\ a.priority \in 0..9
  BY DEF IsAnalysis
<1>2. ScheduleKey(i, a) = (IF Asked(i, a) THEN 0 ELSE 20) + g + a.priority
  BY DEF ScheduleKey
<1> HIDE DEF g
<1>3. /\ Asked(i, a) => ScheduleKey(i, a) = 0 + g + a.priority
      /\ ~Asked(i, a) => ScheduleKey(i, a) = 20 + g + a.priority
  BY <1>2
<1>4. ScheduleKey(i, a) \in Int
  BY <1>1, <1>3
<1>5. Asked(i, a) => ScheduleKey(i, a) <= 19
  BY <1>1, <1>3
<1>6. ~Asked(i, a) => ScheduleKey(i, a) >= 20
  BY <1>1, <1>3
<1> QED BY <1>3, <1>4, <1>5, <1>6 DEF g

\* The scheduler's order: all of the plan, by its keys.
LEMMA OrderedPlan ==
  ASSUME NEW p, NEW i, NEW c, NEW curated, PlannedList(p, c, curated)
  PROVE  /\ List(Ordered(p, i))
         /\ \A j \in DOMAIN p : \E k \in DOMAIN Ordered(p, i) : Ordered(p, i)[k] = p[j]
         /\ \A k \in DOMAIN Ordered(p, i) : \E j \in DOMAIN p : Ordered(p, i)[k] = p[j]
         /\ \A k, l \in DOMAIN Ordered(p, i) :
              k < l => ScheduleKey(i, Ordered(p, i)[k]) <= ScheduleKey(i, Ordered(p, i)[l])
<1> DEFINE key == [k \in DOMAIN p |-> ScheduleKey(i, p[k])]
           o == Ordered(p, i)
<1>1. o = Arrange(p, key)
  BY DEF Ordered
<1>2. Positions(DOMAIN p)
  BY ListPositions DEF PlannedList
<1>3. \A k \in DOMAIN p : ScheduleKey(i, p[k]) \in Int
  BY KeyBounds DEF PlannedList, Planned
<1>4. DOMAIN key = DOMAIN p /\ \A k \in DOMAIN p : key[k] = ScheduleKey(i, p[k])
  OBVIOUS
<1> HIDE DEF key, o
<1>5. Keys(key)
  BY <1>2, <1>3, <1>4 DEF Keys
<1>6. List(o)
  BY <1>1, <1>5, Arranged
<1>7. \A j \in DOMAIN key : Place(key, j) \in DOMAIN Arrange(p, key) /\ Arrange(p, key)[Place(key, j)] = p[j]
  BY <1>5, Arranged
<1>8. \A k \in DOMAIN Arrange(p, key) : \E j \in DOMAIN key : Place(key, j) = k /\ Arrange(p, key)[k] = p[j]
  BY <1>5, Arranged
<1>9. ASSUME NEW k \in DOMAIN o, NEW l \in DOMAIN o, k < l PROVE ScheduleKey(i, o[k]) <= ScheduleKey(i, o[l])
  <2>1. PICK a \in DOMAIN key : Place(key, a) = k /\ o[k] = p[a]
    BY <1>1, <1>8
  <2>2. PICK b \in DOMAIN key : Place(key, b) = l /\ o[l] = p[b]
    BY <1>1, <1>8
  <2>3. Place(key, a) \in Nat /\ Place(key, b) \in Nat
    <3>1. k \in Nat /\ l \in Nat
      BY <1>6, ListPositions DEF Positions
    <3> QED BY <2>1, <2>2, <3>1
  <2>4. ~Earlier(key, b, a)
    BY <1>5, <1>9, <2>1, <2>2, <2>3, PlaceKeepsOrder
  <2>5. key[a] <= key[b]
    BY <1>5, <2>4 DEF Earlier, Keys
  <2> QED BY <1>4, <2>1, <2>2, <2>5
<1>10. \A j \in DOMAIN p : \E k \in DOMAIN o : o[k] = p[j]
  BY <1>1, <1>4, <1>7
<1>11. \A k \in DOMAIN o : \E j \in DOMAIN p : o[k] = p[j]
  BY <1>1, <1>4, <1>8
<1> QED BY <1>6, <1>9, <1>10, <1>11 DEF o

\* A schedule: what of a plan is run, in which order, with which slots.
Fits(s, p, i) ==
  LET kept  == {s[k].analysis : k \in DOMAIN s}
      all   == {p[k] : k \in DOMAIN p}
      asked == {a \in all : Asked(i, a)}
  IN /\ asked \subseteq kept /\ kept \subseteq all
     /\ Cardinality(kept \ asked) > 0 => Len(s) <= MaxAnalyses
     /\ \A a \in kept \ asked, b \in all \ kept :
            ~(b.grounded /\ ~a.grounded) /\ (b.grounded = a.grounded => a.priority <= b.priority)

Slotted(s) ==
  /\ Len(s) \in Nat /\ DOMAIN s = 1..Len(s)
  /\ \A k \in DOMAIN s : s[k].ml = (k <= MaxML)

LEMMA ScheduledPlan ==
  ASSUME NEW p, NEW i, NEW c, NEW curated, PlannedList(p, c, curated)
  PROVE  Slotted(Schedule(p, i)) /\ Fits(Schedule(p, i), p, i)
<1> DEFINE o == Ordered(p, i)
           K == {k \in DOMAIN o : Asked(i, o[k]) \/ k <= MaxAnalyses}
           kept == Keep(o, K)
           s == Schedule(p, i)
<1>1. s = [k \in DOMAIN kept |-> [analysis |-> kept[k], ml |-> k <= MaxML]]
  BY DEF Schedule, Slots
<1>2. \A k \in DOMAIN o : k \in K <=> Asked(i, o[k]) \/ k <= MaxAnalyses
  OBVIOUS
<1>3. K \subseteq DOMAIN o
  OBVIOUS
<1>4. List(o)
  BY OrderedPlan
<1>5. \A j \in DOMAIN p : \E k \in DOMAIN Ordered(p, i) : Ordered(p, i)[k] = p[j]
  BY OrderedPlan
<1>6. \A k \in DOMAIN Ordered(p, i) : \E j \in DOMAIN p : Ordered(p, i)[k] = p[j]
  BY OrderedPlan
<1>7. \A k, l \in DOMAIN Ordered(p, i) :
        k < l => ScheduleKey(i, Ordered(p, i)[k]) <= ScheduleKey(i, Ordered(p, i)[l])
  BY OrderedPlan
<1> HIDE DEF K
<1>8. Positions(K) /\ DOMAIN o \subseteq Nat
  BY <1>3, <1>4, ListPositions, SomePositions DEF Positions
<1>9. Cardinality(K) \in Nat /\ DOMAIN kept = 1..Cardinality(K)
  BY <1>8, Kept
<1>10. \A k \in K : \E m \in DOMAIN Keep(o, K) : Keep(o, K)[m] = o[k]
  BY <1>8, Kept
<1>11. \A m \in DOMAIN Keep(o, K) : \E k \in K : Keep(o, K)[m] = o[k]
  BY <1>8, Kept
<1> HIDE DEF o, kept, s
<1>12. \A k \in DOMAIN o : IsAnalysis(o[k])
  BY <1>6 DEF PlannedList, Planned, o
<1>13. /\ DOMAIN s = 1..Cardinality(K) /\ Len(s) = Cardinality(K)
       /\ \A k \in DOMAIN s : s[k].ml = (k <= MaxML) /\ s[k].analysis = kept[k]
  <2>1. DOMAIN s = DOMAIN kept /\ \A k \in DOMAIN s : s[k] = [analysis |-> kept[k], ml |-> k <= MaxML]
    BY <1>1
  <2>2. DOMAIN s = 1..Cardinality(K)
    BY <1>9, <2>1
  <2>3. List(s)
    BY <1>1, <1>9, <2>2, FunctionIsList
  <2>4. Len(s) \in Nat /\ DOMAIN s = 1..Len(s)
    BY <2>3 DEF List
  <2>5. Len(s) = Cardinality(K)
    BY <1>9, <2>2, <2>4
  <2> QED BY <2>1, <2>2, <2>5
<1>14. Slotted(s)
  BY <1>9, <1>13 DEF Slotted
<1> DEFINE ks  == {s[k].analysis : k \in DOMAIN s}
           all == {p[k] : k \in DOMAIN p}
           asked == {a \in all : Asked(i, a)}
<1>15. \A a : a \in ks <=> \E k \in K : a = o[k]
  BY <1>9, <1>10, <1>11, <1>13 DEF kept
<1>16. \A a : a \in all <=> \E k \in DOMAIN o : a = o[k]
  BY <1>5, <1>6 DEF o
<1> HIDE DEF ks, all
<1>17. asked \subseteq ks /\ ks \subseteq all
  BY <1>2, <1>3, <1>15, <1>16
<1>18. ASSUME NEW a \in ks \ asked PROVE \E m \in DOMAIN o : o[m] = a /\ m \in K /\ m <= MaxAnalyses /\ ~Asked(i, a)
  BY <1>2, <1>3, <1>15, <1>16
<1>19. ASSUME NEW a \in ks \ asked PROVE Len(s) <= MaxAnalyses
  <2>1. PICK m \in DOMAIN o : o[m] = a /\ m <= MaxAnalyses /\ ~Asked(i, a)
    BY <1>18, <1>19
  <2>2. ASSUME NEW k \in K PROVE k \in 1..MaxAnalyses
    <3>1. CASE k <= MaxAnalyses
      <4>1. k \in DOMAIN o /\ DOMAIN o = 1..Len(o) /\ Len(o) \in Nat
        BY <1>3, <1>4 DEF List
      <4> QED BY <3>1, <4>1, BudgetAssumption
    <3>2. CASE k > MaxAnalyses /\ Asked(i, o[k])
      <4>1. k \in DOMAIN o /\ k \in Nat /\ m \in Nat
        BY <1>3, <1>8
      <4>2. m < k
        BY <2>1, <3>2, <4>1, BudgetAssumption
      <4>3. ScheduleKey(i, o[m]) <= ScheduleKey(i, o[k])
        BY <1>7, <4>1, <4>2 DEF o
      <4>4. IsAnalysis(o[m]) /\ IsAnalysis(o[k])
        BY <1>12, <4>1
      <4>5. ScheduleKey(i, o[m]) >= 20 /\ ScheduleKey(i, o[m]) \in Int
        BY <2>1, <4>4, KeyBounds
      <4>6. ScheduleKey(i, o[k]) <= 19 /\ ScheduleKey(i, o[k]) \in Int
        BY <3>2, <4>4, KeyBounds
      <4> QED BY <4>3, <4>5, <4>6
    <3>3. k \in Nat /\ k \in DOMAIN o
      BY <1>3, <1>8
    <3> QED BY <1>2, <3>1, <3>2, <3>3, BudgetAssumption
  <2>3. IsFiniteSet(1..MaxAnalyses) /\ Cardinality(1..MaxAnalyses) = MaxAnalyses
    BY BudgetAssumption, FS_Interval
  <2>4. K \subseteq 1..MaxAnalyses
    BY <2>2
  <2>5. Cardinality(K) <= Cardinality(1..MaxAnalyses)
    BY <2>3, <2>4, FS_Subset
  <2> QED BY <1>13, <2>3, <2>5
<1>20. Cardinality(ks \ asked) > 0 => Len(s) <= MaxAnalyses
  <2>1. CASE ks \ asked = {}
    <3>1. Cardinality(ks \ asked) = 0
      BY <2>1, FS_EmptySet
    <3> QED BY <3>1
  <2>2. CASE ks \ asked # {}
    BY <1>19, <2>2
  <2> QED BY <2>1, <2>2
<1>21. ASSUME NEW a \in ks \ asked, NEW b \in all \ ks
       PROVE  ~(b.grounded /\ ~a.grounded) /\ (b.grounded = a.grounded => a.priority <= b.priority)
  <2>1. PICK m \in DOMAIN o : o[m] = a /\ m <= MaxAnalyses /\ ~Asked(i, a)
    BY <1>18, <1>21
  <2>2. PICK l \in DOMAIN o : o[l] = b /\ l \notin K
    BY <1>15, <1>16, <1>21
  <2>3. ~Asked(i, b) /\ ~(l <= MaxAnalyses)
    BY <1>2, <2>2
  <2>4. m < l
    BY <1>8, <2>1, <2>2, <2>3, BudgetAssumption
  <2>5. ScheduleKey(i, a) <= ScheduleKey(i, b)
    BY <1>7, <2>1, <2>2, <2>4 DEF o
  <2>6. IsAnalysis(a) /\ IsAnalysis(b)
    BY <1>12, <2>1, <2>2
  <2> DEFINE ga == IF a.grounded THEN 0 ELSE 10
             gb == IF b.grounded THEN 0 ELSE 10
  <2>7. ScheduleKey(i, a) = 20 + ga + a.priority /\ ScheduleKey(i, b) = 20 + gb + b.priority
    BY <2>1, <2>3, <2>6, KeyBounds
  <2>8. a.priority \in 0..9 /\ b.priority \in 0..9 /\ a.grounded \in BOOLEAN /\ b.grounded \in BOOLEAN
    BY <2>6 DEF IsAnalysis
  <2> QED BY <2>5, <2>7, <2>8
<1>22. Fits(s, p, i)
  BY <1>17, <1>20, <1>21 DEF Fits, ks, all
<1> QED BY <1>14, <1>22 DEF s

----------------------------------------------------------------------------
(* The registry's algorithms and the selector's pick.                       *)

Registered(s) ==
  /\ s.rows \in Nat
  /\ s.name # None
  /\ s.ml => s.rows >= 10
  /\ s.name \in {"Prophet", "One-Class SVM", "SHAP"} => s.cost = "expensive"

AllRegistered(specs) ==
  /\ DOMAIN specs \subseteq Nat
  /\ \A k \in DOMAIN specs : Registered(specs[k])

LEMMA ListOfRegistered ==
  /\ \A a : Registered(a)
       => AllRegistered(<< a >>)
  /\ \A a, b : Registered(a) /\ Registered(b)
       => AllRegistered(<< a, b >>)
  /\ \A a, b, c : Registered(a) /\ Registered(b) /\ Registered(c)
       => AllRegistered(<< a, b, c >>)
  /\ \A a, b, c, d : Registered(a) /\ Registered(b) /\ Registered(c) /\ Registered(d)
       => AllRegistered(<< a, b, c, d >>)
  /\ \A a, b, c, d, e : Registered(a) /\ Registered(b) /\ Registered(c) /\ Registered(d) /\ Registered(e)
       => AllRegistered(<< a, b, c, d, e >>)
  /\ \A a, b, c, d, e, f :
       Registered(a) /\ Registered(b) /\ Registered(c) /\ Registered(d) /\ Registered(e) /\ Registered(f)
       => AllRegistered(<< a, b, c, d, e, f >>)
  /\ \A a, b, c, d, e, f, g, h :
       /\ Registered(a) /\ Registered(b) /\ Registered(c) /\ Registered(d)
       /\ Registered(e) /\ Registered(f) /\ Registered(g) /\ Registered(h)
       => AllRegistered(<< a, b, c, d, e, f, g, h >>)
  BY DEF AllRegistered

LEMMA SupervisedListed == \A type \in DOMAIN SupervisedEntries : AllRegistered(SupervisedEntries[type])
<1>1. AllRegistered(SupervisedEntries.regression)
  <2>1. /\ Registered(Algorithm("LightGBM Regressor", TRUE, 30, "target", 0, "moderate"))
        /\ Registered(Algorithm("Random Forest Regressor", TRUE, 30, "target", 0, "moderate"))
        /\ Registered(Algorithm("Linear Regression", FALSE, 5, "target", 0, "cheap"))
    BY DEF Registered, None, Algorithm
  <2> QED BY <2>1, ListOfRegistered DEF SupervisedEntries
<1>2. AllRegistered(SupervisedEntries.classification)
  <2>1. /\ Registered(Algorithm("XGBoost Classifier", TRUE, 30, "target", 0, "moderate"))
        /\ Registered(Algorithm("Random Forest Classifier", TRUE, 30, "target", 0, "moderate"))
        /\ Registered(Algorithm("Logistic Regression", TRUE, 20, "target", 0, "cheap"))
        /\ Registered(Algorithm("Majority Class Baseline", FALSE, 1, "target", 0, "cheap"))
    BY DEF Registered, None, Algorithm
  <2> QED BY <2>1, ListOfRegistered DEF SupervisedEntries
<1>3. AllRegistered(SupervisedEntries.feature_importance)
  <2>1. /\ Registered(Algorithm("SHAP", TRUE, 20, "target", 0, "expensive"))
        /\ Registered(Algorithm("Permutation Importance", TRUE, 20, "target", 0, "moderate"))
        /\ Registered(Algorithm("Correlation-Based Importance", FALSE, 5, "target", 0, "cheap"))
    BY DEF Registered, None, Algorithm
  <2> QED BY <2>1, ListOfRegistered DEF SupervisedEntries
<1>4. DOMAIN SupervisedEntries = {"regression", "classification", "feature_importance"}
  BY DEF SupervisedEntries
<1> QED BY <1>1, <1>2, <1>3, <1>4

LEMMA UnsupervisedListed == \A type \in DOMAIN UnsupervisedEntries : AllRegistered(UnsupervisedEntries[type])
<1>1. AllRegistered(UnsupervisedEntries.segmentation)
  <2>1. /\ Registered(Algorithm("K-Means", TRUE, 10, None, 2, "moderate"))
        /\ Registered(Algorithm("DBSCAN", TRUE, 10, None, 2, "moderate"))
        /\ Registered(Algorithm("Hierarchical Clustering", TRUE, 10, None, 2, "moderate"))
        /\ Registered(Plain("Quantile Binning", 4))
        /\ Registered(Plain("Equal-Width Binning", 4))
        /\ Registered(Plain("Equal-Frequency Binning", 4))
        /\ Registered(Plain("Insurance Combined Ratio Buckets", 1))
        /\ Registered(Plain("Categorical Grouping", 1))
    BY DEF Registered, None, Algorithm, Plain
  <2> QED BY <2>1, ListOfRegistered DEF UnsupervisedEntries
<1>2. AllRegistered(UnsupervisedEntries.clustering)
  <2>1. /\ Registered(Algorithm("K-Means", TRUE, 10, None, 2, "moderate"))
        /\ Registered(Plain("Quantile Binning", 4))
        /\ Registered(Plain("Categorical Grouping", 1))
    BY DEF Registered, None, Algorithm, Plain
  <2> QED BY <2>1, ListOfRegistered DEF UnsupervisedEntries
<1>3. AllRegistered(UnsupervisedEntries.anomaly_detection)
  <2>1. /\ Registered(Algorithm("Isolation Forest", TRUE, 10, None, 0, "moderate"))
        /\ Registered(Algorithm("Local Outlier Factor", TRUE, 10, None, 0, "moderate"))
        /\ Registered(Algorithm("One-Class SVM", TRUE, 10, None, 0, "expensive"))
        /\ Registered(Plain("Z-Score", 3))
        /\ Registered(Plain("IQR", 4))
        /\ Registered(Plain("Modified Z-Score", 3))
    BY DEF Registered, None, Algorithm, Plain
  <2> QED BY <2>1, ListOfRegistered DEF UnsupervisedEntries
<1>4. DOMAIN UnsupervisedEntries = {"segmentation", "clustering", "anomaly_detection"}
  BY DEF UnsupervisedEntries
<1> QED BY <1>1, <1>2, <1>3, <1>4

LEMMA TemporalListed == \A type \in DOMAIN TemporalEntries : AllRegistered(TemporalEntries[type])
<1>1. AllRegistered(TemporalEntries.forecast)
  <2>1. /\ Registered(Algorithm("Prophet", TRUE, 24, "time", 0, "expensive"))
        /\ Registered(Algorithm("XGBoost Regressor", TRUE, 30, None, 0, "moderate"))
        /\ Registered(Algorithm("Moving Average", FALSE, 3, "time", 0, "cheap"))
        /\ Registered(Algorithm("Linear Trend", FALSE, 5, "time", 0, "cheap"))
        /\ Registered(Algorithm("Exponential Smoothing", FALSE, 5, "time", 0, "cheap"))
    BY DEF Registered, None, Algorithm
  <2> QED BY <2>1, ListOfRegistered DEF TemporalEntries
<1>2. AllRegistered(TemporalEntries.trend)
  <2>1. Registered(Algorithm("Trend", FALSE, 2, "time", 0, "cheap"))
    BY DEF Registered, None, Algorithm
  <2> QED BY <2>1, ListOfRegistered DEF TemporalEntries
<1>3. AllRegistered(TemporalEntries.time_series_analysis)
  <2>1. Registered(Algorithm("Time Series Descriptive", FALSE, 2, "time", 0, "cheap"))
    BY DEF Registered, None, Algorithm
  <2> QED BY <2>1, ListOfRegistered DEF TemporalEntries
<1>4. DOMAIN TemporalEntries = {"forecast", "trend", "time_series_analysis"}
  BY DEF TemporalEntries
<1> QED BY <1>1, <1>2, <1>3, <1>4

LEMMA DescriptiveListed == \A type \in DOMAIN DescriptiveEntries : AllRegistered(DescriptiveEntries[type])
<1>1. AllRegistered(DescriptiveEntries.correlation)
  <2>1. /\ Registered(Plain("Pearson", 3))
        /\ Registered(Plain("Spearman", 3))
    BY DEF Registered, None, Algorithm, Plain
  <2> QED BY <2>1, ListOfRegistered DEF DescriptiveEntries
<1>2. AllRegistered(DescriptiveEntries.association_rules)
  <2>1. Registered(Plain("Contingency Table Co-occurrence", 5))
    BY DEF Registered, None, Algorithm, Plain
  <2> QED BY <2>1, ListOfRegistered DEF DescriptiveEntries
<1>3. AllRegistered(DescriptiveEntries.distribution_analysis)
  <2>1. Registered(Plain("Descriptive Distribution", 2))
    BY DEF Registered, None, Algorithm, Plain
  <2> QED BY <2>1, ListOfRegistered DEF DescriptiveEntries
<1>4. AllRegistered(DescriptiveEntries.ranking)
  <2>1. Registered(Plain("Ranking", 1))
    BY DEF Registered, None, Algorithm, Plain
  <2> QED BY <2>1, ListOfRegistered DEF DescriptiveEntries
<1>5. AllRegistered(DescriptiveEntries.comparative_analysis)
  <2>1. Registered(Plain("Comparative Groupby", 2))
    BY DEF Registered, None, Algorithm, Plain
  <2> QED BY <2>1, ListOfRegistered DEF DescriptiveEntries
<1>6. AllRegistered(DescriptiveEntries.root_cause)
  <2>1. Registered(Plain("Deterministic Driver Decomposition", 1))
    BY DEF Registered, None, Algorithm, Plain
  <2> QED BY <2>1, ListOfRegistered DEF DescriptiveEntries
<1>7. AllRegistered(DescriptiveEntries.outlier_detection)
  <2>1. Registered(Plain("Z-Score", 3))
    BY DEF Registered, None, Algorithm, Plain
  <2> QED BY <2>1, ListOfRegistered DEF DescriptiveEntries
<1>8. AllRegistered(DescriptiveEntries.kpi_summary)
  <2>1. Registered(Plain("KPI Aggregation", 1))
    BY DEF Registered, None, Algorithm, Plain
  <2> QED BY <2>1, ListOfRegistered DEF DescriptiveEntries
<1>9. AllRegistered(DescriptiveEntries.kpi_variance)
  <2>1. Registered(Plain("KPI Variance Analysis", 1))
    BY DEF Registered, None, Algorithm, Plain
  <2> QED BY <2>1, ListOfRegistered DEF DescriptiveEntries
<1>10. DOMAIN DescriptiveEntries = {"correlation", "association_rules", "distribution_analysis", "ranking",
         "comparative_analysis", "root_cause", "outlier_detection", "kpi_summary", "kpi_variance"}
  BY DEF DescriptiveEntries
<1> QED BY <1>1, <1>2, <1>3, <1>4, <1>5, <1>6, <1>7, <1>8, <1>9, <1>10

LEMMA RegistryListed == \A type \in AnalysisTypes : AllRegistered(Registry[type])
  BY SupervisedListed, UnsupervisedListed, TemporalListed, DescriptiveListed DEF AnalysisTypes, Registry

LEMMA LeastPosition == ASSUME NEW S \in SUBSET Nat, S # {} PROVE \E k \in S : \A j \in S : k <= j
<1>1. IsWellFoundedOn(OpToRel(<, Nat), Nat)
  BY NatLessThanWellFounded
<1>2. PICK k \in S : \A j \in S : ~(<< j, k >> \in OpToRel(<, Nat))
  BY <1>1, WFMin
<1>3. \A j \in S : ~(j < k)
  BY <1>2 DEF OpToRel
<1> QED BY <1>3

LEMMA ForemostOffered ==
  ASSUME NEW offers \in SUBSET Nat, offers # {}, NEW preferred
  PROVE  Foremost(offers, preferred) \in offers
<1> DEFINE front == IF offers \intersect preferred = {} THEN offers ELSE offers \intersect preferred
<1>1. front \in SUBSET Nat /\ front # {} /\ front \subseteq offers
  OBVIOUS
<1> HIDE DEF front
<1>2. \E k \in front : \A j \in front : k <= j
  BY <1>1, LeastPosition
<1>3. (CHOOSE k \in front : \A j \in front : k <= j) \in front
  BY <1>2
<1> QED BY <1>1, <1>3 DEF Foremost, front

\* A model was picked: the slot, the gate, the rows and the budget allow it.
ModelAllowed(t, x, c, u, s) ==
  /\ t.ml
  /\ MLViable(c, t.analysis.type)
  /\ x.rows >= 10
  /\ s.name \in {"Prophet", "One-Class SVM", "SHAP"} => s.cost = "expensive"
  /\ s.cost = "expensive" /\ (\E j \in Candidates(TRUE, t.analysis, x) :
                                Registry[t.analysis.type][j].cost # "expensive") => u < MaxExpensive

\* A pick among the candidates that do (not) take a model.
PickFits(t, x, u, ml, s) ==
  /\ Registered(s) /\ s.ml = ml /\ x.rows >= s.rows
  /\ s.cost = "expensive" /\ (\E j \in Candidates(ml, t.analysis, x) :
                                Registry[t.analysis.type][j].cost # "expensive") => u < MaxExpensive

LEMMA Picked ==
  ASSUME NEW t, NEW x, NEW preferred, NEW u \in Nat, NEW ml, t.analysis.type \in AnalysisTypes,
         Candidates(ml, t.analysis, x) # {}
  PROVE  PickFits(t, x, u, ml,
                  PickWithinBudget(Registry[t.analysis.type], Candidates(ml, t.analysis, x), preferred, u))
<1> DEFINE specs == Registry[t.analysis.type]
           offers == Candidates(ml, t.analysis, x)
           cheaper == {k \in offers : specs[k].cost # "expensive"}
           from == IF u < MaxExpensive \/ cheaper = {} THEN offers ELSE cheaper
           at == Foremost(from, preferred)
<1>1. AllRegistered(specs)
  BY RegistryListed
<1>2. offers = {k \in DOMAIN specs : specs[k].ml = ml /\ MeetsRequirements(specs[k], x, t.analysis.columns)}
  BY DEF Candidates
<1>3. PickWithinBudget(specs, offers, preferred, u) = specs[at]
  BY DEF PickWithinBudget
<1> HIDE DEF specs, offers
<1>4. offers \in SUBSET Nat
  BY <1>1, <1>2 DEF AllRegistered
<1>5. from \in SUBSET Nat /\ from # {} /\ from \subseteq offers
  BY <1>4 DEF offers
<1>6. at \in from
  BY <1>5, ForemostOffered
<1>7. ~(u < MaxExpensive) /\ cheaper # {} => at \in cheaper
  BY <1>6
<1>8. at \in offers
  BY <1>5, <1>6
<1> HIDE DEF at, from
<1>9. Registered(specs[at]) /\ specs[at].ml = ml /\ x.rows >= specs[at].rows
  BY <1>1, <1>2, <1>8 DEF AllRegistered, MeetsRequirements
<1>10. specs[at].cost = "expensive" /\ (\E j \in offers : specs[j].cost # "expensive") => u < MaxExpensive
  BY <1>7
<1> QED BY <1>3, <1>9, <1>10 DEF specs, offers, PickFits

LEMMA Selected ==
  ASSUME NEW t, NEW x, NEW c, NEW preferred, NEW u \in Nat, t.analysis.type \in AnalysisTypes, x.rows \in Nat
  PROVE  LET sel == Select(t, x, c, preferred, u)
         IN /\ sel.reason = "gate" => t.analysis.type \in GatedTypes /\ ~MLViable(c, t.analysis.type)
            /\ sel.spec # << >> => sel.spec[1].name # None
            /\ sel.spec # << >> /\ sel.spec[1].ml => ModelAllowed(t, x, c, u, sel.spec[1])
<1> DEFINE specs  == Registry[t.analysis.type]
           reason == Reason(t, c)
           models == Candidates(TRUE, t.analysis, x)
           plain  == Candidates(FALSE, t.analysis, x)
           liked  == {k \in plain : specs[k].name = preferred}
           m == PickWithinBudget(specs, models, {}, u)
           n == PickWithinBudget(specs, plain, liked, u)
           modelled == reason = "allowed" /\ models # {}
           sel == Select(t, x, c, preferred, u)
<1>1. sel = [spec |-> IF modelled THEN << m >> ELSE IF plain = {} THEN << >> ELSE << n >>, reason |-> reason]
  BY DEF Select
<1>2. reason = "gate" => t.analysis.type \in GatedTypes /\ ~MLViable(c, t.analysis.type)
  BY DEF Reason
<1>3. reason = "allowed" => t.ml /\ MLViable(c, t.analysis.type)
  BY DEF Reason
<1> HIDE DEF reason, liked
<1>4. ASSUME modelled PROVE m.name # None /\ ModelAllowed(t, x, c, u, m)
  <2>1. PickFits(t, x, u, TRUE, m)
    BY <1>4, Picked
  <2> HIDE DEF m
  <2>2. Registered(m) /\ m.ml = TRUE /\ x.rows >= m.rows
    BY <2>1 DEF PickFits
  <2>3. x.rows >= 10
    <3>1. m.rows \in Nat /\ m.rows >= 10
      BY <2>2 DEF Registered
    <3> QED BY <2>2, <3>1
  <2>4. m.cost = "expensive" /\ (\E j \in models : specs[j].cost # "expensive") => u < MaxExpensive
    BY <2>1 DEF PickFits
  <2>5. t.ml /\ MLViable(c, t.analysis.type)
    BY <1>3, <1>4
  <2>6. m.name # None /\ (m.name \in {"Prophet", "One-Class SVM", "SHAP"} => m.cost = "expensive")
    BY <2>2 DEF Registered
  <2> QED BY <2>3, <2>4, <2>5, <2>6 DEF ModelAllowed
<1>5. ASSUME plain # {} PROVE n.name # None /\ n.ml = FALSE
  <2>1. PickFits(t, x, u, FALSE, n)
    BY <1>5, Picked
  <2> HIDE DEF n
  <2> QED BY <2>1 DEF PickFits, Registered
<1> HIDE DEF modelled, plain, m, n
<1>6. sel.reason = reason
  BY <1>1
<1>7. CASE modelled
  <2>1. sel.spec = << m >> /\ sel.spec[1] = m
    BY <1>1, <1>7
  <2> QED BY <1>2, <1>4, <1>6, <1>7, <2>1
<1>8. CASE ~modelled /\ plain = {}
  <2>1. sel.spec = << >>
    BY <1>1, <1>8
  <2> QED BY <1>2, <1>6, <2>1
<1>9. CASE ~modelled /\ plain # {}
  <2>1. sel.spec = << n >> /\ sel.spec[1] = n
    BY <1>1, <1>9
  <2> QED BY <1>2, <1>5, <1>6, <1>9, <2>1
<1> QED BY <1>7, <1>8, <1>9

LEMMA Evidence ==
  ASSUME NEW f, NEW x, NEW d, NEW a, NEW sel, NEW k, NEW raises,
         sel.spec # << >> => sel.spec[1].name # None
  PROVE  LET e == Execute(f, x, d, a, sel, k, raises)
         IN /\ e.blocked => sel.reason = "gate"
            /\ e.model # None => sel.spec # << >> /\ sel.spec[1].ml /\ e.model = sel.spec[1].name
            /\ e.model # None \/ e.fallback # None \/ ~e.shown
<1> DEFINE e == Execute(f, x, d, a, sel, k, raises)
           s == sel.spec[1]
<1>1. \/ e = NoEvidence
      \/ sel.spec # << >> /\ s.ml /\ e = [NoEvidence EXCEPT !.shown = TRUE, !.model = s.name]
      \/ /\ sel.spec # << >>
         /\ e = [shown |-> TRUE, model |-> None, fallback |-> s.name, blocked |-> sel.reason = "gate"]
  BY DEF Execute
<1> HIDE DEF e, s
<1>2. s.name # None \/ sel.spec = << >>
  BY DEF s
<1>3. CASE e = NoEvidence
  BY <1>3 DEF NoEvidence, e
<1>4. CASE sel.spec # << >> /\ s.ml /\ e = [NoEvidence EXCEPT !.shown = TRUE, !.model = s.name]
  <2>1. e.blocked = FALSE /\ e.model = s.name
    BY <1>4 DEF NoEvidence
  <2> QED BY <1>2, <1>4, <2>1 DEF e, s
<1>5. CASE /\ sel.spec # << >>
           /\ e = [shown |-> TRUE, model |-> None, fallback |-> s.name, blocked |-> sel.reason = "gate"]
  <2>1. e.model = None /\ e.fallback = s.name /\ (e.blocked <=> sel.reason = "gate")
    BY <1>5
  <2> QED BY <1>2, <1>5, <2>1 DEF e, s
<1> QED BY <1>1, <1>3, <1>4, <1>5

----------------------------------------------------------------------------
(* The plan of a call, from its first node to its end.                      *)

Unplanned == Early \union {"plan_analytics"}

Curated == call.plugin.kind = "insurance" /\ intent.kpi # None

PlanInv ==
  /\ pc # "done" => CallShape(call)
  /\ pc \notin {"done", "build_dataset_context"} => ctx.rows \in Nat
  /\ pc \notin {"done", "build_dataset_context", "resolve_capabilities"} => caps = ResolveCapabilities(ctx, call.ml)
  /\ pc \in Unplanned => plan = << >>
  /\ pc \in Unplanned \union {"schedule"} => scheduled = << >>
  /\ PlannedList(plan, caps, Curated)
  /\ scheduled = << >> \/ scheduled = Schedule(plan, intent)
  /\ plan # << >> /\ pc # "schedule" => scheduled = Schedule(plan, intent)

\* A call that starts, fails to start or is lost plans nothing.
LEMMA ClearedPlan ==
  ASSUME NEW c, NEW i, NEW n, NEW p, NEW s, NEW x, NEW r,
         call' = c, intent' = i, caps' = n, plan' = << >>, scheduled' = << >>,
         pc' = "done" \/ (pc' = "build_dataset_context" /\ CallShape(call'))
  PROVE  PlanInv'
<1>1. PlannedList(plan', caps', Curated')
  BY NoPlan
<1> QED BY <1>1 DEF PlanInv, Unplanned

LEMMA StartsUnplanned == ServiceInit => PlanInv
<1> SUFFICES ASSUME ServiceInit PROVE PlanInv
  OBVIOUS
<1>1. PlannedList(plan, caps, Curated)
  BY NoPlan DEF ServiceInit
<1> QED BY <1>1 DEF ServiceInit, PlanInv, Unplanned, Early

\* A step that leaves the plan alone: the nodes after the scheduler, a
\* failure, the service's own steps.
LEMMA PlanLeftAlone ==
  ASSUME PlanInv, UNCHANGED << call, ctx, caps, intent, plan, scheduled >>,
         pc' = pc \/ (pc # "schedule" /\ pc' = "done")
           \/ (pc \notin Unplanned \union {"schedule", "done"} /\ pc' \notin Unplanned \union {"schedule", "done"})
           \/ (pc = "interpret_question" /\ pc' = "write_kpi")
  PROVE  PlanInv'
<1>1. PlannedList(plan', caps', Curated')
  BY DEF PlanInv, Curated
<1>2. /\ pc' # "done" => pc # "done" /\ (pc' \in Unplanned => pc \in Unplanned)
      /\ pc' \notin {"done", "build_dataset_context"} => pc \notin {"done", "build_dataset_context"}
      /\ pc' \notin {"done", "build_dataset_context", "resolve_capabilities"}
           => pc \notin {"done", "build_dataset_context", "resolve_capabilities"}
      /\ pc' \in Unplanned \union {"schedule"} => pc \in Unplanned \union {"schedule"}
      /\ pc' \in Unplanned => pc \in Unplanned
  BY DEF Unplanned, Early
<1>3. /\ pc' # "done" => CallShape(call')
      /\ pc' \notin {"done", "build_dataset_context"} => ctx'.rows \in Nat
      /\ pc' \notin {"done", "build_dataset_context", "resolve_capabilities"}
           => caps' = ResolveCapabilities(ctx', call'.ml)
      /\ pc' \in Unplanned => plan' = << >>
      /\ pc' \in Unplanned \union {"schedule"} => scheduled' = << >>
  BY <1>2 DEF PlanInv
<1>4. scheduled' = << >> \/ scheduled' = Schedule(plan', intent')
  BY DEF PlanInv
<1>5. plan' # << >> /\ pc' # "schedule" => scheduled' = Schedule(plan', intent')
  BY DEF PlanInv
<1> QED BY <1>1, <1>3, <1>4, <1>5 DEF PlanInv

LEMMA PlanNodesKeep ==
  ASSUME PlanInv, BuildDatasetContext \/ Resolve \/ Discover \/ InterpretQuestion \/ PlanAnalytics \/ ScheduleAnalyses
  PROVE  PlanInv'
<1>1. CASE BuildDatasetContext
  <2>1. /\ pc = "build_dataset_context" /\ pc' = "resolve_capabilities" /\ ctx' = BuildContext(call.ds)
        /\ UNCHANGED << call, caps, intent, plan, scheduled >>
    BY <1>1 DEF BuildDatasetContext
  <2>2. CallShape(call') /\ plan' = << >> /\ scheduled' = << >>
    BY <2>1 DEF PlanInv, Unplanned, Early
  <2>3. ctx'.rows = call.ds.rows
    BY <2>1 DEF BuildContext
  <2>4. PlannedList(plan', caps', Curated')
    BY <2>2, NoPlan
  <2> QED BY <2>1, <2>2, <2>3, <2>4 DEF PlanInv, CallShape
<1>2. CASE Resolve
  <2>1. /\ pc = "resolve_capabilities" /\ pc' = "discover_kpis" /\ caps' = ResolveCapabilities(ctx, call.ml)
        /\ UNCHANGED << call, ctx, intent, plan, scheduled >>
    BY <1>2 DEF Resolve
  <2>2. CallShape(call') /\ plan' = << >> /\ scheduled' = << >> /\ ctx'.rows \in Nat
    BY <2>1 DEF PlanInv, Unplanned, Early
  <2>3. PlannedList(plan', caps', Curated')
    BY <2>2, NoPlan
  <2> QED BY <2>1, <2>2, <2>3 DEF PlanInv
<1>3. CASE Discover
  <2>1. pc = "discover_kpis" /\ pc' = "interpret_question" /\ UNCHANGED << call, ctx, caps, intent, plan, scheduled >>
    BY <1>3 DEF Discover
  <2>2. CallShape(call') /\ plan' = << >> /\ scheduled' = << >> /\ ctx'.rows \in Nat
    BY <2>1 DEF PlanInv, Unplanned, Early
  <2>3. PlannedList(plan', caps', Curated') /\ caps' = ResolveCapabilities(ctx', call'.ml)
    BY <2>1, <2>2, NoPlan DEF PlanInv
  <2> QED BY <2>1, <2>2, <2>3 DEF PlanInv
<1>4. CASE InterpretQuestion
  <2>1. /\ pc = "interpret_question" /\ pc' \in {"record_memory", "plan_analytics"}
        /\ UNCHANGED << call, ctx, caps, plan, scheduled >>
    BY <1>4 DEF InterpretQuestion
  <2>2. CallShape(call') /\ plan' = << >> /\ scheduled' = << >> /\ ctx'.rows \in Nat
    BY <2>1 DEF PlanInv, Unplanned, Early
  <2>3. PlannedList(plan', caps', Curated') /\ caps' = ResolveCapabilities(ctx', call'.ml)
    BY <2>1, <2>2, NoPlan DEF PlanInv
  <2> QED BY <2>1, <2>2, <2>3 DEF PlanInv
<1>5. CASE PlanAnalytics
  <2> DEFINE p == Plan(ctx, call.ds, caps, kpis, intent)
  <2>1. /\ pc = "plan_analytics" /\ pc' = "schedule" /\ plan' = EnhancePlan(p, ctx, intent, call.plugin)
        /\ UNCHANGED << call, ctx, caps, intent, scheduled >>
    BY <1>5 DEF PlanAnalytics
  <2>2. CallShape(call) /\ scheduled' = << >> /\ ctx'.rows \in Nat /\ caps' = ResolveCapabilities(ctx', call'.ml)
    BY <2>1 DEF PlanInv, Unplanned, Early
  <2>3. PlannedList(p, caps, Curated)
    BY PlanPlan
  <2> HIDE DEF p
  <2>4. PlannedList(EnhancePlan(p, ctx, intent, call.plugin), caps, Curated)
    BY <2>2, <2>3, EnhancedPlan DEF CallShape, Curated
  <2>5. PlannedList(plan', caps', Curated')
    BY <2>1, <2>4 DEF Curated
  <2> QED BY <2>1, <2>2, <2>5 DEF PlanInv, Unplanned, Early
<1>6. CASE ScheduleAnalyses
  <2>1. /\ pc = "schedule" /\ pc' = "execute_analyses" /\ scheduled' = Schedule(plan, intent)
        /\ UNCHANGED << call, ctx, caps, intent, plan >>
    BY <1>6 DEF ScheduleAnalyses
  <2>2. PlannedList(plan', caps', Curated')
    BY <2>1 DEF PlanInv, Curated
  <2>3. CallShape(call') /\ ctx'.rows \in Nat /\ caps' = ResolveCapabilities(ctx', call'.ml)
    BY <2>1 DEF PlanInv
  <2> QED BY <2>1, <2>2, <2>3 DEF PlanInv, Unplanned, Early
<1> QED BY <1>1, <1>2, <1>3, <1>4, <1>5, <1>6

\* The nodes after the scheduler.
LateNode == NothingPlanned \/ FetchFails \/ AdaptEvidence \/ BuildTrace
              \/ (\E kept \in KeptRows : kept <= call.ds.rows /\ FetchFiltered(kept))
              \/ (\E raises \in {FALSE, MayRaise} : RunAnalysis(raises))
              \/ (\E engine \in {"Groq", "Template Formatter (Groq error)", "Template Formatter"} : Narrate(engine))

LEMMA LateNodesLeavePlan ==
  ASSUME LateNode
  PROVE  /\ UNCHANGED << call, ctx, caps, intent, plan, scheduled >>
         /\ pc \notin Unplanned \union {"schedule", "done"}
         /\ pc' \notin Unplanned \union {"schedule"}
  BY DEF LateNode, NothingPlanned, FetchFails, Fail, AdaptEvidence, BuildTrace, FetchFiltered, RunAnalysis, Narrate,
         Unplanned, Early

LEMMA LateNodesKeep == ASSUME PlanInv, LateNode PROVE PlanInv'
  BY LateNodesLeavePlan, PlanLeftAlone

LEMMA WriteKeepsPlan == ASSUME PlanInv, WriteKPIFile PROVE PlanInv'
<1>1. /\ pc = "write_kpi" /\ pc' = "interpret_question"
      /\ call' = [call EXCEPT !.plugin.kpis = WithAdded(@, {ResolvedName(call)})]
      /\ UNCHANGED << ctx, caps, intent, plan, scheduled >>
  BY DEF WriteKPIFile
<1>2. CallShape(call) /\ plan' = << >> /\ scheduled' = << >> /\ ctx'.rows \in Nat
  BY <1>1 DEF PlanInv, Unplanned, Early
<1>3. CallShape(call') /\ call'.ml = call.ml
  BY <1>1, <1>2 DEF CallShape
<1>4. PlannedList(plan', caps', Curated') /\ caps' = ResolveCapabilities(ctx', call'.ml)
  BY <1>1, <1>2, <1>3, NoPlan DEF PlanInv
<1> QED BY <1>1, <1>2, <1>3, <1>4 DEF PlanInv

LEMMA CallsKeepPlan ==
  ASSUME PlanInv, ServiceDies \/ \E c \in NextCalls : Receive(c) \/ ReceiveFails(c)
  PROVE  PlanInv'
<1>1. CASE ServiceDies
  <2>1. pc' = "done" /\ plan' = << >> /\ scheduled' = << >>
    BY <1>1 DEF ServiceDies, ClearRun
  <2> QED BY <2>1, ClearedPlan
<1>2. ASSUME NEW c \in NextCalls, ReceiveFails(c) PROVE PlanInv'
  <2>1. pc' = "done" /\ plan' = << >> /\ scheduled' = << >>
    BY <1>2 DEF ReceiveFails, Begin, ClearRun
  <2> QED BY <2>1, ClearedPlan
<1>3. ASSUME NEW c \in NextCalls, Receive(c) PROVE PlanInv'
  <2>1. /\ pc' = "build_dataset_context" /\ plan' = << >> /\ scheduled' = << >>
        /\ call' = [c EXCEPT !.plugin.kpis = WithAdded(@, kpiFile[c.plugin.kind].added), !.last = LastTurn(mem')]
    BY <1>3 DEF Receive, NewRun, ClearRun
  <2>2. CallShape(c)
    BY CallsAssumption DEF NextCalls, CallShape
  <2>3. CallShape(call')
    BY <2>1, <2>2 DEF CallShape
  <2> QED BY <2>1, <2>3, ClearedPlan
<1> QED BY <1>1, <1>2, <1>3

LEMMA PlanKept == PlanInv /\ [ServiceNext]_ServiceVars => PlanInv'
<1> SUFFICES ASSUME PlanInv, [ServiceNext]_ServiceVars PROVE PlanInv'
  OBVIOUS
<1>1. CASE (GraphStep /\ ~ContextFails) \/ InterpretKnown
  BY <1>1, PlanNodesKeep, LateNodesKeep DEF GraphStep, LateNode, InterpretKnown
<1>2. CASE StartService \/ DatabaseFails \/ DatabaseRecovers \/ Finished \/ UNCHANGED ServiceVars
  <2>1. UNCHANGED vars
    BY <1>2 DEF StartService, DatabaseFails, DatabaseRecovers, Finished, ServiceVars
  <2> QED BY <2>1, PlanLeftAlone DEF vars
<1>3. CASE OpenKPIFile \/ KPIFileMissing \/ WriteRefused \/ ContextFails
  <2>1. /\ UNCHANGED << call, ctx, caps, intent, plan, scheduled >>
        /\ pc # "schedule" /\ (pc' = "done" \/ (pc = "interpret_question" /\ pc' = "write_kpi"))
    BY <1>3 DEF OpenKPIFile, KPIFileMissing, WriteRefused, ContextFails, Fail
  <2> QED BY <2>1, PlanLeftAlone
<1>4. CASE Remember
  <2>1. /\ UNCHANGED << call, ctx, caps, intent, plan, scheduled >>
        /\ pc = "record_memory" /\ pc' = "trace"
    BY <1>4 DEF Remember, RecordMemory
  <2> QED BY <2>1, PlanLeftAlone DEF Unplanned, Early
<1> QED BY <1>1, <1>2, <1>3, <1>4, WriteKeepsPlan, CallsKeepPlan DEF ServiceNext

LEMMA PlanInvariant == ServiceSpec => []PlanInv
  BY StartsUnplanned, PlanKept, PTL DEF ServiceSpec, ServiceVars

\* What is scheduled was planned, and has a slot for a model within the budget.
LEMMA ScheduledIsPlanned ==
  ASSUME PlanInv
  PROVE  /\ Slotted(scheduled)
         /\ \A k \in DOMAIN scheduled : Planned(scheduled[k].analysis, caps, Curated)
<1>1. CASE scheduled = << >>
  BY <1>1 DEF Slotted
<1>2. CASE scheduled = Schedule(plan, intent)
  <2>1. PlannedList(plan, caps, Curated)
    BY DEF PlanInv
  <2>2. Slotted(scheduled) /\ Fits(scheduled, plan, intent)
    BY <1>2, <2>1, ScheduledPlan
  <2>3. {scheduled[k].analysis : k \in DOMAIN scheduled} \subseteq {plan[k] : k \in DOMAIN plan}
    BY <2>2 DEF Fits
  <2>4. \A k \in DOMAIN scheduled : \E j \in DOMAIN plan : scheduled[k].analysis = plan[j]
    BY <2>3
  <2> QED BY <2>1, <2>2, <2>4 DEF PlannedList
<1> QED BY <1>1, <1>2 DEF PlanInv

\* analytics_planner.py and base_plugin.py: an analysis the dataset does not
\* admit is scheduled only as the insurance plugin's own, whatever the dataset,
\* the question and the recommendation.
THEOREM ImpossibleOnlyFromPlugin == ServiceSpec => []OnlyPluginPlansImpossible
<1>1. PlanInv => OnlyPluginPlansImpossible
  <2> SUFFICES ASSUME PlanInv, NEW k \in DOMAIN scheduled,
                      scheduled[k].analysis.type \in GatedTypes, ~caps[scheduled[k].analysis.type].structural
               PROVE  /\ call.plugin.kind = "insurance" /\ intent.kpi # None
                      /\ scheduled[k].analysis.grounded
                      /\ scheduled[k].analysis.type \in {"forecast", "time_series_analysis"}
    BY DEF OnlyPluginPlansImpossible
  <2>1. Planned(scheduled[k].analysis, caps, Curated)
    BY ScheduledIsPlanned
  <2> QED BY <2>1 DEF Planned, Possible, Curated
<1> QED BY <1>1, PlanInvariant, PTL

\* analytics_scheduler.py, schedule: the budget drops nothing that was asked
\* for, and of the rest only what comes last, for any plan and any budget.
THEOREM RequestedIsKept == ServiceSpec => []RequestedNotTrimmed
<1>1. PlanInv => RequestedNotTrimmed
  <2> SUFFICES ASSUME PlanInv, pc \notin Nodes \ {"execute_analyses", "narrate", "record_memory"}, plan # << >>
               PROVE  Fits(scheduled, plan, intent)
    BY DEF RequestedNotTrimmed, Fits
  <2>1. scheduled = Schedule(plan, intent)
    BY DEF PlanInv, Nodes
  <2>2. PlannedList(plan, caps, Curated)
    BY DEF PlanInv
  <2> QED BY <2>1, <2>2, ScheduledPlan
<1> QED BY <1>1, PlanInvariant, PTL

----------------------------------------------------------------------------
\* The evidence of an analysis: why a model made it, why it says one was kept
\* from it.
Explained(k) ==
  LET type == entries[k].type
      e    == entries[k].evidence
  IN /\ type = scheduled[k].analysis.type /\ type \in AnalysisTypes
     /\ e.blocked => type \in GatedTypes /\ (call.ml < MLThreshold \/ ~Possible(caps, type))
     /\ e.model # None => call.ml >= MLThreshold /\ Possible(caps, type) /\ scheduled[k].ml /\ ctx.rows >= 10
     /\ e.model # None \/ e.fallback # None \/ ~e.shown

\* Expensive models where a cheaper one could have run.
Spared(k) ==
  /\ entries[k].evidence.model # None
  /\ entries[k].evidence.model \in {"Prophet", "One-Class SVM", "SHAP"} /\ Avoidable(k)

Spares == {k \in DOMAIN entries : Spared(k)}

EvidenceInv ==
  /\ pc \in Unplanned \union {"schedule"} => entries = << >>
  /\ List(entries) /\ DOMAIN entries \subseteq DOMAIN scheduled
  /\ \A k \in DOMAIN entries : Explained(k)
  /\ used \in Nat /\ Cardinality(Spares) <= used /\ Cardinality(Spares) <= MaxExpensive

LEMMA StartsWithoutEvidence == ServiceInit => EvidenceInv
<1> SUFFICES ASSUME ServiceInit PROVE EvidenceInv
  OBVIOUS
<1>1. entries \in Seq({}) /\ DOMAIN entries = {} /\ used = 0
  BY DEF ServiceInit
<1>2. Spares = {}
  BY <1>1 DEF Spares
<1>3. Cardinality(Spares) = 0
  BY <1>2, FS_EmptySet
<1> QED BY <1>1, <1>3, ExpensiveAssumption DEF EvidenceInv, ServiceInit, List

\* Before the first analysis of a call there is nothing to explain.
LEMMA NoEvidenceYet ==
  ASSUME entries' = << >>, used' \in Nat
  PROVE  EvidenceInv'
<1>1. entries' \in Seq({}) /\ DOMAIN entries' = {}
  OBVIOUS
<1>2. Spares' = {}
  BY <1>1 DEF Spares
<1>3. Cardinality(Spares)' = 0
  BY <1>2, FS_EmptySet
<1> QED BY <1>1, <1>3, ExpensiveAssumption DEF EvidenceInv, List

LEMMA EvidenceLeftAlone ==
  ASSUME EvidenceInv, UNCHANGED << call, ctx, caps, scheduled, entries, used >>,
         pc' \in Unplanned \union {"schedule"} => pc \in Unplanned \union {"schedule"}
  PROVE  EvidenceInv'
<1>1. \A k : (Explained(k) <=> Explained(k)') /\ (Spared(k) <=> Spared(k)')
  BY DEF Explained, Spared, Avoidable
<1>2. Spares' = Spares
  BY <1>1 DEF Spares
<1> QED BY <1>1, <1>2 DEF EvidenceInv

\* The slots, the gate and the budget of the analysis that runs next.
LEMMA NextEvidence ==
  ASSUME PlanInv, EvidenceInv, NEW raises, RunAnalysis(raises), NEW n, n = Len(entries) + 1
  PROVE  /\ n \in DOMAIN scheduled
         /\ entries' = Append(entries, entries'[n])
         /\ Explained(n)'
         /\ used' \in Nat /\ used' >= used
         /\ Spared(n)' => used < MaxExpensive /\ used' = used + 1
<1> DEFINE t == scheduled[n]
           sel == Select(t, ctx, caps, Preferred_(t.analysis.type), used)
           e == Execute(frame[1], ctx, call.ds, t.analysis, sel, CurrentKPI, raises)
           row == [type |-> t.analysis.type, evidence |-> e]
<1>1. /\ pc = "execute_analyses" /\ Len(entries) < Len(scheduled)
      /\ entries' = Append(entries, row)
      /\ used' = used + (IF Expensive(sel) THEN 1 ELSE 0)
      /\ UNCHANGED << call, ctx, caps, scheduled >>
  BY DEF RunAnalysis
<1>2. used \in Nat /\ Len(entries) \in Nat
  BY DEF EvidenceInv, List
<1>3. n \in DOMAIN scheduled /\ Planned(t.analysis, caps, Curated)
  BY <1>1, <1>2, ScheduledIsPlanned DEF Slotted
<1>4. /\ t.analysis.type \in AnalysisTypes
      /\ ctx.rows \in Nat /\ call.ml \in Nat /\ caps = ResolveCapabilities(ctx, call.ml)
  BY <1>1, <1>3 DEF PlanInv, CallShape, Planned, IsAnalysis
<1> HIDE DEF t
<1>5. /\ sel.reason = "gate" => t.analysis.type \in GatedTypes /\ ~MLViable(caps, t.analysis.type)
      /\ sel.spec # << >> => sel.spec[1].name # None
      /\ sel.spec # << >> /\ sel.spec[1].ml => ModelAllowed(t, ctx, caps, used, sel.spec[1])
  BY <1>2, <1>4, Selected
<1> HIDE DEF sel
<1>6. /\ e.blocked => sel.reason = "gate"
      /\ e.model # None => sel.spec # << >> /\ sel.spec[1].ml /\ e.model = sel.spec[1].name
      /\ e.model # None \/ e.fallback # None \/ ~e.shown
  BY <1>5, Evidence
<1> HIDE DEF e
<1>7. entries'[n] = row /\ DOMAIN row = {"type", "evidence"} /\ row.type = t.analysis.type /\ row.evidence = e
  <2>1. PICK S : entries \in Seq(S)
    BY DEF EvidenceInv, List
  <2> HIDE DEF row
  <2>2. entries'[n] = row
    BY <1>1, <2>1
  <2> QED BY <2>2 DEF row
<1>8. ASSUME e.blocked
      PROVE  t.analysis.type \in GatedTypes /\ (call.ml < MLThreshold \/ ~Possible(caps, t.analysis.type))
  <2>1. t.analysis.type \in GatedTypes /\ ~MLViable(caps, t.analysis.type)
    BY <1>5, <1>6, <1>8
  <2> DEFINE fits == StructuralCheck(ctx, t.analysis.type)
             able == fits /\ call.ml >= MLThreshold
  <2>2. caps[t.analysis.type] = [structural |-> fits, execution |-> able]
    BY <1>4, <2>1 DEF ResolveCapabilities
  <2>3. ~able
    <3> HIDE DEF able, fits
    <3>1. caps[t.analysis.type].execution = able
      BY <2>2
    <3>2. ~caps[t.analysis.type].execution
      BY <2>1 DEF MLViable
    <3> QED BY <3>1, <3>2, Zenon
  <2>4. CASE ~fits
    BY <2>1, <2>2, <2>4 DEF Possible
  <2>5. CASE ~(call.ml >= MLThreshold)
    BY <1>4, <2>1, <2>5, ThresholdAssumption
  <2> QED BY <2>3, <2>4, <2>5
<1>9. ASSUME e.model # None
      PROVE  /\ call.ml >= MLThreshold /\ Possible(caps, t.analysis.type) /\ t.ml /\ ctx.rows >= 10
             /\ ModelAllowed(t, ctx, caps, used, sel.spec[1])
  <2>1. ModelAllowed(t, ctx, caps, used, sel.spec[1])
    BY <1>5, <1>6, <1>9
  <2>2. MLViable(caps, t.analysis.type) /\ t.ml /\ ctx.rows >= 10
    BY <2>1 DEF ModelAllowed
  <2>3. call.ml >= MLThreshold /\ Possible(caps, t.analysis.type)
    BY <1>4, <2>2 DEF MLViable, Possible, ResolveCapabilities
  <2> QED BY <2>1, <2>2, <2>3
<1>10. Explained(n)'
  BY <1>1, <1>4, <1>6, <1>7, <1>8, <1>9 DEF Explained, t
<1>11. ASSUME Spared(n)' PROVE used < MaxExpensive /\ used' = used + 1
  <2>1. e.model # None /\ e.model \in {"Prophet", "One-Class SVM", "SHAP"}
    BY <1>7, <1>11 DEF Spared
  <2>2. ModelAllowed(t, ctx, caps, used, sel.spec[1]) /\ sel.spec # << >> /\ e.model = sel.spec[1].name
    BY <1>6, <1>9, <2>1
  <2>3. sel.spec[1].cost = "expensive"
    BY <2>1, <2>2 DEF ModelAllowed
  <2>4. \E j \in Candidates(TRUE, t.analysis, ctx) : Registry[t.analysis.type][j].cost # "expensive"
    <3>1. \E j \in Candidates(TRUE, scheduled'[n].analysis, ctx') : Registry[entries'[n].type][j].cost # "expensive"
      BY <1>11 DEF Spared, Avoidable
    <3>2. scheduled'[n] = t /\ ctx' = ctx
      BY <1>1 DEF t
    <3>3. entries'[n].type = t.analysis.type
      BY <1>7
    <3> QED BY <3>1, <3>2, <3>3
  <2>5. used < MaxExpensive
    BY <2>2, <2>3, <2>4 DEF ModelAllowed
  <2>6. Expensive(sel)
    BY <2>2, <2>3 DEF Expensive
  <2> QED BY <1>1, <2>5, <2>6
<1>12. used' \in Nat /\ used' >= used
  BY <1>1, <1>2
<1> QED BY <1>1, <1>3, <1>7, <1>10, <1>11, <1>12 DEF row

LEMMA RunKeepsEvidence ==
  ASSUME PlanInv, EvidenceInv, NEW raises, RunAnalysis(raises)
  PROVE  EvidenceInv'
<1> DEFINE m == Len(entries)
<1>1. PICK S : entries \in Seq(S)
  BY DEF EvidenceInv, List
<1>2. m \in Nat /\ DOMAIN entries = 1..m
  BY <1>1
<1>3. PICK n \in Nat : n = Len(entries) + 1
  BY <1>2
<1>4. /\ n \in DOMAIN scheduled
      /\ entries' = Append(entries, entries'[n])
      /\ Explained(n)'
      /\ used' \in Nat /\ used' >= used
      /\ Spared(n)' => used < MaxExpensive /\ used' = used + 1
  BY <1>3, NextEvidence
<1>5. /\ entries' \in Seq(S \union {entries'[n]})
      /\ DOMAIN entries' = DOMAIN entries \union {n} /\ n \notin DOMAIN entries
      /\ \A k \in DOMAIN entries : entries'[k] = entries[k]
  BY <1>1, <1>2, <1>3, <1>4
<1>6. pc = "execute_analyses" /\ pc' = pc /\ UNCHANGED << call, ctx, caps, scheduled >>
  BY DEF RunAnalysis
<1>7. \A k \in DOMAIN entries : (Explained(k) <=> Explained(k)') /\ (Spared(k) <=> Spared(k)')
  BY <1>5, <1>6 DEF Explained, Spared, Avoidable
<1>8. \A k \in DOMAIN entries' : Explained(k)'
  BY <1>4, <1>5, <1>7 DEF EvidenceInv
<1>9. List(entries)' /\ DOMAIN entries' \subseteq DOMAIN scheduled'
  BY <1>4, <1>5, <1>6 DEF List, EvidenceInv
<1>10. IsFiniteSet(Spares) /\ n \notin Spares
  <2>1. Positions(DOMAIN entries)
    BY <1>1, ListPositions DEF List
  <2>2. Positions(Spares)
    BY <2>1, SomePositions DEF Spares
  <2> QED BY <1>5, <2>2 DEF Positions, Spares
<1>11. used \in Nat /\ Cardinality(Spares) <= used /\ Cardinality(Spares) <= MaxExpensive /\ Cardinality(Spares) \in Nat
  BY <1>10, FS_CardinalityType DEF EvidenceInv
<1>12. Cardinality(Spares') <= used' /\ Cardinality(Spares') <= MaxExpensive
  <2>1. CASE Spared(n)'
    <3>1. Spares' = Spares \union {n}
      BY <1>5, <1>7, <2>1 DEF Spares
    <3>2. Cardinality(Spares') = Cardinality(Spares) + 1
      BY <1>10, <3>1, FS_AddElement
    <3> QED BY <1>4, <1>11, <2>1, <3>2, ExpensiveAssumption
  <2>2. CASE ~Spared(n)'
    <3>1. Spares' = Spares
      BY <1>5, <1>7, <2>2 DEF Spares
    <3> QED BY <1>4, <1>11, <3>1
  <2> QED BY <2>1, <2>2
<1>13. pc' \notin Unplanned \union {"schedule"}
  BY <1>6 DEF Unplanned, Early
<1> QED BY <1>4, <1>8, <1>9, <1>12, <1>13 DEF EvidenceInv

\* Nothing has run before the scheduler is done.
LEMMA EarlyNodesKeepEvidence ==
  ASSUME PlanInv, EvidenceInv,
         \/ BuildDatasetContext \/ Resolve \/ Discover \/ InterpretQuestion \/ PlanAnalytics \/ ScheduleAnalyses
         \/ WriteKPIFile
  PROVE  EvidenceInv'
<1>1. pc \in Unplanned \union {"schedule"} /\ UNCHANGED << entries, used >>
  BY DEF BuildDatasetContext, Resolve, Discover, InterpretQuestion, PlanAnalytics, ScheduleAnalyses, WriteKPIFile,
         Unplanned, Early
<1>2. entries' = << >> /\ used' \in Nat
  BY <1>1 DEF EvidenceInv
<1> QED BY <1>2, NoEvidenceYet

LEMMA LateNodesKeepEvidence == ASSUME PlanInv, EvidenceInv, LateNode PROVE EvidenceInv'
<1>1. CASE \E raises \in {FALSE, MayRaise} : RunAnalysis(raises)
  BY <1>1, RunKeepsEvidence
<1>2. CASE ~(\E raises \in {FALSE, MayRaise} : RunAnalysis(raises))
  <2>1. UNCHANGED << entries, used >>
    BY <1>2 DEF LateNode, NothingPlanned, FetchFails, Fail, AdaptEvidence, BuildTrace, FetchFiltered, Narrate
  <2> QED BY <2>1, LateNodesLeavePlan, EvidenceLeftAlone
<1> QED BY <1>1, <1>2

LEMMA EvidenceKept == PlanInv /\ EvidenceInv /\ [ServiceNext]_ServiceVars => EvidenceInv'
<1> SUFFICES ASSUME PlanInv, EvidenceInv, [ServiceNext]_ServiceVars PROVE EvidenceInv'
  OBVIOUS
<1>1. CASE (GraphStep /\ ~ContextFails) \/ InterpretKnown \/ WriteKPIFile
  BY <1>1, EarlyNodesKeepEvidence, LateNodesKeepEvidence DEF GraphStep, LateNode, InterpretKnown
<1>2. CASE StartService \/ DatabaseFails \/ DatabaseRecovers \/ Finished \/ UNCHANGED ServiceVars
  <2>1. UNCHANGED vars
    BY <1>2 DEF StartService, DatabaseFails, DatabaseRecovers, Finished, ServiceVars
  <2> QED BY <2>1, EvidenceLeftAlone DEF vars
<1>3. CASE OpenKPIFile \/ KPIFileMissing \/ WriteRefused \/ ContextFails \/ Remember
  <2>1. /\ UNCHANGED << call, ctx, caps, scheduled, entries, used >>
        /\ \/ pc = "interpret_question" /\ pc' \in {"write_kpi", "done"}
           \/ pc' \in {"trace", "done"}
    BY <1>3 DEF OpenKPIFile, KPIFileMissing, WriteRefused, ContextFails, Fail, Remember, RecordMemory
  <2> QED BY <2>1, EvidenceLeftAlone DEF Unplanned, Early
<1>4. CASE ServiceDies \/ \E c \in NextCalls : Receive(c) \/ ReceiveFails(c)
  <2>1. entries' = << >> /\ used' = 0
    BY <1>4 DEF ServiceDies, Receive, ReceiveFails, Begin, NewRun, ClearRun
  <2> QED BY <2>1, NoEvidenceYet
<1> QED BY <1>1, <1>2, <1>3, <1>4 DEF ServiceNext

LEMMA EvidenceInvariant == ServiceSpec => [](PlanInv /\ EvidenceInv)
<1>1. PlanInv /\ EvidenceInv /\ [ServiceNext]_ServiceVars => (PlanInv /\ EvidenceInv)'
  BY PlanKept, EvidenceKept
<1>2. ServiceInit => PlanInv /\ EvidenceInv
  BY StartsUnplanned, StartsWithoutEvidence
<1> QED BY <1>1, <1>2, PTL DEF ServiceSpec, ServiceVars

\* model_selector.py and analytics_scheduler.py: whatever the budgets, the
\* threshold and the number of analyses, a model ran only with a slot, a
\* score and a structure for it, and only as many expensive ones with a
\* cheaper alternative as the budget has.
THEOREM ModelsRunWhenReady == ServiceSpec => []ModelsOnlyWhenReady
<1>1. PlanInv /\ EvidenceInv => ModelsOnlyWhenReady
  <2> SUFFICES ASSUME PlanInv, EvidenceInv PROVE ModelsOnlyWhenReady
    OBVIOUS
  <2> DEFINE modelled == {k \in DOMAIN entries : entries[k].evidence.model # None}
             spares == {k \in modelled :
                          entries[k].evidence.model \in {"Prophet", "One-Class SVM", "SHAP"} /\ Avoidable(k)}
  <2>1. ASSUME NEW k \in modelled
        PROVE  /\ call.ml >= MLThreshold /\ Possible(caps, entries[k].type)
               /\ scheduled[k].ml /\ ctx.rows >= 10
    BY <2>1 DEF EvidenceInv, Explained
  <2>2. modelled \subseteq 1..MaxML
    <3>1. \A k \in modelled : k \in DOMAIN scheduled /\ k \in Nat /\ k >= 1
      BY ScheduledIsPlanned DEF EvidenceInv, Slotted
    <3>2. \A k \in modelled : k <= MaxML
      BY <2>1, <3>1, ScheduledIsPlanned DEF Slotted
    <3> QED BY <3>1, <3>2, BudgetAssumption
  <2>3. Cardinality(modelled) <= MaxML
    <3>1. IsFiniteSet(1..MaxML) /\ Cardinality(1..MaxML) = MaxML
      BY BudgetAssumption, FS_Interval
    <3> HIDE DEF modelled
    <3>2. Cardinality(modelled) <= Cardinality(1..MaxML)
      BY <2>2, <3>1, FS_Subset
    <3> QED BY <3>1, <3>2
  <2>4. spares = Spares
    BY DEF Spares, Spared
  <2>5. Cardinality(spares) <= MaxExpensive
    BY <2>4 DEF EvidenceInv
  <2> QED BY <2>1, <2>3, <2>5 DEF ModelsOnlyWhenReady
<1> QED BY <1>1, EvidenceInvariant, PTL


----------------------------------------------------------------------------
(* The trace.                                                               *)

\* A step of the trace, and a trace, that blames the gate for a reason only.
Caused(t) ==
  t.gate = "blocked" => IF t.step = "narration" THEN ~call.llm ELSE call.ml < MLThreshold \/ ~Possible(caps, t.step)

CausedList(s) == List(s) /\ \A k \in DOMAIN s : Caused(s[k])

TraceInv ==
  /\ pc # "done" => trace = << >>
  /\ BlockedHasACause

LEMMA JoinedCauses == ASSUME NEW s, NEW t, CausedList(s), CausedList(t) PROVE CausedList(s \o t)
<1>1. List(s) /\ List(t)
  BY DEF CausedList
<1>2. List(s \o t) /\ InEither(s \o t, s, t)
  BY <1>1, Concatenated
<1> QED BY <1>2 DEF CausedList, InEither

LEMMA CausedLists ==
  /\ CausedList(<< >>)
  /\ \A s : Caused(s) => CausedList(<< s >>)
  /\ \A s, t : Caused(s) /\ Caused(t) => CausedList(<< s, t >>)
<1>1. CausedList(<< >>)
  <2>1. << >> \in Seq({})
    OBVIOUS
  <2> QED BY <2>1 DEF CausedList, List
<1>2. ASSUME NEW s, Caused(s) PROVE CausedList(<< s >>)
  <2>1. << s >> \in Seq({s})
    OBVIOUS
  <2>2. List(<< s >>)
    BY <2>1 DEF List
  <2>3. \A k \in DOMAIN << s >> : << s >>[k] = s
    OBVIOUS
  <2> QED BY <1>2, <2>2, <2>3 DEF CausedList
<1>3. ASSUME NEW s, NEW t, Caused(s), Caused(t) PROVE CausedList(<< s, t >>)
  <2>1. << s, t >> \in Seq({s, t})
    OBVIOUS
  <2>2. List(<< s, t >>)
    BY <2>1 DEF List
  <2>3. \A k \in DOMAIN << s, t >> : << s, t >>[k] \in {s, t}
    OBVIOUS
  <2> QED BY <1>3, <2>2, <2>3 DEF CausedList
<1> QED BY <1>1, <1>2, <1>3

LEMMA Ungated == \A step, engine : Caused(Step(step, engine, None)) /\ Caused(Step(step, engine, "passed"))
  BY DEF Caused, Step, None

LEMMA NarrationCaused == CausedList(NarrationEntry)
<1>1. Caused(Step("narration", narrator, IF call.llm THEN "passed" ELSE "blocked"))
  BY DEF Caused, Step
<1> QED BY <1>1, CausedLists DEF NarrationEntry

LEMMA SingleCaused ==
  ASSUME EvidenceInv, DOMAIN entries = {1}
  PROVE  CausedList(SingleTrace)
<1> DEFINE e == entries[1].evidence
           type == entries[1].type
           step == IF type \notin DOMAIN GatedEngines
                   THEN Step(type, IF type = "root_cause" THEN "RootCauseTool" ELSE "AnalyticsTool", None)
                   ELSE IF e.blocked THEN Step(type, e.fallback, "blocked")
                   ELSE Step(type, GatedEngines[type], "passed")
<1>1. SingleTrace = << Step("intent_detection", None, None), step >> \o NarrationEntry
  BY DEF SingleTrace
<1>2. e.blocked => call.ml < MLThreshold \/ ~Possible(caps, type)
  BY DEF EvidenceInv, Explained
<1>3. type \in AnalysisTypes
  BY DEF EvidenceInv, Explained
<1>4. type # "narration"
  BY <1>3, AllTypes
<1> HIDE DEF e, type
<1>5. e.blocked => Caused(Step(type, e.fallback, "blocked"))
  BY <1>2, <1>4 DEF Caused, Step
<1>6. Caused(step)
  BY <1>5, Ungated
<1> HIDE DEF step
<1>7. CausedList(<< Step("intent_detection", None, None), step >>)
  BY <1>6, Ungated, CausedLists
<1> QED BY <1>1, <1>7, NarrationCaused, JoinedCauses

LEMMA MultiCaused ==
  ASSUME EvidenceInv
  PROVE  CausedList(MultiTrace)
<1> DEFINE of(k) == LET e == entries[k].evidence IN
              CASE e.model # None                     -> Step(entries[k].type, e.model, "passed")
                [] e.model = None /\ e.fallback # None
                     -> Step(entries[k].type, e.fallback, IF e.blocked THEN "blocked" ELSE None)
                [] ~e.shown                           -> Step(entries[k].type, "analyzer", None)
           steps == [k \in DOMAIN entries |-> of(k)]
           first == << Step("intent_detection", None, None) >>
<1>1. MultiTrace = (first \o steps) \o NarrationEntry
  BY DEF MultiTrace
<1>2. ASSUME NEW k \in DOMAIN entries PROVE Caused(of(k))
  <2> DEFINE e == entries[k].evidence
             type == entries[k].type
  <2>1. /\ e.blocked => call.ml < MLThreshold \/ ~Possible(caps, type)
        /\ e.model # None \/ e.fallback # None \/ ~e.shown
        /\ type \in AnalysisTypes
    BY DEF EvidenceInv, Explained
  <2>2. \/ of(k) = Step(type, e.model, "passed")
        \/ of(k) = Step(type, e.fallback, IF e.blocked THEN "blocked" ELSE None)
        \/ of(k) = Step(type, "analyzer", None)
    BY <2>1
  <2>3. type # "narration"
    BY <2>1, AllTypes
  <2> HIDE DEF e, type, of
  <2>4. e.blocked => Caused(Step(type, e.fallback, "blocked"))
    BY <2>1, <2>3 DEF Caused, Step
  <2>5. Caused(Step(type, e.fallback, IF e.blocked THEN "blocked" ELSE None))
    BY <2>4, Ungated
  <2> QED BY <2>2, <2>5, Ungated
<1> HIDE DEF of
<1>3. CausedList(steps)
  <2>1. Len(entries) \in Nat /\ DOMAIN entries = 1..Len(entries)
    BY DEF EvidenceInv, List
  <2>2. DOMAIN steps = 1..Len(entries) /\ steps = [k \in DOMAIN steps |-> steps[k]]
    BY <2>1
  <2>3. \A k \in DOMAIN steps : Caused(steps[k])
    BY <1>2
  <2> HIDE DEF steps
  <2>4. List(steps)
    BY <2>1, <2>2, FunctionIsList
  <2> QED BY <2>3, <2>4 DEF CausedList
<1>4. CausedList(first)
  BY Ungated, CausedLists
<1> HIDE DEF steps, first
<1>5. CausedList(first \o steps)
  BY <1>3, <1>4, JoinedCauses
<1> QED BY <1>1, <1>5, NarrationCaused, JoinedCauses

LEMMA TraceCaused ==
  ASSUME EvidenceInv, BuildTrace
  PROVE  BlockedHasACause' /\ pc' = "done"
<1>1. /\ pc' = "done" /\ UNCHANGED << call, caps >>
      /\ trace' = IF Len(entries) > 1 THEN MultiTrace ELSE IF Single THEN SingleTrace ELSE EarlyTrace
  BY DEF BuildTrace
<1>2. CausedList(trace')
  <2>1. CASE trace' = MultiTrace
    BY <2>1, MultiCaused
  <2>2. CASE Single /\ trace' = SingleTrace
    <3>1. DOMAIN entries = {1}
      BY <2>2 DEF Single, EvidenceInv, List
    <3> QED BY <2>2, <3>1, SingleCaused
  <2>3. CASE trace' = EarlyTrace
    BY <2>3, Ungated, CausedLists DEF EarlyTrace
  <2> QED BY <1>1, <2>1, <2>2, <2>3
<1> QED BY <1>1, <1>2 DEF BlockedHasACause, CausedList, Caused

LEMMA NoTraceYet == ASSUME trace' = << >> PROVE TraceInv'
  BY DEF TraceInv, BlockedHasACause

LEMMA TraceKept == EvidenceInv /\ TraceInv /\ [ServiceNext]_ServiceVars => TraceInv'
<1> SUFFICES ASSUME EvidenceInv, TraceInv, [ServiceNext]_ServiceVars PROVE TraceInv'
  OBVIOUS
<1>1. CASE BuildTrace
  BY <1>1, TraceCaused DEF TraceInv
<1>2. CASE StartService \/ DatabaseFails \/ DatabaseRecovers \/ Finished \/ UNCHANGED ServiceVars
  <2>1. UNCHANGED vars
    BY <1>2 DEF StartService, DatabaseFails, DatabaseRecovers, Finished, ServiceVars
  <2> QED BY <2>1 DEF vars, TraceInv, BlockedHasACause
<1>3. CASE ServiceDies \/ \E c \in NextCalls : Receive(c) \/ ReceiveFails(c)
  <2>1. trace' = << >>
    BY <1>3 DEF ServiceDies, Receive, ReceiveFails, Begin, NewRun, ClearRun
  <2> QED BY <2>1, NoTraceYet
<1>4. CASE \/ InterpretQuestion \/ Remember \/ OpenKPIFile \/ WriteKPIFile \/ WriteRefused \/ KPIFileMissing
           \/ pc # "done" /\ GraphStep /\ ~BuildTrace
  <2>1. trace' = trace /\ pc # "done"
    BY <1>4 DEF InterpretQuestion, Remember, RecordMemory, OpenKPIFile, WriteKPIFile, WriteRefused, KPIFileMissing,
         Fail, GraphStep, BuildDatasetContext, ContextFails, Resolve, Discover, PlanAnalytics, ScheduleAnalyses, NothingPlanned, FetchFails,
         AdaptEvidence, FetchFiltered, RunAnalysis, Narrate
  <2> QED BY <2>1, NoTraceYet DEF TraceInv
<1> QED BY <1>1, <1>2, <1>3, <1>4 DEF ServiceNext, InterpretKnown

\* decision_trace.py: a trace blames the gate only for a score below the
\* threshold or a dataset without the structure, never for a budget.
THEOREM BlockedForACause == ServiceSpec => []BlockedHasACause
<1>1. ServiceInit => TraceInv
  BY DEF ServiceInit, TraceInv, BlockedHasACause
<1>2. TraceInv => BlockedHasACause
  BY DEF TraceInv
<1> QED BY <1>1, <1>2, TraceKept, EvidenceInvariant, PTL DEF ServiceSpec, ServiceVars

=============================================================================
