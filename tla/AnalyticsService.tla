-------------------------- MODULE AnalyticsService --------------------------
(***************************************************************************)
(* The analytics agent as a service: calls of one conversation, one at a   *)
(* time (the route runs the graph on the event loop), each a run of        *)
(* AnalyticsRun that starts from the conversation's stored turns and adds  *)
(* one.  The database may be out of reach, the process may be killed, and  *)
(* an indicator the rule engine does not know may be generated and written *)
(* to the plugin's file, which may be refused.                             *)
(***************************************************************************)
EXTENDS AnalyticsRun, SequencesExt

CONSTANTS
    FollowUps,   \* the calls that continue the conversation
    MaxTurns,    \* memory.max_turns: turns of the window
    StaticKPIs,  \* indicators the service can define without a language model
    MaxCalls, MaxOutages, MaxDeaths, MaxRefusals \* bounds: calls, database outages, killed processes, failed writes

ASSUME MaxTurnsAssumption == MaxTurns \in Nat \ {0}

PluginKinds == {"generic", "thin", "insurance"}

ASSUME CallsAssumption ==
    \A c \in Calls \union FollowUps :
        /\ {"ds", "question", "ml", "plugin", "last", "broken"} \subseteq DOMAIN c
        /\ c.ml \in Nat /\ c.ds.rows \in Nat
        /\ c.broken \in {None, "build", "context", "query"}
        /\ {"kind", "kpis", "valid"} \subseteq DOMAIN c.plugin
        /\ c.plugin.kind \in PluginKinds

VARIABLES
    up,       \* whether the service runs
    db,       \* whether the database answers
    schema,   \* whether init_db has created the table
    turns,     \* conversation_turns in the order of their inserts: [id, kpi, filters, columns, fetched]
    mem,      \* MemoryManager of the current call: [loaded, history, counter]
    kpiFile,  \* [plugin kind -> [torn, added]]: the indicators added to its file
    missed,   \* history: a call could not load turns that were stored
    refused,  \* history: the current call's indicator could not be written
    count     \* [calls, outages, deaths, refusals]: what the bounds limit

service == << up, db, schema, turns, mem, kpiFile, missed, refused, count >>

NoMemory == [loaded |-> FALSE, history |-> << >>, counter |-> 0]

ServiceInit ==
    /\ call = << >>
    /\ pc = "done" /\ status = None /\ upload = FALSE
    /\ ctx = << >> /\ caps = << >> /\ kpis = << >> /\ intent = << >> /\ plan = << >> /\ scheduled = << >>
    /\ frame = << >> /\ entries = << >> /\ used = 0
    /\ response = None /\ narrator = None /\ turn = << >> /\ trace = << >>
    /\ up = FALSE /\ db = TRUE /\ schema = FALSE
    /\ turns = << >> /\ mem = NoMemory /\ missed = FALSE /\ refused = FALSE
    /\ kpiFile = [kind \in PluginKinds |-> [torn |-> FALSE, added |-> {}]]
    /\ count = [calls |-> 0, outages |-> 0, deaths |-> 0, refusals |-> 0]

----------------------------------------------------------------------------
(* Start, outage, death *)

(* init_db never raises: without a database the service starts all the same. *)
StartService ==
    /\ ~up
    /\ up' = TRUE
    /\ schema' = (schema \/ db)
    /\ UNCHANGED << vars, db, turns, mem, kpiFile, missed, refused, count >>

DatabaseFails ==
    /\ db /\ count.outages < MaxOutages
    /\ db' = FALSE
    /\ count' = [count EXCEPT !.outages = @ + 1]
    /\ UNCHANGED << vars, up, schema, turns, mem, kpiFile, missed, refused >>

DatabaseRecovers ==
    /\ ~db
    /\ db' = TRUE
    /\ UNCHANGED << vars, up, schema, turns, mem, kpiFile, missed, refused, count >>

ClearRun(answer) ==
    /\ status' = answer
    /\ ctx' = << >> /\ caps' = << >> /\ kpis' = << >> /\ intent' = << >> /\ plan' = << >> /\ scheduled' = << >>
    /\ frame' = << >> /\ entries' = << >> /\ used' = 0
    /\ response' = None /\ narrator' = None /\ turn' = << >> /\ trace' = << >>

(* The call under way is lost with its process, its temporary file stays. *)
ServiceDies ==
    /\ up /\ count.deaths < MaxDeaths
    /\ up' = FALSE
    /\ pc' = "done" /\ call' = << >> /\ mem' = NoMemory /\ refused' = FALSE
    /\ ClearRun(None)
    /\ count' = [count EXCEPT !.deaths = @ + 1]
    /\ UNCHANGED << upload, db, schema, turns, kpiFile, missed >>

----------------------------------------------------------------------------
(* The beginning of a call: plugin, rule engine, memory *)

Stored == db /\ schema

\* Mutant: the query orders its turns the wrong way round before its limit.
LoadTurns_Oldest(table) == {SubSeq(table, 1, IF Len(table) < MaxTurns THEN Len(table) ELSE MaxTurns)}

(* load_turns: the turns with the highest turn numbers, in ascending order;  *)
(* turns of one number come in any order.                                  *)
LoadTurns(table) ==
    {[i \in DOMAIN pick |-> table[pick[i]]] :
        pick \in {p \in [1..(IF Len(table) < MaxTurns THEN Len(table) ELSE MaxTurns) -> DOMAIN table] :
                     /\ \A i, j \in DOMAIN p : i < j => p[i] # p[j] /\ table[p[i]].id <= table[p[j]].id
                     /\ \A k \in DOMAIN table \ Range(p) : \A i \in DOMAIN p : table[k].id <= table[p[i]].id}}

Memory(history) ==
    [loaded |-> TRUE, history |-> history, counter |-> IF history = << >> THEN 0 ELSE Last(history).id]

(* get_last_kpi and get_last_filters. *)
LastTurn(m) ==
    IF m.history = << >> THEN [kpi |-> None, filters |-> {}]
    ELSE [kpi |-> Last(m.history).kpi, filters |-> Last(m.history).filters]

Unmapped == [actual |-> None, budget |-> None, prior |-> None]

WithAdded(known, added) == [k \in DOMAIN known \union added |-> IF k \in DOMAIN known THEN known[k] ELSE Unmapped]

NewRun(c, m) ==
    /\ call' = [c EXCEPT !.plugin.kpis = WithAdded(@, kpiFile[c.plugin.kind].added), !.last = LastTurn(m)]
    /\ pc' = "build_dataset_context" /\ upload' = TRUE
    /\ ClearRun(None)
    /\ mem' = m

NextCalls == IF count.calls = 0 THEN Calls ELSE FollowUps

Begin ==
    /\ up /\ pc = "done" /\ count.calls < MaxCalls
    /\ count' = [count EXCEPT !.calls = @ + 1]
    /\ refused' = FALSE

(* The rule engine is built from files that are whole and valid, and the    *)
(* view from an upload with a header.                                      *)
Buildable(c) == ~kpiFile[c.plugin.kind].torn /\ c.plugin.valid /\ c.broken # "build"

Receive(c) ==
    /\ Begin /\ Buildable(c)
    /\ \/ Stored /\ UNCHANGED missed /\ \E history \in LoadTurns(turns) : NewRun(c, Memory(history))
       \/ ~Stored /\ missed' = (missed \/ turns # << >>) /\ NewRun(c, NoMemory)
    /\ UNCHANGED << up, db, schema, turns, kpiFile >>

ReceiveFails(c) ==
    /\ Begin /\ ~Buildable(c)
    /\ call' = c /\ mem' = NoMemory
    /\ ClearRun("error")
    /\ UNCHANGED << pc, upload, up, db, schema, turns, kpiFile, missed >>

----------------------------------------------------------------------------
(* An unknown indicator: KnowledgeUpdateTool.update and RuleEngine.add_kpi *)

Unknown == ResolvedName(call) # None /\ ResolvedKPI(call) = None

(* A language model's candidate may fail to arrive or to validate. *)
MayGenerate == Unknown /\ (call.client \/ ResolvedName(call) \in StaticKPIs)
MustGenerate == MayGenerate /\ ~call.client

\* Mutant: the thin plugins' paths point into the directory that is not there, too.
HasKPIFile_OnlyInsurance(c) == c.plugin.kind = "insurance"

(* The generic plugin's path is in a directory that does not exist. *)
HasKPIFile(c) == c.plugin.kind # "generic"

OpenKPIFile ==
    /\ pc = "interpret_question" /\ MayGenerate /\ HasKPIFile(call)
    /\ kpiFile' = [kpiFile EXCEPT ![call.plugin.kind].torn = TRUE]
    /\ pc' = "write_kpi"
    /\ UNCHANGED << call, ctx, caps, kpis, intent, plan, scheduled, frame, entries, used, response, narrator,
                    turn, trace, status, upload, up, db, schema, turns, mem, missed, refused, count >>

WriteKPIFile ==
    /\ pc = "write_kpi"
    /\ kpiFile' = [kpiFile EXCEPT ![call.plugin.kind] = [torn |-> FALSE, added |-> @.added \union {ResolvedName(call)}]]
    /\ call' = [call EXCEPT !.plugin.kpis = WithAdded(@, {ResolvedName(call)})]
    /\ pc' = "interpret_question"
    /\ UNCHANGED << ctx, caps, kpis, intent, plan, scheduled, frame, entries, used, response, narrator,
                    turn, trace, status, upload, up, db, schema, turns, mem, missed, refused, count >>

(* Opening the file may be refused, which leaves it as it was, or writing   *)
(* it, which leaves it torn.                                               *)
WriteRefused ==
    /\ \/ pc = "interpret_question" /\ MayGenerate /\ HasKPIFile(call)
       \/ pc = "write_kpi"
    /\ count.refusals < MaxRefusals
    /\ refused' = TRUE
    /\ count' = [count EXCEPT !.refusals = @ + 1]
    /\ Fail
    /\ UNCHANGED << up, db, schema, turns, mem, kpiFile, missed >>

KPIFileMissing ==
    /\ pc = "interpret_question" /\ MayGenerate /\ ~HasKPIFile(call)
    /\ Fail
    /\ UNCHANGED service

InterpretKnown ==
    /\ pc = "interpret_question" /\ ~MustGenerate
    /\ InterpretQuestion
    /\ UNCHANGED service

----------------------------------------------------------------------------
(* The end of a call: MemoryManager.add_turn *)

TurnNumber(m) == m.counter + 1

NewRow(m, t) ==
    [id |-> TurnNumber(m), kpi |-> t.kpi, filters |-> t.filters, columns |-> Queryable(call), fetched |-> frame # << >>]

Window(history) == IF Len(history) > MaxTurns THEN Tail(history) ELSE history

(* A turn that cannot be stored lives in this call only. *)
Remember ==
    /\ pc = "record_memory"
    /\ RecordMemory
    /\ LET row == NewRow(mem, turn'[1])
       IN /\ mem' = [mem EXCEPT !.counter = TurnNumber(mem), !.history = Window(Append(@, row))]
          /\ turns' = IF Stored THEN Append(turns, row) ELSE turns
    /\ UNCHANGED << up, db, schema, kpiFile, missed, refused, count >>

----------------------------------------------------------------------------
Finished == pc = "done" /\ count.calls = MaxCalls /\ UNCHANGED << vars, service >>

ServiceNext ==
    \/ StartService \/ DatabaseFails \/ DatabaseRecovers \/ ServiceDies
    \/ pc = "done" /\ \E c \in NextCalls : Receive(c) \/ ReceiveFails(c)
    \/ OpenKPIFile \/ WriteKPIFile \/ WriteRefused \/ KPIFileMissing
    \/ InterpretKnown
    \/ pc # "done" /\ GraphStep /\ UNCHANGED service
    \/ Remember
    \/ Finished

ServiceSpec == ServiceInit /\ [][ServiceNext]_<< vars, service >>

----------------------------------------------------------------------------
(* Properties *)

(* What a call carries over is the last turn that was stored, whatever the  *)
(* window has dropped and however often the service was restarted, unless  *)
(* a call before it found the database out of reach: that call numbers its *)
(* turn 1, behind the ones already stored (memory.py:59-86).               *)
MemoryIsLatest ==
    ~missed /\ pc \in Nodes /\ mem.loaded /\ turns # << >> /\ turn = << >> => Last(mem.history) = Last(turns)

(* A call is answered with an error only for a reason a reader can name.   *)
(* Its own: what came with it cannot be read, its plugin's files are not   *)
(* valid, its indicator could not be written, or its filter names a column *)
(* the file does not have or whose type the value does not fit.  Or that   *)
(* of an earlier call: a filter carried over from a turn about a file with *)
(* other columns, or from one that queried nothing; an indicator carried   *)
(* into a dataset without a plugin; or an indicator file torn by a killed  *)
(* process or a failed write.                                              *)
ErrorHasACause ==
    status = "error" =>
        \/ call.broken # None
        \/ ~call.plugin.valid
        \/ refused
        \/ ~(call.question.filters \subseteq Queryable(call))
        \/ /\ mem.history # << >>
           /\ \/ Last(mem.history).columns # Queryable(call)
              \/ ~Last(mem.history).fetched
        \/ call.plugin.kind = "generic" /\ Unknown
        \/ count.deaths + count.refusals > 0 /\ kpiFile[call.plugin.kind].torn

=============================================================================
