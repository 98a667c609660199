----------------------------- MODULE ModelStore -----------------------------
(***************************************************************************)
(* The files of trained models and the model registry of the analytics     *)
(* agent, and the processes that write them without any lock: the trainer  *)
(* that the service starts when it boots, trainers an operator starts      *)
(* (train.py), trainers that survive the death of their service, and the   *)
(* service itself, which records every model it fits for a question.       *)
(***************************************************************************)
EXTENDS Naturals, Sequences, SequencesExt

CONSTANTS
    Trainers,    \* trainer processes; one that has ended may be started again
    AllModels,   \* the models of train.py in its order (a smaller instance takes some of them)
    FitKeys,     \* the registry keys the service's own fits write
    CLIModels,   \* the choices of `train.py --model' the operator uses
    Checkouts,   \* what the service may be installed with: [lost: the model files it lacks, registry]
    MaxData,     \* bound: versions of the reference dataset
    MaxTrainings, MaxFits, MaxDeaths \* bounds: started trainers, fits, killed processes

Service == "service"

ModelNames == {"lightgbm", "isolation_forest", "xgboost", "kmeans"}

ASSUME ModelsAssumption == AllModels \in Seq(ModelNames) /\ CLIModels \subseteq Range(AllModels)

ASSUME TrainersAssumption == Service \notin Trainers

ASSUME CheckoutsAssumption == \A from \in Checkouts : from.registry \in {"missing", "whole"}

VARIABLES
    dataset,   \* version of the reference dataset, 0 when there is none
    files,     \* [required file -> [is, data, newer]]: data it was trained on, written after the dataset
    registry,  \* [is, models]: model_registry.json, models its key -> "training" or "query"
    todo,      \* [process -> the writes left of the model it trains or records], << >> when it does nothing
    queue,     \* [process -> the models it trains after this one]
    data,      \* [trainer -> version of the dataset it has loaded]
    seen,      \* [process -> the registry's models as it has read them]
    service,   \* "down", "training" while the start waits for its child, "up", or
               \* "unchecked": up, after a check that raised
    child,     \* the trainer the start waits for
    cut,       \* history: files a process died in and nobody has rewritten
    outdated,  \* history: files not rewritten since a dataset that kept an older time stamp came
    blame,     \* history: which of the disturbances below have happened
    wrote,     \* history: registry keys whose update has been completed
    count      \* [trainings, fits, deaths]: what the bounds limit

vars == << dataset, files, registry, todo, queue, data, seen, service, child, cut, outdated, blame, wrote, count >>

Registry == "model_registry.json"

----------------------------------------------------------------------------
(* train.py as the sequence of its writes *)

Op(op, on) == [op |-> op, on |-> on]

Save(file) == << Op("open", file), Op("dump", file) >>

UpdateRegistry(key) == << Op("read", key), Op("truncate", key), Op("write", key) >>

TrainLightGBM == Save("lightgbm_underwriting_result_actual.pkl") \o UpdateRegistry("lightgbm_regressor")

TrainIsolationForest ==
    Save("isolation_forest.pkl") \o Save("isolation_forest_scaler.pkl") \o UpdateRegistry("isolation_forest")

TrainXGBoost == Save("xgboost_classifier.pkl") \o Save("xgboost_label_encoder.pkl") \o UpdateRegistry("xgboost_classifier")

TrainKMeans == Save("kmeans.pkl") \o Save("kmeans_scaler.pkl") \o UpdateRegistry("kmeans_segmentation")

Train(model) ==
    CASE model = "lightgbm"         -> TrainLightGBM
      [] model = "isolation_forest" -> TrainIsolationForest
      [] model = "xgboost"          -> TrainXGBoost
      [] model = "kmeans"           -> TrainKMeans

(* main(): the dataset is loaded, then one model is trained or all of them. *)
Script == << Op("load", "dataset") >>

Saved(model) == {step.on : step \in {s \in Range(Train(model)) : s.op = "dump"}}

RequiredModels == UNION {Saved(m) : m \in Range(AllModels)}

----------------------------------------------------------------------------
Processes == Trainers \union {Service}

Running(t) == todo[t] # << >>

Next_(p) == todo[p][1]

(* The process has the file open for writing. *)
Writing(p, op, file) == Running(p) /\ Next_(p).op = op /\ Next_(p).on = file

InUpdate(p) == Running(p) /\ Next_(p).op \in {"truncate", "write"}

File(is, version, newer) == [is |-> is, data |-> version, newer |-> newer]

(* A checkout with or without a dataset.                                   *)
Init ==
    /\ dataset \in {0, 1}
    /\ \E from \in Checkouts, new \in {FALSE, dataset = 1} :
          /\ files = [f \in RequiredModels |->
                         IF f \in from.lost THEN File("missing", 0, FALSE) ELSE File("whole", 1, new)]
          /\ registry = [is |-> from.registry,
                         models |-> IF from.registry = "missing" THEN << >>
                                    ELSE [k \in {"isolation_forest", "kmeans_segmentation"} |-> "training"]]
    /\ todo = [p \in Processes |-> << >>]
    /\ queue = [p \in Processes |-> << >>]
    /\ data = [t \in Trainers |-> 0]
    /\ seen = [p \in Processes |-> << >>]
    /\ service = "down" /\ child = Service
    /\ cut = {} /\ outdated = {} /\ blame = {} /\ wrote = DOMAIN registry.models
    /\ count = [trainings |-> 0, fits |-> 0, deaths |-> 0]

----------------------------------------------------------------------------
(* A process's next write *)

(* The process goes on with `rest', and when that is empty with the next   *)
(* model.                                                                  *)
GoOn(p, rest) ==
    IF rest = << >> /\ queue[p] # << >>
    THEN /\ todo' = [todo EXCEPT ![p] = Train(Head(queue[p]))]
         /\ queue' = [queue EXCEPT ![p] = Tail(queue[p])]
    ELSE /\ todo' = [todo EXCEPT ![p] = rest]
         /\ UNCHANGED queue

Advance(p) == GoOn(p, Tail(todo[p]))

(* Reading a dataset that is not there ends the trainer. *)
LoadDataset(t) ==
    /\ Running(t) /\ Next_(t).op = "load"
    /\ data' = [data EXCEPT ![t] = dataset]
    /\ IF dataset = 0
       THEN todo' = [todo EXCEPT ![t] = << >>] /\ queue' = [queue EXCEPT ![t] = << >>]
       ELSE Advance(t)
    /\ UNCHANGED << dataset, files, registry, seen, service, child, cut, outdated, blame, wrote, count >>

OpenFile(t) ==
    /\ Running(t) /\ Next_(t).op = "open"
    /\ files' = [files EXCEPT ![Next_(t).on] = File("torn", 0, TRUE)]
    /\ outdated' = outdated \ {Next_(t).on}
    /\ Advance(t)
    /\ UNCHANGED << dataset, registry, data, seen, service, child, cut, blame, wrote, count >>

(* Another process may have the same file open or have written it since    *)
(* this one emptied it; the two contents differ when their datasets do.    *)
Mixed(t, file) ==
    \/ files[file].is = "whole" /\ files[file].data # data[t]
    \/ \E u \in Trainers \ {t} : Writing(u, "dump", file) /\ data[u] # data[t]

DumpFile(t, outcome) ==
    /\ Running(t) /\ Next_(t).op = "dump"
    /\ outcome = "torn" => Mixed(t, Next_(t).on)
    /\ files' = [files EXCEPT ![Next_(t).on] = File(outcome, data[t], TRUE)]
    /\ cut' = cut \ {Next_(t).on} /\ outdated' = outdated \ {Next_(t).on}
    /\ Advance(t)
    /\ UNCHANGED << dataset, registry, data, seen, service, child, blame, wrote, count >>

(* A registry that is not JSON ends the update with a warning; a missing   *)
(* one does so too, except that a trainer starts a new one.                *)
Readable(p) == registry.is = "whole" \/ (registry.is = "missing" /\ p \in Trainers)

Overlap(p) == \E q \in Processes \ {p} : InUpdate(q)

ReadRegistry(p) ==
    /\ Running(p) /\ Next_(p).op = "read"
    /\ IF Readable(p)
       THEN /\ seen' = [seen EXCEPT ![p] = registry.models]
            /\ Advance(p)
       ELSE /\ GoOn(p, SubSeq(todo[p], 4, Len(todo[p])))
            /\ UNCHANGED seen
    /\ blame' = blame \union {b \in {"overlap"} : Overlap(p)}
    /\ UNCHANGED << dataset, files, registry, data, service, child, cut, outdated, wrote, count >>

TruncateRegistry(p) ==
    /\ Running(p) /\ Next_(p).op = "truncate"
    /\ registry' = [is |-> "torn", models |-> << >>]
    /\ Advance(p)
    /\ UNCHANGED << dataset, files, data, seen, service, child, cut, outdated, blame, wrote, count >>

Stamp(p) == IF p = Service THEN "query" ELSE "training"

\* Mutant: the update forgets what it has read.
Entries_OnlyNew(p, key) == [k \in {key} |-> Stamp(p)]

Entries(p, key) == [k \in DOMAIN seen[p] \union {key} |-> IF k = key THEN Stamp(p) ELSE seen[p][k]]

(* When another update has filled the file since this one emptied it, the  *)
(* longer of the two texts may stick out: what is left is not JSON.        *)
WriteRegistry(p, outcome) ==
    /\ Running(p) /\ Next_(p).op = "write"
    /\ outcome = "torn" => registry.is = "whole"
    /\ registry' = IF outcome = "torn" THEN [is |-> "torn", models |-> << >>]
                   ELSE [is |-> "whole", models |-> Entries(p, Next_(p).on)]
    /\ cut' = IF outcome = "torn" THEN cut ELSE cut \ {Registry}
    /\ wrote' = wrote \union {Next_(p).on}
    /\ Advance(p)
    /\ seen' = [seen EXCEPT ![p] = << >>]
    /\ UNCHANGED << dataset, files, data, service, child, outdated, blame, count >>

----------------------------------------------------------------------------
(* Start, end and death of processes *)

Spawn(t, models) ==
    /\ ~Running(t) /\ count.trainings < MaxTrainings
    /\ todo' = [todo EXCEPT ![t] = Script]
    /\ queue' = [queue EXCEPT ![t] = models]
    /\ count' = [count EXCEPT !.trainings = @ + 1]

\* Mutant: a missing file is left out of the comparison.
UpToDate_OfExisting == \A f \in RequiredModels : files[f].is = "missing" \/ files[f].newer

(* The models are up to date when none is missing and the oldest is not    *)
(* older than the dataset.                                                 *)
UpToDate == \A f \in RequiredModels : files[f].is # "missing" /\ files[f].newer

Boot(t) ==
    /\ service = "down" /\ dataset # 0
    /\ IF UpToDate
       THEN service' = "up" /\ UNCHANGED << todo, queue, child, count >>
       ELSE service' = "training" /\ child' = t /\ Spawn(t, AllModels)
    /\ UNCHANGED << dataset, files, registry, data, seen, cut, outdated, blame, wrote >>

(* There is no dataset, a time stamp cannot be read or the child cannot be *)
(* started: whatever the check raises, the start goes on without training. *)
BootSkips ==
    /\ service = "down"
    /\ service' = "unchecked"
    /\ UNCHANGED << dataset, files, registry, todo, queue, data, seen, child, cut, outdated, blame, wrote, count >>

TrainingEnds ==
    /\ service = "training" /\ ~Running(child)
    /\ service' = "up" /\ child' = Service
    /\ UNCHANGED << dataset, files, registry, todo, queue, data, seen, cut, outdated, blame, wrote, count >>

(* What a process leaves torn when it dies now. *)
Left(p) ==
    IF ~Running(p) THEN {}
    ELSE {f \in RequiredModels : Writing(p, "dump", f)} \union {f \in {Registry} : Next_(p).op = "write"}

(* Whatever ends a trainer, an exception included, ends it here. *)
Die(p) ==
    /\ todo' = [todo EXCEPT ![p] = << >>]
    /\ queue' = [queue EXCEPT ![p] = << >>]
    /\ seen' = [seen EXCEPT ![p] = << >>]
    /\ cut' = cut \union Left(p)

\* Mutant: the call waits for its child without a deadline.
TrainingTimesOut_Never ==
    /\ service = "training" /\ ~Running(child)
    /\ service' = "up" /\ child' = Service
    /\ UNCHANGED << dataset, files, registry, todo, queue, data, seen, cut, outdated, blame, wrote, count >>

(* subprocess.run kills the child at its deadline; the service starts. *)
TrainingTimesOut ==
    /\ service = "training" /\ Running(child)
    /\ Die(child)
    /\ service' = "up" /\ child' = Service
    /\ UNCHANGED << dataset, files, registry, data, outdated, blame, wrote, count >>

TrainerDies(t) ==
    /\ Running(t) /\ count.deaths < MaxDeaths
    /\ Die(t)
    /\ count' = [count EXCEPT !.deaths = @ + 1]
    /\ UNCHANGED << dataset, files, registry, data, service, child, outdated, blame, wrote >>

(* The child of a killed service goes on. *)
ServiceDies ==
    /\ service # "down" /\ count.deaths < MaxDeaths
    /\ Die(Service)
    /\ service' = "down" /\ child' = Service
    /\ count' = [count EXCEPT !.deaths = @ + 1]
    /\ UNCHANGED << dataset, files, registry, data, outdated, blame, wrote >>

OperatorTrains(t, model) ==
    /\ Spawn(t, << model >>)
    /\ service = "training" => t # child
    /\ UNCHANGED << dataset, files, registry, data, seen, service, child, cut, outdated, blame, wrote >>

(* The service fits a model for a question and records it; its calls run   *)
(* one at a time.                                                         *)
FitForQuestion(key) ==
    /\ service \in {"up", "unchecked"} /\ ~Running(Service) /\ count.fits < MaxFits
    /\ todo' = [todo EXCEPT ![Service] = UpdateRegistry(key)]
    /\ count' = [count EXCEPT !.fits = @ + 1]
    /\ UNCHANGED << dataset, files, registry, queue, data, seen, service, child, cut, outdated, blame, wrote >>

(* The file that comes has the time it is written at or, from a copy that  *)
(* preserves time stamps, one before every model was written.              *)
ReplaceDataset(preserved) ==
    /\ dataset < MaxData
    /\ dataset' = dataset + 1
    /\ files' = [f \in RequiredModels |-> [files[f] EXCEPT !.newer = preserved]]
    /\ outdated' = IF preserved THEN RequiredModels ELSE {}
    /\ blame' = blame \union {b \in {"replaced"} : \E t \in Trainers : Running(t)}
    /\ UNCHANGED << registry, todo, queue, data, seen, service, child, cut, wrote, count >>

----------------------------------------------------------------------------
Next ==
    \/ \E t \in Trainers : \/ LoadDataset(t) \/ OpenFile(t) \/ Boot(t) \/ TrainerDies(t)
                           \/ \E outcome \in {"whole", "torn"} : DumpFile(t, outcome)
                           \/ \E model \in CLIModels : OperatorTrains(t, model)
    \/ \E p \in Processes : \/ ReadRegistry(p) \/ TruncateRegistry(p)
                            \/ \E outcome \in {"whole", "torn"} : WriteRegistry(p, outcome)
    \/ \E key \in FitKeys : FitForQuestion(key)
    \/ BootSkips \/ TrainingEnds \/ TrainingTimesOut \/ ServiceDies
    \/ \E preserved \in BOOLEAN : ReplaceDataset(preserved)

(* A trainer may hang for good; the deadline of the start does not.        *)
Spec == Init /\ [][Next]_vars /\ WF_vars(TrainingEnds) /\ WF_vars(TrainingTimesOut)

----------------------------------------------------------------------------
(* Properties *)

(* A start that finds the models up to date, and trains nothing, finds     *)
(* each model whole and of the present dataset.  The exceptions the code   *)
(* leaves: a file a process died in or is writing now, a file older than   *)
(* the coming of a dataset that kept an older time stamp, and a dataset    *)
(* replaced while a trainer was at work (its models are then newer than    *)
(* the dataset and of the one before).  A start whose check raised says    *)
(* nothing of the models, whatever is wrong with them.                     *)
SkippedMeansTrained ==
    [][service = "down" /\ service' = "up" /\ "replaced" \notin blame =>
          \A f \in RequiredModels :
              \/ files[f].is = "whole" /\ files[f].data = dataset
              \/ f \in cut \union outdated
              \/ \E t \in Trainers : Running(t)]_vars

(* As long as no two updates overlapped and no process died in one, the    *)
(* registry is JSON whenever nobody writes it and has each key that was    *)
(* ever written: neither a trainer's update nor the service's loses        *)
(* another's entry.                                                        *)
RegistryKept ==
    "overlap" \notin blame /\ Registry \notin cut /\ (\A p \in Processes : ~InUpdate(p)) =>
        /\ registry.is # "torn"
        /\ wrote \subseteq DOMAIN registry.models

(* The start of the service ends, even when its trainer hangs.             *)
StartEnds == (service = "training") ~> (service # "training")

=============================================================================
