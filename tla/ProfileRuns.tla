---------------------------- MODULE ProfileRuns -----------------------------
(***************************************************************************)
(* POST /profile-runs of Agent 2: the job manager and the persistence of   *)
(* what its threads produce.                                               *)
(*                                                                         *)
(* create_profile_run is an `async def' that never awaits after it has     *)
(* read the upload: from create_job to its answer it keeps the event loop, *)
(* sleeping in wait_for_completion.  The profiling task runs on a daemon   *)
(* thread of its own, which outlives the request when the deadline passes. *)
(* The thread writes the job's fields under a lock that the waiting side   *)
(* does not take, so each assignment is a step here.                       *)
(*                                                                         *)
(* With Faults, the database may refuse a transaction or not confirm one,  *)
(* the pipeline may fail to build, a directory may resist its removal, and *)
(* the process may die and come back (--reload): jobs and threads are gone *)
(* then, rows and directories are not.                                     *)
(***************************************************************************)
EXTENDS Naturals, FiniteSets

CONSTANTS
  Runs,    \* requests; each gets a run id of its own
  Faults,  \* TRUE when transactions and removals may fail and the process may die
  NoRun    \* absence: of a holder of the event loop

ASSUME NoRunIsNew == NoRun \notin Runs
ASSUME FaultsIsBoolean == Faults \in BOOLEAN

VARIABLES
  jobs,       \* JobManager._jobs: status, whether result and error are set
  worker,     \* how far each run's thread has come
  verdict,    \* status of the PipelineResult the task returns
  dirs,       \* runs whose temporary directory exists
  swallowed,  \* runs whose directory could not be removed: rmtree ignores errors
  loop,       \* the request that keeps the event loop
  request,    \* local state of create_profile_run, and its answer
  rows        \* table profile_runs with its child tables: status of each row

vars == <<jobs, worker, verdict, dirs, swallowed, loop, request, rows>>

NoJob == [status |-> "none", result |-> FALSE, error |-> FALSE]

\* "woken" and "expired" tell how wait_for_completion ended; "empty" that the
\* job had no result when the route looked; "stored" that the row is committed
\* and the caller not told.
Waiting == {"waiting", "woken", "expired", "persisting", "stored", "empty"}

Init ==
  /\ jobs = [r \in Runs |-> NoJob]
  /\ worker = [r \in Runs |-> "none"]
  /\ verdict = [r \in Runs |-> "none"]
  /\ dirs = {} /\ swallowed = {}
  /\ loop = NoRun
  /\ request = [r \in Runs |-> [pc |-> "idle", woken |-> FALSE, answer |-> "none"]]
  /\ rows = [r \in Runs |-> "none"]

-----------------------------------------------------------------------------
(* The thread: JobManager._execute around run_profiling_graph.             *)

Work(r, from, to) == worker[r] = from /\ worker' = [worker EXCEPT ![r] = to]

Execute(r) ==
  /\ Work(r, "ready", "running")
  /\ jobs' = [jobs EXCEPT ![r].status = "PROCESSING"]
  /\ UNCHANGED <<verdict, dirs, swallowed, loop, request, rows>>

SaveUpload(r) ==
  /\ worker[r] = "running"
  /\ r \notin dirs
  /\ dirs' = dirs \cup {r}
  /\ UNCHANGED <<jobs, worker, verdict, swallowed, loop, request, rows>>

\* The graph ends, or one of its nodes raises.
PipelineEnds(r) ==
  /\ Work(r, "running", "cleaning")
  /\ \E v \in (IF r \in dirs THEN {"COMPLETED", "FAILED"} ELSE {"FAILED"}) :
       verdict' = [verdict EXCEPT ![r] = v]
  /\ UNCHANGED <<jobs, dirs, swallowed, loop, request, rows>>

\* Mutant: the directory is kept when the pipeline failed.
CleanUp_KeepsFailed(r) ==
  /\ Work(r, "cleaning", "returned")
  /\ dirs' = IF verdict[r] = "FAILED" THEN dirs ELSE dirs \ {r}
  /\ UNCHANGED <<jobs, verdict, swallowed, loop, request, rows>>

\* rmtree ignores the errors it meets: the task returns all the same.
CleanUp(r) ==
  /\ Work(r, "cleaning", "returned")
  /\ \/ dirs' = dirs \ {r} /\ UNCHANGED swallowed
     \/ Faults /\ r \in dirs /\ swallowed' = swallowed \cup {r} /\ UNCHANGED dirs
  /\ UNCHANGED <<jobs, verdict, loop, request, rows>>

\* The pipeline could not be built: the exception leaves the task.
TaskRaises(r) ==
  /\ Faults
  /\ r \notin dirs
  /\ Work(r, "running", "raised")
  /\ UNCHANGED <<jobs, verdict, dirs, swallowed, loop, request, rows>>

\* First assignment under the lock: job.status.
SettleStatus(r) ==
  \/ /\ Work(r, "returned", "settling")
     /\ jobs' = [jobs EXCEPT ![r].status = "COMPLETED"]
     /\ UNCHANGED <<verdict, dirs, swallowed, loop, request, rows>>
  \/ /\ Work(r, "raised", "settling")
     /\ jobs' = [jobs EXCEPT ![r].status = "FAILED"]
     /\ UNCHANGED <<verdict, dirs, swallowed, loop, request, rows>>

\* Mutant: the thread stores its own result instead of leaving it to the route.
SettleOutcome_Stores(r) ==
  /\ Work(r, "settling", "done")
  /\ jobs' = [jobs EXCEPT ![r].result = @ \/ jobs[r].status = "COMPLETED",
                          ![r].error = @ \/ jobs[r].status = "FAILED"]
  /\ rows' = [rows EXCEPT ![r] = verdict[r]]
  /\ UNCHANGED <<verdict, dirs, swallowed, loop, request>>

\* Last assignment under the lock: job.result, or job.error.
SettleOutcome(r) ==
  /\ Work(r, "settling", "done")
  /\ jobs' = IF jobs[r].status = "COMPLETED" THEN [jobs EXCEPT ![r].result = TRUE]
                                             ELSE [jobs EXCEPT ![r].error = TRUE]
  /\ UNCHANGED <<verdict, dirs, swallowed, loop, request, rows>>

-----------------------------------------------------------------------------
(* The route.                                                              *)

\* create_job and submit.
Submit(r) ==
  /\ request[r].pc = "idle"
  /\ loop = NoRun
  /\ loop' = r
  /\ request' = [request EXCEPT ![r].pc = "waiting"]
  /\ jobs' = [jobs EXCEPT ![r] = [NoJob EXCEPT !.status = "PENDING"]]
  /\ worker' = [worker EXCEPT ![r] = "ready"]
  /\ UNCHANGED <<verdict, dirs, swallowed, rows>>

\* wait_for_completion reads job.status every 0.1 s, without the lock.
SeesJobEnd(r) ==
  /\ request[r].pc = "waiting"
  /\ jobs[r].status \in {"COMPLETED", "FAILED"}
  /\ request' = [request EXCEPT ![r].pc = "woken", ![r].woken = TRUE]
  /\ UNCHANGED <<jobs, worker, verdict, dirs, swallowed, loop, rows>>

\* Mutant: the loop looks at the clock only once the job has ended.
DeadlinePasses_Ended(r) ==
  /\ request[r].pc = "waiting"
  /\ jobs[r].status \in {"COMPLETED", "FAILED"}
  /\ request' = [request EXCEPT ![r].pc = "expired"]
  /\ UNCHANGED <<jobs, worker, verdict, dirs, swallowed, loop, rows>>

\* processing_timeout_seconds have passed; the job is returned all the same.
DeadlinePasses(r) ==
  /\ request[r].pc = "waiting"
  /\ request' = [request EXCEPT ![r].pc = "expired"]
  /\ UNCHANGED <<jobs, worker, verdict, dirs, swallowed, loop, rows>>

\* `if completed_job and completed_job.result'
ReadResult(r) ==
  /\ request[r].pc \in {"woken", "expired"}
  /\ request' = [request EXCEPT ![r].pc = IF jobs[r].result THEN "persisting" ELSE "empty"]
  /\ UNCHANGED <<jobs, worker, verdict, dirs, swallowed, loop, rows>>

Answer(r, what) ==
  /\ request' = [request EXCEPT ![r].pc = "answered", ![r].answer = what]
  /\ loop' = NoRun

\* create_run ... commit: one transaction.
Persist(r) ==
  /\ request[r].pc = "persisting"
  /\ rows' = [rows EXCEPT ![r] = verdict[r]]
  /\ request' = [request EXCEPT ![r].pc = "stored"]
  /\ UNCHANGED <<jobs, worker, verdict, dirs, swallowed, loop>>

\* 200, or 422 for a failed run.
AnswerStored(r) ==
  /\ request[r].pc = "stored"
  /\ Answer(r, IF verdict[r] = "COMPLETED" THEN "completed" ELSE "rejected")
  /\ UNCHANGED <<jobs, worker, verdict, dirs, swallowed, rows>>

\* The transaction is rolled back, or committed over a connection that breaks
\* before it is confirmed; the server answers 500.
PersistFails(r) ==
  /\ Faults
  /\ request[r].pc = "persisting"
  /\ rows' \in {rows, [rows EXCEPT ![r] = verdict[r]]}
  /\ Answer(r, "error")
  /\ UNCHANGED <<jobs, worker, verdict, dirs, swallowed>>

\* `if completed_job and completed_job.error', else "processing".
AnswerWithoutResult(r) ==
  /\ request[r].pc = "empty"
  /\ Answer(r, IF jobs[r].error THEN "error" ELSE "processing")
  /\ UNCHANGED <<jobs, worker, verdict, dirs, swallowed, rows>>

\* The process ends and is started again: nobody takes the jobs up.
Restart ==
  /\ Faults
  /\ loop # NoRun \/ \E r \in Runs : worker[r] \notin {"none", "done", "killed"}
  /\ jobs' = [r \in Runs |-> NoJob]
  /\ worker' = [r \in Runs |-> IF worker[r] \in {"none", "done"} THEN worker[r] ELSE "killed"]
  /\ request' = [r \in Runs |->
       IF request[r].pc \in Waiting THEN [request[r] EXCEPT !.pc = "lost"] ELSE request[r]]
  /\ loop' = NoRun
  /\ UNCHANGED <<verdict, dirs, swallowed, rows>>

ThreadStep(r) ==
  \/ Execute(r) \/ SaveUpload(r) \/ PipelineEnds(r) \/ CleanUp(r) \/ TaskRaises(r)
  \/ SettleStatus(r) \/ SettleOutcome(r)

RouteStep(r) ==
  \/ SeesJobEnd(r) \/ DeadlinePasses(r) \/ ReadResult(r)
  \/ Persist(r) \/ AnswerStored(r) \/ PersistFails(r) \/ AnswerWithoutResult(r)

Next ==
  \/ \E r \in Runs : Submit(r) \/ ThreadStep(r) \/ RouteStep(r)
  \/ Restart

Spec == Init /\ [][Next]_vars

\* The route's own steps are all that is assumed to be taken: it sleeps, it
\* never waits for the thread, which may hang in a node.
FairSpec == Spec /\ \A r \in Runs : WF_vars(RouteStep(r))

-----------------------------------------------------------------------------
(* Properties.                                                             *)

\* The row of a run is what its task concluded, whoever wins the race of
\* thread, deadline, refused commit and restart: a caller told of a verdict finds
\* it stored, and a run said to be still processing, or that the route has not
\* come to store, never gets a row from its late thread.  A row the caller was
\* told nothing of is there after an error or a restart.
RowsMatchAnswers ==
  \A r \in Runs :
    /\ rows[r] # "none" => rows[r] = verdict[r]
    /\ request[r].answer = "completed" => rows[r] = "COMPLETED"
    /\ request[r].answer = "rejected" => rows[r] = "FAILED"
    /\ \/ request[r].answer = "processing"
       \/ request[r].pc \in Waiting \ {"stored"}
       => rows[r] = "none"

\* profile_runs.py:273: "processing" stands for a job still processing, so a
\* wait that ended because the job had ended is never answered so.
EndedJobIsNotProcessing ==
  \A r \in Runs : request[r].woken => request[r].answer # "processing"

\* A request that keeps the event loop gives it back though its thread hangs:
\* the deadline is enough.
RequestAnswered ==
  \A r \in Runs : request[r].pc \in Waiting ~> request[r].pc \in {"answered", "lost"}

Task(r) ==
  INSTANCE ProfilingTask WITH
    phase <- CASE worker[r] = "none" -> "ready"
               [] worker[r] \in {"settling", "done"} ->
                    IF verdict[r] = "none" THEN "raised" ELSE "returned"
               [] OTHER -> worker[r],
    dir <- r \in dirs,
    verdict <- verdict[r],
    swallowed <- r \in swallowed

\* Every thread runs a task as ProfilingTask describes it, and nothing the
\* other threads, the route or a restart do makes it look different.
ThreadsRunTasks ==
  /\ \A r \in Runs : Task(r)!TaskInit
  /\ [][\A r \in Runs : [Task(r)!TaskNext]_(Task(r)!taskVars)]_vars

=============================================================================
