-------------------------- MODULE ProfileRunsProofs --------------------------
(***************************************************************************)
(* Proofs about Agent 2's job manager and its route, for every number of   *)
(* requests, and whether or not transactions fail and the process dies.    *)
(***************************************************************************)
EXTENDS ProfileRuns, TLAPS

JobRecord == [status : {"none", "PENDING", "PROCESSING", "COMPLETED", "FAILED"},
              result : BOOLEAN, error : BOOLEAN]

RequestRecord == [pc : Waiting \cup {"idle", "answered", "lost"}, woken : BOOLEAN,
                  answer : {"none", "completed", "rejected", "error", "processing"}]

Positions == {"none", "ready", "running", "cleaning", "returned", "raised", "settling", "done", "killed"}

Typed ==
  /\ jobs \in [Runs -> JobRecord]
  /\ worker \in [Runs -> Positions]
  /\ verdict \in [Runs -> {"none", "COMPLETED", "FAILED"}]
  /\ dirs \subseteq Runs
  /\ request \in [Runs -> RequestRecord]
  /\ rows \in [Runs -> {"none", "COMPLETED", "FAILED"}]

\* The task has a verdict from its end on, and a thread that raised has none.
VerdictTold(w, v) ==
  /\ w \in {"none", "ready", "running", "raised"} => v = "none"
  /\ w \in {"cleaning", "returned"} => v # "none"

\* The job's outcome is that of its thread: a result is there only when the
\* thread is done and has a verdict.
JobTold(j, w, v) ==
  /\ w = "settling" => (j.status = "COMPLETED" => v # "none")
  /\ w \in {"none", "ready"} => j.status \notin {"COMPLETED", "FAILED"}
  /\ j.result => w = "done" /\ v # "none"

\* A request stores its task's verdict, and answers it or an error after that.
RowTold(q, w, v, row) ==
  /\ q.pc = "idle" => w = "none"
  /\ q.pc = "persisting" => w = "done" /\ v # "none"
  /\ q.pc \notin {"stored", "answered", "lost"} => row = "none"
  /\ q.pc = "stored" => row = v /\ v # "none"
  /\ q.pc # "answered" => q.answer = "none"
  /\ row # "none" => row = v /\ w = "done"
  /\ q.answer = "completed" => row = "COMPLETED"
  /\ q.answer = "rejected" => row = "FAILED"
  /\ q.answer = "processing" => row = "none"

Told(r) ==
  /\ VerdictTold(worker[r], verdict[r])
  /\ JobTold(jobs[r], worker[r], verdict[r])
  /\ RowTold(request[r], worker[r], verdict[r], rows[r])

IInv == Typed /\ \A r \in Runs : Told(r)

\* What a step makes of a job or of a request's state is one again.
LEMMA JobUpdates ==
  ASSUME NEW j \in JobRecord
  PROVE  /\ \A s \in {"PENDING", "PROCESSING", "COMPLETED", "FAILED"} :
              /\ [j EXCEPT !.status = s] \in JobRecord
              /\ [j EXCEPT !.status = s].status = s
              /\ [j EXCEPT !.status = s].result = j.result
         /\ [j EXCEPT !.result = TRUE] \in JobRecord
         /\ [j EXCEPT !.error = TRUE] \in JobRecord
         /\ [j EXCEPT !.error = TRUE].result = j.result
  BY DEF JobRecord

LEMMA NoJobTyped ==
  /\ NoJob \in JobRecord
  /\ [NoJob EXCEPT !.status = "PENDING"] \in JobRecord
  /\ ~NoJob.result
  /\ NoJob.status = "none"
  /\ ~[NoJob EXCEPT !.status = "PENDING"].result
  /\ [NoJob EXCEPT !.status = "PENDING"].status = "PENDING"
  BY DEF NoJob, JobRecord

LEMMA RequestUpdates ==
  ASSUME NEW q \in RequestRecord
  PROVE  /\ \A pc \in Waiting \cup {"lost"} :
              /\ [q EXCEPT !.pc = pc] \in RequestRecord
              /\ [q EXCEPT !.pc = pc].pc = pc
              /\ [q EXCEPT !.pc = pc].answer = q.answer
         /\ [q EXCEPT !.pc = "woken", !.woken = TRUE] \in RequestRecord
         /\ [q EXCEPT !.pc = "woken", !.woken = TRUE].pc = "woken"
         /\ [q EXCEPT !.pc = "woken", !.woken = TRUE].answer = q.answer
         /\ \A a \in {"completed", "rejected", "error", "processing"} :
              /\ [q EXCEPT !.pc = "answered", !.answer = a] \in RequestRecord
              /\ [q EXCEPT !.pc = "answered", !.answer = a].pc = "answered"
              /\ [q EXCEPT !.pc = "answered", !.answer = a].answer = a
  BY DEF RequestRecord, Waiting

LEMMA ToldAtStart == Init => IInv
<1> SUFFICES ASSUME Init PROVE IInv
  OBVIOUS
<1>1. request \in [Runs -> RequestRecord]
  BY DEF Init, RequestRecord
<1>2. jobs \in [Runs -> JobRecord]
  BY NoJobTyped DEF Init
<1>3. ASSUME NEW r \in Runs PROVE Told(r)
  BY NoJobTyped DEF Init, Told, VerdictTold, JobTold, RowTold
<1> QED BY <1>1, <1>2, <1>3 DEF IInv, Typed, Init, Positions

\* A step that is about one run leaves what is told of the others alone.
LEMMA OneRun ==
  ASSUME IInv, NEW r \in Runs, Typed',
         \A x \in Runs \ {r} : /\ jobs'[x] = jobs[x] /\ worker'[x] = worker[x]
                               /\ verdict'[x] = verdict[x] /\ request'[x] = request[x]
                               /\ rows'[x] = rows[x],
         Told(r)'
  PROVE  IInv'
<1>1. ASSUME NEW x \in Runs PROVE Told(x)'
  <2>1. CASE x = r
    BY <2>1
  <2>2. CASE x # r
    BY <2>2 DEF IInv, Told
  <2> QED BY <2>1, <2>2
<1> QED BY <1>1 DEF IInv

LEMMA ThreadKeeps ==
  ASSUME IInv, NEW r \in Runs, ThreadStep(r)
  PROVE  IInv'
<1>0. /\ Typed /\ Told(r) /\ jobs[r] \in JobRecord
  BY DEF IInv, Typed
<1>1. CASE Execute(r)
  <2>1. Typed'
    BY <1>0, <1>1, JobUpdates DEF Execute, Work, Typed, Positions
  <2>2. Told(r)'
    BY <1>0, <1>1, JobUpdates DEF Execute, Work, Typed, Told, VerdictTold, JobTold, RowTold
  <2> QED BY <1>1, <2>1, <2>2, OneRun DEF Execute, Work, IInv, Typed
<1>2. CASE SaveUpload(r)
  <2>1. Typed'
    BY <1>0, <1>2 DEF SaveUpload, Typed
  <2>2. Told(r)'
    BY <1>0, <1>2 DEF SaveUpload, Told
  <2> QED BY <1>2, <2>1, <2>2, OneRun DEF SaveUpload, IInv, Typed
<1>3. CASE PipelineEnds(r)
  <2> PICK v \in {"COMPLETED", "FAILED"} : verdict' = [verdict EXCEPT ![r] = v]
    BY <1>3 DEF PipelineEnds
  <2>1. Typed'
    BY <1>0, <1>3 DEF PipelineEnds, Work, Typed, Positions
  <2>2. Told(r)'
    BY <1>0, <1>3 DEF PipelineEnds, Work, Typed, Told, VerdictTold, JobTold, RowTold
  <2> QED BY <1>3, <2>1, <2>2, OneRun DEF PipelineEnds, Work, IInv, Typed
<1>4. CASE CleanUp(r)
  <2>1. Typed'
    BY <1>0, <1>4 DEF CleanUp, Work, Typed, Positions
  <2>2. Told(r)'
    BY <1>0, <1>4 DEF CleanUp, Work, Typed, Told, VerdictTold, JobTold, RowTold
  <2> QED BY <1>4, <2>1, <2>2, OneRun DEF CleanUp, Work, IInv, Typed
<1>5. CASE TaskRaises(r)
  <2>1. Typed'
    BY <1>0, <1>5 DEF TaskRaises, Work, Typed, Positions
  <2>2. Told(r)'
    BY <1>0, <1>5 DEF TaskRaises, Work, Typed, Told, VerdictTold, JobTold, RowTold
  <2> QED BY <1>5, <2>1, <2>2, OneRun DEF TaskRaises, Work, IInv, Typed
<1>6. ASSUME NEW from \in {"returned", "raised"}, Work(r, from, "settling"),
             jobs' = [jobs EXCEPT ![r].status = IF from = "returned" THEN "COMPLETED" ELSE "FAILED"],
             UNCHANGED <<verdict, dirs, swallowed, loop, request, rows>>
      PROVE  IInv'
  <2> DEFINE s == IF from = "returned" THEN "COMPLETED" ELSE "FAILED"
             j == [jobs[r] EXCEPT !.status = s]
  <2>1. j \in JobRecord /\ j.status = s /\ j.result = jobs[r].result
    BY <1>0 DEF JobRecord
  <2> HIDE DEF j
  <2>2. jobs' = [jobs EXCEPT ![r] = j]
    BY <1>6 DEF j
  <2>3. Typed'
    BY <1>0, <1>6, <2>1, <2>2 DEF Work, Typed, Positions
  <2>4. Told(r)'
    BY <1>0, <1>6, <2>1, <2>2 DEF Work, Typed, Told, VerdictTold, JobTold, RowTold
  <2> QED BY <1>6, <2>2, <2>3, <2>4, OneRun DEF Work, IInv, Typed
<1>7. CASE SettleOutcome(r)
  <2>1. Typed'
    BY <1>0, <1>7, JobUpdates DEF SettleOutcome, Work, Typed, Positions
  <2>2. Told(r)'
    BY <1>0, <1>7, JobUpdates DEF SettleOutcome, Work, Typed, Told, VerdictTold, JobTold, RowTold
  <2> QED BY <1>7, <2>1, <2>2, OneRun DEF SettleOutcome, Work, IInv, Typed
<1>8. CASE SettleStatus(r)
  BY <1>6, <1>8 DEF SettleStatus
<1> QED BY <1>1, <1>2, <1>3, <1>4, <1>5, <1>7, <1>8 DEF ThreadStep

LEMMA SubmitKeeps ==
  ASSUME IInv, NEW r \in Runs, Submit(r)
  PROVE  IInv'
<1>0. Typed /\ Told(r) /\ request[r] \in RequestRecord
  BY DEF IInv, Typed
<1>1. Typed'
  BY <1>0, NoJobTyped, RequestUpdates DEF Submit, Typed, Positions, Waiting
<1>2. Told(r)'
  <2> DEFINE q == [request[r] EXCEPT !.pc = "waiting"]
             j == [NoJob EXCEPT !.status = "PENDING"]
  <2>1. q.pc = "waiting" /\ q.answer = request[r].answer /\ request[r].pc = "idle"
    BY <1>0 DEF Submit, RequestRecord
  <2>2. request'[r] = q /\ jobs'[r] = j /\ worker'[r] = "ready"
    BY <1>0 DEF Submit, Typed
  <2>3. ~j.result /\ j.status = "PENDING"
    BY NoJobTyped
  <2> HIDE DEF q, j
  <2>4. VerdictTold("ready", verdict[r]) /\ JobTold(j, "ready", verdict[r])
        /\ RowTold(q, "ready", verdict[r], rows[r])
    BY <1>0, <2>1, <2>3 DEF Told, VerdictTold, JobTold, RowTold
  <2> QED BY <2>2, <2>4 DEF Submit, Told
<1> QED BY <1>1, <1>2, OneRun DEF Submit, IInv, Typed

\* A request that neither stores nor answers keeps what was told.
LEMMA WaitingKeeps ==
  ASSUME IInv, NEW r \in Runs, NEW q \in RequestRecord,
         request[r].pc \in Waiting \ {"stored"}, q.pc \in Waiting \ {"stored"}, q.answer = request[r].answer,
         q.pc = "persisting" => jobs[r].result \/ request[r].pc = "persisting",
         request' = [request EXCEPT ![r] = q],
         UNCHANGED <<jobs, worker, verdict, dirs, swallowed, loop, rows>>
  PROVE  IInv'
<1>0. Typed /\ Told(r)
  BY DEF IInv
<1>1. Typed'
  BY <1>0 DEF Typed
<1>2. Told(r)'
  BY <1>0 DEF Typed, Told, VerdictTold, JobTold, RowTold, Waiting
<1> QED BY <1>0, <1>1, <1>2, OneRun DEF Typed

\* What the route makes of its request and of its row, when it stores or answers.
LEMMA StoringKeeps ==
  ASSUME IInv, NEW r \in Runs, NEW q \in RequestRecord, NEW row \in {"none", "COMPLETED", "FAILED"},
         RowTold(q, worker[r], verdict[r], row),
         request' = [request EXCEPT ![r] = q],
         rows' = [rows EXCEPT ![r] = row],
         UNCHANGED <<jobs, worker, verdict, dirs, swallowed>>
  PROVE  IInv'
<1>0. Typed /\ Told(r)
  BY DEF IInv
<1>1. Typed'
  BY <1>0 DEF Typed
<1>2. request'[r] = q /\ rows'[r] = row
  BY <1>0 DEF Typed
<1>3. Told(r)'
  BY <1>0, <1>2 DEF Told
<1> QED BY <1>0, <1>1, <1>3, OneRun DEF Typed

\* An answer: what it says of the row is so.
LEMMA AnswerKeeps ==
  ASSUME IInv, NEW r \in Runs, NEW what \in {"completed", "rejected", "error", "processing"},
         Answer(r, what), UNCHANGED <<jobs, worker, verdict, dirs, swallowed>>,
         NEW row \in {"none", "COMPLETED", "FAILED"}, rows' = [rows EXCEPT ![r] = row],
         request[r].pc # "idle",
         row # "none" => row = verdict[r] /\ worker[r] = "done",
         what = "completed" => row = "COMPLETED",
         what = "rejected" => row = "FAILED",
         what = "processing" => row = "none"
  PROVE  IInv'
<1> DEFINE q == [request[r] EXCEPT !.pc = "answered", !.answer = what]
<1>0. request[r] \in RequestRecord
  BY DEF IInv, Typed
<1>1. q \in RequestRecord /\ q.pc = "answered" /\ q.answer = what
  BY <1>0, RequestUpdates
<1>2. request' = [request EXCEPT ![r] = q]
  BY DEF Answer
<1> HIDE DEF q
<1>3. RowTold(q, worker[r], verdict[r], row)
  BY <1>1 DEF RowTold
<1> QED BY <1>1, <1>2, <1>3, StoringKeeps

\* The route changes its own request and, when it persists, its own row.
LEMMA RouteKeeps ==
  ASSUME IInv, NEW r \in Runs, RouteStep(r)
  PROVE  IInv'
<1>0. /\ Typed /\ Told(r) /\ request[r] \in RequestRecord /\ jobs[r] \in JobRecord
      /\ rows[r] \in {"none", "COMPLETED", "FAILED"} /\ rows = [rows EXCEPT ![r] = rows[r]]
      /\ verdict[r] \in {"none", "COMPLETED", "FAILED"}
  BY DEF IInv, Typed
<1>1. CASE SeesJobEnd(r)
  <2> DEFINE q == [request[r] EXCEPT !.pc = "woken", !.woken = TRUE]
  <2>1. q \in RequestRecord /\ q.pc = "woken" /\ q.answer = request[r].answer
    BY <1>0, RequestUpdates
  <2>2. request' = [request EXCEPT ![r] = q]
    BY <1>1 DEF SeesJobEnd
  <2> HIDE DEF q
  <2> QED BY <1>1, <2>1, <2>2, WaitingKeeps DEF SeesJobEnd, Waiting
<1>2. ASSUME NEW pc \in Waiting \ {"stored"}, request[r].pc \in Waiting \ {"stored"},
             pc = "persisting" => jobs[r].result,
             request' = [request EXCEPT ![r].pc = pc],
             UNCHANGED <<jobs, worker, verdict, dirs, swallowed, loop, rows>>
      PROVE  IInv'
  <2> DEFINE q == [request[r] EXCEPT !.pc = pc]
  <2>1. q \in RequestRecord /\ q.pc = pc /\ q.answer = request[r].answer
    BY <1>0 DEF RequestRecord
  <2>2. request' = [request EXCEPT ![r] = q]
    BY <1>2
  <2> HIDE DEF q
  <2> QED BY <1>2, <2>1, <2>2, WaitingKeeps
<1>3. CASE DeadlinePasses(r) \/ ReadResult(r)
  BY <1>2, <1>3 DEF DeadlinePasses, ReadResult, Waiting
<1>4. CASE Persist(r)
  <2> DEFINE q == [request[r] EXCEPT !.pc = "stored"]
  <2>1. q \in RequestRecord /\ q.pc = "stored" /\ q.answer = request[r].answer
    BY <1>0 DEF RequestRecord, Waiting
  <2>2. request' = [request EXCEPT ![r] = q] /\ rows' = [rows EXCEPT ![r] = verdict[r]]
    BY <1>4 DEF Persist
  <2> HIDE DEF q
  <2>3. RowTold(q, worker[r], verdict[r], verdict[r])
    BY <1>0, <1>4, <2>1 DEF Persist, Told, RowTold
  <2> QED BY <1>0, <1>4, <2>1, <2>2, <2>3, StoringKeeps DEF Persist
<1>5. CASE AnswerStored(r)
  <2> DEFINE what == IF verdict[r] = "COMPLETED" THEN "completed" ELSE "rejected"
  <2>1. /\ rows' = [rows EXCEPT ![r] = rows[r]] /\ request[r].pc = "stored"
        /\ Answer(r, what) /\ rows[r] = verdict[r] /\ verdict[r] # "none" /\ worker[r] = "done"
    BY <1>0, <1>5 DEF AnswerStored, Told, RowTold
  <2>2. /\ what \in {"completed", "rejected"}
        /\ what = "completed" => rows[r] = "COMPLETED"
        /\ what = "rejected" => rows[r] = "FAILED"
    BY <1>0, <2>1
  <2> HIDE DEF what
  <2> QED BY <1>0, <1>5, <2>1, <2>2, AnswerKeeps DEF AnswerStored
<1>6. CASE PersistFails(r)
  <2> PICK row \in {rows[r], verdict[r]} : rows' = [rows EXCEPT ![r] = row]
    BY <1>0, <1>6 DEF PersistFails
  <2>1. row \in {"none", "COMPLETED", "FAILED"} /\ (row # "none" => row = verdict[r] /\ worker[r] = "done")
    BY <1>0, <1>6 DEF PersistFails, Told, RowTold
  <2> QED BY <1>6, <2>1, AnswerKeeps DEF PersistFails
<1>7. CASE AnswerWithoutResult(r)
  <2> DEFINE what == IF jobs[r].error THEN "error" ELSE "processing"
  <2>1. /\ rows' = [rows EXCEPT ![r] = rows[r]] /\ request[r].pc = "empty"
        /\ Answer(r, what) /\ rows[r] = "none" /\ what \in {"error", "processing"}
    BY <1>0, <1>7 DEF AnswerWithoutResult, Told, RowTold
  <2> HIDE DEF what
  <2> QED BY <1>0, <1>7, <2>1, AnswerKeeps DEF AnswerWithoutResult
<1> QED BY <1>1, <1>3, <1>4, <1>5, <1>6, <1>7 DEF RouteStep

LEMMA RestartKeeps == IInv /\ Restart => IInv'
<1> SUFFICES ASSUME IInv, Restart PROVE IInv'
  OBVIOUS
<1>1. ASSUME NEW r \in Runs
      PROVE  /\ jobs'[r] = NoJob
             /\ worker'[r] = IF worker[r] \in {"none", "done"} THEN worker[r] ELSE "killed"
             /\ request'[r] = IF request[r].pc \in Waiting THEN [request[r] EXCEPT !.pc = "lost"]
                              ELSE request[r]
             /\ request'[r] \in RequestRecord
             /\ verdict'[r] = verdict[r] /\ rows'[r] = rows[r]
  BY RequestUpdates DEF Restart, IInv, Typed
<1>2. Typed'
  BY <1>1, NoJobTyped DEF Restart, IInv, Typed, Positions
<1>3. ASSUME NEW r \in Runs PROVE Told(r)'
  <2>0. request[r] \in RequestRecord /\ Told(r)
    BY DEF IInv, Typed
  <2>1. request'[r].answer = request[r].answer
    BY <1>1, <2>0 DEF RequestRecord
  <2>2. request'[r].pc = IF request[r].pc \in Waiting THEN "lost" ELSE request[r].pc
    BY <1>1, <2>0 DEF RequestRecord
  <2> QED BY <1>1, <2>0, <2>1, <2>2, NoJobTyped DEF Told, VerdictTold, JobTold, RowTold, Waiting
<1> QED BY <1>2, <1>3 DEF IInv

LEMMA ToldKept == IInv /\ [Next]_vars => IInv'
<1> SUFFICES ASSUME IInv, [Next]_vars PROVE IInv'
  OBVIOUS
<1>1. CASE UNCHANGED vars
  BY <1>1 DEF vars, IInv, Typed, Told
<1> QED BY <1>1, SubmitKeeps, ThreadKeeps, RouteKeeps, RestartKeeps DEF Next

\* Every reachable state has the types of the tables, the job manager's memory
\* and the threads' positions.
THEOREM TypeCorrect == Spec => []Typed
<1>1. IInv => Typed
  BY DEF IInv
<1> QED BY <1>1, ToldAtStart, ToldKept, PTL DEF Spec

\* profile_runs.py, create_profile_run: the row of a run is the verdict of its
\* task, a caller told of a verdict finds it stored, and a run said to be still
\* processing has no row, whatever late threads, refused transactions, and
\* restarts before or after the commit do.
THEOREM RowsAreAnswers == Spec => []RowsMatchAnswers
<1>1. IInv => RowsMatchAnswers
  BY DEF IInv, Told, RowTold, RowsMatchAnswers, Waiting
<1> QED BY <1>1, ToldAtStart, ToldKept, PTL DEF Spec

-----------------------------------------------------------------------------
(* The refinement of ProfilingTask, one task for each run.                 *)

LEMMA TasksBegin == Init => \A r \in Runs : Task(r)!TaskInit
  BY DEF Init, Task!TaskInit

TaskOf(r) == [Task(r)!TaskNext]_(Task(r)!taskVars)

\* A step of the job manager is, for each run, a step of its task or none.
LEMMA TasksGoOn == IInv /\ [Next]_vars => \A r \in Runs : TaskOf(r)
<1> SUFFICES ASSUME IInv, [Next]_vars, NEW r \in Runs PROVE TaskOf(r)
  OBVIOUS
<1>0. /\ Typed /\ VerdictTold(worker[r], verdict[r]) /\ JobTold(jobs[r], worker[r], verdict[r])
      /\ RowTold(request[r], worker[r], verdict[r], rows[r])
  BY DEF IInv, Told
<1>1. ASSUME UNCHANGED <<worker[r], verdict[r]>>, r \in dirs' <=> r \in dirs,
             r \in swallowed' <=> r \in swallowed
      PROVE  TaskOf(r)
  BY <1>1 DEF TaskOf, Task!TaskNext, Task!taskVars
<1>2. ASSUME NEW x \in Runs \ {r}, Submit(x) \/ ThreadStep(x) \/ RouteStep(x) PROVE TaskOf(r)
  <2>1. UNCHANGED <<worker[r], verdict[r]>> /\ (r \in dirs' <=> r \in dirs)
        /\ (r \in swallowed' <=> r \in swallowed)
    BY <1>0, <1>2 DEF Typed, Submit, ThreadStep, RouteStep, Execute, SaveUpload, PipelineEnds, CleanUp, TaskRaises,
       SettleStatus, SettleOutcome, Work, SeesJobEnd, DeadlinePasses, ReadResult, Persist, AnswerStored,
       PersistFails, AnswerWithoutResult, Answer
  <2> QED BY <1>1, <2>1
<1>3. CASE RouteStep(r)
  BY <1>1, <1>3 DEF RouteStep, SeesJobEnd, DeadlinePasses, ReadResult, Persist, AnswerStored, PersistFails,
     AnswerWithoutResult, Answer
<1>4. CASE Submit(r)
  BY <1>0, <1>4 DEF Submit, Typed, RowTold, TaskOf, Task!TaskNext, Task!taskVars
<1>5. CASE Execute(r)
  BY <1>0, <1>5 DEF Execute, Work, Typed, TaskOf, Task!TaskNext, Task!taskVars, Task!Begin
<1>6. CASE SaveUpload(r)
  BY <1>0, <1>6 DEF SaveUpload, Work, Typed, TaskOf, Task!TaskNext, Task!taskVars, Task!SaveUpload
<1>7. CASE PipelineEnds(r)
  BY <1>0, <1>7 DEF PipelineEnds, Work, Typed, TaskOf, Task!TaskNext, Task!taskVars, Task!Conclude
<1>8. CASE CleanUp(r)
  BY <1>0, <1>8 DEF CleanUp, Work, Typed, TaskOf, Task!TaskNext, Task!taskVars, Task!Return
<1>9. CASE TaskRaises(r)
  BY <1>0, <1>9 DEF TaskRaises, Work, Typed, TaskOf, Task!TaskNext, Task!taskVars, Task!Raise
<1>10. CASE SettleStatus(r)
  BY <1>0, <1>10 DEF SettleStatus, Work, Typed, VerdictTold, TaskOf, Task!TaskNext, Task!taskVars
<1>11. CASE SettleOutcome(r)
  BY <1>0, <1>11 DEF SettleOutcome, Work, Typed, TaskOf, Task!TaskNext, Task!taskVars
<1>12. CASE Restart
  <2>1. CASE worker[r] \in {"none", "done", "killed"}
    BY <1>0, <1>12, <2>1, <1>1 DEF Restart, Typed
  <2>2. CASE worker[r] \notin {"none", "done", "killed"}
    BY <1>0, <1>12, <2>2 DEF Restart, Typed, TaskOf, Task!TaskNext, Task!taskVars, Task!Kill
  <2> QED BY <2>1, <2>2
<1>13. CASE UNCHANGED vars
  BY <1>1, <1>13 DEF vars
<1> QED BY <1>2, <1>3, <1>4, <1>5, <1>6, <1>7, <1>8, <1>9, <1>10, <1>11, <1>12, <1>13 DEF Next, ThreadStep

\* job_manager.py, JobManager._execute: the thread of every run carries out a
\* profiling task and nothing else, whatever other threads, routes and
\* restarts do: a task that returns leaves its directory only behind an error
\* of the removal that was swallowed.
THEOREM ThreadsImplementTasks == Spec => ThreadsRunTasks
<1>1. IInv /\ [Next]_vars => [\A r \in Runs : TaskOf(r)]_vars
  BY TasksGoOn
<1>2. Spec => [][\A r \in Runs : TaskOf(r)]_vars
  BY <1>1, ToldAtStart, ToldKept, PTL DEF Spec
<1> QED BY <1>2, TasksBegin, PTL DEF ThreadsRunTasks, TaskOf, Spec

=============================================================================
