---------------------------- MODULE ProfilingTask ----------------------------
(***************************************************************************)
(* What the job manager of Agent 2 may rely on when it runs the profiling  *)
(* pipeline on a thread: the task ends with a verdict or raises before it  *)
(* has touched the disk, and a task that returns has removed the directory *)
(* it put the upload in, unless the removal met an error, which shutil's   *)
(* rmtree is told to ignore.  A killed thread (it is a daemon) leaves the  *)
(* directory it had, and nothing removes it later.                         *)
(***************************************************************************)

VARIABLES
  phase,     \* "ready", "running", "cleaning", "returned", "raised" or "killed"
  dir,       \* TRUE while the run's temporary directory exists
  verdict,   \* "none" until the pipeline has concluded
  swallowed  \* TRUE once the removal has met an error that was ignored

taskVars == <<phase, dir, verdict, swallowed>>

TaskInit == phase = "ready" /\ dir = FALSE /\ verdict = "none" /\ swallowed = FALSE

Begin == phase = "ready" /\ phase' = "running" /\ UNCHANGED <<dir, verdict, swallowed>>

SaveUpload ==
  phase = "running" /\ ~dir /\ dir' = TRUE /\ UNCHANGED <<phase, verdict, swallowed>>

\* A pipeline can only complete on an upload it has saved.
Conclude ==
  /\ phase = "running"
  /\ verdict' \in (IF dir THEN {"COMPLETED", "FAILED"} ELSE {"FAILED"})
  /\ phase' = "cleaning"
  /\ UNCHANGED <<dir, swallowed>>

\* The directory stays only behind an error the removal has met.
Return ==
  /\ phase = "cleaning"
  /\ phase' = "returned"
  /\ \/ dir' = FALSE /\ UNCHANGED swallowed
     \/ dir /\ dir' = TRUE /\ swallowed' = TRUE
  /\ UNCHANGED verdict

Raise ==
  phase = "running" /\ ~dir /\ phase' = "raised" /\ UNCHANGED <<dir, verdict, swallowed>>

Kill ==
  /\ phase # "killed"
  /\ phase' = "killed"
  /\ UNCHANGED <<dir, verdict, swallowed>>

TaskNext == Begin \/ SaveUpload \/ Conclude \/ Return \/ Raise \/ Kill

TaskSpec == TaskInit /\ [][TaskNext]_taskVars

=============================================================================
