--------------------------- MODULE DatasetRegistry ---------------------------
(***************************************************************************)
(* Stage 0A of the Agent-Orchestrator: the Dataset Registry.               *)
(*                                                                         *)
(* Every call of the registry is a sequence of short transactions, each on *)
(* a connection of its own, and of file-system operations.  An action here *)
(* is one such transaction or operation, so that everything the code lets  *)
(* happen between two of them can happen here too:                         *)
(*                                                                         *)
(*  - register() runs on the event loop of a server process: `async def    *)
(*    resolve_dataset_identity' calls it without an await, so at most one  *)
(*    call is in progress per process (loop);                              *)
(*  - persist_result(), DELETE /datasets/copies and DELETE                 *)
(*    /datasets/masters are plain functions that run on threads of the     *)
(*    pool and interleave with each other and with register().             *)
(*                                                                         *)
(* With Faults, any call may be abandoned between two of its steps: an     *)
(* exception of the database or the disk, or the death of the process.     *)
(***************************************************************************)
EXTENDS Naturals, FiniteSets

CONSTANTS
  Fingerprints,  \* contents an upload may have (SHA-256 of the bytes)
  Names,         \* file names an upload may carry
  Uploads,       \* POST /pipeline/run requests; also the id of the copy made
  Servers,       \* server processes, each with one event loop
  Forces,        \* values force_revalidate/force_reclassify may have in a request
  Admins,        \* threads that serve DELETE /datasets/masters
  Faults,        \* TRUE when calls may fail or be cut short half-way
  NoOne          \* absence: of a row, of a previous version, of a loop holder

ASSUME FiniteUploads == IsFiniteSet(Uploads)
ASSUME NoOneIsNew == NoOne \notin Fingerprints \cup Names \cup Uploads \cup Servers
ASSUME SwitchesAreBoolean == Faults \in BOOLEAN /\ Forces \subseteq BOOLEAN

VARIABLES
  masters,   \* table master_datasets, keyed by fingerprint
  copies,    \* table dataset_copies, keyed by the upload that made the row
  results,   \* table master_dataset_results: fingerprints with a cached result
  files,     \* fingerprints whose master file is on disk
  calls,     \* local state of each upload's request
  loop,      \* the upload whose register() occupies each event loop
  owed,      \* soft-deleted copies whose decrement has not run yet
  deletes,   \* local state of each DELETE /datasets/masters call
  overtaken  \* history: contents whose file an old delete removed late

vars == <<masters, copies, results, files, calls, loop, owed, deletes, overtaken>>

RegisterSteps == {"version", "write", "insert", "copy", "cached"}

Call ==
  [pc : {"idle", "queued", "running", "counting", "hit", "degraded", "done"}
          \cup RegisterSteps,
   server : Servers \cup {NoOne}, fp : Fingerprints \cup {NoOne},
   name : Names \cup {NoOne}, force : BOOLEAN, dup : BOOLEAN,
   version : Nat, dataset : Uploads \cup {NoOne}, prev : Fingerprints \cup {NoOne}]

Master ==
  [name : Names, dataset : Uploads, version : Nat,
   prev : Fingerprints \cup {NoOne}, refs : Nat, counted : BOOLEAN]

Copy == [fp : Fingerprints, version : Nat, deleted : BOOLEAN]

ASSUME NoOneIsNoRow == NoOne \notin Master /\ NoOne \notin Copy

Delete ==
  [pc : {"idle", "row", "delete", "unlink", "blocked"},
   fp : Fingerprints \cup {NoOne}, force : BOOLEAN]

NotStarted ==
  [pc |-> "idle", server |-> NoOne, fp |-> NoOne, name |-> NoOne, force |-> FALSE,
   dup |-> FALSE, version |-> 0, dataset |-> NoOne, prev |-> NoOne]

NoDelete == [pc |-> "idle", fp |-> NoOne, force |-> FALSE]

TypeOK ==
  /\ masters \in [Fingerprints -> Master \cup {NoOne}]
  /\ copies \in [Uploads -> Copy \cup {NoOne}]
  /\ results \in SUBSET Fingerprints
  /\ files \in SUBSET Fingerprints
  /\ calls \in [Uploads -> Call]
  /\ loop \in [Servers -> Uploads \cup {NoOne}]
  /\ owed \in SUBSET Uploads
  /\ deletes \in [Admins -> Delete]
  /\ overtaken \in SUBSET Fingerprints

Init ==
  /\ masters = [f \in Fingerprints |-> NoOne]
  /\ copies = [u \in Uploads |-> NoOne]
  /\ results = {}
  /\ files = {}
  /\ calls = [u \in Uploads |-> NotStarted]
  /\ loop = [s \in Servers |-> NoOne]
  /\ owed = {}
  /\ deletes = [a \in Admins |-> NoDelete]
  /\ overtaken = {}

-----------------------------------------------------------------------------
(* Queries.                                                                *)

Registered(f) == masters[f] # NoOne

\* The rows of dataset_copies that point at content f.
CopiesOf(f) == {u \in Uploads : copies[u] # NoOne /\ copies[u].fp = f}

ActiveCopies(f) == {u \in CopiesOf(f) : ~copies[u].deleted}

VersionsOf(n) == {f \in Fingerprints : Registered(f) /\ masters[f].name = n}

\* ORDER BY latest_version DESC LIMIT 1: any row whose version is maximal.
LatestVersions(n) ==
  {f \in VersionsOf(n) : \A g \in VersionsOf(n) : masters[g].version <= masters[f].version}

\* previous_fingerprint REFERENCES master_datasets, checked at the end of the
\* statement: a row may point at itself.
PrevExists(f, p) == p \in {NoOne, f} \cup {g \in Fingerprints : Registered(g)}

\* Mutant: the column without its REFERENCES clause.
Superseded_NoForeignKey(f) == FALSE

\* A newer version points at f, so that the foreign key keeps its row.
Superseded(f) == \E g \in Fingerprints \ {f} : Registered(g) /\ masters[g].prev = f

\* Mutant: reference_count - 1 without GREATEST(..., 0).
AfterDecrement_Unclamped(n) == n - 1

AfterDecrement(n) == IF n > 0 THEN n - 1 ELSE 0

-----------------------------------------------------------------------------
(* POST /pipeline/run, up to the end of resolve_dataset_identity.          *)

LoopFree(u) == loop[calls[u].server] = NoOne

\* register() has returned or raised: the event loop is free again.
Leave(u) == loop' = [loop EXCEPT ![calls[u].server] = NoOne]

\* What outlives a request: the content its copy points at.
Finished(u, pc) ==
  [NotStarted EXCEPT !.pc = pc, !.fp = calls[u].fp, !.dup = calls[u].dup]

\* Mutant: the exception escapes without giving the loop back.
Degrade_KeepsLoop(u) ==
  /\ calls' = [calls EXCEPT ![u] = Finished(u, "degraded")]
  /\ UNCHANGED loop

\* An exception anywhere in register(): the pipeline goes on with no
\* fingerprint, and whatever was committed stays.
Degrade(u) ==
  /\ calls' = [calls EXCEPT ![u] = Finished(u, "degraded")]
  /\ Leave(u)

Arrive(u, s, f, n, force) ==
  /\ calls[u].pc = "idle"
  /\ calls' = [calls EXCEPT ![u] =
       [NotStarted EXCEPT !.pc = "queued", !.server = s, !.fp = f, !.name = n, !.force = force]]
  /\ UNCHANGED <<masters, copies, results, files, loop, owed, deletes, overtaken>>

\* Mutant: the copy of a duplicate gets the column's default version.
KnownVersion_Default(f) == 1

\* RegisterResult of a duplicate: existing.latest_version.
KnownVersion(f) == masters[f].version

\* compute_fingerprint, then lookup_master_dataset.
DetectDuplicate(u) ==
  LET f == calls[u].fp IN
  /\ calls[u].pc = "queued"
  /\ LoopFree(u)
  /\ loop' = [loop EXCEPT ![calls[u].server] = u]
  /\ calls' = IF Registered(f)
              THEN [calls EXCEPT ![u] =
                     [@ EXCEPT !.pc = "copy", !.dup = TRUE, !.version = KnownVersion(f)]]
              ELSE [calls EXCEPT ![u].pc = "version"]
  /\ UNCHANGED <<masters, copies, results, files, owed, deletes, overtaken>>

Versioned(u, v, dataset, prev) ==
  [calls[u] EXCEPT !.pc = "write", !.version = v, !.dataset = dataset, !.prev = prev]

\* lookup_latest_version_by_filename and the choice of the version number.
DetectVersion(u) ==
  LET n == calls[u].name IN
  /\ calls[u].pc = "version"
  /\ \/ /\ VersionsOf(n) = {}
        /\ calls' = [calls EXCEPT ![u] = Versioned(u, 1, u, NoOne)]
     \/ \E p \in LatestVersions(n) :
          calls' = [calls EXCEPT ![u] =
            Versioned(u, masters[p].version + 1, masters[p].dataset, p)]
  /\ UNCHANGED <<masters, copies, results, files, loop, owed, deletes, overtaken>>

\* Mutant: the file is left to be written after the row.
WriteMasterFile_Deferred(u) ==
  /\ calls[u].pc = "write"
  /\ calls' = [calls EXCEPT ![u].pc = "insert"]
  /\ UNCHANGED <<masters, copies, results, files, loop, owed, deletes, overtaken>>

\* write_master_file: a temporary file, then os.replace.
WriteMasterFile(u) ==
  /\ calls[u].pc = "write"
  /\ files' = files \cup {calls[u].fp}
  /\ calls' = [calls EXCEPT ![u].pc = "insert"]
  /\ UNCHANGED <<masters, copies, results, loop, owed, deletes, overtaken>>

NewRow(u) ==
  [name |-> calls[u].name, dataset |-> calls[u].dataset, version |-> calls[u].version,
   prev |-> calls[u].prev, refs |-> 0, counted |-> FALSE]

\* INSERT ... ON CONFLICT (fingerprint) DO NOTHING; the foreign key on
\* previous_fingerprint is checked when a row is really inserted.
InsertMaster(u) ==
  LET f == calls[u].fp IN
  /\ calls[u].pc = "insert"
  /\ \/ /\ Registered(f)
        /\ calls' = [calls EXCEPT ![u].pc = "copy"]
        /\ UNCHANGED <<masters, loop>>
     \/ /\ ~Registered(f) /\ PrevExists(f, calls[u].prev)
        /\ masters' = [masters EXCEPT ![f] = NewRow(u)]
        /\ calls' = [calls EXCEPT ![u].pc = "copy"]
        /\ UNCHANGED loop
     \/ /\ ~Registered(f) /\ ~PrevExists(f, calls[u].prev)
        /\ Degrade(u)
        /\ UNCHANGED masters
  /\ UNCHANGED <<copies, results, files, owed, deletes, overtaken>>

\* Mutant: the increment is a second transaction, which a crash can lose.
CountCopy_Separately(f) ==
  \/ masters' = [masters EXCEPT ![f].refs = @ + 1]
  \/ Faults /\ UNCHANGED masters

CountCopy(f) == masters' = [masters EXCEPT ![f].refs = @ + 1]

\* insert_copy_and_increment_reference: one transaction, which fails as a
\* whole when the master row is gone.
CreateCopy(u) ==
  LET f == calls[u].fp IN
  /\ calls[u].pc = "copy"
  /\ \/ /\ Registered(f)
        /\ copies' = [copies EXCEPT ![u] =
             [fp |-> f, version |-> calls[u].version, deleted |-> FALSE]]
        /\ CountCopy(f)
        /\ \/ /\ calls[u].dup
              /\ calls' = [calls EXCEPT ![u].pc = "cached"]
              /\ UNCHANGED loop
           \/ /\ ~calls[u].dup
              /\ calls' = [calls EXCEPT ![u] = Finished(u, "running")]
              /\ Leave(u)
     \/ /\ ~Registered(f)
        /\ Degrade(u)
        /\ UNCHANGED <<copies, masters>>
  /\ UNCHANGED <<results, files, owed, deletes, overtaken>>

\* touch_last_referenced and get_cached_result, then the node's decision to
\* answer from the cache.
GetCachedResult(u) ==
  /\ calls[u].pc = "cached"
  /\ calls' = [calls EXCEPT ![u] = Finished(u,
       IF calls[u].fp \in results /\ ~calls[u].force THEN "hit" ELSE "running")]
  /\ Leave(u)
  /\ UNCHANGED <<masters, copies, results, files, owed, deletes, overtaken>>

RegisterError(u) ==
  /\ Faults
  /\ calls[u].pc \in RegisterSteps
  /\ Degrade(u)
  /\ UNCHANGED <<masters, copies, results, files, owed, deletes, overtaken>>

-----------------------------------------------------------------------------
(* persist_master_dataset, after Agent 1 and Agent 2 have answered.        *)

\* upsert_result; a foreign-key failure is logged and swallowed by the node.
UpsertResult(u) ==
  LET f == calls[u].fp IN
  /\ calls[u].pc = "running"
  /\ \/ /\ Registered(f)
        /\ results' = results \cup {f}
        /\ calls' = [calls EXCEPT ![u].pc = "counting"]
     \/ /\ ~Registered(f)
        /\ calls' = [calls EXCEPT ![u] = Finished(u, "done")]
        /\ UNCHANGED results
  /\ UNCHANGED <<masters, copies, files, loop, owed, deletes, overtaken>>

\* update_master_counts: a second transaction.
UpdateCounts(u) ==
  LET f == calls[u].fp IN
  /\ calls[u].pc = "counting"
  /\ masters' = IF Registered(f) THEN [masters EXCEPT ![f].counted = TRUE] ELSE masters
  /\ calls' = [calls EXCEPT ![u] = Finished(u, "done")]
  /\ UNCHANGED <<copies, results, files, loop, owed, deletes, overtaken>>

\* Agent 1 or Agent 2 refuses or is unreachable, or the persist call raises.
RunStops(u) ==
  /\ calls[u].pc = "running" \/ (Faults /\ calls[u].pc = "counting")
  /\ calls' = [calls EXCEPT ![u] = Finished(u, "done")]
  /\ UNCHANGED <<masters, copies, results, files, loop, owed, deletes, overtaken>>

-----------------------------------------------------------------------------
(* DELETE /datasets/copies/{copy_id}: two transactions.                    *)

\* UPDATE ... WHERE deleted_flag = FALSE; nothing changes for any other id.
SoftDelete(c) ==
  /\ copies[c] # NoOne
  /\ ~copies[c].deleted
  /\ copies' = [copies EXCEPT ![c].deleted = TRUE]
  /\ owed' = owed \cup {c}
  /\ UNCHANGED <<masters, results, files, calls, loop, deletes, overtaken>>

\* An UPDATE of no row when the master is gone.
Decrement(c) ==
  LET f == calls[c].fp IN
  /\ c \in owed
  /\ masters' = IF Registered(f)
                THEN [masters EXCEPT ![f].refs = AfterDecrement(@)] ELSE masters
  /\ owed' = owed \ {c}
  /\ UNCHANGED <<copies, results, files, calls, loop, deletes, overtaken>>

DecrementLost(c) ==
  /\ Faults
  /\ c \in owed
  /\ owed' = owed \ {c}
  /\ UNCHANGED <<masters, copies, results, files, calls, loop, deletes, overtaken>>

-----------------------------------------------------------------------------
(* DELETE /datasets/masters/{fingerprint}?force=...                        *)

\* can_delete_master: a refusal (409) leaves everything as it was.
CanDelete(f, force) == ActiveCopies(f) = {} \/ force

CheckGuardrail(a, f, force) ==
  /\ deletes[a].pc \in {"idle", "blocked"}
  /\ CanDelete(f, force)
  /\ deletes' = [deletes EXCEPT ![a] = [pc |-> "row", fp |-> f, force |-> force]]
  /\ UNCHANGED <<masters, copies, results, files, calls, loop, owed, overtaken>>

\* get_master_dataset_row: the call ends with 404 when there is no row.
ReadMasterRow(a) ==
  /\ deletes[a].pc = "row"
  /\ deletes' = IF Registered(deletes[a].fp)
                THEN [deletes EXCEPT ![a].pc = "delete"]
                ELSE [deletes EXCEPT ![a] = NoDelete]
  /\ UNCHANGED <<masters, copies, results, files, calls, loop, owed, overtaken>>

\* DELETE FROM master_datasets.  The foreign key of a newer version makes it
\* fail ("blocked", a 500); otherwise it cascades to copies and results.
DeleteMasterRow(a) ==
  LET f == deletes[a].fp IN
  /\ deletes[a].pc = "delete"
  /\ \/ /\ Registered(f) /\ Superseded(f)
        /\ deletes' = [deletes EXCEPT ![a].pc = "blocked"]
        /\ UNCHANGED <<masters, copies, results>>
     \/ /\ ~(Registered(f) /\ Superseded(f))
        /\ masters' = [masters EXCEPT ![f] = NoOne]
        /\ copies' = [u \in Uploads |-> IF u \in CopiesOf(f) THEN NoOne ELSE copies[u]]
        /\ results' = results \ {f}
        /\ deletes' = [deletes EXCEPT ![a].pc = "unlink"]
  /\ UNCHANGED <<files, calls, loop, owed, overtaken>>

\* The file of f belongs to a row, or to a registration about to insert one.
FileInUse(f) ==
  Registered(f) \/ \E u \in Uploads : calls[u].pc = "insert" /\ calls[u].fp = f

\* delete_master_file: unlink(missing_ok=True).
UnlinkMasterFile(a) ==
  LET f == deletes[a].fp IN
  /\ deletes[a].pc = "unlink"
  /\ files' = files \ {f}
  /\ overtaken' = IF FileInUse(f) THEN overtaken \cup {f} ELSE overtaken
  /\ deletes' = [deletes EXCEPT ![a] = NoDelete]
  /\ UNCHANGED <<masters, copies, results, calls, loop, owed>>

DeleteFails(a) ==
  /\ Faults
  /\ deletes[a].pc \in {"row", "delete", "unlink"}
  /\ deletes' = [deletes EXCEPT ![a] = NoDelete]
  /\ UNCHANGED <<masters, copies, results, files, calls, loop, owed, overtaken>>

-----------------------------------------------------------------------------

RegisterStep(u) ==
  \/ DetectDuplicate(u) \/ DetectVersion(u) \/ WriteMasterFile(u)
  \/ InsertMaster(u) \/ CreateCopy(u) \/ GetCachedResult(u)

UploadStep(u) ==
  \/ \E s \in Servers, f \in Fingerprints, n \in Names, force \in Forces :
       Arrive(u, s, f, n, force)
  \/ RegisterStep(u) \/ RegisterError(u)
  \/ UpsertResult(u) \/ UpdateCounts(u) \/ RunStops(u)

CopyStep(c) == SoftDelete(c) \/ Decrement(c) \/ DecrementLost(c)

AdminStep(a) ==
  \/ \E f \in Fingerprints, force \in BOOLEAN : CheckGuardrail(a, f, force)
  \/ ReadMasterRow(a) \/ DeleteMasterRow(a) \/ UnlinkMasterFile(a) \/ DeleteFails(a)

Next ==
  \/ \E u \in Uploads : UploadStep(u) \/ CopyStep(u)
  \/ \E a \in Admins : AdminStep(a)

Spec == Init /\ [][Next]_vars

\* What the code keeps running by itself: a call that holds the event loop, a
\* thread that has begun.  Requests and deletions may never come.
Fairness ==
  /\ \A u \in Uploads : WF_vars(RegisterStep(u))
  /\ \A a \in Admins :
       WF_vars(ReadMasterRow(a) \/ DeleteMasterRow(a) \/ UnlinkMasterFile(a))

FairSpec == Spec /\ Fairness

-----------------------------------------------------------------------------
(* Properties.                                                             *)

\* The rows of one file name form one chain: different versions, each but the
\* first pointing at its predecessor of the same lineage.  version_manager
\* chains versions from a lookup made two transactions before the insert, and
\* any of them may be deleted in between.
LineageLinear ==
  \A f, g \in Fingerprints :
    Registered(f) /\ Registered(g) /\ f # g /\ masters[f].name = masters[g].name
      => /\ masters[f].version # masters[g].version
         /\ masters[f].dataset = masters[g].dataset

\* previous_fingerprint always names the row of the version just before, of
\* the same file name and dataset_id; version 1 has none.
LineageChained ==
  \A f \in Fingerprints : Registered(f) =>
    LET m == masters[f] IN
    IF m.prev = NoOne THEN m.version = 1
    ELSE /\ Registered(m.prev)
         /\ masters[m.prev].name = m.name
         /\ masters[m.prev].dataset = m.dataset
         /\ m.version = masters[m.prev].version + 1

\* The version written on a copy, read when the upload was looked up, is the
\* version of the master row the copy points at, however long ago that was.
CopyVersionCurrent ==
  \A u \in Uploads : copies[u] # NoOne =>
    /\ Registered(copies[u].fp)
    /\ copies[u].version = masters[copies[u].fp].version

\* The count shown to an operator never misses an active copy, whatever is cut
\* short: register() commits row and increment together.
NeverUnderCounts ==
  \A f \in Fingerprints : Registered(f) =>
    masters[f].refs >= Cardinality(ActiveCopies(f))

\* The only way to such a row is an unlink that lands on a registration which
\* began after the old row was deleted; no failure or crash leads to one.
DanglingOnlyWhenOvertaken ==
  \A f \in Fingerprints : Registered(f) => f \in files \cup overtaken

\* A request that waits for the event loop is eventually served: every way
\* out of register() gives the loop back.
UploadAnswered ==
  \A u \in Uploads :
    calls[u].pc = "queued" ~> calls[u].pc \in {"running", "counting", "hit", "degraded", "done"}

=============================================================================
