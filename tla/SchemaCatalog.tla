---------------------------- MODULE SchemaCatalog ----------------------------
(***************************************************************************)
(* Agent 1: POST /upload-dataset and the catalogue of datasets it keeps.   *)
(*                                                                         *)
(* upload_dataset is an `async def' that runs the whole graph without an   *)
(* await, so that a server process serves one upload at a time (loop);     *)
(* processes share the table dataset_metadata and the sequence its ids are *)
(* drawn from, and every access to them is a transaction of its own.  A    *)
(* process that starts sets the sequence, with the table locked (ALTER     *)
(* TABLE) but not the sequence.                                            *)
(*                                                                         *)
(* What is read off a file is named by the upload that brought it.         *)
(***************************************************************************)
EXTENDS Naturals, FiniteSets

CONSTANTS
  Uploads,  \* calls of POST /upload-dataset
  Names,    \* file names
  Servers,  \* server processes
  Faults,   \* TRUE when a transaction may fail and a process may die
  None      \* absence: of an upload, a row, an id

ASSUME NoneIsNew == None \notin Uploads \cup Names \cup Nat
ASSUME FaultsIsBoolean == Faults \in BOOLEAN

VARIABLES
  rows,      \* table dataset_metadata, by id
  sequence,  \* last value of dataset_id_seq; 0 before it exists
  server,    \* [state, seed] of each process
  loop,      \* the upload that holds each event loop
  frames,    \* in-memory data frames of each process, by id
  calls,     \* local state of each upload
  setBack    \* history: a start has set the sequence back

vars == <<rows, sequence, server, loop, frames, calls, setBack>>

\* Domain, summary and column descriptions: by whose run of the classification
\* agent, and whether that run ended in the fallback.  Nobody's is 'Pending'.
Class == [of : Uploads \cup {None}, fallback : BOOLEAN]

Pending == [of |-> None, fallback |-> FALSE]

\* shape: row and column counts, names, types and the sample.
Row ==
  [name : Names, by : Uploads, shape : Uploads, quality : Uploads, class : Class,
   status : {"Processing", "Completed", "Partial"}]

ASSUME NoneIsNoClass == None \notin Class

Steps == {"gate", "id", "insert", "update", "classify", "persist", "store"}

Call ==
  [pc : {"idle", "queued", "answered", "refused", "failed", "lost"} \cup Steps,
   server : Servers \cup {None}, name : Names \cup {None}, force : BOOLEAN,
   old : Class \cup {None},     \* classification of existing_metadata
   id : Nat \cup {None},        \* dataset_id
   class : Class, status : {"Processing", "Completed", "Partial"},
   met : SUBSET Uploads]        \* history: uploads of the name under way at its lookup

TypeOK ==
  /\ DOMAIN rows \subseteq Nat /\ \A i \in DOMAIN rows : rows[i] \in Row
  /\ sequence \in Nat
  /\ server \in [Servers -> [state : {"down", "seeding", "up"}, seed : Nat]]
  /\ loop \in [Servers -> Uploads \cup {None}]
  /\ \A s \in Servers :
       DOMAIN frames[s] \subseteq Nat /\ \A i \in DOMAIN frames[s] : frames[s][i] \in Uploads
  /\ calls \in [Uploads -> Call]
  /\ setBack \in BOOLEAN

NotStarted ==
  [pc |-> "idle", server |-> None, name |-> None, force |-> FALSE, old |-> None,
   id |-> None, class |-> Pending, status |-> "Processing", met |-> {}]

NoIds == [i \in {} |-> None]

Init ==
  /\ rows = NoIds
  /\ sequence = 0
  /\ server = [s \in Servers |-> [state |-> "down", seed |-> 0]]
  /\ loop = [s \in Servers |-> None]
  /\ frames = [s \in Servers |-> NoIds]
  /\ calls = [u \in Uploads |-> NotStarted]
  /\ setBack = FALSE

\* What is remembered of an upload that has ended without an answer.
CutShort(u, pc) == [NotStarted EXCEPT !.pc = pc, !.met = calls[u].met]

Put(f, i, v) == [j \in DOMAIN f \cup {i} |-> IF j = i THEN v ELSE f[j]]

-----------------------------------------------------------------------------
(* Processes.                                                              *)

\* ALTER TABLE keeps everybody else from the table until init_db commits.
TableFree == \A s \in Servers : server[s].state # "seeding"

\* init_db: the tables and the sequence exist from here on, and the new value
\* of the sequence is computed.
ReadSequence(s) ==
  /\ server[s].state = "down"
  /\ TableFree
  /\ \E seed \in DOMAIN rows \cup {sequence, 1} :
       /\ \A i \in DOMAIN rows \cup {sequence, 1} : i <= seed
       /\ server' = [server EXCEPT ![s] = [state |-> "seeding", seed |-> seed]]
  /\ sequence' = IF sequence = 0 THEN 1 ELSE sequence
  /\ UNCHANGED <<rows, loop, frames, calls, setBack>>

\* setval and COMMIT: the process serves requests.
SetSequence(s) ==
  /\ server[s].state = "seeding"
  /\ sequence' = server[s].seed
  /\ setBack' = (setBack \/ server[s].seed < sequence)
  /\ server' = [server EXCEPT ![s] = [state |-> "up", seed |-> 0]]
  /\ UNCHANGED <<rows, loop, frames, calls>>

\* The process ends: its memory and the uploads it had accepted are gone.
Die(s) ==
  /\ Faults
  /\ server[s].state # "down"
  /\ server' = [server EXCEPT ![s] = [state |-> "down", seed |-> 0]]
  /\ loop' = [loop EXCEPT ![s] = None]
  /\ frames' = [frames EXCEPT ![s] = NoIds]
  /\ calls' = [u \in Uploads |->
       IF calls[u].server = s /\ calls[u].pc \in Steps \cup {"queued"}
       THEN CutShort(u, "lost") ELSE calls[u]]
  /\ UNCHANGED <<rows, sequence, setBack>>

-----------------------------------------------------------------------------
(* Uploads.                                                                *)

Arrive(u, s, n, force) ==
  /\ calls[u].pc = "idle"
  /\ server[s].state = "up"
  /\ calls' = [calls EXCEPT ![u] =
       [NotStarted EXCEPT !.pc = "queued", !.server = s, !.name = n, !.force = force]]
  /\ UNCHANGED <<rows, sequence, server, loop, frames, setBack>>

\* The graph's node at step `from' ends with the update `call'.
Node(u, from, call) ==
  /\ calls[u].pc = from
  /\ calls' = [calls EXCEPT ![u] = call]

Free(u) == loop' = [loop EXCEPT ![calls[u].server] = None]

\* The event loop of its process takes the upload up.
Served(u) == calls[u].pc = "queued" /\ loop[calls[u].server] = None

UnderWay(n) == {w \in Uploads : calls[w].pc \in Steps /\ calls[w].name = n}

\* Mutant: only rows whose processing has ended count as existing.
RowsNamed_Finished(n) ==
  {i \in DOMAIN rows : rows[i].name = n /\ rows[i].status # "Processing"}

RowsNamed(n) == {i \in DOMAIN rows : rows[i].name = n}

\* validate_and_load refuses the file (413, 415, 400, 422).
Refuse(u) ==
  /\ Served(u)
  /\ Node(u, "queued", CutShort(u, "refused"))
  /\ UNCHANGED <<rows, sequence, server, loop, frames, setBack>>

\* validate_and_load, then check_existing_dataset: any row of the name, for
\* LIMIT 1 comes without an order.
CheckExisting(u) ==
  LET n == calls[u].name
      found(i, old) == [calls[u] EXCEPT !.pc = "gate", !.id = i, !.old = old, !.met = UnderWay(n)]
  IN /\ TableFree
     /\ Served(u)
     /\ \/ RowsNamed(n) = {} /\ Node(u, "queued", found(None, None))
        \/ \E i \in RowsNamed(n) : Node(u, "queued", found(i, rows[i].class))
     /\ loop' = [loop EXCEPT ![calls[u].server] = u]
     /\ UNCHANGED <<rows, sequence, server, frames, setBack>>

\* run_quality_gate: FAIL ends the graph with 422.
QualityGate(u) ==
  /\ \/ /\ Node(u, "gate", [calls[u] EXCEPT !.pc = IF calls[u].old = None THEN "id" ELSE "update"])
        /\ UNCHANGED loop
     \/ /\ Node(u, "gate", CutShort(u, "refused"))
        /\ Free(u)
  /\ UNCHANGED <<rows, sequence, server, frames, setBack>>

\* Mutant: the id is a count of the rows, as it once was.
DrawId_Count(u) ==
  /\ Node(u, "id", [calls[u] EXCEPT !.pc = "insert", !.id = Cardinality(DOMAIN rows) + 1])
  /\ sequence' = sequence + 1
  /\ UNCHANGED <<rows, server, loop, frames, setBack>>

\* get_next_dataset_id: nextval is atomic, and never rolled back.
DrawId(u) ==
  /\ Node(u, "id", [calls[u] EXCEPT !.pc = "insert", !.id = sequence + 1])
  /\ sequence' = sequence + 1
  /\ UNCHANGED <<rows, server, loop, frames, setBack>>

NewRow(u) ==
  [name |-> calls[u].name, by |-> u, shape |-> u, quality |-> u, class |-> Pending,
   status |-> "Processing"]

\* extract_metadata and insert_metadata; the primary key refuses an id in use.
InsertMetadata(u) ==
  /\ TableFree
  /\ \/ /\ calls[u].id \notin DOMAIN rows
        /\ Node(u, "insert", [calls[u] EXCEPT !.pc = "classify"])
        /\ rows' = Put(rows, calls[u].id, NewRow(u))
        /\ UNCHANGED loop
     \/ /\ calls[u].id \in DOMAIN rows
        /\ Node(u, "insert", CutShort(u, "failed"))
        /\ Free(u)
        /\ UNCHANGED rows
  /\ UNCHANGED <<sequence, server, frames, setBack>>

\* Mutant: the status is taken from the name of the operation.
UpdateAfterReupload_Verb(u) ==
  /\ TableFree
  /\ Node(u, "update", [calls[u] EXCEPT !.pc = "classify"])
  /\ rows' = Put(rows, calls[u].id,
                 [rows[calls[u].id] EXCEPT !.shape = u, !.status = "Reuploaded"])
  /\ UNCHANGED <<sequence, server, loop, frames, setBack>>

\* update_metadata_after_reupload: the file's shape, and status "Completed"
\* before anything is classified; no row is ever deleted.
UpdateAfterReupload(u) ==
  /\ TableFree
  /\ Node(u, "update", [calls[u] EXCEPT !.pc = "classify"])
  /\ rows' = Put(rows, calls[u].id,
                 [rows[calls[u].id] EXCEPT !.shape = u, !.status = "Completed"])
  /\ UNCHANGED <<sequence, server, loop, frames, setBack>>

\* Mutant: the router looks at force_reclassify only.
NeedsClassification_Forced(u) == calls[u].force

\* classification_needed_router.
NeedsClassification(u) == calls[u].old = None \/ calls[u].force

\* run_classification_agent: its tools answer a failed LLM call, an answer that
\* is no JSON, or their own omission with a fallback; beyond that it raises.
AgentOutcomes == {"classified", "fallback", "raises"}

\* classify_dataset_node.
Classify(u) ==
  /\ NeedsClassification(u)
  /\ \E outcome \in AgentOutcomes :
       Node(u, "classify", [calls[u] EXCEPT
         !.pc = "persist",
         !.class = [of |-> u, fallback |-> outcome # "classified"],
         !.status = IF outcome = "raises" /\ calls[u].old = None THEN "Partial" ELSE "Completed"])
  /\ UNCHANGED <<rows, sequence, server, loop, frames, setBack>>

\* What an upload that is not classified is given: the classification it read.
Reused(u) == IF calls[u].old = None THEN Pending ELSE calls[u].old

\* reuse_existing_classification_node.
Reuse(u) ==
  /\ ~NeedsClassification(u)
  /\ Node(u, "classify", [calls[u] EXCEPT !.pc = "persist", !.class = Reused(u),
                                          !.status = "Completed"])
  /\ UNCHANGED <<rows, sequence, server, loop, frames, setBack>>

\* Mutant: the quality report of a re-upload is not stored.
Classified_KeepsQuality(row, u) ==
  [row EXCEPT !.class = calls[u].class, !.status = calls[u].status]

Classified(row, u) ==
  [row EXCEPT !.class = calls[u].class, !.status = calls[u].status, !.quality = u]

\* update_metadata_after_classification.
Persist(u) ==
  /\ TableFree
  /\ Node(u, "persist", [calls[u] EXCEPT !.pc = "store"])
  /\ rows' = Put(rows, calls[u].id, Classified(rows[calls[u].id], u))
  /\ UNCHANGED <<sequence, server, loop, frames, setBack>>

\* store_dataframe, and the answer.
StoreFrame(u) ==
  /\ Node(u, "store", [calls[u] EXCEPT !.pc = "answered", !.force = FALSE, !.old = None])
  /\ frames' = [frames EXCEPT ![calls[u].server] = Put(@, calls[u].id, u)]
  /\ Free(u)
  /\ UNCHANGED <<rows, sequence, server, setBack>>

\* A transaction, the gate or the extraction raises: 500.
UploadFails(u) ==
  /\ Faults
  /\ calls[u].pc \in Steps \ {"classify", "store"}
  /\ Node(u, calls[u].pc, CutShort(u, "failed"))
  /\ Free(u)
  /\ UNCHANGED <<rows, sequence, server, frames, setBack>>

GraphStep(u) ==
  \/ Refuse(u) \/ CheckExisting(u) \/ QualityGate(u) \/ DrawId(u) \/ InsertMetadata(u)
  \/ UpdateAfterReupload(u) \/ Classify(u) \/ Reuse(u) \/ Persist(u) \/ StoreFrame(u)

Next ==
  \/ \E s \in Servers : ReadSequence(s) \/ SetSequence(s) \/ Die(s)
  \/ \E u \in Uploads :
       \/ \E s \in Servers, n \in Names, force \in BOOLEAN : Arrive(u, s, n, force)
       \/ GraphStep(u) \/ UploadFails(u)

Spec == Init /\ [][Next]_vars

-----------------------------------------------------------------------------
(* Properties.                                                             *)

\* Two uploads of one name were under way at the same time, which takes two
\* processes.
Overlap(u, v) == u \in calls[v].met \/ v \in calls[u].met

\* test_database.py: ids are "unique under concurrent callers", and across
\* restarts: an insert never meets a row of its id, unless a start raced a
\* nextval of another process and set the sequence back.
NoIdClash ==
  setBack \/ \A u \in Uploads : calls[u].pc = "insert" => calls[u].id \notin DOMAIN rows

\* "A filename this service has already seen replaces that prior entry": a name
\* has a second row only if the uploads that inserted the two overlapped, even
\* when one of them was cut short or failed.
SecondRowNeedsOverlap ==
  \A i, j \in DOMAIN rows :
    i # j /\ rows[i].name = rows[j].name => Overlap(rows[i].by, rows[j].by)

\* What the catalogue says of a dataset is what the upload was answered whose
\* file it describes: its report, its classification, its status and its data
\* frame, all four written at different times.
RowSaysWhatWasAnswered ==
  \A i \in DOMAIN rows :
    LET row == rows[i]
        u == row.shape
    IN calls[u].pc = "answered" /\ (\A w \in Uploads : ~Overlap(u, w)) =>
         /\ calls[u].id = i
         /\ row.quality = u /\ row.class = calls[u].class /\ row.status = calls[u].status
         /\ i \in DOMAIN frames[calls[u].server] => frames[calls[u].server][i] = u

\* A dataset is shown as completed without ever having been classified only if
\* the upload that inserted its row was cut short, failed or was overlapped:
\* the next upload of the name then takes "Pending" for its classification.
PendingHasACause ==
  \A i \in DOMAIN rows :
    rows[i].status = "Completed" /\ rows[i].class = Pending =>
      \/ calls[rows[i].by].pc \in {"failed", "lost"}
      \/ \E w \in Uploads : Overlap(rows[i].by, w)

=============================================================================
