------------------------ MODULE DatasetRegistryProofs ------------------------
(***************************************************************************)
(* Proofs about the Dataset Registry, for every set of contents, names,    *)
(* uploads, server processes and admin threads.                            *)
(***************************************************************************)
EXTENDS RegistryLineage, FiniteSetTheorems, WellFoundedInduction, TLAPS

-----------------------------------------------------------------------------
(* Type correctness.  TypeOK alone is not inductive: a row is built from   *)
(* the local state of a call, which is filled in only once it has begun.   *)

CallShape ==
  \A u \in Uploads :
    /\ calls[u].pc # "idle" => calls[u].fp \in Fingerprints
    /\ calls[u].pc \in {"queued"} \cup RegisterSteps =>
         calls[u].server \in Servers /\ calls[u].name \in Names
    /\ calls[u].pc \in {"write", "insert"} => calls[u].dataset \in Uploads

DeleteShape ==
  \A a \in Admins : deletes[a].pc # "idle" => deletes[a].fp \in Fingerprints

Typing == TypeOK /\ CallShape /\ DeleteShape

LEMMA InitTyping == Init => Typing
  BY DEF Init, Typing, TypeOK, CallShape, DeleteShape, NotStarted, NoDelete, Call, Delete,
         RegisterSteps

\* The outcome of a call keeps the shape, whatever its outcome is.
LEMMA FinishedShape ==
  ASSUME TypeOK, NEW u \in Uploads,
         NEW pc \in {"running", "hit", "degraded", "done"}
  PROVE  /\ Finished(u, pc) \in Call
         /\ Finished(u, pc).pc = pc
         /\ Finished(u, pc).fp = calls[u].fp
         /\ Finished(u, pc).dup = calls[u].dup
  BY DEF TypeOK, Finished, NotStarted, Call

\* What register() fills in keeps the type of a call.
LEMMA KnownShape ==
  ASSUME NEW c \in Call, NEW v \in Nat
  PROVE  [c EXCEPT !.pc = "copy", !.dup = TRUE, !.version = v] \in Call
  BY DEF Call, RegisterSteps

LEMMA VersionedShape ==
  ASSUME TypeOK, NEW u \in Uploads, NEW v \in Nat, NEW d \in Uploads,
         NEW p \in Fingerprints \cup {NoOne}
  PROVE  LET c == Versioned(u, v, d, p) IN
         /\ c \in Call
         /\ c.pc = "write" /\ c.version = v /\ c.dataset = d /\ c.prev = p
         /\ c.fp = calls[u].fp /\ c.name = calls[u].name /\ c.server = calls[u].server
<1> DEFINE r == calls[u]
<1>1. r \in Call
  BY DEF TypeOK
<1> HIDE DEF r
<1>2. [r EXCEPT !.pc = "write", !.version = v, !.dataset = d, !.prev = p] \in Call
  BY <1>1 DEF Call, RegisterSteps
<1> QED
  BY <1>1, <1>2 DEF Call, Versioned, r

LEMMA RowShape ==
  ASSUME TypeOK, NEW f \in Fingerprints, Registered(f)
  PROVE  /\ masters[f] \in Master
         /\ masters[f].name \in Names /\ masters[f].dataset \in Uploads
         /\ masters[f].version \in Nat /\ masters[f].refs \in Nat
         /\ masters[f].prev \in Fingerprints \cup {NoOne}
  BY DEF TypeOK, Registered, Master

\* A row stays a row when its bookkeeping columns change.
LEMMA UpdatedRow ==
  ASSUME TypeOK, NEW f \in Fingerprints, Registered(f), NEW n \in Nat, NEW b \in BOOLEAN
  PROVE  /\ [masters[f] EXCEPT !.refs = n] \in Master
         /\ [masters[f] EXCEPT !.counted = b] \in Master
  BY RowShape DEF Master

LEMMA PickedVersion ==
  ASSUME TypeOK, NEW u \in Uploads, DetectVersion(u)
  PROVE  \E v \in Nat, d \in Uploads, p \in Fingerprints \cup {NoOne} :
           calls' = [calls EXCEPT ![u] = Versioned(u, v, d, p)]
<1> DEFINE n == calls[u].name
<1>1. CASE calls' = [calls EXCEPT ![u] = Versioned(u, 1, u, NoOne)]
  BY <1>1
<1>2. ASSUME NEW p \in LatestVersions(n),
             calls' = [calls EXCEPT ![u] =
               Versioned(u, masters[p].version + 1, masters[p].dataset, p)]
      PROVE  \E v \in Nat, d \in Uploads, q \in Fingerprints \cup {NoOne} :
               calls' = [calls EXCEPT ![u] = Versioned(u, v, d, q)]
  <2>1. p \in Fingerprints /\ Registered(p)
    BY DEF LatestVersions, VersionsOf
  <2>2. masters[p].version + 1 \in Nat /\ masters[p].dataset \in Uploads
    BY <2>1, RowShape
  <2> QED
    BY <1>2, <2>1, <2>2
<1> QED
  BY <1>1, <1>2 DEF DetectVersion

LEMMA NextTyping == Typing /\ [Next]_vars => Typing'
<1> SUFFICES ASSUME Typing, [Next]_vars PROVE Typing'
  OBVIOUS
<1> USE DEF Typing, TypeOK, CallShape, DeleteShape
<1>1. ASSUME NEW u \in Uploads, NEW s \in Servers, NEW f \in Fingerprints, NEW n \in Names,
             NEW force \in Forces, Arrive(u, s, f, n, force)
      PROVE  Typing'
  BY <1>1, SwitchesAreBoolean DEF Arrive, NotStarted, Call, RegisterSteps
<1>2. ASSUME NEW u \in Uploads, DetectDuplicate(u) PROVE Typing'
  <2> DEFINE f == calls[u].fp
  <2>1. f \in Fingerprints
    BY <1>2 DEF DetectDuplicate
  <2>2. CASE Registered(f)
    <3> DEFINE c == [calls[u] EXCEPT !.pc = "copy", !.dup = TRUE, !.version = KnownVersion(f)]
    <3>1. masters[f].version \in Nat
      BY <2>1, <2>2, RowShape
    <3>2. c \in Call
      BY <3>1, KnownShape DEF KnownVersion, TypeOK
    <3>3. c.pc = "copy" /\ c.fp = f /\ c.server = calls[u].server /\ c.name = calls[u].name
      BY DEF Call
    <3>4. calls' = [calls EXCEPT ![u] = c]
      BY <1>2, <2>2 DEF DetectDuplicate
    <3> HIDE DEF c
    <3> QED
      BY <1>2, <3>2, <3>3, <3>4 DEF DetectDuplicate, RegisterSteps
  <2>3. CASE ~Registered(f)
    BY <1>2, <2>3 DEF DetectDuplicate, Call, RegisterSteps
  <2> QED
    BY <2>2, <2>3
<1>3. ASSUME NEW u \in Uploads, DetectVersion(u) PROVE Typing'
  <2>1. PICK v \in Nat, d \in Uploads, p \in Fingerprints \cup {NoOne} :
          calls' = [calls EXCEPT ![u] = Versioned(u, v, d, p)]
    BY <1>3, PickedVersion
  <2>2. Versioned(u, v, d, p) \in Call
    BY VersionedShape
  <2> QED
    BY <1>3, <2>1, <2>2, VersionedShape DEF DetectVersion, RegisterSteps
<1>4. ASSUME NEW u \in Uploads, WriteMasterFile(u) PROVE Typing'
  BY <1>4 DEF WriteMasterFile, Call, RegisterSteps
<1>5. ASSUME NEW u \in Uploads, InsertMaster(u) PROVE Typing'
  <2> DEFINE f == calls[u].fp
  <2>1. f \in Fingerprints /\ NewRow(u) \in Master
    BY <1>5 DEF InsertMaster, NewRow, Master, Call, RegisterSteps
  <2>2. CASE calls' = [calls EXCEPT ![u].pc = "copy"] /\ UNCHANGED <<masters, loop>>
    BY <1>5, <2>2 DEF InsertMaster, Call, RegisterSteps
  <2>3. CASE /\ masters' = [masters EXCEPT ![f] = NewRow(u)]
             /\ calls' = [calls EXCEPT ![u].pc = "copy"] /\ UNCHANGED loop
    BY <1>5, <2>1, <2>3 DEF InsertMaster, Call, RegisterSteps
  <2>4. CASE Degrade(u) /\ UNCHANGED masters
    BY <1>5, <2>4, FinishedShape DEF InsertMaster, Degrade, Leave, RegisterSteps
  <2> QED
    BY <1>5, <2>2, <2>3, <2>4 DEF InsertMaster
<1>6. ASSUME NEW u \in Uploads, CreateCopy(u) PROVE Typing'
  <2> DEFINE f == calls[u].fp
  <2>1. f \in Fingerprints /\ calls[u].version \in Nat
    BY <1>6 DEF CreateCopy, Call, RegisterSteps
  <2>2. CASE Registered(f)
    <3>1. masters' \in [Fingerprints -> Master \cup {NoOne}]
      <4>1. masters[f].refs + 1 \in Nat
        BY <2>1, <2>2, RowShape
      <4>2. [masters[f] EXCEPT !.refs = masters[f].refs + 1] \in Master
        BY <2>1, <2>2, <4>1, UpdatedRow
      <4> QED
        BY <1>6, <2>1, <2>2, <4>2 DEF CreateCopy, CountCopy
    <3>2. copies' \in [Uploads -> Copy \cup {NoOne}]
      <4>1. [fp |-> f, version |-> calls[u].version, deleted |-> FALSE] \in Copy
        BY <2>1 DEF Copy
      <4> QED
        BY <1>6, <2>2, <4>1 DEF CreateCopy
    <3>3. calls' \in [Uploads -> Call] /\ loop' \in [Servers -> Uploads \cup {NoOne}]
      BY <1>6, <2>2, FinishedShape DEF CreateCopy, Leave, Call, RegisterSteps
    <3>4. CallShape'
      BY <1>6, <2>2, FinishedShape DEF CreateCopy, RegisterSteps, Call
    <3> QED
      BY <1>6, <3>1, <3>2, <3>3, <3>4 DEF CreateCopy
  <2>3. CASE ~Registered(f)
    BY <1>6, <2>3, FinishedShape DEF CreateCopy, Degrade, Leave, RegisterSteps
  <2> QED
    BY <2>2, <2>3
<1>7. ASSUME NEW u \in Uploads, GetCachedResult(u) PROVE Typing'
  BY <1>7, FinishedShape DEF GetCachedResult, Leave, RegisterSteps
<1>8. ASSUME NEW u \in Uploads, RegisterError(u) PROVE Typing'
  BY <1>8, FinishedShape DEF RegisterError, Degrade, Leave, RegisterSteps
<1>9. ASSUME NEW u \in Uploads, UpsertResult(u) PROVE Typing'
  BY <1>9, FinishedShape DEF UpsertResult, Registered, Call, RegisterSteps
<1>10. ASSUME NEW u \in Uploads, UpdateCounts(u) PROVE Typing'
  <2> DEFINE f == calls[u].fp
  <2>1. f \in Fingerprints
    BY <1>10 DEF UpdateCounts
  <2>2. masters' \in [Fingerprints -> Master \cup {NoOne}]
    BY <1>10, <2>1, UpdatedRow DEF UpdateCounts
  <2> QED
    BY <1>10, <2>2, FinishedShape DEF UpdateCounts, RegisterSteps
<1>11. ASSUME NEW u \in Uploads, RunStops(u) PROVE Typing'
  BY <1>11, FinishedShape DEF RunStops, RegisterSteps
<1>12. ASSUME NEW c \in Uploads, SoftDelete(c) PROVE Typing'
  BY <1>12 DEF SoftDelete, Copy
<1>13. ASSUME NEW c \in Uploads, Decrement(c) PROVE Typing'
  <2> DEFINE f == calls[c].fp
  <2>1. masters' \in [Fingerprints -> Master \cup {NoOne}]
    <3>1. CASE Registered(f) /\ f \in Fingerprints
      <4>1. AfterDecrement(masters[f].refs) \in Nat
        BY <3>1, RowShape DEF AfterDecrement
      <4>2. [masters[f] EXCEPT !.refs = AfterDecrement(masters[f].refs)] \in Master
        BY <3>1, <4>1, UpdatedRow
      <4> QED
        BY <1>13, <3>1, <4>2 DEF Decrement
    <3>2. CASE ~(Registered(f) /\ f \in Fingerprints)
      BY <1>13, <3>2 DEF Decrement
    <3> QED
      BY <3>1, <3>2
  <2> QED
    BY <1>13, <2>1 DEF Decrement
<1>14. ASSUME NEW c \in Uploads, DecrementLost(c) PROVE Typing'
  BY <1>14 DEF DecrementLost
<1>15. ASSUME NEW a \in Admins, NEW f \in Fingerprints, NEW force \in BOOLEAN,
              CheckGuardrail(a, f, force)
       PROVE  Typing'
  BY <1>15 DEF CheckGuardrail, Delete
<1>16. ASSUME NEW a \in Admins, ReadMasterRow(a) PROVE Typing'
  BY <1>16 DEF ReadMasterRow, Delete, NoDelete
<1>17. ASSUME NEW a \in Admins, DeleteMasterRow(a) PROVE Typing'
  BY <1>17 DEF DeleteMasterRow, Delete
<1>18. ASSUME NEW a \in Admins, UnlinkMasterFile(a) PROVE Typing'
  BY <1>18 DEF UnlinkMasterFile, Delete, NoDelete
<1>19. ASSUME NEW a \in Admins, DeleteFails(a) PROVE Typing'
  BY <1>19 DEF DeleteFails, Delete, NoDelete
<1>20. CASE UNCHANGED vars
  BY <1>20 DEF vars
<1> QED
  BY <1>1, <1>2, <1>3, <1>4, <1>5, <1>6, <1>7, <1>8, <1>9, <1>10, <1>11, <1>12, <1>13,
     <1>14, <1>15, <1>16, <1>17, <1>18, <1>19, <1>20
     DEF Next, UploadStep, CopyStep, AdminStep, RegisterStep

\* The registry never leaves its types, whatever fails and however many
\* processes and threads there are.
THEOREM TypeCorrect == Spec => []TypeOK
<1>1. Spec => []Typing
  BY InitTyping, NextTyping, PTL DEF Spec
<1> QED
  BY <1>1, PTL DEF Typing

-----------------------------------------------------------------------------
(* A row without its file.  Between its file and its row, a registration   *)
(* has the same claim on the file as a row.                                *)

FileInv ==
  /\ \A u \in Uploads : calls[u].pc = "insert" => calls[u].fp \in files \cup overtaken
  /\ DanglingOnlyWhenOvertaken

\* Steps that leave the disk alone, register nothing and bring no call to its
\* insert keep the invariant.
LEMMA FilesKept ==
  ASSUME FileInv, files' = files, overtaken' = overtaken,
         \A f \in Fingerprints : masters'[f] # NoOne => masters[f] # NoOne,
         \A u \in Uploads : calls'[u].pc = "insert" =>
           calls[u].pc = "insert" /\ calls'[u].fp = calls[u].fp
  PROVE  FileInv'
  BY DEF FileInv, DanglingOnlyWhenOvertaken, Registered

LEMMA InitFileInv == Init => FileInv
  BY DEF Init, FileInv, DanglingOnlyWhenOvertaken, Registered, NotStarted

LEMMA NextFileInv == Typing /\ FileInv /\ [Next]_vars => FileInv'
<1> SUFFICES ASSUME Typing, FileInv, [Next]_vars PROVE FileInv'
  OBVIOUS
<1> USE DEF Typing, TypeOK, CallShape
<1>1. ASSUME NEW u \in Uploads, NEW s \in Servers, NEW f \in Fingerprints, NEW n \in Names,
             NEW force \in Forces, Arrive(u, s, f, n, force)
      PROVE  FileInv'
  BY <1>1, FilesKept DEF Arrive, NotStarted
<1>2. ASSUME NEW u \in Uploads, DetectDuplicate(u) PROVE FileInv'
  BY <1>2, FilesKept DEF DetectDuplicate, Call
<1>3. ASSUME NEW u \in Uploads, DetectVersion(u) PROVE FileInv'
  <2>1. PICK v \in Nat, d \in Uploads, p \in Fingerprints \cup {NoOne} :
          calls' = [calls EXCEPT ![u] = Versioned(u, v, d, p)]
    BY <1>3, PickedVersion
  <2> QED
    BY <1>3, <2>1, VersionedShape, FilesKept DEF DetectVersion
<1>4. ASSUME NEW u \in Uploads, WriteMasterFile(u) PROVE FileInv'
  BY <1>4 DEF WriteMasterFile, FileInv, DanglingOnlyWhenOvertaken, Registered, Call
<1>5. ASSUME NEW u \in Uploads, InsertMaster(u) PROVE FileInv'
  <2>1. CASE Degrade(u) /\ UNCHANGED masters
    BY <1>5, <2>1, FilesKept, FinishedShape DEF InsertMaster, Degrade
  <2>2. CASE calls' = [calls EXCEPT ![u].pc = "copy"]
    BY <1>5, <2>2 DEF InsertMaster, FileInv, DanglingOnlyWhenOvertaken, Registered, Call,
                      RegisterSteps
  <2> QED
    BY <1>5, <2>1, <2>2 DEF InsertMaster
<1>6. ASSUME NEW u \in Uploads, CreateCopy(u) PROVE FileInv'
  BY <1>6, FilesKept, FinishedShape DEF CreateCopy, CountCopy, Degrade, Registered, Call
<1>7. ASSUME NEW u \in Uploads, GetCachedResult(u) PROVE FileInv'
  BY <1>7, FilesKept, FinishedShape DEF GetCachedResult
<1>8. ASSUME NEW u \in Uploads, RegisterError(u) PROVE FileInv'
  BY <1>8, FilesKept, FinishedShape DEF RegisterError, Degrade
<1>9. ASSUME NEW u \in Uploads, UpsertResult(u) PROVE FileInv'
  BY <1>9, FilesKept, FinishedShape DEF UpsertResult, Call
<1>10. ASSUME NEW u \in Uploads, UpdateCounts(u) PROVE FileInv'
  BY <1>10, FilesKept, FinishedShape DEF UpdateCounts, Registered
<1>11. ASSUME NEW u \in Uploads, RunStops(u) PROVE FileInv'
  BY <1>11, FilesKept, FinishedShape DEF RunStops
<1>12. ASSUME NEW c \in Uploads, SoftDelete(c) \/ DecrementLost(c) PROVE FileInv'
  BY <1>12, FilesKept DEF SoftDelete, DecrementLost
<1>13. ASSUME NEW c \in Uploads, Decrement(c) PROVE FileInv'
  BY <1>13, FilesKept DEF Decrement, Registered
<1>14. ASSUME NEW a \in Admins, NEW f \in Fingerprints, NEW force \in BOOLEAN,
              CheckGuardrail(a, f, force)
       PROVE  FileInv'
  BY <1>14, FilesKept DEF CheckGuardrail
<1>15. ASSUME NEW a \in Admins, ReadMasterRow(a) \/ DeleteFails(a) PROVE FileInv'
  BY <1>15, FilesKept DEF ReadMasterRow, DeleteFails
<1>16. ASSUME NEW a \in Admins, DeleteMasterRow(a) PROVE FileInv'
  BY <1>16, FilesKept DEF DeleteMasterRow
<1>17. ASSUME NEW a \in Admins, UnlinkMasterFile(a) PROVE FileInv'
  BY <1>17 DEF UnlinkMasterFile, FileInUse, FileInv, DanglingOnlyWhenOvertaken, Registered
<1>18. CASE UNCHANGED vars
  BY <1>18, FilesKept DEF vars
<1> QED
  BY <1>1, <1>2, <1>3, <1>4, <1>5, <1>6, <1>7, <1>8, <1>9, <1>10, <1>11, <1>12, <1>13,
     <1>14, <1>15, <1>16, <1>17, <1>18
     DEF Next, UploadStep, CopyStep, AdminStep, RegisterStep

\* No failure, crash or number of processes leaves a row without its file:
\* only an unlink that lands on a later registration of the same content does.
THEOREM RowsKeepTheirFiles == Spec => []DanglingOnlyWhenOvertaken
<1>1. Spec => [](Typing /\ FileInv)
  BY InitTyping, NextTyping, InitFileInv, NextFileInv, PTL DEF Spec
<1> QED
  BY <1>1, PTL DEF FileInv

-----------------------------------------------------------------------------
(* The reference count, where no master is deleted.  What it must cover    *)
(* are the active copies and those deleted ones whose decrement is still   *)
(* to come: the second transaction of a deletion then lowers both sides.   *)

Counted(f) ==
  {c \in Uploads : /\ copies[c] # NoOne
                   /\ copies[c].fp = f
                   /\ (~copies[c].deleted \/ c \in owed)}

\* A copy belongs to the content its upload registered, which stays there.
CopyInv ==
  \A u \in Uploads : copies[u] # NoOne =>
    /\ Registered(copies[u].fp)
    /\ calls[u].fp = copies[u].fp
    /\ calls[u].pc \notin {"idle", "queued", "version", "write", "insert", "copy"}

OwedInv == \A c \in owed : copies[c] # NoOne /\ copies[c].deleted

CoverInv ==
  \A f \in Fingerprints : Registered(f) => masters[f].refs >= Cardinality(Counted(f))

CountInv == CopyInv /\ OwedInv /\ CoverInv

LEMMA CountedFinite ==
  ASSUME NEW f
  PROVE  IsFiniteSet(Counted(f)) /\ Cardinality(Counted(f)) \in Nat
<1>1. Counted(f) \subseteq Uploads
  BY DEF Counted
<1>2. IsFiniteSet(Counted(f))
  BY <1>1, FiniteUploads, FS_Subset
<1> QED
  BY <1>2, FS_CardinalityType

\* Steps that touch neither the copies nor the decrements to come, register
\* contents with nothing yet to count, and leave the other counts alone.
LEMMA CountKept ==
  ASSUME Typing, CountInv, copies' = copies, owed' = owed,
         \A f \in Fingerprints :
           masters'[f] # NoOne => IF Registered(f) THEN masters'[f].refs = masters[f].refs
                                  ELSE masters'[f].refs = 0,
         \A f \in Fingerprints : Registered(f) => masters'[f] # NoOne,
         \A u \in Uploads : copies[u] # NoOne =>
           /\ calls'[u].fp = calls[u].fp
           /\ calls'[u].pc \notin {"idle", "queued", "version", "write", "insert", "copy"}
  PROVE  CountInv'
<1>1. CopyInv' /\ OwedInv'
  <2>1. \A u \in Uploads : copies[u] # NoOne => copies[u].fp \in Fingerprints
    BY DEF Typing, TypeOK, Copy
  <2> QED
    BY <2>1 DEF CountInv, CopyInv, OwedInv, Registered
<1>2. ASSUME NEW f \in Fingerprints, masters'[f] # NoOne
      PROVE  masters'[f].refs >= Cardinality(Counted(f)')
  <2>1. Counted(f)' = Counted(f)
    BY DEF Counted
  <2>2. CASE Registered(f)
    BY <1>2, <2>1, <2>2 DEF CountInv, CoverInv
  <2>3. CASE ~Registered(f)
    <3>1. Counted(f) = {}
      BY <2>3 DEF CountInv, CopyInv, Counted
    <3> QED
      BY <1>2, <2>1, <2>3, <3>1, FS_EmptySet
  <2> QED
    BY <2>2, <2>3
<1> QED
  BY <1>1, <1>2 DEF CountInv, CoverInv, Registered

LEMMA InitCountInv == Init => CountInv
  BY DEF Init, CountInv, CopyInv, OwedInv, CoverInv, Registered

\* The copy and the count grow together, in one transaction.
LEMMA CreateCopyCounts ==
  ASSUME Typing, CountInv, NEW u \in Uploads, CreateCopy(u), Registered(calls[u].fp)
  PROVE  CountInv'
<1> USE DEF Typing, TypeOK, CallShape
<1> DEFINE f == calls[u].fp
<1>1. /\ f \in Fingerprints /\ copies[u] = NoOne /\ u \notin owed
      /\ copies' = [copies EXCEPT ![u] =
           [fp |-> f, version |-> calls[u].version, deleted |-> FALSE]]
      /\ masters' = [masters EXCEPT ![f] = [masters[f] EXCEPT !.refs = masters[f].refs + 1]]
      /\ owed' = owed
      /\ masters[f].refs \in Nat /\ masters[f] \in Master
  <2>1. f \in Fingerprints
    BY DEF CreateCopy
  <2>2. copies[u] = NoOne /\ u \notin owed
    BY DEF CreateCopy, CountInv, CopyInv, OwedInv
  <2> QED
    BY <2>1, <2>2, RowShape DEF CreateCopy, CountCopy
<1>2. /\ calls'[u].fp = f /\ calls'[u].pc \in {"cached", "running"}
      /\ \A w \in Uploads \ {u} : calls'[w] = calls[w]
  BY FinishedShape DEF CreateCopy, Call
<1>3. /\ [fp |-> f, version |-> calls[u].version, deleted |-> FALSE] # NoOne
      /\ \A g \in Fingerprints : Registered(g) <=> Registered(g)'
  <2>1. calls[u].version \in Nat
    BY DEF Call
  <2>2. [fp |-> f, version |-> calls[u].version, deleted |-> FALSE] \in Copy
    BY <1>1, <2>1 DEF Copy
  <2>3. masters'[f] \in Master
    <3>1. masters[f].refs + 1 \in Nat
      BY <1>1
    <3>2. [masters[f] EXCEPT !.refs = masters[f].refs + 1] \in Master
      BY <1>1, <3>1, UpdatedRow
    <3> QED
      BY <1>1, <3>2
  <2> QED
    BY <1>1, <2>2, <2>3, NoOneIsNoRow DEF Registered
<1>4. CopyInv' /\ OwedInv'
  <2>1. CopyInv'
    <3> SUFFICES ASSUME NEW w \in Uploads, copies'[w] # NoOne
                 PROVE  /\ Registered(copies[w].fp)'
                        /\ calls'[w].fp = copies'[w].fp
                        /\ calls'[w].pc \notin
                             {"idle", "queued", "version", "write", "insert", "copy"}
      BY DEF CopyInv
    <3>1. CASE w = u
      BY <1>1, <1>2, <1>3, <3>1 DEF Registered
    <3>2. CASE w # u
      <4>1. copies'[w] = copies[w] /\ copies[w] # NoOne /\ copies[w].fp \in Fingerprints
        BY <1>1, <3>2 DEF Copy
      <4> QED
        BY <1>2, <1>3, <3>2, <4>1 DEF CountInv, CopyInv, Registered
    <3> QED
      BY <3>1, <3>2
  <2> QED
    BY <1>1, <2>1 DEF CountInv, OwedInv
<1>5. ASSUME NEW g \in Fingerprints, Registered(g)'
      PROVE  masters'[g].refs >= Cardinality(Counted(g)')
  <2>1. CASE g = f
    <3>1. Counted(g)' = Counted(g) \cup {u} /\ u \notin Counted(g)
      BY <1>1, <1>3, <2>1 DEF Counted
    <3>2. Cardinality(Counted(g)') = Cardinality(Counted(g)) + 1
      BY <3>1, CountedFinite, FS_AddElement
    <3>3. masters'[g].refs = masters[g].refs + 1
      BY <1>1, <2>1 DEF Master
    <3>4. masters[g].refs >= Cardinality(Counted(g))
      BY <2>1 DEF CountInv, CoverInv
    <3> QED
      BY <1>1, <2>1, <3>2, <3>3, <3>4, CountedFinite
  <2>2. CASE g # f
    <3>1. Counted(g)' = Counted(g)
      BY <1>1, <1>3, <2>2 DEF Counted
    <3>2. masters'[g] = masters[g]
      BY <1>1, <2>2
    <3> QED
      BY <1>3, <1>5, <3>1, <3>2 DEF CountInv, CoverInv
  <2> QED
    BY <2>1, <2>2
<1> QED
  BY <1>4, <1>5 DEF CountInv, CoverInv

\* The first transaction of a deletion: the copy is owed instead of active.
LEMMA SoftDeleteCounts ==
  ASSUME Typing, CountInv, NEW c \in Uploads, SoftDelete(c)
  PROVE  CountInv'
<1> USE DEF Typing, TypeOK
<1>1. /\ copies[c] \in Copy
      /\ copies' = [copies EXCEPT ![c] = [copies[c] EXCEPT !.deleted = TRUE]]
      /\ owed' = owed \cup {c} /\ masters' = masters /\ calls' = calls
  BY DEF SoftDelete
<1>2. /\ copies'[c] # NoOne /\ copies'[c].deleted /\ copies'[c].fp = copies[c].fp
      /\ \A w \in Uploads \ {c} : copies'[w] = copies[w]
  <2>1. [copies[c] EXCEPT !.deleted = TRUE] \in Copy
    BY <1>1 DEF Copy
  <2> QED
    BY <1>1, <2>1, NoOneIsNoRow DEF Copy
<1>3. CopyInv'
  BY <1>1, <1>2 DEF SoftDelete, CountInv, CopyInv, Registered
<1>4. OwedInv'
  BY <1>1, <1>2 DEF CountInv, OwedInv
<1>5. ASSUME NEW f PROVE Counted(f)' = Counted(f)
  BY <1>1, <1>2 DEF SoftDelete, Counted
<1> QED
  BY <1>1, <1>3, <1>4, <1>5 DEF CountInv, CoverInv, Registered

\* Forgetting a decrement only leaves the count too high.
LEMMA LostCounts ==
  ASSUME Typing, CountInv, NEW c \in Uploads, DecrementLost(c)
  PROVE  CountInv'
<1>1. copies' = copies /\ owed' = owed \ {c} /\ masters' = masters /\ calls' = calls
  BY DEF DecrementLost
<1>2. CopyInv' /\ OwedInv'
  BY <1>1 DEF CountInv, CopyInv, OwedInv, Registered
<1>3. ASSUME NEW f \in Fingerprints, Registered(f)'
      PROVE  masters'[f].refs >= Cardinality(Counted(f)')
  <2>1. Counted(f)' \subseteq Counted(f)
    BY <1>1 DEF Counted
  <2>2. Cardinality(Counted(f)') <= Cardinality(Counted(f)) /\ IsFiniteSet(Counted(f)')
    BY <2>1, CountedFinite, FS_Subset
  <2>3. Cardinality(Counted(f)') \in Nat
    BY <2>2, FS_CardinalityType
  <2>4. masters[f].refs >= Cardinality(Counted(f)) /\ masters[f].refs \in Nat
    BY <1>1, <1>3, RowShape DEF Typing, CountInv, CoverInv, Registered
  <2> QED
    BY <1>1, <2>2, <2>3, <2>4, CountedFinite
<1> QED
  BY <1>2, <1>3 DEF CountInv, CoverInv

\* The second transaction of a deletion lowers the count and what it covers;
\* it never meets a count of 0, so that GREATEST(..., 0) changes nothing here.
LEMMA DecrementCounts ==
  ASSUME Typing, CountInv, NEW c \in Uploads, Decrement(c)
  PROVE  CountInv'
<1> USE DEF Typing, TypeOK
<1> DEFINE f == calls[c].fp
<1>1. /\ c \in owed /\ copies[c] # NoOne /\ copies[c].deleted
      /\ copies[c].fp = f /\ f \in Fingerprints /\ Registered(f)
  <2>1. c \in owed /\ copies[c] # NoOne /\ copies[c].deleted
    BY DEF Decrement, CountInv, OwedInv
  <2>2. copies[c].fp \in Fingerprints
    BY <2>1 DEF Copy
  <2> QED
    BY <2>1, <2>2 DEF CountInv, CopyInv
<1>2. /\ masters' = [masters EXCEPT ![f] =
           [masters[f] EXCEPT !.refs = AfterDecrement(masters[f].refs)]]
      /\ owed' = owed \ {c} /\ copies' = copies /\ calls' = calls
      /\ masters[f] \in Master
  BY <1>1, RowShape DEF Decrement
<1>3. \A g \in Fingerprints : Registered(g) <=> Registered(g)'
  <2>1. AfterDecrement(masters[f].refs) \in Nat
    BY <1>1, RowShape DEF AfterDecrement
  <2>2. [masters[f] EXCEPT !.refs = AfterDecrement(masters[f].refs)] \in Master
    BY <1>1, <2>1, UpdatedRow
  <2> QED
    BY <1>1, <1>2, <2>2, NoOneIsNoRow DEF Registered
<1>4. CopyInv' /\ OwedInv'
  <2>1. \A w \in Uploads : copies[w] # NoOne => copies[w].fp \in Fingerprints
    BY DEF Copy
  <2> QED
    BY <1>2, <1>3, <2>1 DEF CountInv, CopyInv, OwedInv
<1>5. ASSUME NEW g \in Fingerprints, Registered(g)'
      PROVE  masters'[g].refs >= Cardinality(Counted(g)')
  <2>1. CASE g = f
    <3>1. c \in Counted(g) /\ Counted(g)' = Counted(g) \ {c}
      BY <1>1, <1>2, <2>1 DEF Counted
    <3>2. Cardinality(Counted(g)') = Cardinality(Counted(g)) - 1
      BY <3>1, CountedFinite, FS_RemoveElement
    <3>3. Counted(g) # {}
      BY <3>1
    <3>4. Cardinality(Counted(g)) # 0
      BY <3>3, CountedFinite, FS_EmptySet
    <3>5. masters[g].refs >= Cardinality(Counted(g)) /\ masters[g].refs \in Nat
      BY <1>1, <2>1, RowShape DEF CountInv, CoverInv
    <3>6. masters'[g].refs = AfterDecrement(masters[g].refs)
      BY <1>1, <1>2, <2>1 DEF Master
    <3> QED
      BY <3>2, <3>4, <3>5, <3>6, CountedFinite DEF AfterDecrement
  <2>2. CASE g # f
    <3>1. Counted(g)' = Counted(g)
      BY <1>1, <1>2, <2>2 DEF Counted
    <3>2. masters'[g] = masters[g]
      BY <1>2, <2>2
    <3> QED
      BY <1>3, <1>5, <3>1, <3>2 DEF CountInv, CoverInv
  <2> QED
    BY <2>1, <2>2
<1> QED
  BY <1>4, <1>5 DEF CountInv, CoverInv

LEMMA NextCountInv ==
  ASSUME Admins = {}, Typing, CountInv, [Next]_vars
  PROVE  CountInv'
<1> USE DEF Typing, TypeOK, CallShape
<1> DEFINE Early == {"idle", "queued", "version", "write", "insert", "copy"}
<1>0. \A u \in Uploads : copies[u] # NoOne => calls[u].pc \notin Early
  BY DEF CountInv, CopyInv
<1>1. ASSUME NEW u \in Uploads, NEW s \in Servers, NEW f \in Fingerprints, NEW n \in Names,
             NEW force \in Forces, Arrive(u, s, f, n, force)
      PROVE  CountInv'
  BY <1>0, <1>1, CountKept DEF Arrive, Registered, CountInv, CopyInv
<1>2. ASSUME NEW u \in Uploads, DetectDuplicate(u) PROVE CountInv'
  BY <1>0, <1>2, CountKept DEF DetectDuplicate, Registered, CountInv, CopyInv
<1>3. ASSUME NEW u \in Uploads, DetectVersion(u) PROVE CountInv'
  BY <1>0, <1>3, CountKept DEF DetectVersion, Registered, CountInv, CopyInv
<1>4. ASSUME NEW u \in Uploads, WriteMasterFile(u) PROVE CountInv'
  BY <1>0, <1>4, CountKept DEF WriteMasterFile, Registered, CountInv, CopyInv
<1>5. ASSUME NEW u \in Uploads, InsertMaster(u) PROVE CountInv'
  <2> DEFINE f == calls[u].fp
  <2>1. f \in Fingerprints /\ NewRow(u) \in Master /\ NewRow(u).refs = 0
    BY <1>5 DEF InsertMaster, NewRow, Master, Call, RegisterSteps
  <2>2. copies[u] = NoOne
    BY <1>0, <1>5 DEF InsertMaster
  <2>3. /\ copies' = copies /\ owed' = owed
        /\ \A w \in Uploads \ {u} : calls'[w] = calls[w]
        /\ \/ masters' = masters
           \/ ~Registered(f) /\ masters' = [masters EXCEPT ![f] = NewRow(u)]
    <3>1. copies' = copies /\ owed' = owed
      BY <1>5 DEF InsertMaster
    <3>2. \A w \in Uploads \ {u} : calls'[w] = calls[w]
      BY <1>5 DEF InsertMaster, Degrade
    <3>3. \/ masters' = masters
          \/ ~Registered(f) /\ masters' = [masters EXCEPT ![f] = NewRow(u)]
      BY <1>5 DEF InsertMaster
    <3> QED
      BY <3>1, <3>2, <3>3
  <2>4. /\ \A g \in Fingerprints :
             masters'[g] # NoOne => IF Registered(g) THEN masters'[g].refs = masters[g].refs
                                    ELSE masters'[g].refs = 0
        /\ \A g \in Fingerprints : Registered(g) => masters'[g] # NoOne
    BY <2>1, <2>3 DEF Registered
  <2> QED
    BY <1>0, <2>2, <2>3, <2>4, CountKept
<1>6. ASSUME NEW u \in Uploads, CreateCopy(u) PROVE CountInv'
  <2>1. CASE Registered(calls[u].fp)
    BY <1>6, <2>1, CreateCopyCounts
  <2>2. CASE ~Registered(calls[u].fp)
    BY <1>0, <1>6, <2>2, CountKept DEF CreateCopy, Degrade, Registered, CountInv, CopyInv
  <2> QED
    BY <2>1, <2>2
<1>7. ASSUME NEW u \in Uploads, GetCachedResult(u) PROVE CountInv'
  BY <1>0, <1>7, CountKept, FinishedShape DEF GetCachedResult, Registered, CountInv, CopyInv
<1>8. ASSUME NEW u \in Uploads, RegisterError(u) PROVE CountInv'
  BY <1>0, <1>8, CountKept, FinishedShape DEF RegisterError, Degrade, Registered, CountInv, CopyInv
<1>9. ASSUME NEW u \in Uploads, UpsertResult(u) PROVE CountInv'
  <2>1. /\ calls'[u].fp = calls[u].fp /\ calls'[u].pc \notin Early
        /\ \A w \in Uploads \ {u} : calls'[w] = calls[w]
    <3>1. CASE calls' = [calls EXCEPT ![u].pc = "counting"]
      BY <3>1 DEF Call
    <3>2. CASE calls' = [calls EXCEPT ![u] = Finished(u, "done")]
      BY <3>2, FinishedShape
    <3> QED
      BY <1>9, <3>1, <3>2 DEF UpsertResult
  <2> QED
    BY <1>0, <1>9, <2>1, CountKept DEF UpsertResult, Registered, CountInv, CopyInv
<1>10. ASSUME NEW u \in Uploads, UpdateCounts(u) PROVE CountInv'
  <2> DEFINE f == calls[u].fp
  <2>1. f \in Fingerprints
    BY <1>10 DEF UpdateCounts
  <2>2. CASE Registered(f)
    <3>1. [masters[f] EXCEPT !.counted = TRUE] \in Master
      BY <2>1, <2>2, UpdatedRow
    <3>2. [masters[f] EXCEPT !.counted = TRUE].refs = masters[f].refs
      BY <2>1, <2>2, RowShape DEF Master
    <3>3. masters' = [masters EXCEPT ![f] = [masters[f] EXCEPT !.counted = TRUE]]
      BY <1>10, <2>2 DEF UpdateCounts
    <3>4. /\ \A g \in Fingerprints :
               masters'[g] # NoOne => IF Registered(g) THEN masters'[g].refs = masters[g].refs
                                      ELSE masters'[g].refs = 0
          /\ \A g \in Fingerprints : Registered(g) => masters'[g] # NoOne
      BY <2>1, <2>2, <3>1, <3>2, <3>3, NoOneIsNoRow DEF Registered
    <3> QED
      BY <1>0, <1>10, <3>4, CountKept, FinishedShape DEF UpdateCounts, CountInv, CopyInv
  <2>3. CASE ~Registered(f)
    BY <1>0, <1>10, <2>3, CountKept, FinishedShape
       DEF UpdateCounts, Registered, CountInv, CopyInv
  <2> QED
    BY <2>2, <2>3
<1>11. ASSUME NEW u \in Uploads, RunStops(u) PROVE CountInv'
  BY <1>0, <1>11, CountKept, FinishedShape DEF RunStops, Registered, CountInv, CopyInv
<1>12. ASSUME NEW c \in Uploads, CopyStep(c) PROVE CountInv'
  BY <1>12, SoftDeleteCounts, DecrementCounts, LostCounts DEF CopyStep
<1>13. CASE UNCHANGED vars
  BY <1>0, <1>13, CountKept DEF vars, Registered, CountInv, CopyInv
<1> QED
  BY <1>1, <1>2, <1>3, <1>4, <1>5, <1>6, <1>7, <1>8, <1>9, <1>10, <1>11, <1>12, <1>13
     DEF Next, UploadStep, RegisterStep

\* Where no master is deleted, reference_count never falls below the number of
\* active copies, whatever crashes lose and however deletions interleave.
THEOREM CountsNeverFallShort ==
  ASSUME Admins = {}
  PROVE  Spec => []NeverUnderCounts
<1>1. Typing /\ CountInv /\ [Next]_vars => CountInv'
  BY NextCountInv
<1>2. Typing /\ CountInv => NeverUnderCounts
  <2> SUFFICES ASSUME Typing, CountInv, NEW f \in Fingerprints, Registered(f)
               PROVE  masters[f].refs >= Cardinality(ActiveCopies(f))
    BY DEF NeverUnderCounts
  <2>1. ActiveCopies(f) \subseteq Counted(f)
    BY DEF ActiveCopies, CopiesOf, Counted
  <2>2. /\ IsFiniteSet(ActiveCopies(f))
        /\ Cardinality(ActiveCopies(f)) <= Cardinality(Counted(f))
    BY <2>1, CountedFinite, FS_Subset
  <2>3. Cardinality(ActiveCopies(f)) \in Nat
    BY <2>2, FS_CardinalityType
  <2>4. masters[f].refs >= Cardinality(Counted(f)) /\ masters[f].refs \in Nat
    BY RowShape DEF Typing, CountInv, CoverInv
  <2> QED
    BY <2>2, <2>3, <2>4, CountedFinite
<1> QED
  BY <1>1, <1>2, InitTyping, NextTyping, InitCountInv, PTL DEF Spec

----------------------------------------------------------------------------
(***************************************************************************)
(* Version lineage, proved for a deployment with one server process: one   *)
(* event loop, on which register() runs from its first read to its last    *)
(* write without giving way to another upload.  Deletions, soft deletes    *)
(* and persisted results interleave with it freely, and anything may fail. *)
(* Then the refinement: such a registry implements VersionLineage.         *)
(***************************************************************************)

OneServer == \A s, t \in Servers : s = t

\* Whoever is inside register() holds the event loop of its server.
Serial ==
  \A u \in Uploads : calls[u].pc \in RegisterSteps => loop[calls[u].server] = u

\* What a call in register() knows is still so, or the row it relies on has
\* been deleted meanwhile.
CallKnows(u) ==
  LET c == calls[u] IN
  /\ c.pc \in {"queued", "version"} => c.prev = NoOne
  /\ c.pc \in {"version", "write", "insert"} => ~Registered(c.fp)
  /\ c.pc \in {"write", "insert"} =>
       IF c.prev = NoOne
       THEN c.version = 1 /\ VersionsOf(c.name) = {}
       ELSE /\ c.prev # c.fp
            /\ Registered(c.prev) => /\ c.prev \in LatestVersions(c.name)
                                     /\ c.version = masters[c.prev].version + 1
                                     /\ c.dataset = masters[c.prev].dataset
  /\ c.pc = "copy" => (Registered(c.fp) => c.version = masters[c.fp].version)

LineageInv ==
  /\ Serial
  /\ \A u \in Uploads : CallKnows(u)
  /\ LineageLinear
  /\ LineageChained
  /\ CopyVersionCurrent

\* The columns that carry the lineage are the same in every row.
RowsKept ==
  \A f \in Fingerprints :
    /\ masters'[f] = NoOne <=> masters[f] = NoOne
    /\ masters[f] # NoOne =>
         /\ masters'[f].name = masters[f].name /\ masters'[f].version = masters[f].version
         /\ masters'[f].prev = masters[f].prev /\ masters'[f].dataset = masters[f].dataset

LEMMA KeptVersions ==
  ASSUME RowsKept
  PROVE  /\ \A f \in Fingerprints : Registered(f)' <=> Registered(f)
         /\ \A n : VersionsOf(n)' = VersionsOf(n)
         /\ \A n : LatestVersions(n)' = LatestVersions(n)
<1>1. \A f \in Fingerprints : Registered(f)' <=> Registered(f)
  BY DEF RowsKept, Registered
<1>2. \A n : VersionsOf(n)' = VersionsOf(n)
  BY <1>1 DEF RowsKept, VersionsOf, Registered
<1>3. \A n : LatestVersions(n)' = LatestVersions(n)
  BY <1>1, <1>2 DEF LatestVersions, VersionsOf, RowsKept, Registered
<1> QED
  BY <1>1, <1>2, <1>3

LEMMA KeptLineage ==
  ASSUME TypeOK, RowsKept, LineageLinear, LineageChained
  PROVE  LineageLinear' /\ LineageChained'
<1>1. \A f \in Fingerprints : Registered(f)' <=> Registered(f)
  BY KeptVersions
<1>2. LineageLinear'
  BY <1>1 DEF LineageLinear, RowsKept, Registered
<1>3. LineageChained'
  BY <1>1 DEF LineageChained, RowsKept, Registered, TypeOK, Master
<1> QED
  BY <1>2, <1>3

\* A call that did not move still knows what it knew.
LEMMA KeptKnowledge ==
  ASSUME Typing, RowsKept, NEW u \in Uploads, CallKnows(u), calls'[u] = calls[u]
  PROVE  CallKnows(u)'
<1>1. \A f \in Fingerprints : Registered(f)' <=> Registered(f)
  BY KeptVersions
<1>2. calls[u].pc # "idle" => calls[u].fp \in Fingerprints
  BY DEF Typing, CallShape
<1>3. calls[u].prev \in Fingerprints \cup {NoOne}
  BY DEF Typing, TypeOK, Call
<1> QED
  BY <1>1, <1>2, <1>3, KeptVersions DEF CallKnows, RowsKept, Registered

\* Outside register() a call knows nothing that a row could contradict.
LEMMA OutsideKnowledge ==
  ASSUME NEW u \in Uploads, CallKnows(u), calls'[u] = calls[u], calls[u].pc \notin RegisterSteps
  PROVE  CallKnows(u)'
  BY DEF CallKnows, RegisterSteps

\* A call that has left register(), or is about to read its cached result.
LEMMA FinishedKnowledge ==
  ASSUME NEW u \in Uploads,
         calls'[u].pc \in {"running", "counting", "hit", "degraded", "done", "cached"}
  PROVE  CallKnows(u)'
  BY DEF CallKnows

LEMMA SoleRegistration ==
  ASSUME OneServer, Typing, Serial, NEW u \in Uploads, NEW v \in Uploads,
         calls[u].pc \in RegisterSteps, calls[v].pc \in RegisterSteps
  PROVE  u = v
  BY DEF OneServer, Typing, CallShape, Serial

LEMMA KeptCopies ==
  ASSUME RowsKept, Typing, CopyVersionCurrent, copies' = copies
  PROVE  CopyVersionCurrent'
<1>1. \A u \in Uploads : copies[u] # NoOne => copies[u].fp \in Fingerprints
  BY DEF Typing, TypeOK, Copy
<1> QED
  BY <1>1 DEF CopyVersionCurrent, RowsKept, Registered

\* Steps that change no lineage column, no copy and no call.
LEMMA QuietStep ==
  ASSUME Typing, LineageInv, RowsKept, calls' = calls, loop' = loop, copies' = copies
  PROVE  LineageInv'
<1>1. \A u \in Uploads : CallKnows(u)'
  BY KeptKnowledge DEF LineageInv
<1>2. Serial'
  BY DEF LineageInv, Serial
<1> QED
  BY <1>1, <1>2, KeptLineage, KeptCopies DEF LineageInv, Typing

\* Steps of one call that ends up outside register() and change no lineage
\* column and no copy.
LEMMA EndStep ==
  ASSUME OneServer, Typing, LineageInv, RowsKept, copies' = copies, NEW u \in Uploads,
         calls' \in [Uploads -> Call], \A v \in Uploads \ {u} : calls'[v] = calls[v],
         calls'[u].pc \in {"running", "counting", "hit", "degraded", "done"},
         \/ loop' = loop
         \/ calls[u].pc \in RegisterSteps /\ Leave(u)
  PROVE  LineageInv'
<1>1. \A v \in Uploads : CallKnows(v)'
  BY KeptKnowledge, FinishedKnowledge DEF LineageInv
<1>2. Serial'
  <2> SUFFICES ASSUME NEW v \in Uploads, calls'[v].pc \in RegisterSteps
               PROVE  loop'[calls'[v].server] = v
    BY DEF Serial
  <2>1. v # u /\ calls'[v] = calls[v]
    BY DEF RegisterSteps
  <2>2. loop[calls[v].server] = v
    BY <2>1 DEF LineageInv, Serial
  <2>3. calls[u].pc \notin RegisterSteps
    BY <2>1, SoleRegistration DEF LineageInv
  <2> QED
    BY <2>1, <2>2, <2>3
<1> QED
  BY <1>1, <1>2, KeptLineage, KeptCopies DEF LineageInv, Typing

\* Steps inside register() that keep the loop, the rows and the copies.
LEMMA RegisterStepKeeps ==
  ASSUME Typing, LineageInv, RowsKept, copies' = copies, loop' = loop, NEW u \in Uploads,
         calls[u].pc \in RegisterSteps, \A v \in Uploads \ {u} : calls'[v] = calls[v],
         calls'[u].server = calls[u].server, CallKnows(u)'
  PROVE  LineageInv'
<1>1. \A v \in Uploads : CallKnows(v)'
  BY KeptKnowledge DEF LineageInv
<1>2. Serial'
  BY DEF LineageInv, Serial
<1> QED
  BY <1>1, <1>2, KeptLineage, KeptCopies DEF LineageInv, Typing

LEMMA InitLineage == Init => LineageInv
  BY DEF Init, LineageInv, Serial, CallKnows, LineageLinear, LineageChained, CopyVersionCurrent,
         Registered, NotStarted, RegisterSteps

-----------------------------------------------------------------------------
(* The steps that matter.                                                  *)

LEMMA ArriveLineage ==
  ASSUME Typing, LineageInv, NEW u \in Uploads, NEW s \in Servers, NEW f \in Fingerprints,
         NEW n \in Names, NEW force \in Forces, Arrive(u, s, f, n, force)
  PROVE  LineageInv'
<1>1. /\ calls'[u].pc = "queued" /\ calls'[u].prev = NoOne
      /\ \A v \in Uploads \ {u} : calls'[v] = calls[v]
  BY DEF Arrive, NotStarted, Typing, TypeOK
<1>2. RowsKept /\ copies' = copies /\ loop' = loop
  BY DEF Arrive, RowsKept
<1>3. CallKnows(u)'
  BY <1>1 DEF CallKnows
<1>4. \A v \in Uploads : CallKnows(v)'
  BY <1>1, <1>2, <1>3, KeptKnowledge DEF LineageInv
<1>5. Serial'
  BY <1>1, <1>2 DEF LineageInv, Serial, RegisterSteps
<1> QED
  BY <1>2, <1>4, <1>5, KeptLineage, KeptCopies DEF LineageInv, Typing

LEMMA DetectDuplicateLineage ==
  ASSUME OneServer, Typing, LineageInv, NEW u \in Uploads, DetectDuplicate(u)
  PROVE  LineageInv'
<1> DEFINE f == calls[u].fp
<1>1. RowsKept /\ copies' = copies /\ f \in Fingerprints /\ calls[u].server \in Servers
  BY DEF DetectDuplicate, RowsKept, Typing, CallShape, RegisterSteps
<1>2. \A v \in Uploads \ {u} : calls'[v] = calls[v]
  BY DEF DetectDuplicate
<1>3. \A v \in Uploads : calls[v].pc \notin RegisterSteps
  BY <1>1, NoOneIsNew DEF DetectDuplicate, LoopFree, LineageInv, Serial, Typing, CallShape, OneServer
<1>4. CallKnows(u)' /\ calls'[u].server = calls[u].server
  <2>1. CASE Registered(f)
    BY <1>1, <2>1 DEF DetectDuplicate, KnownVersion, CallKnows, Typing, TypeOK, Call, Registered
  <2>2. CASE ~Registered(f)
    BY <1>1, <2>2 DEF DetectDuplicate, CallKnows, Typing, TypeOK, Call, Registered, LineageInv
  <2> QED
    BY <2>1, <2>2
<1>5. \A v \in Uploads : CallKnows(v)'
  BY <1>1, <1>2, <1>4, KeptKnowledge DEF LineageInv
<1>6. Serial'
  BY <1>1, <1>2, <1>3, <1>4 DEF DetectDuplicate, Serial, Typing, TypeOK
<1> QED
  BY <1>1, <1>5, <1>6, KeptLineage, KeptCopies DEF LineageInv, Typing

LEMMA DetectVersionLineage ==
  ASSUME Typing, LineageInv, NEW u \in Uploads, DetectVersion(u)
  PROVE  LineageInv'
<1> DEFINE n == calls[u].name
           f == calls[u].fp
<1>1. RowsKept /\ copies' = copies /\ loop' = loop /\ calls[u].pc \in RegisterSteps
  BY DEF DetectVersion, RowsKept, RegisterSteps
<1>2. \A v \in Uploads \ {u} : calls'[v] = calls[v]
  BY PickedVersion DEF Typing, TypeOK
<1>3. ~Registered(f) /\ f \in Fingerprints
  BY DEF DetectVersion, LineageInv, CallKnows, Typing, CallShape
<1>4. CallKnows(u)' /\ calls'[u].server = calls[u].server
  <2>1. CASE VersionsOf(n) = {} /\ calls' = [calls EXCEPT ![u] = Versioned(u, 1, u, NoOne)]
    <3> DEFINE c == Versioned(u, 1, u, NoOne)
    <3>1. /\ c.pc = "write" /\ c.version = 1 /\ c.prev = NoOne
          /\ c.fp = f /\ c.name = n /\ c.server = calls[u].server
      BY VersionedShape DEF Typing
    <3>2. calls'[u] = c
      BY <2>1 DEF Typing, TypeOK
    <3>3. /\ \A m : VersionsOf(m)' = VersionsOf(m)
          /\ \A g \in Fingerprints : Registered(g)' <=> Registered(g)
      BY <1>1, KeptVersions
    <3> HIDE DEF c
    <3> QED
      BY <1>3, <2>1, <3>1, <3>2, <3>3 DEF CallKnows
  <2>2. ASSUME NEW p \in LatestVersions(n),
               calls' = [calls EXCEPT ![u] =
                 Versioned(u, masters[p].version + 1, masters[p].dataset, p)]
        PROVE  CallKnows(u)' /\ calls'[u].server = calls[u].server
    <3> DEFINE c == Versioned(u, masters[p].version + 1, masters[p].dataset, p)
    <3>1. p \in Fingerprints /\ Registered(p) /\ p # NoOne /\ p # f
      BY <1>3, NoOneIsNew DEF LatestVersions, VersionsOf
    <3>2. masters[p].version + 1 \in Nat /\ masters[p].dataset \in Uploads
      BY <3>1, RowShape DEF Typing
    <3>3. /\ c.pc = "write" /\ c.version = masters[p].version + 1 /\ c.prev = p
          /\ c.dataset = masters[p].dataset
          /\ c.fp = f /\ c.name = n /\ c.server = calls[u].server
      BY <3>1, <3>2, VersionedShape DEF Typing
    <3>4. calls'[u] = c
      BY <2>2 DEF Typing, TypeOK
    <3>5. /\ \A m : LatestVersions(m)' = LatestVersions(m)
          /\ \A g \in Fingerprints : Registered(g)' <=> Registered(g)
          /\ masters' = masters
      BY <1>1, KeptVersions DEF DetectVersion
    <3> HIDE DEF c
    <3> QED
      BY <1>3, <2>2, <3>1, <3>3, <3>4, <3>5 DEF CallKnows
  <2> QED
    BY <2>1, <2>2 DEF DetectVersion
<1> QED
  BY <1>1, <1>2, <1>4, RegisterStepKeeps

LEMMA WriteMasterFileLineage ==
  ASSUME Typing, LineageInv, NEW u \in Uploads, WriteMasterFile(u)
  PROVE  LineageInv'
<1>1. RowsKept /\ copies' = copies /\ loop' = loop /\ calls[u].pc \in RegisterSteps
  BY DEF WriteMasterFile, RowsKept, RegisterSteps
<1>2. \A v \in Uploads \ {u} : calls'[v] = calls[v]
  BY DEF WriteMasterFile
<1>3. CallKnows(u)' /\ calls'[u].server = calls[u].server
  BY DEF WriteMasterFile, LineageInv, CallKnows, Typing, TypeOK, Call, VersionsOf, LatestVersions,
         Registered
<1> QED
  BY <1>1, <1>2, <1>3, RegisterStepKeeps

\* The one place where the chain grows: nothing but deletions came between the
\* lookup and the insert, and a deleted predecessor makes the insert fail.
LEMMA InsertMasterLineage ==
  ASSUME OneServer, Typing, LineageInv, NEW u \in Uploads, InsertMaster(u)
  PROVE  LineageInv'
<1> DEFINE f == calls[u].fp
           c == calls[u]
<1>1. /\ calls[u].pc \in RegisterSteps /\ f \in Fingerprints /\ ~Registered(f)
      /\ copies' = copies
  BY DEF InsertMaster, LineageInv, CallKnows, Typing, CallShape, RegisterSteps
<1>2. CASE Degrade(u) /\ UNCHANGED masters
  <2>1. calls'[u].pc = "degraded" /\ \A v \in Uploads \ {u} : calls'[v] = calls[v]
    BY <1>2, FinishedShape DEF Degrade, Typing, TypeOK
  <2>2. calls' \in [Uploads -> Call]
    BY <1>2, FinishedShape DEF Degrade, Typing, TypeOK
  <2> QED
    BY <1>1, <1>2, <2>1, <2>2, EndStep DEF Degrade, RowsKept
<1>3. CASE /\ PrevExists(f, c.prev)
           /\ masters' = [masters EXCEPT ![f] = NewRow(u)]
           /\ calls' = [calls EXCEPT ![u].pc = "copy"]
           /\ UNCHANGED loop
  <2>1. /\ masters'[f].name = c.name /\ masters'[f].version = c.version
        /\ masters'[f].prev = c.prev /\ masters'[f].dataset = c.dataset
        /\ masters'[f] \in Master
        /\ \A g \in Fingerprints \ {f} : masters'[g] = masters[g]
    <3>1. NewRow(u) \in Master
      BY DEF InsertMaster, NewRow, Master, Call, RegisterSteps, Typing, TypeOK, CallShape
    <3> QED
      BY <1>1, <1>3, <3>1 DEF NewRow, Typing, TypeOK
  <2>2. /\ calls'[u].pc = "copy" /\ calls'[u].version = c.version /\ calls'[u].fp = f
        /\ calls'[u].server = c.server
        /\ \A v \in Uploads \ {u} : calls'[v] = calls[v]
    BY <1>3 DEF Typing, TypeOK, Call
  <2>3. \A g \in Fingerprints : Registered(g)' <=> (g = f \/ Registered(g))
    BY <2>1, NoOneIsNoRow DEF Registered
  <2>4. /\ c.prev = NoOne => c.version = 1 /\ VersionsOf(c.name) = {}
        /\ c.prev # NoOne => /\ c.prev \in LatestVersions(c.name) /\ c.prev # f
                             /\ Registered(c.prev)
                             /\ c.version = masters[c.prev].version + 1
                             /\ c.dataset = masters[c.prev].dataset
    <3>1. c.prev # NoOne => c.prev # f /\ Registered(c.prev)
      BY <1>3 DEF InsertMaster, LineageInv, CallKnows, PrevExists
    <3> QED
      BY <3>1 DEF InsertMaster, LineageInv, CallKnows
  <2>5. LineageLinear'
    <3>1. ASSUME NEW g \in Fingerprints \ {f}, Registered(g), masters[g].name = c.name
          PROVE  masters[g].version # c.version /\ masters[g].dataset = c.dataset
      <4>1. c.prev # NoOne /\ g \in VersionsOf(c.name)
        BY <2>4, <3>1 DEF VersionsOf
      <4>2. c.prev \in VersionsOf(c.name) /\ masters[g].version <= masters[c.prev].version
        BY <2>4, <4>1 DEF LatestVersions
      <4>3. masters[g].version \in Nat /\ masters[c.prev].version \in Nat
        BY <3>1, <4>2, RowShape DEF Typing, VersionsOf
      <4>4. masters[g].dataset = masters[c.prev].dataset
        BY <3>1, <4>2 DEF LineageInv, LineageLinear, VersionsOf
      <4> QED
        BY <2>4, <4>1, <4>2, <4>3, <4>4
    <3> SUFFICES ASSUME NEW g \in Fingerprints, NEW h \in Fingerprints,
                        Registered(g)', Registered(h)', g # h,
                        masters'[g].name = masters'[h].name
                 PROVE  /\ masters'[g].version # masters'[h].version
                        /\ masters'[g].dataset = masters'[h].dataset
      BY DEF LineageLinear
    <3>2. CASE g # f /\ h # f
      BY <2>1, <2>3, <3>2 DEF LineageInv, LineageLinear
    <3>3. CASE g = f
      BY <2>1, <2>3, <3>1, <3>3
    <3>4. CASE h = f
      BY <2>1, <2>3, <3>1, <3>4
    <3> QED
      BY <3>2, <3>3, <3>4
  <2>6. LineageChained'
    <3> SUFFICES ASSUME NEW g \in Fingerprints, Registered(g)'
                 PROVE  IF masters'[g].prev = NoOne THEN masters'[g].version = 1
                        ELSE /\ masters'[masters'[g].prev] # NoOne
                             /\ masters'[masters'[g].prev].name = masters'[g].name
                             /\ masters'[masters'[g].prev].dataset = masters'[g].dataset
                             /\ masters'[g].version = masters'[masters'[g].prev].version + 1
      BY DEF LineageChained, Registered
    <3>1. CASE g = f
      <4>1. c.prev # NoOne => c.prev \in Fingerprints \ {f} /\ masters[c.prev].name = c.name
        BY <2>4 DEF LatestVersions, VersionsOf
      <4> QED
        BY <2>1, <2>4, <3>1, <4>1 DEF Registered
    <3>2. CASE g # f
      <4>1. masters'[g] = masters[g] /\ Registered(g)
        BY <2>1, <2>3, <3>2
      <4>2. masters[g].prev \in Fingerprints \cup {NoOne}
        BY <4>1, RowShape DEF Typing
      <4>3. masters[g].prev # NoOne => masters[g].prev # f /\ Registered(masters[g].prev)
        BY <1>1, <4>1 DEF LineageInv, LineageChained
      <4> QED
        BY <2>1, <4>1, <4>2, <4>3 DEF LineageInv, LineageChained, Registered
    <3> QED
      BY <3>1, <3>2
  <2>7. CopyVersionCurrent'
    <3>1. \A v \in Uploads : copies[v] # NoOne => copies[v].fp \in Fingerprints \ {f}
      BY <1>1 DEF LineageInv, CopyVersionCurrent, Typing, TypeOK, Copy
    <3> QED
      BY <1>1, <2>1, <2>3, <3>1 DEF LineageInv, CopyVersionCurrent
  <2>8. \A v \in Uploads : CallKnows(v)'
    <3>1. CallKnows(u)'
      BY <2>1, <2>2 DEF CallKnows
    <3>2. ASSUME NEW v \in Uploads, v # u PROVE CallKnows(v)'
      <4>1. calls'[v] = calls[v] /\ CallKnows(v)
        BY <2>2, <3>2 DEF LineageInv
      <4>2. calls[v].pc \notin RegisterSteps
        BY <1>1, <3>2, SoleRegistration DEF LineageInv
      <4> QED
        BY <4>1, <4>2, OutsideKnowledge
    <3> QED
      BY <3>1, <3>2
  <2>9. Serial'
    BY <1>1, <1>3, <2>2 DEF LineageInv, Serial
  <2> QED
    BY <2>5, <2>6, <2>7, <2>8, <2>9 DEF LineageInv
<1> QED
  BY <1>1, <1>2, <1>3 DEF InsertMaster

LEMMA CreateCopyLineage ==
  ASSUME OneServer, Typing, LineageInv, NEW u \in Uploads, CreateCopy(u)
  PROVE  LineageInv'
<1> DEFINE f == calls[u].fp
<1>1. calls[u].pc \in RegisterSteps /\ f \in Fingerprints
  BY DEF CreateCopy, Typing, CallShape, RegisterSteps
<1>2. CASE Degrade(u) /\ UNCHANGED <<copies, masters>>
  <2>1. /\ calls'[u].pc = "degraded" /\ calls' \in [Uploads -> Call]
        /\ \A v \in Uploads \ {u} : calls'[v] = calls[v]
    BY <1>2, FinishedShape DEF Degrade, Typing, TypeOK
  <2> QED
    BY <1>1, <1>2, <2>1, EndStep DEF Degrade, RowsKept
<1>3. CASE Registered(f) /\ CountCopy(f)
  <2>1. RowsKept
    <3>1. masters' = [masters EXCEPT ![f] = [masters[f] EXCEPT !.refs = masters[f].refs + 1]]
      BY <1>3 DEF CountCopy, Typing, TypeOK
    <3>2. masters[f] \in Master /\ masters[f].refs \in Nat
      BY <1>1, <1>3, RowShape DEF Typing
    <3>3. /\ masters'[f] \in Master /\ masters'[f].name = masters[f].name
          /\ masters'[f].version = masters[f].version /\ masters'[f].prev = masters[f].prev
          /\ masters'[f].dataset = masters[f].dataset
      BY <1>1, <3>1, <3>2 DEF Master, Typing, TypeOK
    <3> QED
      BY <3>1, <3>2, <3>3, NoOneIsNoRow DEF RowsKept, Typing, TypeOK
  <2>2. /\ calls'[u].pc \in {"cached", "running"}
        /\ \A v \in Uploads \ {u} : calls'[v] = calls[v]
        /\ calls'[u].pc = "cached" => loop' = loop /\ calls'[u].server = calls[u].server
        /\ calls'[u].pc = "running" => Leave(u)
    BY <1>3, FinishedShape DEF CreateCopy, Degrade, Typing, TypeOK, Call
  <2>3. \A v \in Uploads : CallKnows(v)'
    BY <2>1, <2>2, KeptKnowledge, FinishedKnowledge DEF LineageInv
  <2>4. Serial'
    <3> SUFFICES ASSUME NEW v \in Uploads, calls'[v].pc \in RegisterSteps
                 PROVE  loop'[calls'[v].server] = v
      BY DEF Serial
    <3>1. CASE v = u
      BY <1>1, <2>2, <3>1 DEF LineageInv, Serial, RegisterSteps
    <3>2. CASE v # u
      BY <1>1, <2>2, <3>2, SoleRegistration DEF LineageInv
    <3> QED
      BY <3>1, <3>2
  <2>5. CopyVersionCurrent'
    <3>1. /\ copies'[u].fp = f /\ copies'[u].version = masters[f].version
          /\ \A v \in Uploads \ {u} : copies'[v] = copies[v]
      BY <1>3 DEF CreateCopy, LineageInv, CallKnows, Typing, TypeOK
    <3>2. \A v \in Uploads : copies[v] # NoOne => copies[v].fp \in Fingerprints
      BY DEF Typing, TypeOK, Copy
    <3> QED
      BY <1>1, <1>3, <2>1, <3>1, <3>2 DEF LineageInv, CopyVersionCurrent, RowsKept, Registered
  <2> QED
    BY <2>1, <2>3, <2>4, <2>5, KeptLineage DEF LineageInv, Typing
<1> QED
  BY <1>2, <1>3 DEF CreateCopy

\* A deleted row was the latest of its name, or the foreign key would have
\* kept it; a call that relied on it will find it gone.
LEMMA DeleteMasterRowLineage ==
  ASSUME Typing, LineageInv, NEW a \in Admins, DeleteMasterRow(a)
  PROVE  LineageInv'
<1> DEFINE f == deletes[a].fp
<1>1. f \in Fingerprints /\ calls' = calls /\ loop' = loop
  BY DEF DeleteMasterRow, Typing, DeleteShape
<1>2. CASE UNCHANGED <<masters, copies, results>>
  BY <1>1, <1>2, QuietStep DEF RowsKept
<1>3. CASE /\ ~(Registered(f) /\ Superseded(f))
           /\ masters' = [masters EXCEPT ![f] = NoOne]
           /\ copies' = [u \in Uploads |-> IF u \in CopiesOf(f) THEN NoOne ELSE copies[u]]
  <2>1. /\ masters'[f] = NoOne
        /\ \A g \in Fingerprints \ {f} : masters'[g] = masters[g]
        /\ \A g \in Fingerprints : Registered(g)' <=> Registered(g) /\ g # f
    BY <1>1, <1>3 DEF Typing, TypeOK, Registered
  <2>2. LineageLinear'
    BY <2>1 DEF LineageInv, LineageLinear
  <2>3. LineageChained'
    <3>1. ASSUME NEW g \in Fingerprints \ {f}, Registered(g), masters[g].prev # NoOne
          PROVE  masters[g].prev \in Fingerprints \ {f}
      <4>1. masters[g].prev \in Fingerprints /\ Registered(masters[g].prev)
        BY <3>1, RowShape DEF LineageInv, LineageChained, Typing
      <4> QED
        BY <1>3, <3>1, <4>1 DEF Superseded
    <3> QED
      BY <2>1, <3>1 DEF LineageInv, LineageChained
  <2>4. CopyVersionCurrent'
    <3>1. ASSUME NEW v \in Uploads, copies'[v] # NoOne
          PROVE  copies'[v] = copies[v] /\ copies[v].fp \in Fingerprints \ {f}
      BY <1>3, <3>1 DEF CopiesOf, Typing, TypeOK, Copy
    <3> QED
      BY <2>1, <3>1 DEF LineageInv, CopyVersionCurrent
  <2>5. ASSUME NEW u \in Uploads PROVE CallKnows(u)'
    <3> DEFINE c == calls[u]
    <3>1. CallKnows(u) /\ c.prev \in Fingerprints \cup {NoOne} /\ calls'[u] = c
      BY <1>1 DEF LineageInv, Typing, TypeOK, Call
    <3>2. c.pc # "idle" => c.fp \in Fingerprints
      BY DEF Typing, CallShape
    <3>3. \A n : VersionsOf(n)' = VersionsOf(n) \ {f}
      BY <2>1 DEF VersionsOf
    <3>4. \A n : \A p \in LatestVersions(n) : p # f => p \in LatestVersions(n)'
      BY <2>1, <3>3 DEF LatestVersions, VersionsOf
    <3> QED
      BY <2>1, <3>1, <3>2, <3>3, <3>4 DEF CallKnows
  <2>6. Serial'
    BY <1>1 DEF LineageInv, Serial
  <2> QED
    BY <2>2, <2>3, <2>4, <2>5, <2>6 DEF LineageInv
<1> QED
  BY <1>2, <1>3 DEF DeleteMasterRow

-----------------------------------------------------------------------------

LEMMA NextLineage ==
  ASSUME OneServer, Typing, LineageInv, [Next]_vars
  PROVE  LineageInv'
<1>1. ASSUME NEW u \in Uploads, GetCachedResult(u) PROVE LineageInv'
  <2>1. /\ calls'[u].pc \in {"hit", "running"} /\ calls' \in [Uploads -> Call]
        /\ \A v \in Uploads \ {u} : calls'[v] = calls[v]
    BY <1>1, FinishedShape DEF GetCachedResult, Typing, TypeOK
  <2> QED
    BY <1>1, <2>1, EndStep DEF GetCachedResult, RowsKept, RegisterSteps
<1>2. ASSUME NEW u \in Uploads, RegisterError(u) PROVE LineageInv'
  <2>1. /\ calls'[u].pc = "degraded" /\ calls' \in [Uploads -> Call]
        /\ \A v \in Uploads \ {u} : calls'[v] = calls[v]
    BY <1>2, FinishedShape DEF RegisterError, Degrade, Typing, TypeOK
  <2> QED
    BY <1>2, <2>1, EndStep DEF RegisterError, Degrade, RowsKept
<1>3. ASSUME NEW u \in Uploads, UpsertResult(u) \/ RunStops(u) PROVE LineageInv'
  <2>1. /\ calls'[u].pc \in {"counting", "done"} /\ calls' \in [Uploads -> Call]
        /\ \A v \in Uploads \ {u} : calls'[v] = calls[v]
    BY <1>3, FinishedShape DEF UpsertResult, RunStops, Typing, TypeOK, Call, RegisterSteps
  <2> QED
    BY <1>3, <2>1, EndStep DEF UpsertResult, RunStops, RowsKept
<1>4. ASSUME NEW u \in Uploads, UpdateCounts(u) PROVE LineageInv'
  <2> DEFINE f == calls[u].fp
  <2>1. /\ calls'[u].pc = "done" /\ calls' \in [Uploads -> Call]
        /\ \A v \in Uploads \ {u} : calls'[v] = calls[v]
    BY <1>4, FinishedShape DEF UpdateCounts, Typing, TypeOK
  <2>2. RowsKept
    <3>1. CASE Registered(f) /\ f \in Fingerprints
      <4>1. masters' = [masters EXCEPT ![f] = [masters[f] EXCEPT !.counted = TRUE]]
        BY <1>4, <3>1 DEF UpdateCounts, Typing, TypeOK
      <4>2. masters[f] \in Master
        BY <3>1, RowShape DEF Typing
      <4>3. /\ masters'[f] \in Master /\ masters'[f].name = masters[f].name
            /\ masters'[f].version = masters[f].version /\ masters'[f].prev = masters[f].prev
            /\ masters'[f].dataset = masters[f].dataset
        BY <3>1, <4>1, <4>2 DEF Master, Typing, TypeOK
      <4> QED
        BY <4>1, <4>2, <4>3, NoOneIsNoRow DEF RowsKept, Typing, TypeOK
    <3>2. CASE ~(Registered(f) /\ f \in Fingerprints)
      BY <1>4, <3>2 DEF UpdateCounts, RowsKept, Typing, TypeOK
    <3> QED
      BY <3>1, <3>2
  <2> QED
    BY <1>4, <2>1, <2>2, EndStep DEF UpdateCounts
<1>5. ASSUME NEW c \in Uploads, Decrement(c) PROVE LineageInv'
  <2> DEFINE f == calls[c].fp
  <2>1. RowsKept
    <3>1. CASE Registered(f) /\ f \in Fingerprints
      <4>1. masters' = [masters EXCEPT ![f] =
                          [masters[f] EXCEPT !.refs = AfterDecrement(masters[f].refs)]]
        BY <1>5, <3>1 DEF Decrement, Typing, TypeOK
      <4>2. masters[f] \in Master /\ AfterDecrement(masters[f].refs) \in Nat
        BY <3>1, RowShape DEF Typing, AfterDecrement
      <4>3. /\ masters'[f] \in Master /\ masters'[f].name = masters[f].name
            /\ masters'[f].version = masters[f].version /\ masters'[f].prev = masters[f].prev
            /\ masters'[f].dataset = masters[f].dataset
        BY <3>1, <4>1, <4>2 DEF Master, Typing, TypeOK
      <4> QED
        BY <4>1, <4>2, <4>3, NoOneIsNoRow DEF RowsKept, Typing, TypeOK
    <3>2. CASE ~(Registered(f) /\ f \in Fingerprints)
      BY <1>5, <3>2 DEF Decrement, RowsKept, Typing, TypeOK
    <3> QED
      BY <3>1, <3>2
  <2> QED
    BY <1>5, <2>1, QuietStep DEF Decrement
<1>6. ASSUME NEW c \in Uploads, SoftDelete(c) PROVE LineageInv'
  <2>1. RowsKept /\ calls' = calls /\ loop' = loop
    BY <1>6 DEF SoftDelete, RowsKept
  <2>2. \A u \in Uploads : CallKnows(u)'
    BY <2>1, KeptKnowledge DEF LineageInv
  <2>3. \A u \in Uploads : copies'[u] # NoOne =>
          copies[u] # NoOne /\ copies'[u].fp = copies[u].fp /\ copies'[u].version = copies[u].version
    BY <1>6 DEF SoftDelete, Typing, TypeOK, Copy
  <2>4. CopyVersionCurrent'
    BY <1>6, <2>3 DEF SoftDelete, LineageInv, CopyVersionCurrent, Registered
  <2> QED
    BY <2>1, <2>2, <2>4, KeptLineage DEF LineageInv, Typing, Serial
<1>7. ASSUME NEW c \in Uploads, DecrementLost(c) PROVE LineageInv'
  BY <1>7, QuietStep DEF DecrementLost, RowsKept
<1>8. ASSUME NEW a \in Admins, NEW f \in Fingerprints, NEW force \in BOOLEAN,
             CheckGuardrail(a, f, force)
      PROVE  LineageInv'
  BY <1>8, QuietStep DEF CheckGuardrail, RowsKept
<1>9. ASSUME NEW a \in Admins, ReadMasterRow(a) \/ UnlinkMasterFile(a) \/ DeleteFails(a)
      PROVE  LineageInv'
  BY <1>9, QuietStep DEF ReadMasterRow, UnlinkMasterFile, DeleteFails, RowsKept
<1>10. CASE UNCHANGED vars
  BY <1>10, QuietStep DEF vars, RowsKept
<1> QED
  BY <1>1, <1>2, <1>3, <1>4, <1>5, <1>6, <1>7, <1>8, <1>9, <1>10, ArriveLineage,
     DetectDuplicateLineage, DetectVersionLineage, WriteMasterFileLineage, InsertMasterLineage,
     CreateCopyLineage, DeleteMasterRowLineage
     DEF Next, UploadStep, CopyStep, AdminStep, RegisterStep

LEMMA SpecLineage ==
  ASSUME OneServer
  PROVE  Spec => []LineageInv
<1>1. Typing /\ LineageInv /\ [Next]_vars => LineageInv'
  BY NextLineage
<1> QED
  BY <1>1, InitTyping, NextTyping, InitLineage, PTL DEF Spec

\* On one server process the versions of a file name form one chain, in which
\* every row but the first points at the version just before it, and every
\* copy carries the version of its row, for any number of contents, names,
\* uploads and concurrent deletions, and whatever fails.
THEOREM LineageHolds ==
  ASSUME OneServer
  PROVE  Spec => [](LineageLinear /\ LineageChained /\ CopyVersionCurrent)
  BY SpecLineage, PTL DEF LineageInv

\* dataset_registry.py, register: the version a copy is given is that of the
\* row it counts for, read just before and kept by whatever runs meanwhile.
THEOREM CopiesAreCurrent ==
  ASSUME OneServer
  PROVE  Spec => []CopyVersionCurrent
  BY SpecLineage, PTL DEF LineageInv

----------------------------------------------------------------------------
(* The refinement.  What is added or removed is told from the versions of  *)
(* each name: an insert appends one, a deletion takes the last, all other  *)
(* steps leave every history as it is.                                     *)

LineageHistory == [n \in Names |-> HistoryOf(n)]

LineageStep == [Lineage!Next]_LineageHistory

\* A set of natural numbers that is not empty has a least element.
LEMMA LeastVersion ==
  ASSUME NEW T \in SUBSET Nat, T # {}
  PROVE  \E k \in T : \A j \in T : ~(j < k)
<1> DEFINE R == {ss \in Nat \X Nat : ss[1] < ss[2]}
<1>1. IsWellFoundedOn(R, Nat)
  BY NatLessThanWellFounded DEF OpToRel
<1> HIDE DEF R
<1>2. PICK k \in T : \A j \in T : <<j, k>> \notin R
  BY <1>1, WFMin
<1>3. \A j \in T : <<j, k>> \in R <=> j < k
  BY DEF R
<1> QED BY <1>2, <1>3

-----------------------------------------------------------------------------
(* Steps that leave the history alone.                                     *)

LEMMA KeptHistory ==
  ASSUME RowsKept
  PROVE  LineageStep
<1>1. ASSUME NEW n \in Names PROVE HistoryOf(n)' = HistoryOf(n)
  BY KeptVersions DEF HistoryOf, VersionsOf, RowsKept, Registered
<1> QED BY <1>1 DEF LineageStep, LineageHistory

\* A row of which only the counts change.
LEMMA RecountedRow ==
  ASSUME Typing, NEW f \in Fingerprints, Registered(f), NEW r \in Master,
         masters' = [masters EXCEPT ![f] = r],
         r.name = masters[f].name, r.version = masters[f].version,
         r.prev = masters[f].prev, r.dataset = masters[f].dataset
  PROVE  RowsKept
  BY NoOneIsNoRow DEF RowsKept, Typing, TypeOK, Registered

LEMMA RowChanges ==
  ASSUME NEW r \in Master, NEW k \in Nat
  PROVE  /\ [r EXCEPT !.refs = k] \in Master
         /\ [r EXCEPT !.counted = TRUE] \in Master
         /\ \A s \in {[r EXCEPT !.refs = k], [r EXCEPT !.counted = TRUE]} :
              s.name = r.name /\ s.version = r.version /\ s.prev = r.prev /\ s.dataset = r.dataset
  BY DEF Master

\* Only an insert and a deletion add or remove a row.
LEMMA CountsKeepRows ==
  ASSUME Typing, NEW u \in Uploads, CreateCopy(u) \/ UpdateCounts(u) \/ Decrement(u)
  PROVE  RowsKept
<1> DEFINE f == calls[u].fp
<1>1. CASE masters' = masters
  BY <1>1 DEF RowsKept
<1>2. CASE masters' # masters
  <2>1. Registered(f)
    BY <1>2 DEF CreateCopy, UpdateCounts, Decrement
  <2>2. CASE f \notin Fingerprints
    BY <1>2, <2>1, <2>2 DEF CreateCopy, CountCopy, UpdateCounts, Decrement, Typing, TypeOK
  <2>3. CASE f \in Fingerprints
    <3>1. masters[f] \in Master /\ masters[f].refs \in Nat
      BY <2>1, <2>3, RowShape DEF Typing
    <3>2. AfterDecrement(masters[f].refs) \in Nat /\ masters[f].refs + 1 \in Nat
      BY <3>1 DEF AfterDecrement
    <3>3. \/ masters' = [masters EXCEPT ![f] = [masters[f] EXCEPT !.refs = masters[f].refs + 1]]
          \/ masters' = [masters EXCEPT ![f] = [masters[f] EXCEPT !.refs = AfterDecrement(masters[f].refs)]]
          \/ masters' = [masters EXCEPT ![f] = [masters[f] EXCEPT !.counted = TRUE]]
      BY <1>2, <2>3 DEF CreateCopy, CountCopy, UpdateCounts, Decrement, Typing, TypeOK
    <3> QED BY <2>1, <2>3, <3>1, <3>2, <3>3, RowChanges, RecountedRow
  <2> QED BY <2>2, <2>3
<1> QED BY <1>1, <1>2

-----------------------------------------------------------------------------
(* Steps that add or remove a version.                                     *)

LEMMA LatestInHistory ==
  ASSUME Typing, NEW n \in Names, NEW f \in LatestVersions(n)
  PROVE  <<masters[f].version, f>> \in Lineage!Latest(n)
<1>1. <<masters[f].version, f>> \in HistoryOf(n)
  BY DEF LatestVersions, HistoryOf
<1>2. ASSUME NEW q \in HistoryOf(n) PROVE q[1] <= masters[f].version
  BY DEF LatestVersions, HistoryOf
<1> QED BY <1>1, <1>2 DEF Lineage!Latest

LEMMA UnregisteredNotHeld ==
  ASSUME NEW f, ~Registered(f)
  PROVE  ~Lineage!Held(f)
  BY DEF Lineage!Held, HistoryOf, VersionsOf

\* An insert adds the version after the latest one.
LEMMA InsertRefines ==
  ASSUME OneServer, Typing, LineageInv, NEW u \in Uploads, InsertMaster(u)
  PROVE  LineageStep
<1> DEFINE c == calls[u]
<1>1. CASE masters' = masters
  BY <1>1, KeptHistory DEF RowsKept
<1>2. CASE masters' # masters
  <2>0. c.fp \in Fingerprints /\ c.name \in Names
    BY DEF InsertMaster, Typing, CallShape, RegisterSteps
  <2> PICK f \in Fingerprints, n \in Names : f = c.fp /\ n = c.name
    BY <2>0
  <2>1. /\ ~Registered(f) /\ PrevExists(f, c.prev)
        /\ masters' = [masters EXCEPT ![f] = NewRow(u)]
    BY <1>2 DEF InsertMaster
  <2>2. /\ masters'[f].name = n /\ masters'[f].version = c.version /\ masters'[f] # NoOne
        /\ \A g \in Fingerprints \ {f} : masters'[g] = masters[g]
    <3>1. NewRow(u) \in Master
      BY DEF InsertMaster, NewRow, Master, Call, RegisterSteps, Typing, TypeOK, CallShape
    <3> QED BY <2>1, <3>1, NoOneIsNoRow DEF NewRow, Typing, TypeOK
  <2>3. VersionsOf(n)' = VersionsOf(n) \cup {f} /\ \A m \in Names \ {n} : VersionsOf(m)' = VersionsOf(m)
    BY <2>1, <2>2 DEF VersionsOf, Registered
  <2>4. /\ HistoryOf(n)' = HistoryOf(n) \cup {<<c.version, f>>}
        /\ \A m \in Names \ {n} : HistoryOf(m)' = HistoryOf(m)
    <3>1. \A m \in Names : \A g \in VersionsOf(m) : masters'[g].version = masters[g].version
      BY <2>1, <2>2 DEF VersionsOf
    <3>2. HistoryOf(n)' = {<<masters'[g].version, g>> : g \in VersionsOf(n) \cup {f}}
      BY <2>3 DEF HistoryOf
    <3>3. \A g \in VersionsOf(n) : masters'[g].version = masters[g].version
      BY <3>1
    <3>4. HistoryOf(n)' = HistoryOf(n) \cup {<<c.version, f>>}
      BY <2>2, <3>2, <3>3 DEF HistoryOf
    <3> QED BY <2>3, <3>1, <3>4 DEF HistoryOf
  <2>5. <<c.version, f>> \notin HistoryOf(n)
    BY <2>1 DEF HistoryOf, VersionsOf
  <2>6. LineageHistory' = [LineageHistory EXCEPT ![n] = HistoryOf(n) \cup {<<c.version, f>>}]
    BY <2>1, <2>4 DEF LineageHistory
  <2>7. Lineage!AddVersion(n, f)
    <3>1. ~Lineage!Held(f)
      BY <2>1, UnregisteredNotHeld
    <3>2. CASE c.prev = NoOne
      <4>1. c.version = 1 /\ HistoryOf(n) = {}
        BY <3>2 DEF InsertMaster, LineageInv, CallKnows, HistoryOf
      <4> QED BY <2>1, <2>6, <3>1, <4>1 DEF Lineage!AddVersion, LineageHistory
    <3>3. CASE c.prev # NoOne
      <4>1. c.prev \in LatestVersions(n) /\ c.version = masters[c.prev].version + 1
        BY <2>1, <3>3 DEF InsertMaster, LineageInv, CallKnows, PrevExists
      <4> DEFINE p == <<masters[c.prev].version, c.prev>>
      <4>2. p \in Lineage!Latest(n) /\ p[1] + 1 = c.version
        BY <2>1, <4>1, LatestInHistory
      <4> HIDE DEF p
      <4>3. LineageHistory' = [LineageHistory EXCEPT ![n] = @ \cup {<<p[1] + 1, f>>}]
        BY <2>1, <2>6, <4>2 DEF LineageHistory
      <4> QED BY <3>1, <4>2, <4>3 DEF Lineage!AddVersion, LineageHistory
    <3> QED BY <3>2, <3>3
  <2>8. LineageHistory'[n] # LineageHistory[n]
    BY <2>1, <2>4, <2>5 DEF LineageHistory
  <2> QED BY <2>1, <2>7, <2>8 DEF LineageStep, Lineage!Next, LineageHistory
<1> QED BY <1>1, <1>2

\* A row that no newer one points at is the latest of its name: the oldest of
\* the newer ones would be its successor.
LEMMA UnsupersededIsLatest ==
  ASSUME Typing, LineageInv, NEW f \in Fingerprints, Registered(f), ~Superseded(f)
  PROVE  f \in LatestVersions(masters[f].name)
<1> DEFINE n == masters[f].name
           newer == {g \in VersionsOf(n) : masters[g].version > masters[f].version}
           T == {masters[g].version : g \in newer}
<1>1. \A g \in Fingerprints : Registered(g) =>
        masters[g].version \in Nat /\ masters[g].prev \in Fingerprints \cup {NoOne}
  BY RowShape DEF Typing
<1>2. f \in VersionsOf(n)
  BY DEF VersionsOf
<1>3. ASSUME newer # {} PROVE FALSE
  <2>1. T \in SUBSET Nat /\ T # {}
    BY <1>1, <1>3 DEF VersionsOf
  <2>2. PICK k \in T : \A j \in T : ~(j < k)
    BY <2>1, LeastVersion
  <2>3. PICK g \in newer : masters[g].version = k
    OBVIOUS
  <2>4. g \in Fingerprints /\ Registered(g) /\ masters[g].name = n /\ k > masters[f].version /\ k \in Nat
    BY <1>1, <2>3 DEF VersionsOf
  <2> DEFINE p == masters[g].prev
  <2>5. masters[f].version >= 1
    <3>1. CASE masters[f].prev = NoOne
      BY <3>1 DEF LineageInv, LineageChained
    <3>2. CASE masters[f].prev # NoOne
      BY <1>1, <3>2 DEF LineageInv, LineageChained
    <3> QED BY <3>1, <3>2
  <2>6. p # NoOne
    BY <1>1, <2>3, <2>4, <2>5 DEF LineageInv, LineageChained
  <2>7. p \in Fingerprints /\ Registered(p) /\ masters[p].name = n /\ k = masters[p].version + 1
    BY <1>1, <2>3, <2>4, <2>6 DEF LineageInv, LineageChained
  <2>8. p \notin newer
    <3>1. masters[p].version < k
      BY <1>1, <2>7
    <3>2. p \in newer => masters[p].version \in T
      OBVIOUS
    <3> QED BY <2>2, <3>1, <3>2
  <2>9. masters[p].version = masters[f].version
    BY <1>1, <2>4, <2>7, <2>8 DEF VersionsOf
  <2>10. p = f
    BY <2>7, <2>9 DEF LineageInv, LineageLinear
  <2> QED BY <2>3, <2>4, <2>10 DEF Superseded
<1>4. ASSUME NEW g \in VersionsOf(n) PROVE masters[g].version <= masters[f].version
  <2>1. g \notin newer
    BY <1>3
  <2> QED BY <1>1, <2>1 DEF VersionsOf
<1> QED BY <1>2, <1>4 DEF LatestVersions

\* The foreign key lets only the latest version go.
LEMMA DeleteRefines ==
  ASSUME Typing, LineageInv, NEW a \in Admins, DeleteMasterRow(a)
  PROVE  LineageStep
<1>1. CASE masters' = masters
  BY <1>1, KeptHistory DEF RowsKept
<1>2. CASE masters' # masters
  <2>0. deletes[a].fp \in Fingerprints
    BY DEF DeleteMasterRow, Typing, DeleteShape
  <2> PICK f \in Fingerprints : f = deletes[a].fp
    BY <2>0
  <2>1. masters' = [masters EXCEPT ![f] = NoOne] /\ ~(Registered(f) /\ Superseded(f))
    BY <1>2 DEF DeleteMasterRow
  <2>2. Registered(f)
    BY <1>2, <2>1 DEF Registered, Typing, TypeOK
  <2> PICK n \in Names, v \in Nat : n = masters[f].name /\ v = masters[f].version
    BY <2>2, RowShape DEF Typing
  <2>3. f \in LatestVersions(n)
    BY <2>1, <2>2, UnsupersededIsLatest
  <2>4. VersionsOf(n)' = VersionsOf(n) \ {f} /\ \A m \in Names \ {n} : VersionsOf(m)' = VersionsOf(m)
    BY <2>1 DEF VersionsOf, Registered, Typing, TypeOK
  <2>5. \A m \in Names : \A g \in VersionsOf(m) : g # f => masters'[g].version = masters[g].version
    BY <2>1 DEF VersionsOf, Typing, TypeOK
  <2> DEFINE p == <<v, f>>
  <2>6. HistoryOf(n)' = HistoryOf(n) \ {p}
    <3>1. HistoryOf(n)' = {<<masters'[g].version, g>> : g \in VersionsOf(n) \ {f}}
      BY <2>4 DEF HistoryOf
    <3>2. \A g \in VersionsOf(n) \ {f} : masters'[g].version = masters[g].version
      BY <2>5
    <3> QED BY <3>1, <3>2 DEF HistoryOf
  <2>7. \A m \in Names \ {n} : HistoryOf(m)' = HistoryOf(m)
    BY <2>1, <2>4, <2>5 DEF HistoryOf, VersionsOf
  <2>8. p \in Lineage!Latest(n) /\ p \in HistoryOf(n)
    BY <2>1, <2>3, LatestInHistory DEF LatestVersions, HistoryOf
  <2> HIDE DEF p
  <2>9. LineageHistory' = [LineageHistory EXCEPT ![n] = @ \ {p}]
    BY <2>3, <2>6, <2>7 DEF LineageHistory
  <2>10. Lineage!RemoveLatest(n)
    BY <2>8, <2>9 DEF Lineage!RemoveLatest, LineageHistory
  <2>11. LineageHistory'[n] # LineageHistory[n]
    BY <2>3, <2>6, <2>8 DEF LineageHistory
  <2> QED BY <2>3, <2>10, <2>11 DEF LineageStep, Lineage!Next, LineageHistory
<1> QED BY <1>1, <1>2

-----------------------------------------------------------------------------

LEMMA LineageStarts == Init => Lineage!Init
  BY DEF Init, Lineage!Init, HistoryOf, VersionsOf, Registered

LEMMA NextRefines ==
  ASSUME OneServer, Typing, LineageInv, [Next]_vars
  PROVE  LineageStep
<1>1. ASSUME masters' = masters PROVE LineageStep
  BY <1>1, KeptHistory DEF RowsKept
<1>2. CASE UNCHANGED vars
  BY <1>1, <1>2 DEF vars
<1>3. ASSUME NEW u \in Uploads, UploadStep(u) \/ CopyStep(u) PROVE LineageStep
  <2>1. CASE CreateCopy(u) \/ UpdateCounts(u) \/ Decrement(u)
    BY <2>1, CountsKeepRows, KeptHistory
  <2>2. CASE InsertMaster(u)
    BY <2>2, InsertRefines
  <2>3. ASSUME ~(CreateCopy(u) \/ UpdateCounts(u) \/ Decrement(u)), ~InsertMaster(u)
        PROVE  masters' = masters
    BY <1>3, <2>3 DEF UploadStep, CopyStep, RegisterStep, Arrive, DetectDuplicate, DetectVersion,
       WriteMasterFile, GetCachedResult, RegisterError, UpsertResult, RunStops, SoftDelete, DecrementLost
  <2> QED BY <1>1, <2>1, <2>2, <2>3
<1>4. ASSUME NEW a \in Admins, AdminStep(a) PROVE LineageStep
  <2>1. CASE DeleteMasterRow(a)
    BY <2>1, DeleteRefines
  <2>2. ASSUME ~DeleteMasterRow(a) PROVE masters' = masters
    BY <1>4, <2>2 DEF AdminStep, CheckGuardrail, ReadMasterRow, UnlinkMasterFile, DeleteFails
  <2> QED BY <1>1, <2>1, <2>2
<1> QED BY <1>2, <1>3, <1>4 DEF Next

\* On one server process the registry implements VersionLineage: the versions
\* of a name are numbered at the end of their history and leave it from its
\* end, for any number of contents, names, uploads and concurrent deletions.
THEOREM RegistryImplementsLineage ==
  ASSUME OneServer
  PROVE  Spec => ImplementsLineage
<1>1. Typing /\ LineageInv /\ [Next]_vars => LineageStep
  BY NextRefines
<1>2. Spec => Lineage!Init
  BY LineageStarts DEF Spec
<1>3. Spec => []Typing
  BY InitTyping, NextTyping, PTL DEF Spec
<1>4. Spec => [][LineageStep]_vars
  BY <1>1, <1>3, SpecLineage, PTL DEF Spec
<1>5. UNCHANGED vars => UNCHANGED LineageHistory
  BY DEF vars, LineageHistory, HistoryOf, VersionsOf, Registered
<1>6. [LineageStep]_vars => LineageStep
  BY <1>5 DEF LineageStep
<1> QED BY <1>2, <1>4, <1>6, PTL DEF ImplementsLineage, Lineage!Spec, LineageStep, LineageHistory

=============================================================================
