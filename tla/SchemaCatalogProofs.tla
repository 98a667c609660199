------------------------- MODULE SchemaCatalogProofs -------------------------
(***************************************************************************)
(* Theorems about SchemaCatalog, for any uploads, names and processes.     *)
(***************************************************************************)
EXTENDS SchemaCatalog, TLAPS

\* Uploads that have found or inserted the row they are about.
HasRow(u) ==
  \/ calls[u].pc \in {"classify", "persist", "store"}
  \/ calls[u].pc \in {"gate", "update"} /\ calls[u].old # None

\* What an upload is known to hold at its step of the graph.
CallKnows(u) ==
  LET c == calls[u] IN
  /\ c.pc \in Steps \cup {"queued"} => c.server \in Servers /\ c.name \in Names
  /\ c.pc \in {"idle", "queued"} => c.met = {}
  /\ c.pc \in {"id", "insert"} => c.old = None
  /\ c.pc = "update" => c.old # None
  /\ c.pc = "insert" => c.id \in Nat
  /\ c.pc = "persist" => c.class.of = u \/ c.class = c.old
  /\ HasRow(u) => c.id \in DOMAIN rows /\ rows[c.id].name = c.name

Typing ==
  /\ TypeOK
  /\ frames = [s \in Servers |-> frames[s]]
  /\ \A u \in Uploads : CallKnows(u)

LEMMA PutFacts ==
  ASSUME NEW f, NEW i, NEW v
  PROVE  /\ DOMAIN Put(f, i, v) = DOMAIN f \cup {i}
         /\ Put(f, i, v)[i] = v
         /\ \A j \in DOMAIN f : j # i => Put(f, i, v)[j] = f[j]
  BY DEF Put

LEMMA NotStartedIsCall == NotStarted \in Call /\ Pending \in Class
  BY DEF NotStarted, Call, Pending, Class, Steps

LEMMA CutShortIsCall ==
  ASSUME TypeOK, NEW u \in Uploads, NEW pc \in {"refused", "failed", "lost"}
  PROVE  /\ CutShort(u, pc) \in Call
         /\ CutShort(u, pc).pc = pc
         /\ CutShort(u, pc).met = calls[u].met
  BY NotStartedIsCall DEF CutShort, Call, NotStarted, TypeOK

\* No row changes its name or uploader, and none goes away.
RowsStay ==
  \A i \in DOMAIN rows :
    i \in DOMAIN rows' /\ rows'[i].name = rows[i].name /\ rows'[i].by = rows[i].by

LEMMA KeptKnowledge ==
  ASSUME RowsStay, NEW u \in Uploads, CallKnows(u), calls'[u] = calls[u]
  PROVE  CallKnows(u)'
  BY DEF RowsStay, CallKnows, HasRow

LEMMA EndedKnowledge ==
  ASSUME NEW u \in Uploads, calls'[u].pc \in {"refused", "failed", "lost", "answered"}
  PROVE  CallKnows(u)'
  BY DEF CallKnows, HasRow, Steps

\* A step of one upload that leaves rows, processes and frames alone.
LEMMA CallStep ==
  ASSUME Typing, NEW u \in Uploads, NEW c \in Call, calls' = [calls EXCEPT ![u] = c],
         rows' = rows, server' = server, frames' = frames, setBack' = setBack,
         sequence' \in Nat, loop' \in [Servers -> Uploads \cup {None}], CallKnows(u)'
  PROVE  Typing'
<1>1. TypeOK'
  BY DEF Typing, TypeOK
<1>2. ASSUME NEW v \in Uploads PROVE CallKnows(v)'
  <2>1. CASE v = u
    BY <2>1
  <2>2. CASE v # u
    BY <2>2, KeptKnowledge DEF Typing, TypeOK, RowsStay
  <2> QED
    BY <2>1, <2>2
<1> QED
  BY <1>1, <1>2 DEF Typing

\* A step of one upload that writes the row it is about.
LEMMA RowStep ==
  ASSUME Typing, NEW u \in Uploads, NEW c \in Call, NEW i \in Nat, NEW row \in Row,
         calls' = [calls EXCEPT ![u] = c], rows' = Put(rows, i, row),
         i \in DOMAIN rows => row.name = rows[i].name /\ row.by = rows[i].by,
         server' = server, frames' = frames, setBack' = setBack, sequence' = sequence,
         loop' \in [Servers -> Uploads \cup {None}], CallKnows(u)'
  PROVE  Typing' /\ RowsStay
<1>0. /\ DOMAIN rows' = DOMAIN rows \cup {i}
      /\ rows'[i] = row
      /\ \A j \in DOMAIN rows : j # i => rows'[j] = rows[j]
  BY DEF Put
<1>1. RowsStay
  BY <1>0 DEF RowsStay
<1>2. TypeOK'
  <2>1. DOMAIN rows' \subseteq Nat /\ \A j \in DOMAIN rows' : rows'[j] \in Row
    BY <1>0 DEF Typing, TypeOK
  <2>2. calls' \in [Uploads -> Call]
    BY DEF Typing, TypeOK
  <2> QED
    BY <2>1, <2>2 DEF Typing, TypeOK
<1>3. ASSUME NEW v \in Uploads PROVE CallKnows(v)'
  <2>1. CASE v = u
    BY <2>1
  <2>2. CASE v # u
    BY <1>1, <2>2, KeptKnowledge DEF Typing, TypeOK
  <2> QED
    BY <2>1, <2>2
<1> QED
  BY <1>1, <1>2, <1>3 DEF Typing

-----------------------------------------------------------------------------
(* Every action keeps Typing.                                              *)

LEMMA InitTyping == Init => Typing
<1>1. ASSUME Init PROVE TypeOK
  BY <1>1, NotStartedIsCall DEF Init, TypeOK, NoIds
<1>2. ASSUME Init, NEW u \in Uploads PROVE CallKnows(u)
  BY <1>2 DEF Init, CallKnows, HasRow, NotStarted, Steps
<1>3. ASSUME Init PROVE frames = [s \in Servers |-> frames[s]]
  BY <1>3 DEF Init
<1> QED
  BY <1>1, <1>2, <1>3 DEF Typing

LEMMA ReadSequenceTyping ==
  ASSUME Typing, NEW s \in Servers, ReadSequence(s)
  PROVE  Typing'
<1>1. PICK seed \in DOMAIN rows \cup {sequence, 1} :
        server' = [server EXCEPT ![s] = [state |-> "seeding", seed |-> seed]]
  BY DEF ReadSequence
<1>2. seed \in Nat /\ sequence' \in Nat
  BY DEF ReadSequence, Typing, TypeOK
<1>3. TypeOK'
  BY <1>1, <1>2 DEF ReadSequence, Typing, TypeOK
<1>4. \A u \in Uploads : CallKnows(u)'
  BY DEF ReadSequence, Typing, CallKnows, HasRow
<1> QED
  BY <1>3, <1>4 DEF ReadSequence, Typing

LEMMA SetSequenceTyping ==
  ASSUME Typing, NEW s \in Servers, SetSequence(s)
  PROVE  Typing'
<1>1. sequence' \in Nat /\ setBack' \in BOOLEAN
  BY DEF SetSequence, Typing, TypeOK
<1>2. TypeOK'
  BY <1>1 DEF SetSequence, Typing, TypeOK
<1>3. \A u \in Uploads : CallKnows(u)'
  BY DEF SetSequence, Typing, CallKnows, HasRow
<1> QED
  BY <1>2, <1>3 DEF SetSequence, Typing

LEMMA DieTyping ==
  ASSUME Typing, NEW s \in Servers, Die(s)
  PROVE  Typing'
<1>1. calls' \in [Uploads -> Call]
  BY CutShortIsCall DEF Die, Typing, TypeOK
<1>2. TypeOK'
  BY <1>1 DEF Die, Typing, TypeOK, NoIds
<1>3. ASSUME NEW u \in Uploads PROVE CallKnows(u)'
  <2>1. CASE calls'[u] = calls[u]
    BY <2>1, KeptKnowledge DEF Die, Typing, RowsStay
  <2>2. CASE calls'[u] = CutShort(u, "lost")
    BY <2>2, CutShortIsCall, EndedKnowledge DEF Typing
  <2> QED
    BY <2>1, <2>2 DEF Die
<1>4. frames' = [t \in Servers |-> frames'[t]]
  BY DEF Die, Typing
<1> QED
  BY <1>2, <1>3, <1>4 DEF Typing

LEMMA ArriveTyping ==
  ASSUME Typing, NEW u \in Uploads, NEW s \in Servers, NEW n \in Names, NEW force \in BOOLEAN,
         Arrive(u, s, n, force)
  PROVE  Typing'
<1> DEFINE c == [NotStarted EXCEPT !.pc = "queued", !.server = s, !.name = n, !.force = force]
<1>1. /\ c \in Call
      /\ c.pc = "queued" /\ c.server = s /\ c.name = n /\ c.met = {} /\ c.class = Pending
  BY NotStartedIsCall DEF NotStarted, Call, Steps
<1>2. calls' = [calls EXCEPT ![u] = c] /\ calls'[u] = c
  BY DEF Arrive, Typing, TypeOK
<1> HIDE DEF c
<1>3. CallKnows(u)'
  BY <1>1, <1>2 DEF CallKnows, HasRow, Steps
<1> QED
  BY <1>1, <1>2, <1>3, CallStep DEF Arrive, Typing, TypeOK

\* An upload ends without an answer, and frees its process.
LEMMA EndTyping ==
  ASSUME Typing, NEW u \in Uploads, NEW pc \in {"refused", "failed"},
         calls' = [calls EXCEPT ![u] = CutShort(u, pc)], loop' = loop \/ Free(u),
         rows' = rows, server' = server, frames' = frames, setBack' = setBack,
         sequence' = sequence
  PROVE  Typing'
<1>1. CutShort(u, pc) \in Call /\ CutShort(u, pc).pc = pc
  BY CutShortIsCall DEF Typing
<1>2. calls'[u] = CutShort(u, pc)
  BY DEF Typing, TypeOK
<1>3. CallKnows(u)'
  BY <1>1, <1>2, EndedKnowledge
<1>4. loop' \in [Servers -> Uploads \cup {None}]
  BY DEF Free, Typing, TypeOK
<1> QED
  BY <1>1, <1>3, <1>4, CallStep DEF Typing, TypeOK

\* CheckExisting's update of the call r.
Found(r, i, old, met) ==
  [r EXCEPT !.pc = "gate", !.id = i, !.old = old, !.met = met]

LEMMA FoundIsCall ==
  ASSUME NEW r \in Call, NEW i \in Nat \cup {None}, NEW old \in Class \cup {None},
         NEW met \in SUBSET Uploads
  PROVE  /\ Found(r, i, old, met) \in Call
         /\ Found(r, i, old, met).pc = "gate"
         /\ Found(r, i, old, met).id = i
         /\ Found(r, i, old, met).old = old
         /\ Found(r, i, old, met).met = met
         /\ Found(r, i, old, met).name = r.name
         /\ Found(r, i, old, met).server = r.server
  BY DEF Found, Call, Steps

\* CheckExisting finds no row of the name, or one.
LEMMA CheckExistingFinds ==
  ASSUME Typing, NEW u \in Uploads, CheckExisting(u)
  PROVE  \E i \in Nat \cup {None}, old \in Class \cup {None} :
           /\ \/ i = None /\ old = None /\ RowsNamed(calls[u].name) = {}
              \/ /\ i \in DOMAIN rows /\ rows[i].name = calls[u].name
                 /\ old = rows[i].class /\ old # None
           /\ calls' = [calls EXCEPT ![u] = Found(calls[u], i, old, UnderWay(calls[u].name))]
<1>1. CASE /\ RowsNamed(calls[u].name) = {}
           /\ calls' = [calls EXCEPT ![u] = Found(calls[u], None, None, UnderWay(calls[u].name))]
  BY <1>1
<1>2. CASE \E i \in RowsNamed(calls[u].name) :
             calls' = [calls EXCEPT ![u] =
               Found(calls[u], i, rows[i].class, UnderWay(calls[u].name))]
  <2>1. PICK i \in RowsNamed(calls[u].name) :
          calls' = [calls EXCEPT ![u] =
            Found(calls[u], i, rows[i].class, UnderWay(calls[u].name))]
    BY <1>2
  <2>2. i \in DOMAIN rows /\ i \in Nat /\ rows[i].name = calls[u].name /\ rows[i].class \in Class
    BY DEF RowsNamed, Typing, TypeOK, Row
  <2> QED
    BY <2>1, <2>2, NoneIsNoClass
<1> QED
  BY <1>1, <1>2, Zenon DEF CheckExisting, Node, Found

LEMMA CheckExistingTyping ==
  ASSUME Typing, NEW u \in Uploads, CheckExisting(u)
  PROVE  Typing'
<1>1. calls[u].server \in Servers /\ calls[u].name \in Names /\ calls[u] \in Call
  BY DEF CheckExisting, Served, Typing, CallKnows, TypeOK
<1>2. /\ loop' \in [Servers -> Uploads \cup {None}]
      /\ rows' = rows /\ server' = server /\ frames' = frames /\ setBack' = setBack
      /\ sequence' = sequence
  BY DEF CheckExisting, Typing, TypeOK
<1>3. UnderWay(calls[u].name) \in SUBSET Uploads
  BY DEF UnderWay
<1>4. PICK i \in Nat \cup {None}, old \in Class \cup {None} :
        /\ old # None => i \in DOMAIN rows /\ rows[i].name = calls[u].name
        /\ calls' = [calls EXCEPT ![u] = Found(calls[u], i, old, UnderWay(calls[u].name))]
  BY CheckExistingFinds
<1> DEFINE c == Found(calls[u], i, old, UnderWay(calls[u].name))
<1>5. /\ c \in Call /\ c.pc = "gate" /\ c.id = i /\ c.old = old
      /\ c.name = calls[u].name /\ c.server = calls[u].server
  BY <1>1, <1>3, <1>4, FoundIsCall
<1>6. calls' = [calls EXCEPT ![u] = c] /\ calls'[u] = c
  BY <1>4 DEF Typing, TypeOK
<1> HIDE DEF c
<1>7. CallKnows(u)'
  BY <1>1, <1>2, <1>4, <1>5, <1>6 DEF CallKnows, HasRow, Steps
<1> QED
  BY <1>2, <1>5, <1>6, <1>7, CallStep DEF Typing, TypeOK

LEMMA RefuseTyping ==
  ASSUME Typing, NEW u \in Uploads, Refuse(u)
  PROVE  Typing'
  BY EndTyping DEF Refuse, Node

LEMMA UploadFailsTyping ==
  ASSUME Typing, NEW u \in Uploads, UploadFails(u)
  PROVE  Typing'
  BY EndTyping DEF UploadFails, Node

\* A call that only goes from one step to another.
Moved(r, pc) == [r EXCEPT !.pc = pc]

LEMMA MovedIsCall ==
  ASSUME NEW r \in Call, NEW pc \in Steps
  PROVE  /\ Moved(r, pc) \in Call
         /\ Moved(r, pc).pc = pc
         /\ Moved(r, pc).id = r.id /\ Moved(r, pc).old = r.old
         /\ Moved(r, pc).class = r.class /\ Moved(r, pc).met = r.met
         /\ Moved(r, pc).status = r.status
         /\ Moved(r, pc).name = r.name /\ Moved(r, pc).server = r.server
  BY DEF Moved, Call, Steps

LEMMA FreeLoop ==
  ASSUME TypeOK, NEW u \in Uploads, loop' = loop \/ Free(u)
  PROVE  loop' \in [Servers -> Uploads \cup {None}]
  BY DEF Free, TypeOK

LEMMA QualityGateTyping ==
  ASSUME Typing, NEW u \in Uploads, QualityGate(u)
  PROVE  Typing'
<1>1. CASE /\ calls' = [calls EXCEPT ![u] = Moved(calls[u], IF calls[u].old = None THEN "id"
                                                             ELSE "update")]
           /\ loop' = loop
  <2> DEFINE c == Moved(calls[u], IF calls[u].old = None THEN "id" ELSE "update")
  <2>1. /\ c \in Call /\ c.pc = IF calls[u].old = None THEN "id" ELSE "update"
        /\ c.id = calls[u].id /\ c.old = calls[u].old
        /\ c.name = calls[u].name /\ c.server = calls[u].server
    <3>1. calls[u] \in Call
      BY DEF Typing, TypeOK
    <3>2. (IF calls[u].old = None THEN "id" ELSE "update") \in Steps
      BY DEF Steps
    <3> QED
      BY <3>1, <3>2, MovedIsCall
  <2>2. calls' = [calls EXCEPT ![u] = c] /\ calls'[u] = c
    BY <1>1 DEF Typing, TypeOK
  <2> HIDE DEF c
  <2>3. calls[u].pc = "gate" /\ CallKnows(u) /\ rows' = rows
    BY DEF QualityGate, Node, Typing
  <2>4. CallKnows(u)'
    BY <2>1, <2>2, <2>3 DEF CallKnows, HasRow, Steps
  <2> QED
    BY <1>1, <2>1, <2>2, <2>4, CallStep DEF QualityGate, Typing, TypeOK
<1>2. CASE calls' = [calls EXCEPT ![u] = CutShort(u, "refused")] /\ Free(u)
  BY <1>2, EndTyping DEF QualityGate
<1> QED
  BY <1>1, <1>2 DEF QualityGate, Node, Moved

LEMMA DrawIdTyping ==
  ASSUME Typing, NEW u \in Uploads, DrawId(u)
  PROVE  Typing'
<1> DEFINE c == [calls[u] EXCEPT !.pc = "insert", !.id = sequence + 1]
<1>1. calls[u] \in Call /\ sequence + 1 \in Nat
  BY DEF Typing, TypeOK
<1>2. ASSUME NEW r \in Call, NEW i \in Nat
      PROVE  LET d == [r EXCEPT !.pc = "insert", !.id = i] IN
             /\ d \in Call /\ d.pc = "insert" /\ d.id = i
             /\ d.old = r.old /\ d.name = r.name /\ d.server = r.server /\ d.met = r.met
  BY DEF Call, Steps
<1>3. /\ c \in Call /\ c.pc = "insert" /\ c.id = sequence + 1
      /\ c.old = calls[u].old /\ c.name = calls[u].name /\ c.server = calls[u].server
  BY <1>1, <1>2
<1>4. calls' = [calls EXCEPT ![u] = c] /\ calls'[u] = c
  BY DEF DrawId, Node, Typing, TypeOK
<1> HIDE DEF c
<1>5. calls[u].pc = "id" /\ CallKnows(u) /\ rows' = rows
  BY DEF DrawId, Node, Typing
<1>6. CallKnows(u)'
  BY <1>1, <1>3, <1>4, <1>5 DEF CallKnows, HasRow, Steps
<1> QED
  BY <1>1, <1>3, <1>4, <1>6, CallStep DEF DrawId, Typing, TypeOK

LEMMA InsertMetadataTyping ==
  ASSUME Typing, NEW u \in Uploads, InsertMetadata(u)
  PROVE  Typing' /\ RowsStay
<1>1. CASE /\ calls[u].id \notin DOMAIN rows
           /\ calls' = [calls EXCEPT ![u] = Moved(calls[u], "classify")]
           /\ rows' = Put(rows, calls[u].id, NewRow(u))
           /\ loop' = loop
  <2> DEFINE c == Moved(calls[u], "classify")
  <2>1. calls[u] \in Call /\ CallKnows(u) /\ calls[u].pc = "insert"
    BY DEF InsertMetadata, Node, Typing, TypeOK
  <2>2. calls[u].id \in Nat /\ calls[u].name \in Names /\ calls[u].server \in Servers
    BY <2>1 DEF CallKnows, Steps
  <2>3. NewRow(u) \in Row /\ NewRow(u).name = calls[u].name
    BY <2>2, NotStartedIsCall DEF NewRow, Row
  <2>4. "classify" \in Steps
    BY DEF Steps
  <2>5. /\ c \in Call /\ c.pc = "classify" /\ c.id = calls[u].id
        /\ c.name = calls[u].name /\ c.server = calls[u].server
    BY <2>1, <2>4, MovedIsCall
  <2>6. calls' = [calls EXCEPT ![u] = c] /\ calls'[u] = c
    BY <1>1 DEF Typing, TypeOK
  <2>7. DOMAIN rows' = DOMAIN rows \cup {calls[u].id} /\ rows'[calls[u].id] = NewRow(u)
    BY <1>1 DEF Put
  <2> HIDE DEF c
  <2>8. CallKnows(u)'
    BY <2>2, <2>3, <2>5, <2>6, <2>7 DEF CallKnows, HasRow, Steps
  <2> QED
    BY <1>1, <2>2, <2>3, <2>5, <2>6, <2>8, RowStep DEF InsertMetadata, Typing, TypeOK
<1>2. CASE /\ calls' = [calls EXCEPT ![u] = CutShort(u, "failed")]
           /\ Free(u) /\ rows' = rows
  BY <1>2, EndTyping DEF InsertMetadata, RowsStay
<1> QED
  BY <1>1, <1>2 DEF InsertMetadata, Node, Moved

LEMMA UpdateAfterReuploadTyping ==
  ASSUME Typing, NEW u \in Uploads, UpdateAfterReupload(u)
  PROVE  Typing' /\ RowsStay
<1> DEFINE c == Moved(calls[u], "classify")
           row == [rows[calls[u].id] EXCEPT !.shape = u, !.status = "Completed"]
<1>1. calls[u] \in Call /\ CallKnows(u) /\ calls[u].pc = "update"
  BY DEF UpdateAfterReupload, Node, Typing, TypeOK
<1>2. /\ calls[u].server \in Servers /\ calls[u].name \in Names
      /\ calls[u].id \in DOMAIN rows /\ rows[calls[u].id].name = calls[u].name
  BY <1>1 DEF CallKnows, HasRow, Steps
<1>3. calls[u].id \in Nat /\ rows[calls[u].id] \in Row
  BY <1>2 DEF Typing, TypeOK
<1>4. ASSUME NEW r \in Row
      PROVE  LET q == [r EXCEPT !.shape = u, !.status = "Completed"]
             IN q \in Row /\ q.name = r.name /\ q.by = r.by
  BY DEF Row
<1>5. row \in Row /\ row.name = rows[calls[u].id].name /\ row.by = rows[calls[u].id].by
  BY <1>3, <1>4
<1>6. "classify" \in Steps
  BY DEF Steps
<1>7. /\ c \in Call /\ c.pc = "classify" /\ c.id = calls[u].id
      /\ c.name = calls[u].name /\ c.server = calls[u].server
  BY <1>1, <1>6, MovedIsCall
<1>8. calls' = [calls EXCEPT ![u] = c] /\ calls'[u] = c /\ rows' = Put(rows, calls[u].id, row)
  BY DEF UpdateAfterReupload, Node, Moved, Typing, TypeOK
<1> HIDE DEF c, row
<1>9. DOMAIN rows' = DOMAIN rows \cup {calls[u].id} /\ rows'[calls[u].id] = row
  BY <1>8 DEF Put
<1>10. CallKnows(u)'
  BY <1>2, <1>5, <1>7, <1>8, <1>9 DEF CallKnows, HasRow, Steps
<1> QED
  BY <1>3, <1>5, <1>7, <1>8, <1>10, RowStep DEF UpdateAfterReupload, Typing, TypeOK

\* The update of Classify and of Reuse.
ClassifiedCall(r, class, status) ==
  [r EXCEPT !.pc = "persist", !.class = class, !.status = status]

LEMMA ClassifiedIsCall ==
  ASSUME NEW r \in Call, NEW class \in Class, NEW status \in {"Partial", "Completed"}
  PROVE  LET c == ClassifiedCall(r, class, status) IN
         /\ c \in Call /\ c.pc = "persist" /\ c.class = class /\ c.status = status
         /\ c.id = r.id /\ c.old = r.old /\ c.met = r.met
         /\ c.name = r.name /\ c.server = r.server
  BY DEF ClassifiedCall, Call, Steps

\* Classify and Reuse end with a classification of their own or the one read.
ClassifiesAs(u, class, status) ==
  /\ class \in Class /\ status \in {"Partial", "Completed"}
  /\ class.of = u \/ class = calls[u].old
  /\ calls[u].old = None => class.of = u
  /\ calls' = [calls EXCEPT ![u] = ClassifiedCall(calls[u], class, status)]

LEMMA ClassifyStep ==
  ASSUME Typing, NEW u \in Uploads, Classify(u) \/ Reuse(u)
  PROVE  \E class, status : ClassifiesAs(u, class, status)
<1>1. CASE Classify(u)
  <2>1. PICK outcome \in AgentOutcomes :
          Node(u, "classify", [calls[u] EXCEPT
            !.pc = "persist",
            !.class = [of |-> u, fallback |-> outcome # "classified"],
            !.status = IF outcome = "raises" /\ calls[u].old = None THEN "Partial" ELSE "Completed"])
    BY <1>1, Zenon DEF Classify
  <2> DEFINE class == [of |-> u, fallback |-> outcome # "classified"]
             status == IF outcome = "raises" /\ calls[u].old = None THEN "Partial" ELSE "Completed"
  <2>2. class \in Class /\ class.of = u /\ status \in {"Partial", "Completed"}
    BY DEF Class
  <2>3. calls' = [calls EXCEPT ![u] = ClassifiedCall(calls[u], class, status)]
    BY <2>1, Zenon DEF Node, ClassifiedCall
  <2> QED
    BY <2>2, <2>3 DEF ClassifiesAs
<1>2. CASE Reuse(u)
  <2>1. calls[u].old # None /\ calls[u].old \in Class
    BY <1>2 DEF Reuse, NeedsClassification, Typing, TypeOK, Call
  <2>2. calls' = [calls EXCEPT ![u] = ClassifiedCall(calls[u], calls[u].old, "Completed")]
    BY <1>2, <2>1 DEF Reuse, Node, Reused, ClassifiedCall
  <2> QED
    BY <2>1, <2>2 DEF ClassifiesAs
<1> QED
  BY <1>1, <1>2

LEMMA ClassifyTyping ==
  ASSUME Typing, NEW u \in Uploads, Classify(u) \/ Reuse(u)
  PROVE  Typing'
<1>1. PICK class, status : ClassifiesAs(u, class, status)
  BY ClassifyStep
<1> DEFINE c == ClassifiedCall(calls[u], class, status)
<1>2. calls[u] \in Call /\ CallKnows(u) /\ calls[u].pc = "classify"
  BY DEF Classify, Reuse, Node, Typing, TypeOK
<1>3. /\ c \in Call /\ c.pc = "persist" /\ c.class = class
      /\ c.id = calls[u].id /\ c.old = calls[u].old
      /\ c.name = calls[u].name /\ c.server = calls[u].server
  BY <1>1, <1>2, ClassifiedIsCall DEF ClassifiesAs
<1>4. calls' = [calls EXCEPT ![u] = c] /\ calls'[u] = c
  BY <1>1 DEF ClassifiesAs, Typing, TypeOK
<1> HIDE DEF c
<1>5. /\ rows' = rows /\ sequence' = sequence /\ server' = server /\ loop' = loop
      /\ frames' = frames /\ setBack' = setBack
  BY DEF Classify, Reuse
<1>6. CallKnows(u)'
  BY <1>1, <1>2, <1>3, <1>4, <1>5 DEF ClassifiesAs, CallKnows, HasRow, Steps
<1> QED
  BY <1>3, <1>4, <1>5, <1>6, CallStep DEF Typing, TypeOK

LEMMA PersistTyping ==
  ASSUME Typing, NEW u \in Uploads, Persist(u)
  PROVE  Typing' /\ RowsStay
<1> DEFINE c == Moved(calls[u], "store")
           row == Classified(rows[calls[u].id], u)
<1>1. calls[u] \in Call /\ CallKnows(u) /\ calls[u].pc = "persist"
  BY DEF Persist, Node, Typing, TypeOK
<1>2. /\ calls[u].server \in Servers /\ calls[u].name \in Names
      /\ calls[u].id \in DOMAIN rows /\ rows[calls[u].id].name = calls[u].name
  BY <1>1 DEF CallKnows, HasRow, Steps
<1>3. calls[u].id \in Nat /\ rows[calls[u].id] \in Row
  BY <1>2 DEF Typing, TypeOK
<1>4. calls[u].class \in Class /\ calls[u].status \in {"Processing", "Completed", "Partial"}
  BY <1>1 DEF Call
<1>5. ASSUME NEW r \in Row, NEW class \in Class, NEW status \in {"Processing", "Completed", "Partial"}
      PROVE  LET q == [r EXCEPT !.class = class, !.status = status, !.quality = u]
             IN q \in Row /\ q.name = r.name /\ q.by = r.by
  BY DEF Row
<1>6. row \in Row /\ row.name = rows[calls[u].id].name /\ row.by = rows[calls[u].id].by
  BY <1>3, <1>4, <1>5 DEF Classified
<1>7. "store" \in Steps
  BY DEF Steps
<1>8. /\ c \in Call /\ c.pc = "store" /\ c.id = calls[u].id
      /\ c.name = calls[u].name /\ c.server = calls[u].server
  BY <1>1, <1>7, MovedIsCall
<1>9. calls' = [calls EXCEPT ![u] = c] /\ calls'[u] = c /\ rows' = Put(rows, calls[u].id, row)
  BY DEF Persist, Node, Moved, Typing, TypeOK
<1> HIDE DEF c, row
<1>10. DOMAIN rows' = DOMAIN rows \cup {calls[u].id} /\ rows'[calls[u].id] = row
  BY <1>9 DEF Put
<1>11. CallKnows(u)'
  BY <1>2, <1>6, <1>8, <1>9, <1>10 DEF CallKnows, HasRow, Steps
<1> QED
  BY <1>3, <1>6, <1>8, <1>9, <1>11, RowStep DEF Persist, Typing, TypeOK

\* The update of StoreFrame.
AnsweredCall(r) == [r EXCEPT !.pc = "answered", !.force = FALSE, !.old = None]

LEMMA AnsweredIsCall ==
  ASSUME NEW r \in Call
  PROVE  AnsweredCall(r) \in Call /\ AnsweredCall(r).pc = "answered" /\ AnsweredCall(r).met = r.met
  BY DEF AnsweredCall, Call

LEMMA StoreFrameTyping ==
  ASSUME Typing, NEW u \in Uploads, StoreFrame(u)
  PROVE  Typing'
<1> DEFINE s == calls[u].server
<1>1. calls[u] \in Call /\ CallKnows(u) /\ calls[u].pc = "store"
  BY DEF StoreFrame, Node, Typing, TypeOK
<1>2. s \in Servers /\ calls[u].id \in DOMAIN rows
  BY <1>1 DEF CallKnows, HasRow, Steps
<1>3. calls[u].id \in Nat
  BY <1>2 DEF Typing, TypeOK
<1>4. /\ calls' = [calls EXCEPT ![u] = AnsweredCall(calls[u])]
      /\ frames' = [frames EXCEPT ![s] = Put(frames[s], calls[u].id, u)]
      /\ rows' = rows /\ sequence' = sequence /\ server' = server /\ setBack' = setBack
  BY DEF StoreFrame, Node, AnsweredCall
<1>5. /\ AnsweredCall(calls[u]) \in Call
      /\ calls'[u].pc = "answered"
      /\ calls' \in [Uploads -> Call]
  BY <1>1, <1>4, AnsweredIsCall DEF Typing, TypeOK
<1> HIDE DEF s
<1>6. /\ frames'[s] = Put(frames[s], calls[u].id, u)
      /\ \A t \in Servers : t # s => frames'[t] = frames[t]
      /\ frames' = [t \in Servers |-> frames'[t]]
  BY <1>2, <1>4 DEF Typing
<1>7. \A t \in Servers :
        DOMAIN frames'[t] \subseteq Nat /\ \A i \in DOMAIN frames'[t] : frames'[t][i] \in Uploads
  BY <1>2, <1>3, <1>6 DEF Typing, TypeOK, Put
<1>8. loop' \in [Servers -> Uploads \cup {None}]
  BY FreeLoop DEF StoreFrame, Typing
<1>9. TypeOK'
  BY <1>4, <1>5, <1>7, <1>8 DEF Typing, TypeOK
<1>10. ASSUME NEW v \in Uploads PROVE CallKnows(v)'
  <2>1. CASE v = u
    BY <1>5, <2>1, EndedKnowledge
  <2>2. CASE v # u
    BY <1>4, <2>2, KeptKnowledge DEF Typing, TypeOK, RowsStay
  <2> QED
    BY <2>1, <2>2
<1> QED
  BY <1>6, <1>9, <1>10 DEF Typing

\* No action takes a row away, or changes its name or who inserted it.
LEMMA NextTyping ==
  ASSUME Typing, [Next]_vars
  PROVE  Typing' /\ RowsStay
<1>1. CASE UNCHANGED vars
  BY <1>1 DEF vars, Typing, TypeOK, CallKnows, HasRow, RowsStay
<1>2. ASSUME NEW s \in Servers, ReadSequence(s) PROVE Typing' /\ RowsStay
  BY <1>2, ReadSequenceTyping DEF ReadSequence, RowsStay
<1>3. ASSUME NEW s \in Servers, SetSequence(s) PROVE Typing' /\ RowsStay
  BY <1>3, SetSequenceTyping DEF SetSequence, RowsStay
<1>4. ASSUME NEW s \in Servers, Die(s) PROVE Typing' /\ RowsStay
  BY <1>4, DieTyping DEF Die, RowsStay
<1>5. ASSUME NEW u \in Uploads, NEW s \in Servers, NEW n \in Names, NEW force \in BOOLEAN,
             Arrive(u, s, n, force)
      PROVE  Typing' /\ RowsStay
  BY <1>5, ArriveTyping DEF Arrive, RowsStay
<1>6. ASSUME NEW u \in Uploads, GraphStep(u) PROVE Typing' /\ RowsStay
  <2>1. CASE Refuse(u)
    BY <2>1, RefuseTyping DEF Refuse, RowsStay
  <2>2. CASE CheckExisting(u)
    BY <2>2, CheckExistingTyping DEF CheckExisting, RowsStay
  <2>3. CASE QualityGate(u)
    BY <2>3, QualityGateTyping DEF QualityGate, RowsStay
  <2>4. CASE DrawId(u)
    BY <2>4, DrawIdTyping DEF DrawId, RowsStay
  <2>5. CASE InsertMetadata(u)
    BY <2>5, InsertMetadataTyping
  <2>6. CASE UpdateAfterReupload(u)
    BY <2>6, UpdateAfterReuploadTyping
  <2>7. CASE Classify(u) \/ Reuse(u)
    BY <2>7, ClassifyTyping DEF Classify, Reuse, RowsStay
  <2>8. CASE Persist(u)
    BY <2>8, PersistTyping
  <2>9. CASE StoreFrame(u)
    BY <2>9, StoreFrameTyping DEF StoreFrame, RowsStay
  <2> QED
    BY <1>6, <2>1, <2>2, <2>3, <2>4, <2>5, <2>6, <2>7, <2>8, <2>9 DEF GraphStep
<1>7. ASSUME NEW u \in Uploads, UploadFails(u) PROVE Typing' /\ RowsStay
  BY <1>7, UploadFailsTyping DEF UploadFails, RowsStay
<1> QED
  BY <1>1, <1>2, <1>3, <1>4, <1>5, <1>6, <1>7 DEF Next

\* Every variable keeps its type; in particular an upload that writes a row
\* after its lookup finds the row there, since none is ever deleted.
THEOREM TypeCorrect == Spec => []TypeOK
<1>1. Init => Typing
  BY InitTyping
<1>2. Typing /\ [Next]_vars => Typing'
  BY NextTyping
<1>3. Typing => TypeOK
  BY DEF Typing
<1> QED
  BY <1>1, <1>2, <1>3, PTL DEF Spec

-----------------------------------------------------------------------------
(* What a step of an upload does, by which the invariants are carried.     *)

Goes(u, from, to) ==
  /\ calls[u].pc = from
  /\ calls'[u].pc = to
  /\ calls'[u].name = calls[u].name /\ calls'[u].met = calls[u].met
  /\ calls'[u].old = calls[u].old /\ calls'[u].id = calls[u].id

RowsKept == rows' = rows

Writes(i, row) ==
  /\ DOMAIN rows' = DOMAIN rows \cup {i}
  /\ rows'[i] = row
  /\ \A j \in DOMAIN rows : j # i => rows'[j] = rows[j]

Ends(u) ==
  /\ calls'[u].met = calls[u].met
  /\ \/ calls[u].pc \in {"queued", "gate"} /\ calls'[u].pc = "refused"
     \/ calls[u].pc \in Steps /\ calls'[u].pc = "failed"
  /\ RowsKept /\ sequence' = sequence

Looks(u) ==
  /\ calls[u].pc = "queued" /\ calls'[u].pc = "gate"
  /\ calls'[u].name = calls[u].name /\ calls'[u].met = UnderWay(calls[u].name)
  /\ \/ calls'[u].old = None /\ RowsNamed(calls[u].name) = {}
     \/ /\ calls'[u].id \in DOMAIN rows /\ rows[calls'[u].id].name = calls[u].name
        /\ calls'[u].old = rows[calls'[u].id].class /\ calls'[u].old # None
  /\ RowsKept /\ sequence' = sequence

Draws(u) ==
  /\ calls[u].pc = "id" /\ calls'[u].pc = "insert"
  /\ calls'[u].name = calls[u].name /\ calls'[u].met = calls[u].met
  /\ calls'[u].old = calls[u].old /\ calls'[u].id = sequence + 1
  /\ RowsKept /\ sequence' = sequence + 1

Inserts(u) ==
  /\ Goes(u, "insert", "classify")
  /\ calls[u].id \notin DOMAIN rows /\ Writes(calls[u].id, NewRow(u))
  /\ sequence' = sequence

\* The row an upload writes stays of the same name and inserter.
Rewrites(u, row) ==
  /\ calls[u].id \in DOMAIN rows /\ Writes(calls[u].id, row)
  /\ row.name = rows[calls[u].id].name /\ row.by = rows[calls[u].id].by
  /\ sequence' = sequence

Updates(u) ==
  /\ Goes(u, "update", "classify")
  /\ \E row : Rewrites(u, row) /\ row.class = rows[calls[u].id].class

Classifies(u) ==
  /\ Goes(u, "classify", "persist")
  /\ RowsKept /\ sequence' = sequence

Persists(u) ==
  /\ Goes(u, "persist", "store")
  /\ \E row : Rewrites(u, row) /\ row.class = calls[u].class

Answers(u) ==
  /\ calls[u].pc = "store" /\ calls'[u].pc = "answered" /\ calls'[u].met = calls[u].met
  /\ RowsKept /\ sequence' = sequence

Gated(u) ==
  /\ Goes(u, "gate", IF calls[u].old = None THEN "id" ELSE "update")
  /\ RowsKept /\ sequence' = sequence

Effect(u) ==
  /\ setBack' = setBack
  /\ \A v \in Uploads : v # u => calls'[v] = calls[v]
  /\ \/ Ends(u) \/ Looks(u) \/ Gated(u) \/ Draws(u) \/ Inserts(u) \/ Updates(u)
     \/ Classifies(u) \/ Persists(u) \/ Answers(u)

LEMMA EndEffect ==
  ASSUME Typing, NEW u \in Uploads, NEW pc \in {"refused", "failed"},
         calls' = [calls EXCEPT ![u] = CutShort(u, pc)],
         \/ pc = "refused" /\ calls[u].pc \in {"queued", "gate"}
         \/ pc = "failed" /\ calls[u].pc \in Steps,
         rows' = rows, sequence' = sequence, setBack' = setBack
  PROVE  Effect(u)
<1>1. CutShort(u, pc).pc = pc /\ CutShort(u, pc).met = calls[u].met
  BY CutShortIsCall DEF Typing
<1>2. calls'[u] = CutShort(u, pc) /\ \A v \in Uploads : v # u => calls'[v] = calls[v]
  BY DEF Typing, TypeOK
<1> QED
  BY <1>1, <1>2 DEF Effect, Ends, RowsKept

LEMMA MovedEffect ==
  ASSUME Typing, NEW u \in Uploads, NEW pc \in Steps,
         calls' = [calls EXCEPT ![u] = Moved(calls[u], pc)]
  PROVE  Goes(u, calls[u].pc, pc) /\ \A v \in Uploads : v # u => calls'[v] = calls[v]
<1>1. calls[u] \in Call /\ calls'[u] = Moved(calls[u], pc)
  BY DEF Typing, TypeOK
<1> QED
  BY <1>1, MovedIsCall DEF Goes, Typing, TypeOK

LEMMA CheckExistingEffect ==
  ASSUME Typing, NEW u \in Uploads, CheckExisting(u)
  PROVE  Effect(u)
<1>1. PICK i \in Nat \cup {None}, old \in Class \cup {None} :
        /\ \/ i = None /\ old = None /\ RowsNamed(calls[u].name) = {}
           \/ /\ i \in DOMAIN rows /\ rows[i].name = calls[u].name
              /\ old = rows[i].class /\ old # None
        /\ calls' = [calls EXCEPT ![u] = Found(calls[u], i, old, UnderWay(calls[u].name))]
  BY CheckExistingFinds
<1> DEFINE c == Found(calls[u], i, old, UnderWay(calls[u].name))
<1>2. calls[u] \in Call /\ calls[u].pc = "queued" /\ UnderWay(calls[u].name) \in SUBSET Uploads
  BY DEF CheckExisting, Served, Typing, TypeOK, UnderWay
<1>3. /\ c.pc = "gate" /\ c.id = i /\ c.old = old /\ c.met = UnderWay(calls[u].name)
      /\ c.name = calls[u].name
  BY <1>1, <1>2, FoundIsCall
<1>4. calls'[u] = c /\ \A v \in Uploads : v # u => calls'[v] = calls[v]
  BY <1>1 DEF Typing, TypeOK
<1> HIDE DEF c
<1>5. rows' = rows /\ sequence' = sequence /\ setBack' = setBack
  BY DEF CheckExisting
<1>6. Looks(u)
  BY <1>1, <1>2, <1>3, <1>4, <1>5 DEF Looks, RowsKept
<1> QED
  BY <1>4, <1>5, <1>6 DEF Effect

LEMMA QualityGateEffect ==
  ASSUME Typing, NEW u \in Uploads, QualityGate(u)
  PROVE  Effect(u)
<1>1. calls[u].pc = "gate" /\ rows' = rows /\ sequence' = sequence /\ setBack' = setBack
  BY DEF QualityGate, Node
<1>2. CASE calls' = [calls EXCEPT ![u] = Moved(calls[u], IF calls[u].old = None THEN "id"
                                                         ELSE "update")]
  <2>1. (IF calls[u].old = None THEN "id" ELSE "update") \in Steps
    BY DEF Steps
  <2>2. /\ Goes(u, "gate", IF calls[u].old = None THEN "id" ELSE "update")
        /\ \A v \in Uploads : v # u => calls'[v] = calls[v]
    BY <1>1, <1>2, <2>1, MovedEffect
  <2> QED
    BY <1>1, <2>2 DEF Effect, Gated, RowsKept
<1>3. CASE calls' = [calls EXCEPT ![u] = CutShort(u, "refused")]
  <2>1. calls[u].pc \in {"queued", "gate"}
    BY <1>1
  <2> QED
    BY <1>1, <1>3, <2>1, EndEffect
<1> QED
  BY <1>2, <1>3 DEF QualityGate, Node, Moved

LEMMA DrawIdEffect ==
  ASSUME Typing, NEW u \in Uploads, DrawId(u)
  PROVE  Effect(u)
<1> DEFINE c == [calls[u] EXCEPT !.pc = "insert", !.id = sequence + 1]
<1>1. calls[u] \in Call /\ calls[u].pc = "id"
  BY DEF DrawId, Node, Typing, TypeOK
<1>2. ASSUME NEW r \in Call, NEW i
      PROVE  LET d == [r EXCEPT !.pc = "insert", !.id = i] IN
             /\ d.pc = "insert" /\ d.id = i /\ d.old = r.old /\ d.name = r.name /\ d.met = r.met
  BY DEF Call
<1>3. /\ c.pc = "insert" /\ c.id = sequence + 1
      /\ c.old = calls[u].old /\ c.name = calls[u].name /\ c.met = calls[u].met
  BY <1>1, <1>2
<1>4. calls'[u] = c /\ \A v \in Uploads : v # u => calls'[v] = calls[v]
  BY DEF DrawId, Node, Typing, TypeOK
<1> HIDE DEF c
<1>5. rows' = rows /\ sequence' = sequence + 1 /\ setBack' = setBack
  BY DEF DrawId
<1>6. Draws(u)
  BY <1>1, <1>3, <1>4, <1>5 DEF Draws, RowsKept
<1> QED
  BY <1>4, <1>5, <1>6 DEF Effect

LEMMA InsertMetadataEffect ==
  ASSUME Typing, NEW u \in Uploads, InsertMetadata(u)
  PROVE  Effect(u)
<1>1. calls[u].pc = "insert" /\ sequence' = sequence /\ setBack' = setBack
  BY DEF InsertMetadata, Node
<1>2. CASE /\ calls[u].id \notin DOMAIN rows
           /\ calls' = [calls EXCEPT ![u] = Moved(calls[u], "classify")]
           /\ rows' = Put(rows, calls[u].id, NewRow(u))
  <2>1. "classify" \in Steps
    BY DEF Steps
  <2>2. Goes(u, "insert", "classify") /\ \A v \in Uploads : v # u => calls'[v] = calls[v]
    BY <1>1, <1>2, <2>1, MovedEffect
  <2>3. Writes(calls[u].id, NewRow(u))
    BY <1>2 DEF Put, Writes
  <2> QED
    BY <1>1, <1>2, <2>2, <2>3 DEF Effect, Inserts
<1>3. CASE calls' = [calls EXCEPT ![u] = CutShort(u, "failed")] /\ rows' = rows
  <2>1. calls[u].pc \in Steps
    BY <1>1 DEF Steps
  <2> QED
    BY <1>1, <1>3, <2>1, EndEffect
<1> QED
  BY <1>2, <1>3 DEF InsertMetadata, Node, Moved

LEMMA UpdateAfterReuploadEffect ==
  ASSUME Typing, NEW u \in Uploads, UpdateAfterReupload(u)
  PROVE  Effect(u)
<1> DEFINE row == [rows[calls[u].id] EXCEPT !.shape = u, !.status = "Completed"]
<1>1. calls[u].pc = "update" /\ CallKnows(u) /\ sequence' = sequence /\ setBack' = setBack
  BY DEF UpdateAfterReupload, Node, Typing
<1>2. calls[u].id \in DOMAIN rows /\ rows[calls[u].id] \in Row
  BY <1>1 DEF CallKnows, HasRow, Steps, Typing, TypeOK
<1>3. ASSUME NEW r \in Row
      PROVE  LET q == [r EXCEPT !.shape = u, !.status = "Completed"]
             IN q.name = r.name /\ q.by = r.by /\ q.class = r.class
  BY DEF Row
<1>4. /\ row.name = rows[calls[u].id].name /\ row.by = rows[calls[u].id].by
      /\ row.class = rows[calls[u].id].class
  BY <1>2, <1>3
<1>5. calls' = [calls EXCEPT ![u] = Moved(calls[u], "classify")]
  BY DEF UpdateAfterReupload, Node, Moved
<1>6. "classify" \in Steps
  BY DEF Steps
<1>7. Goes(u, "update", "classify") /\ \A v \in Uploads : v # u => calls'[v] = calls[v]
  BY <1>1, <1>5, <1>6, MovedEffect
<1>8. rows' = Put(rows, calls[u].id, row)
  BY DEF UpdateAfterReupload
<1> HIDE DEF row
<1>9. Writes(calls[u].id, row)
  BY <1>8 DEF Put, Writes
<1> QED
  BY <1>1, <1>2, <1>4, <1>7, <1>9 DEF Effect, Updates, Rewrites

LEMMA ClassifyEffect ==
  ASSUME Typing, NEW u \in Uploads, Classify(u) \/ Reuse(u)
  PROVE  Effect(u)
<1>1. PICK class, status : ClassifiesAs(u, class, status)
  BY ClassifyStep
<1> DEFINE c == ClassifiedCall(calls[u], class, status)
<1>2. calls[u] \in Call /\ calls[u].pc = "classify"
  BY DEF Classify, Reuse, Node, Typing, TypeOK
<1>3. /\ c.pc = "persist" /\ c.id = calls[u].id /\ c.old = calls[u].old
      /\ c.name = calls[u].name /\ c.met = calls[u].met
  BY <1>1, <1>2, ClassifiedIsCall DEF ClassifiesAs
<1>4. calls'[u] = c /\ \A v \in Uploads : v # u => calls'[v] = calls[v]
  BY <1>1 DEF ClassifiesAs, Typing, TypeOK
<1> HIDE DEF c
<1>5. rows' = rows /\ sequence' = sequence /\ setBack' = setBack
  BY DEF Classify, Reuse
<1> QED
  BY <1>2, <1>3, <1>4, <1>5 DEF Effect, Classifies, Goes, RowsKept

LEMMA PersistEffect ==
  ASSUME Typing, NEW u \in Uploads, Persist(u)
  PROVE  Effect(u)
<1> DEFINE row == Classified(rows[calls[u].id], u)
<1>1. calls[u].pc = "persist" /\ CallKnows(u) /\ sequence' = sequence /\ setBack' = setBack
  BY DEF Persist, Node, Typing
<1>2. calls[u].id \in DOMAIN rows /\ rows[calls[u].id] \in Row
  BY <1>1 DEF CallKnows, HasRow, Steps, Typing, TypeOK
<1>3. ASSUME NEW r \in Row, NEW class, NEW status
      PROVE  LET q == [r EXCEPT !.class = class, !.status = status, !.quality = u]
             IN q.name = r.name /\ q.by = r.by /\ q.class = class
  BY DEF Row
<1>4. /\ row.name = rows[calls[u].id].name /\ row.by = rows[calls[u].id].by
      /\ row.class = calls[u].class
  BY <1>2, <1>3 DEF Classified
<1>5. calls' = [calls EXCEPT ![u] = Moved(calls[u], "store")]
  BY DEF Persist, Node, Moved
<1>6. "store" \in Steps
  BY DEF Steps
<1>7. Goes(u, "persist", "store") /\ \A v \in Uploads : v # u => calls'[v] = calls[v]
  BY <1>1, <1>5, <1>6, MovedEffect
<1>8. rows' = Put(rows, calls[u].id, row)
  BY DEF Persist
<1> HIDE DEF row
<1>9. Writes(calls[u].id, row)
  BY <1>8 DEF Put, Writes
<1> QED
  BY <1>1, <1>2, <1>4, <1>7, <1>9 DEF Effect, Persists, Rewrites

LEMMA StoreFrameEffect ==
  ASSUME Typing, NEW u \in Uploads, StoreFrame(u)
  PROVE  Effect(u)
<1>1. calls[u] \in Call /\ calls[u].pc = "store"
  BY DEF StoreFrame, Node, Typing, TypeOK
<1>2. calls' = [calls EXCEPT ![u] = AnsweredCall(calls[u])]
  BY DEF StoreFrame, Node, AnsweredCall
<1>3. calls'[u] = AnsweredCall(calls[u]) /\ \A v \in Uploads : v # u => calls'[v] = calls[v]
  BY <1>2 DEF Typing, TypeOK
<1> QED
  BY <1>1, <1>3, AnsweredIsCall DEF StoreFrame, Effect, Answers, RowsKept

LEMMA StepEffect ==
  ASSUME Typing, NEW u \in Uploads, GraphStep(u) \/ UploadFails(u)
  PROVE  Effect(u)
<1>1. CASE Refuse(u)
  <2>1. calls[u].pc \in {"queued", "gate"}
    BY <1>1 DEF Refuse, Served
  <2> QED
    BY <1>1, <2>1, EndEffect DEF Refuse, Node
<1>2. CASE UploadFails(u)
  <2>1. calls[u].pc \in Steps
    BY <1>2 DEF UploadFails
  <2> QED
    BY <1>2, <2>1, EndEffect DEF UploadFails, Node
<1> QED
  BY <1>1, <1>2, CheckExistingEffect, QualityGateEffect, DrawIdEffect, InsertMetadataEffect,
     UpdateAfterReuploadEffect, ClassifyEffect, PersistEffect, StoreFrameEffect DEF GraphStep

\* A step of a process, or an arrival: calls are accepted or lost, rows stay.
Aside ==
  /\ RowsKept
  /\ (setBack' = setBack /\ sequence' >= sequence) \/ setBack'
  /\ \A v \in Uploads :
       \/ calls'[v] = calls[v]
       \/ /\ calls[v].pc = "idle" /\ calls'[v].pc = "queued" /\ calls'[v].met = calls[v].met
       \/ /\ calls[v].pc \in Steps \cup {"queued"} /\ calls'[v].pc = "lost"
          /\ calls'[v].met = calls[v].met

LEMMA NextEffect ==
  ASSUME Typing, [Next]_vars
  PROVE  Aside \/ \E u \in Uploads : Effect(u)
<1>1. CASE UNCHANGED vars
  BY <1>1 DEF vars, Aside, RowsKept, Typing, TypeOK
<1>2. ASSUME NEW s \in Servers, ReadSequence(s) PROVE Aside
  BY <1>2 DEF ReadSequence, Aside, RowsKept, Typing, TypeOK
<1>3. ASSUME NEW s \in Servers, SetSequence(s) PROVE Aside
  <2>1. server[s].seed \in Nat /\ sequence \in Nat /\ setBack \in BOOLEAN
    BY DEF Typing, TypeOK
  <2>2. sequence' = server[s].seed /\ setBack' = (setBack \/ server[s].seed < sequence)
    BY <1>3 DEF SetSequence
  <2>3. CASE server[s].seed < sequence
    BY <1>3, <2>2, <2>3 DEF SetSequence, Aside, RowsKept
  <2>4. CASE server[s].seed >= sequence
    <3>1. ~(server[s].seed < sequence) /\ sequence' >= sequence
      BY <2>1, <2>2, <2>4
    <3>2. setBack' = setBack
      BY <2>1, <2>2, <3>1
    <3> QED
      BY <1>3, <3>1, <3>2 DEF SetSequence, Aside, RowsKept
  <2> QED
    BY <2>1, <2>3, <2>4
<1>4. ASSUME NEW s \in Servers, Die(s) PROVE Aside
  <2>1. ASSUME NEW v \in Uploads
        PROVE  \/ calls'[v] = calls[v]
               \/ /\ calls[v].pc \in Steps \cup {"queued"} /\ calls'[v].pc = "lost"
                  /\ calls'[v].met = calls[v].met
    BY <1>4, CutShortIsCall DEF Die, Typing
  <2> QED
    BY <1>4, <2>1 DEF Die, Aside, RowsKept, Typing, TypeOK
<1>5. ASSUME NEW u \in Uploads, NEW s \in Servers, NEW n \in Names, NEW force \in BOOLEAN,
             Arrive(u, s, n, force)
      PROVE  Aside
  <2> DEFINE c == [NotStarted EXCEPT !.pc = "queued", !.server = s, !.name = n, !.force = force]
  <2>1. c.pc = "queued" /\ c.met = {}
    BY NotStartedIsCall DEF NotStarted
  <2>2. calls'[u] = c /\ \A v \in Uploads : v # u => calls'[v] = calls[v]
    BY <1>5 DEF Arrive, Typing, TypeOK
  <2> HIDE DEF c
  <2>3. calls[u].pc = "idle" /\ calls[u].met = {}
    BY <1>5 DEF Arrive, Typing, CallKnows
  <2>4. rows' = rows /\ setBack' = setBack /\ sequence' >= sequence
    BY <1>5 DEF Arrive, Typing, TypeOK
  <2> QED
    BY <2>1, <2>2, <2>3, <2>4 DEF Aside, RowsKept
<1> QED
  BY <1>1, <1>2, <1>3, <1>4, <1>5, StepEffect DEF Next

-----------------------------------------------------------------------------
(* Ids.                                                                    *)

\* Ids are drawn upward from everything that was ever drawn or stored.
IdsAscend ==
  /\ \A i \in DOMAIN rows : i <= sequence
  /\ \A u \in Uploads : calls[u].pc = "insert" =>
       calls[u].id <= sequence /\ calls[u].id \notin DOMAIN rows
  /\ \A u, v \in Uploads :
       u # v /\ calls[u].pc = "insert" /\ calls[v].pc = "insert" => calls[u].id # calls[v].id

IdInv == setBack \/ IdsAscend

\* Steps that draw no id and insert no row.
LEMMA KeptIds ==
  ASSUME Typing, IdInv, sequence' \in Nat,
         (setBack' = setBack /\ sequence' >= sequence) \/ setBack',
         DOMAIN rows' = DOMAIN rows,
         \A v \in Uploads : calls'[v] = calls[v] \/ calls'[v].pc # "insert"
  PROVE  IdInv'
<1>1. ASSUME IdsAscend, sequence' >= sequence PROVE IdsAscend'
  <2>1. \A i \in DOMAIN rows : i \in Nat
    BY DEF Typing, TypeOK
  <2>2. \A v \in Uploads : calls[v].pc = "insert" => calls[v].id \in Nat
    BY DEF Typing, CallKnows
  <2>3. sequence \in Nat
    BY DEF Typing, TypeOK
  <2>4. \A v \in Uploads : calls'[v].pc = "insert" => calls'[v] = calls[v]
    OBVIOUS
  <2> QED
    BY <1>1, <2>1, <2>2, <2>3, <2>4 DEF IdsAscend
<1> QED
  BY <1>1 DEF IdInv

LEMMA EffectKeepsIds ==
  ASSUME Typing, IdInv, NEW u \in Uploads, Effect(u), sequence' \in Nat
  PROVE  IdInv'
<1>1. CASE Draws(u)
  <2>1. ASSUME IdsAscend PROVE IdsAscend'
    <3>1. /\ \A v \in Uploads : v # u => calls'[v] = calls[v]
          /\ calls'[u].id = sequence + 1 /\ rows' = rows /\ sequence' = sequence + 1
      BY <1>1 DEF Draws, Effect, RowsKept
    <3>2. sequence \in Nat /\ \A i \in DOMAIN rows : i \in Nat
      BY DEF Typing, TypeOK
    <3>3. \A v \in Uploads : calls[v].pc = "insert" => calls[v].id \in Nat
      BY DEF Typing, CallKnows
    <3> QED
      BY <2>1, <3>1, <3>2, <3>3 DEF IdsAscend
  <2> QED
    BY <1>1, <2>1 DEF IdInv, Effect
<1>2. CASE Inserts(u)
  <2>1. ASSUME IdsAscend PROVE IdsAscend'
    <3>1. /\ \A v \in Uploads : v # u => calls'[v] = calls[v]
          /\ calls[u].pc = "insert" /\ calls'[u].pc = "classify"
          /\ DOMAIN rows' = DOMAIN rows \cup {calls[u].id} /\ sequence' = sequence
      BY <1>2 DEF Inserts, Goes, Writes, Effect
    <3> QED
      BY <2>1, <3>1 DEF IdsAscend
  <2> QED
    BY <1>2, <2>1 DEF IdInv, Effect
<1>3. CASE Updates(u) \/ Persists(u)
  <2>1. DOMAIN rows' = DOMAIN rows /\ sequence' = sequence /\ calls'[u].pc # "insert"
    BY <1>3 DEF Updates, Persists, Rewrites, Writes, Goes
  <2> QED
    BY <2>1, KeptIds DEF Effect, Typing, TypeOK
<1>4. CASE Ends(u) \/ Looks(u) \/ Gated(u) \/ Classifies(u) \/ Answers(u)
  <2>1. rows' = rows /\ sequence' = sequence /\ calls'[u].pc # "insert"
    BY <1>4 DEF Ends, Looks, Gated, Classifies, Answers, Goes, RowsKept
  <2> QED
    BY <2>1, KeptIds DEF Effect, Typing, TypeOK
<1> QED
  BY <1>1, <1>2, <1>3, <1>4 DEF Effect

\* On any number of processes that come and go, get_next_dataset_id hands out
\* ids that no row and no other upload has, unless a start set the sequence back.
THEOREM IdsAreNew == Spec => []NoIdClash
<1>1. Init => Typing /\ IdInv
  BY InitTyping DEF Init, IdInv, IdsAscend, NotStarted, NoIds
<1>2. ASSUME Typing, IdInv, [Next]_vars PROVE Typing' /\ IdInv'
  <2>1. Typing' /\ sequence' \in Nat
    BY <1>2, NextTyping DEF Typing, TypeOK
  <2>2. CASE Aside
    <3>1. \A v \in Uploads : calls'[v] = calls[v] \/ calls'[v].pc # "insert"
      BY <2>2 DEF Aside
    <3> QED
      BY <1>2, <2>1, <2>2, <3>1, KeptIds DEF Aside, RowsKept
  <2> QED
    BY <1>2, <2>1, <2>2, NextEffect, EffectKeepsIds
<1>3. IdInv => NoIdClash
  BY DEF IdInv, IdsAscend, NoIdClash
<1> QED
  BY <1>1, <1>2, <1>3, PTL DEF Spec

-----------------------------------------------------------------------------
(* Names.                                                                  *)

\* Two uploads of a name that are both under way have met.
CompanyMet ==
  \A u, v \in Uploads :
    u # v /\ calls[u].pc \in Steps /\ calls[v].pc \in Steps /\ calls[u].name = calls[v].name
      => Overlap(u, v)

\* An upload about to insert has met whoever inserted a row of its name.
InsertersMet ==
  \A u \in Uploads : calls[u].pc \in {"gate", "id", "insert"} /\ calls[u].old = None =>
    \A j \in DOMAIN rows : rows[j].name = calls[u].name => Overlap(u, rows[j].by)

OverlapInv == CompanyMet /\ InsertersMet /\ SecondRowNeedsOverlap

\* Whom an upload has met is never forgotten.
LEMMA MetStays ==
  ASSUME Typing, Aside \/ \E u \in Uploads : Effect(u)
  PROVE  \A v, w : v \in Uploads /\ w \in Uploads /\ Overlap(v, w) => Overlap(v, w)'
<1>1. ASSUME NEW u \in Uploads, Effect(u) PROVE calls[u].met \subseteq calls'[u].met
  <2>1. CASE Looks(u)
    <3>1. calls[u].met = {}
      BY <2>1 DEF Looks, Typing, CallKnows
    <3> QED
      BY <3>1
  <2>2. CASE ~Looks(u)
    BY <1>1, <2>2 DEF Effect, Ends, Gated, Draws, Inserts, Updates, Classifies, Persists, Answers, Goes
  <2> QED
    BY <2>1, <2>2
<1>2. ASSUME NEW v \in Uploads PROVE calls[v].met \subseteq calls'[v].met
  <2>1. CASE Aside
    BY <2>1 DEF Aside
  <2>2. CASE \E u \in Uploads : Effect(u)
    BY <1>1, <2>2 DEF Effect
  <2> QED
    BY <2>1, <2>2
<1> QED
  BY <1>2 DEF Overlap

LEMMA AsideKeepsOverlaps ==
  ASSUME Typing, OverlapInv, Aside
  PROVE  OverlapInv'
<1>1. \A v, w : v \in Uploads /\ w \in Uploads /\ Overlap(v, w) => Overlap(v, w)'
  BY MetStays
<1>2. \A v \in Uploads : calls'[v] = calls[v] \/ calls'[v].pc \in {"queued", "lost"}
  BY DEF Aside
<1>3. rows' = rows /\ \A i \in DOMAIN rows : rows[i].by \in Uploads
  BY DEF Aside, RowsKept, Typing, TypeOK, Row
<1>4. CompanyMet'
  BY <1>1, <1>2 DEF OverlapInv, CompanyMet, Steps
<1>5. InsertersMet'
  BY <1>1, <1>2, <1>3 DEF OverlapInv, InsertersMet
<1>6. SecondRowNeedsOverlap'
  BY <1>1, <1>3 DEF OverlapInv, SecondRowNeedsOverlap
<1> QED
  BY <1>4, <1>5, <1>6 DEF OverlapInv

LEMMA EffectKeepsOverlaps ==
  ASSUME Typing, OverlapInv, NEW u \in Uploads, Effect(u)
  PROVE  OverlapInv'
<1>1. \A v, w : v \in Uploads /\ w \in Uploads /\ Overlap(v, w) => Overlap(v, w)'
  BY MetStays
<1>2. \A v \in Uploads : v # u => calls'[v] = calls[v]
  BY DEF Effect
<1>3. \A i \in DOMAIN rows : rows[i].by \in Uploads
  BY DEF Typing, TypeOK, Row
<1>4. \/ calls[u].pc \in Steps /\ calls'[u].name = calls[u].name
      \/ Looks(u)
      \/ calls'[u].pc \notin Steps
  BY DEF Effect, Ends, Gated, Draws, Inserts, Updates, Classifies, Persists, Answers, Goes, Steps
<1>5. CompanyMet'
  <2>1. CASE Looks(u)
    <3>1. \A v \in Uploads : v # u /\ calls[v].pc \in Steps /\ calls[v].name = calls'[u].name =>
            v \in calls'[u].met
      BY <2>1 DEF Looks, UnderWay
    <3> QED
      BY <1>1, <1>2, <3>1 DEF OverlapInv, CompanyMet, Overlap
  <2>2. CASE ~Looks(u)
    BY <1>1, <1>2, <1>4, <2>2 DEF OverlapInv, CompanyMet
  <2> QED
    BY <2>1, <2>2
<1>6. CASE Inserts(u)
  <2>1. /\ calls[u].pc = "insert" /\ calls'[u].pc = "classify" /\ calls[u].old = None
        /\ calls[u].id \notin DOMAIN rows
    BY <1>6 DEF Inserts, Goes, Typing, CallKnows
  <2>2. /\ DOMAIN rows' = DOMAIN rows \cup {calls[u].id}
        /\ rows'[calls[u].id].name = calls[u].name /\ rows'[calls[u].id].by = u
        /\ \A j \in DOMAIN rows : rows'[j] = rows[j]
    BY <1>6, <2>1 DEF Inserts, Writes, NewRow
  <2>3. \A j \in DOMAIN rows : rows[j].name = calls[u].name => Overlap(u, rows[j].by)'
    BY <1>1, <1>3, <2>1, <2>2 DEF OverlapInv, InsertersMet
  <2>4. SecondRowNeedsOverlap'
    <3>1. ASSUME NEW i \in DOMAIN rows, NEW j \in DOMAIN rows, i # j, rows[i].name = rows[j].name
          PROVE  Overlap(rows[i].by, rows[j].by)'
      BY <1>1, <1>3, <3>1, <2>2 DEF OverlapInv, SecondRowNeedsOverlap
    <3> QED
      BY <2>1, <2>2, <2>3, <3>1 DEF SecondRowNeedsOverlap, Overlap
  <2>5. InsertersMet'
    <3>1. ASSUME NEW v \in Uploads, calls'[v].pc \in {"gate", "id", "insert"}, calls'[v].old = None,
                 NEW j \in DOMAIN rows', rows'[j].name = calls'[v].name
          PROVE  Overlap(v, rows[j].by)'
      <4>1. v # u /\ calls'[v] = calls[v]
        BY <1>2, <2>1, <3>1
      <4>2. CASE j \in DOMAIN rows
        BY <1>1, <1>3, <2>2, <3>1, <4>1, <4>2 DEF OverlapInv, InsertersMet
      <4>3. CASE j = calls[u].id
        <5>1. Overlap(v, u)
          BY <2>1, <2>2, <3>1, <4>1, <4>3 DEF OverlapInv, CompanyMet, Steps
        <5> QED
          BY <1>1, <2>2, <4>3, <5>1
      <4> QED
        BY <2>2, <4>2, <4>3
    <3> QED
      BY <3>1 DEF InsertersMet
  <2> QED
    BY <1>5, <2>4, <2>5 DEF OverlapInv
<1>7. CASE ~Inserts(u)
  <2>1. /\ DOMAIN rows' = DOMAIN rows
        /\ \A i \in DOMAIN rows : rows'[i].name = rows[i].name /\ rows'[i].by = rows[i].by
    BY <1>7 DEF Effect, Ends, Looks, Gated, Draws, Updates, Classifies, Persists, Answers,
                RowsKept, Rewrites, Writes
  <2>2. SecondRowNeedsOverlap'
    BY <1>1, <1>3, <2>1 DEF OverlapInv, SecondRowNeedsOverlap
  <2>3. CASE calls'[u].pc \notin {"gate", "id", "insert"} \/ calls'[u].old # None
    BY <1>1, <1>2, <1>3, <2>1, <2>3, <2>2, <1>5 DEF OverlapInv, InsertersMet
  <2>4. CASE Looks(u) /\ calls'[u].old = None
    <3>1. \A j \in DOMAIN rows : rows[j].name # calls'[u].name
      BY <2>4 DEF Looks, RowsNamed
    <3>2. InsertersMet'
      BY <1>1, <1>2, <1>3, <2>1, <3>1 DEF OverlapInv, InsertersMet
    <3> QED
      BY <1>5, <2>2, <3>2 DEF OverlapInv
  <2>5. CASE calls[u].pc \in {"gate", "id"} /\ calls'[u].old = calls[u].old
             /\ calls'[u].name = calls[u].name
    BY <1>1, <1>2, <1>3, <2>1, <2>5, <2>2, <1>5 DEF OverlapInv, InsertersMet
  <2> QED
    BY <1>7, <2>3, <2>4, <2>5 DEF Effect, Ends, Looks, Gated, Draws, Updates, Classifies,
                                  Persists, Answers, Goes
<1> QED
  BY <1>6, <1>7

\* check_existing_dataset finds the row of every upload that was over before:
\* a name has a second row only if the two that inserted them overlapped.
THEOREM SecondRowsOverlapped == Spec => []SecondRowNeedsOverlap
<1>1. Init => Typing /\ OverlapInv
  BY InitTyping DEF Init, OverlapInv, CompanyMet, InsertersMet, SecondRowNeedsOverlap,
                    NotStarted, NoIds, Steps
<1>2. ASSUME Typing, OverlapInv, [Next]_vars PROVE Typing' /\ OverlapInv'
  BY <1>2, NextTyping, NextEffect, AsideKeepsOverlaps, EffectKeepsOverlaps
<1>3. OverlapInv => SecondRowNeedsOverlap
  BY DEF OverlapInv
<1> QED
  BY <1>1, <1>2, <1>3, PTL DEF Spec

-----------------------------------------------------------------------------
(* Missing classifications.                                                *)

\* What explains a row's missing classification.
Caused(i) ==
  \/ calls[rows[i].by].pc \in {"failed", "lost"}
  \/ \E w \in Uploads : Overlap(rows[i].by, w)

\* The upload that inserted a row, if it is not over, is at work on that row.
InserterAtWork ==
  \A i \in DOMAIN rows :
    LET c == calls[rows[i].by] IN
    /\ c.pc \in {"classify", "persist", "store", "answered", "failed", "lost"}
    /\ c.pc \in {"classify", "persist", "store"} => c.id = i /\ c.old = None /\ c.name = rows[i].name

\* A pending row, and a pending classification read off one, have a cause.
PendingRowCaused ==
  \A i \in DOMAIN rows : rows[i].class = Pending =>
    Caused(i) \/ calls[rows[i].by].pc \in {"classify", "persist"}

PendingReadCaused ==
  \A u \in Uploads :
    calls[u].pc \in {"gate", "update", "classify", "persist"} /\ calls[u].old = Pending =>
      Caused(calls[u].id)

PendingInv == InserterAtWork /\ PendingRowCaused /\ PendingReadCaused /\ PendingHasACause

LEMMA CauseStays ==
  ASSUME Typing, RowsStay, Aside \/ \E u \in Uploads : Effect(u)
  PROVE  \A i : i \in DOMAIN rows /\ Caused(i) => Caused(i)'
<1>1. \A v, w : v \in Uploads /\ w \in Uploads /\ Overlap(v, w) => Overlap(v, w)'
  BY MetStays
<1>2. ASSUME NEW v \in Uploads, calls[v].pc \in {"failed", "lost"}
      PROVE  calls'[v].pc \in {"failed", "lost"}
  <2>1. CASE Aside
    BY <1>2, <2>1 DEF Aside, Steps
  <2>2. ASSUME NEW u \in Uploads, Effect(u)
        PROVE  calls'[v].pc \in {"failed", "lost"}
    <3>1. calls[u].pc \in Steps \cup {"queued"}
      BY <2>2 DEF Effect, Ends, Looks, Gated, Draws, Inserts, Updates, Classifies, Persists,
                  Answers, Goes, Steps
    <3>2. u # v
      BY <1>2, <3>1 DEF Steps
    <3> QED
      BY <1>2, <2>2, <3>2 DEF Effect
  <2> QED
    BY <2>1, <2>2
<1>3. \A i \in DOMAIN rows : rows[i].by \in Uploads /\ i \in DOMAIN rows' /\ rows'[i].by = rows[i].by
  BY DEF RowsStay, Typing, TypeOK, Row
<1> QED
  BY <1>1, <1>2, <1>3 DEF Caused

\* An upload that is over has answered, failed or been lost; one that moved on
\* without writing keeps what is known of the rows.
LEMMA KeptPending ==
  ASSUME Typing, PendingInv, rows' = rows,
         \A i : i \in DOMAIN rows /\ Caused(i) => Caused(i)',
         \A v, w : v \in Uploads /\ w \in Uploads /\ Overlap(v, w) => Overlap(v, w)',
         \A v \in Uploads :
           \/ calls'[v] = calls[v]
           \/ calls[v].pc \in Steps /\ calls'[v].pc \in {"failed", "lost"}
           \/ /\ calls[v].pc \in {"idle", "queued", "gate"}
              /\ calls'[v].pc \in {"queued", "lost", "refused"}
  PROVE  PendingInv'
<1>1. \A i \in DOMAIN rows : rows[i].by \in Uploads
  BY DEF Typing, TypeOK, Row
<1>2. InserterAtWork'
  BY <1>1 DEF PendingInv, InserterAtWork, Steps
<1>3. PendingRowCaused'
  <2>1. ASSUME NEW i \in DOMAIN rows, rows[i].class = Pending,
               ~(Caused(i)')
        PROVE  calls'[rows[i].by].pc \in {"classify", "persist"}
    <3>1. calls[rows[i].by].pc \in {"classify", "persist"}
      BY <2>1 DEF PendingInv, PendingRowCaused
    <3>2. calls'[rows[i].by].pc \notin {"failed", "lost"}
      BY <2>1 DEF Caused
    <3> QED
      BY <1>1, <3>1, <3>2 DEF Steps
  <2> QED
    BY <2>1 DEF PendingRowCaused
<1>4. PendingReadCaused'
  <2>1. ASSUME NEW v \in Uploads, calls'[v].pc \in {"gate", "update", "classify", "persist"},
               calls'[v].old = Pending
        PROVE  Caused(calls[v].id)'
    <3>1. calls'[v] = calls[v]
      BY <2>1
    <3>2. Pending # None
      BY NotStartedIsCall, NoneIsNoClass
    <3>3. calls[v].id \in DOMAIN rows
      BY <2>1, <3>1, <3>2 DEF Typing, CallKnows, HasRow
    <3> QED
      BY <2>1, <3>1, <3>3 DEF PendingInv, PendingReadCaused, Caused
  <2> QED
    BY <2>1 DEF PendingReadCaused
<1>5. PendingHasACause'
  BY <1>1 DEF PendingInv, PendingHasACause, InserterAtWork, Caused
<1> QED
  BY <1>2, <1>3, <1>4, <1>5 DEF PendingInv

\* Nothing read off the catalogue is None, and whose it is names an upload.
LEMMA ReadFacts ==
  ASSUME Typing
  PROVE  /\ Pending # None
         /\ \A i \in DOMAIN rows : rows[i].by \in Uploads
         /\ \A v \in Uploads :
              /\ calls[v].pc \in {"gate", "update", "classify", "persist"} /\ calls[v].old = Pending
                   => calls[v].id \in DOMAIN rows
              /\ calls[v].pc \in {"id", "insert"} => calls[v].old = None
<1>1. Pending # None
  BY NotStartedIsCall, NoneIsNoClass
<1>2. \A i \in DOMAIN rows : rows[i].by \in Uploads
  BY DEF Typing, TypeOK, Row
<1> QED
  BY <1>1, <1>2 DEF Typing, CallKnows, HasRow

LEMMA LooksKeepsPending ==
  ASSUME Typing, RowsStay, PendingInv, NEW u \in Uploads, Effect(u), Looks(u)
  PROVE  PendingInv'
<1>1. \A v \in Uploads : v # u => calls'[v] = calls[v]
  BY DEF Effect
<1>2. \A i : i \in DOMAIN rows /\ Caused(i) => Caused(i)'
  BY CauseStays
<1>3. rows' = rows /\ calls[u].pc = "queued" /\ calls'[u].pc = "gate"
  BY DEF Looks, RowsKept
<1>4. \A i \in DOMAIN rows : rows[i].by \in Uploads /\ rows[i].by # u
  BY <1>3, ReadFacts DEF PendingInv, InserterAtWork
<1>5. InserterAtWork'
  BY <1>1, <1>3, <1>4 DEF PendingInv, InserterAtWork
<1>6. PendingRowCaused'
  BY <1>1, <1>2, <1>3, <1>4 DEF PendingInv, PendingRowCaused
<1>7. PendingHasACause'
  BY <1>2, <1>3 DEF PendingInv, PendingHasACause, Caused
<1>8. ASSUME NEW v \in Uploads, calls'[v].pc \in {"gate", "update", "classify", "persist"},
             calls'[v].old = Pending, NEW i, i = calls'[v].id
      PROVE  Caused(i)'
  <2>1. CASE v # u
    BY <1>1, <1>2, <1>8, <2>1, ReadFacts DEF PendingInv, PendingReadCaused
  <2>2. CASE v = u
    <3>1. i \in DOMAIN rows /\ rows[i].class = Pending /\ rows[i].name = calls[u].name
      BY <1>8, <2>2, ReadFacts DEF Looks
    <3>2. CASE Caused(i)
      BY <1>2, <3>1, <3>2
    <3>3. CASE calls[rows[i].by].pc \in {"classify", "persist"}
      <4>1. calls[rows[i].by].name = calls[u].name
        BY <3>1, <3>3 DEF PendingInv, InserterAtWork
      <4>2. rows[i].by \in calls'[u].met
        BY <1>4, <3>1, <3>3, <4>1 DEF Looks, UnderWay, Steps
      <4> QED
        BY <1>3, <1>4, <3>1, <4>2 DEF Caused, Overlap
    <3> QED
      BY <3>1, <3>2, <3>3 DEF PendingInv, PendingRowCaused
  <2> QED
    BY <2>1, <2>2
<1>9. PendingReadCaused'
  BY <1>8 DEF PendingReadCaused
<1> QED
  BY <1>5, <1>6, <1>7, <1>9 DEF PendingInv

LEMMA MovesKeepPending ==
  ASSUME Typing, RowsStay, PendingInv, NEW u \in Uploads, Effect(u),
         Gated(u) \/ Draws(u) \/ Classifies(u) \/ Answers(u)
  PROVE  PendingInv'
<1>1. \A v \in Uploads : v # u => calls'[v] = calls[v]
  BY DEF Effect
<1>2. \A i : i \in DOMAIN rows /\ Caused(i) => Caused(i)'
  BY CauseStays
<1>3. /\ rows' = rows
      /\ \/ /\ calls[u].pc \in {"gate", "id", "insert"}
            /\ calls'[u].pc \in {"id", "insert", "update"}
         \/ calls[u].pc = "classify" /\ calls'[u].pc = "persist"
         \/ calls[u].pc = "store" /\ calls'[u].pc = "answered"
  BY DEF Gated, Draws, Classifies, Answers, Goes, RowsKept
<1>4. calls'[u].pc \in {"update", "persist"} =>
        /\ calls[u].pc \in {"gate", "classify"} /\ calls'[u].old = calls[u].old
        /\ calls'[u].id = calls[u].id /\ calls'[u].name = calls[u].name
  BY DEF Gated, Draws, Classifies, Answers, Goes
<1>5. InserterAtWork'
  BY <1>1, <1>3, <1>4, ReadFacts DEF PendingInv, InserterAtWork
<1>6. PendingRowCaused'
  <2>1. ASSUME NEW i \in DOMAIN rows, rows[i].class = Pending, ~Caused(i)
        PROVE  calls'[rows[i].by].pc \in {"classify", "persist"}
    <3>1. calls[rows[i].by].pc \in {"classify", "persist"}
      BY <2>1 DEF PendingInv, PendingRowCaused
    <3> QED
      BY <1>1, <1>3, <3>1, ReadFacts
  <2> QED
    BY <1>2, <1>3, <2>1 DEF PendingRowCaused
<1>7. PendingHasACause'
  BY <1>2, <1>3 DEF PendingInv, PendingHasACause, Caused
<1>8. ASSUME NEW v \in Uploads, calls'[v].pc \in {"gate", "update", "classify", "persist"},
             calls'[v].old = Pending, NEW i, i = calls'[v].id
      PROVE  Caused(i)'
  <2>1. /\ calls[v].pc \in {"gate", "update", "classify", "persist"} /\ calls[v].old = Pending
        /\ i = calls[v].id
    BY <1>1, <1>3, <1>4, <1>8
  <2> QED
    BY <1>2, <2>1, ReadFacts DEF PendingInv, PendingReadCaused
<1>9. PendingReadCaused'
  BY <1>8 DEF PendingReadCaused
<1> QED
  BY <1>5, <1>6, <1>7, <1>9 DEF PendingInv

LEMMA InsertsKeepsPending ==
  ASSUME Typing, RowsStay, PendingInv, NEW u \in Uploads, Effect(u), Inserts(u)
  PROVE  PendingInv'
<1>1. \A v \in Uploads : v # u => calls'[v] = calls[v]
  BY DEF Effect
<1>2. \A i : i \in DOMAIN rows /\ Caused(i) => Caused(i)'
  BY CauseStays
<1>3. /\ calls[u].pc = "insert" /\ calls'[u].pc = "classify"
      /\ calls'[u].id = calls[u].id /\ calls'[u].old = None /\ calls'[u].name = calls[u].name
      /\ calls[u].id \notin DOMAIN rows
  BY ReadFacts DEF Inserts, Goes
<1>4. /\ DOMAIN rows' = DOMAIN rows \cup {calls[u].id}
      /\ rows'[calls[u].id].by = u /\ rows'[calls[u].id].name = calls[u].name
      /\ rows'[calls[u].id].status = "Processing"
      /\ \A j \in DOMAIN rows : rows'[j] = rows[j]
  BY <1>3 DEF Inserts, Writes, NewRow
<1>5. \A i \in DOMAIN rows : rows[i].by \in Uploads /\ rows[i].by # u
  BY <1>3, ReadFacts DEF PendingInv, InserterAtWork
<1>6. InserterAtWork'
  BY <1>1, <1>3, <1>4, <1>5 DEF PendingInv, InserterAtWork
<1>7. PendingRowCaused'
  BY <1>1, <1>2, <1>3, <1>4, <1>5 DEF PendingInv, PendingRowCaused
<1>8. PendingHasACause'
  <2>1. ASSUME NEW i \in DOMAIN rows, rows[i].status = "Completed", rows[i].class = Pending
        PROVE  Caused(i)'
    BY <1>2, <2>1 DEF PendingInv, PendingHasACause, Caused
  <2> QED
    BY <1>4, <2>1 DEF PendingHasACause, Caused
<1>9. ASSUME NEW v \in Uploads, calls'[v].pc \in {"gate", "update", "classify", "persist"},
             calls'[v].old = Pending, NEW i, i = calls'[v].id
      PROVE  Caused(i)'
  <2>1. v # u
    BY <1>3, <1>9, ReadFacts
  <2> QED
    BY <1>1, <1>2, <1>9, <2>1, ReadFacts DEF PendingInv, PendingReadCaused
<1>10. PendingReadCaused'
  BY <1>9 DEF PendingReadCaused
<1> QED
  BY <1>6, <1>7, <1>8, <1>10 DEF PendingInv

\* A write to a row that is not pending afterwards, or has a cause.
LEMMA RewriteKeepsPending ==
  ASSUME Typing, RowsStay, PendingInv, NEW u \in Uploads, Effect(u), NEW row,
         Rewrites(u, row),
         Goes(u, "update", "classify") \/ Goes(u, "persist", "store"),
         row.class = Pending =>
           \/ Caused(calls[u].id)
           \/ /\ calls[u].pc = "update" /\ calls[rows[calls[u].id].by].pc \in {"classify", "persist"}
              /\ Overlap(rows[calls[u].id].by, u)
  PROVE  PendingInv'
<1>1. \A v \in Uploads : v # u => calls'[v] = calls[v]
  BY DEF Effect
<1>2. \A i : i \in DOMAIN rows /\ Caused(i) => Caused(i)'
  BY CauseStays
<1>3. \A v, w : v \in Uploads /\ w \in Uploads /\ Overlap(v, w) => Overlap(v, w)'
  BY MetStays
<1>4. PICK i \in DOMAIN rows : i = calls[u].id
  BY DEF Rewrites
<1>5. /\ DOMAIN rows' = DOMAIN rows
      /\ rows'[i] = row /\ row.name = rows[i].name /\ row.by = rows[i].by
      /\ \A j \in DOMAIN rows : j # i => rows'[j] = rows[j]
  BY <1>4 DEF Rewrites, Writes
<1>6. /\ calls'[u].id = i /\ calls'[u].old = calls[u].old /\ calls'[u].name = calls[u].name
      /\ calls[u].pc \in {"update", "persist"} /\ calls'[u].pc \in {"classify", "store"}
      /\ calls[u].pc = "update" <=> calls'[u].pc = "classify"
  BY <1>4 DEF Goes
<1>7. \A j \in DOMAIN rows : rows[j].by \in Uploads
  BY ReadFacts
<1>8. InserterAtWork'
  <2>1. ASSUME NEW j \in DOMAIN rows
        PROVE  LET c == calls'[rows[j].by] IN
               /\ c.pc \in {"classify", "persist", "store", "answered", "failed", "lost"}
               /\ c.pc \in {"classify", "persist", "store"} =>
                    c.id = j /\ c.old = None /\ c.name = rows[j].name
    BY <1>1, <1>4, <1>6, <1>7 DEF PendingInv, InserterAtWork
  <2> QED
    BY <1>5, <2>1 DEF InserterAtWork
<1>9. row.class = Pending => Caused(i)'
  <2>1. CASE Caused(i)
    BY <1>2, <2>1
  <2>2. CASE Overlap(rows[i].by, u)
    BY <1>3, <1>5, <1>7, <2>2 DEF Caused
  <2> QED
    BY <1>4, <2>1, <2>2
<1>10. PendingRowCaused'
  <2>1. ASSUME NEW j \in DOMAIN rows, j # i, rows[j].class = Pending
        PROVE  Caused(j)' \/ calls'[rows[j].by].pc \in {"classify", "persist"}
    <3>1. CASE Caused(j)
      BY <1>2, <3>1
    <3>2. CASE calls[rows[j].by].pc \in {"classify", "persist"}
      <4>1. rows[j].by # u
        BY <1>4, <1>6, <2>1, <3>2 DEF PendingInv, InserterAtWork
      <4> QED
        BY <1>1, <1>7, <3>2, <4>1
    <3> QED
      BY <2>1, <3>1, <3>2 DEF PendingInv, PendingRowCaused
  <2> QED
    BY <1>5, <1>9, <2>1 DEF PendingRowCaused
<1>11. PendingHasACause'
  <2>1. ASSUME NEW j \in DOMAIN rows, j # i, rows[j].status = "Completed", rows[j].class = Pending
        PROVE  Caused(j)'
    BY <1>2, <2>1 DEF PendingInv, PendingHasACause, Caused
  <2> QED
    BY <1>5, <1>9, <2>1 DEF PendingHasACause, Caused
<1>12. ASSUME NEW v \in Uploads, calls'[v].pc \in {"gate", "update", "classify", "persist"},
              calls'[v].old = Pending, NEW j, j = calls'[v].id
       PROVE  Caused(j)'
  <2>1. /\ calls[v].pc \in {"gate", "update", "classify", "persist"} /\ calls[v].old = Pending
        /\ j = calls[v].id
    BY <1>1, <1>4, <1>6, <1>12
  <2> QED
    BY <1>2, <2>1, ReadFacts DEF PendingInv, PendingReadCaused
<1>13. PendingReadCaused'
  BY <1>12 DEF PendingReadCaused
<1> QED
  BY <1>8, <1>10, <1>11, <1>13 DEF PendingInv

LEMMA UpdatesKeepsPending ==
  ASSUME Typing, RowsStay, CompanyMet, PendingInv, NEW u \in Uploads, Effect(u), Updates(u)
  PROVE  PendingInv'
<1>1. PICK row : Rewrites(u, row) /\ row.class = rows[calls[u].id].class
  BY DEF Updates
<1>2. PICK i \in DOMAIN rows : i = calls[u].id
  BY <1>1 DEF Rewrites
<1>3. calls[u].pc = "update" /\ calls[u].name = rows[i].name /\ Goes(u, "update", "classify")
  BY <1>2 DEF Updates, Goes, Typing, CallKnows, HasRow
<1>4. ASSUME rows[i].class = Pending, ~Caused(i)
      PROVE  calls[rows[i].by].pc \in {"classify", "persist"} /\ Overlap(rows[i].by, u)
  <2>1. calls[rows[i].by].pc \in {"classify", "persist"}
    BY <1>4 DEF PendingInv, PendingRowCaused
  <2>2. calls[rows[i].by].name = rows[i].name /\ rows[i].by # u /\ rows[i].by \in Uploads
    BY <1>3, <2>1, ReadFacts DEF PendingInv, InserterAtWork
  <2> QED
    BY <1>3, <2>1, <2>2 DEF CompanyMet, Steps
<1> QED
  BY <1>1, <1>2, <1>3, <1>4, RewriteKeepsPending

LEMMA PersistsKeepsPending ==
  ASSUME Typing, RowsStay, PendingInv, NEW u \in Uploads, Effect(u), Persists(u)
  PROVE  PendingInv'
<1>1. PICK row : Rewrites(u, row) /\ row.class = calls[u].class
  BY DEF Persists
<1>2. calls[u].pc = "persist" /\ Goes(u, "persist", "store")
  BY DEF Persists, Goes
<1>3. ASSUME calls[u].class = Pending PROVE Caused(calls[u].id)
  <2>1. Pending.of # u
    BY NoneIsNew DEF Pending
  <2>2. calls[u].old = Pending
    BY <1>2, <1>3, <2>1 DEF Typing, CallKnows
  <2> QED
    BY <1>2, <2>2 DEF PendingInv, PendingReadCaused
<1> QED
  BY <1>1, <1>2, <1>3, RewriteKeepsPending

LEMMA NextKeepsPending ==
  ASSUME Typing, CompanyMet, PendingInv, [Next]_vars
  PROVE  PendingInv'
<1>1. RowsStay
  BY NextTyping
<1>2. /\ \A i : i \in DOMAIN rows /\ Caused(i) => Caused(i)'
      /\ \A v, w : v \in Uploads /\ w \in Uploads /\ Overlap(v, w) => Overlap(v, w)'
  BY <1>1, NextEffect, CauseStays, MetStays
<1>3. CASE Aside
  <2>1. \A v \in Uploads :
          \/ calls'[v] = calls[v]
          \/ calls[v].pc \in Steps /\ calls'[v].pc \in {"failed", "lost"}
          \/ /\ calls[v].pc \in {"idle", "queued", "gate"}
             /\ calls'[v].pc \in {"queued", "lost", "refused"}
    BY <1>3 DEF Aside
  <2> QED
    BY <1>2, <1>3, <2>1, KeptPending DEF Aside, RowsKept
<1>4. ASSUME NEW u \in Uploads, Effect(u) PROVE PendingInv'
  <2>1. CASE Ends(u)
    <3>1. \A v \in Uploads :
            \/ calls'[v] = calls[v]
            \/ calls[v].pc \in Steps /\ calls'[v].pc \in {"failed", "lost"}
            \/ /\ calls[v].pc \in {"idle", "queued", "gate"}
               /\ calls'[v].pc \in {"queued", "lost", "refused"}
      BY <1>4, <2>1 DEF Ends, Effect
    <3> QED
      BY <1>2, <2>1, <3>1, KeptPending DEF Ends, RowsKept
  <2> QED
    BY <1>1, <1>4, <2>1, LooksKeepsPending, MovesKeepPending, InsertsKeepsPending,
       UpdatesKeepsPending, PersistsKeepsPending DEF Effect
<1> QED
  BY <1>3, <1>4, NextEffect

\* A dataset is shown as completed without a classification only if its insert
\* was cut short or overlapped: reading "Pending" as an earlier classification,
\* and writing it back, never happens otherwise.
THEOREM PendingExplained == Spec => []PendingHasACause
<1>1. Init => Typing /\ OverlapInv /\ PendingInv
  BY InitTyping DEF Init, OverlapInv, CompanyMet, InsertersMet, SecondRowNeedsOverlap,
    PendingInv, InserterAtWork, PendingRowCaused, PendingReadCaused, PendingHasACause,
    NotStarted, NoIds, Steps
<1>2. ASSUME Typing, OverlapInv, PendingInv, [Next]_vars PROVE (Typing /\ OverlapInv /\ PendingInv)'
  <2>1. PendingInv'
    BY <1>2, NextKeepsPending DEF OverlapInv
  <2> QED
    BY <1>2, <2>1, NextTyping, NextEffect, AsideKeepsOverlaps, EffectKeepsOverlaps
<1>3. PendingInv => PendingHasACause
  BY DEF PendingInv
<1> QED
  BY <1>1, <1>2, <1>3, PTL DEF Spec

-----------------------------------------------------------------------------
(* What the catalogue says and what was answered.                          *)

\* Steps of an upload that has written its file's shape on its row.
Wrote == {"classify", "persist", "store"}

Met(u) == \E w \in Uploads : Overlap(u, w)

\* The upload whose file a row describes works, or worked, on that row only.
ShapedOnce ==
  \A i \in DOMAIN rows :
    LET c == calls[rows[i].shape] IN
    /\ c.pc \in Wrote \cup {"answered", "failed", "lost"}
    /\ c.pc \in Wrote \cup {"answered"} => c.id = i

\* Only an upload that it met has written a row's shape after an upload that
\* still works on the row.
WritersMet ==
  \A v \in Uploads : calls[v].pc \in Wrote =>
    rows[calls[v].id].shape = v \/ Overlap(v, rows[calls[v].id].shape)

RowStored ==
  \A i \in DOMAIN rows :
    LET u == rows[i].shape IN
    calls[u].pc \in {"store", "answered"} =>
      \/ Met(u)
      \/ /\ rows[i].quality = u
         /\ rows[i].class = calls[u].class /\ rows[i].status = calls[u].status

FrameStored ==
  \A i \in DOMAIN rows :
    LET u == rows[i].shape IN
    calls[u].pc = "answered" =>
      /\ calls[u].server \in Servers
      /\ \/ Met(u)
         \/ i \in DOMAIN frames[calls[u].server] => frames[calls[u].server][i] = u

AnswersInv == ShapedOnce /\ WritersMet /\ RowStored /\ FrameStored

\* Where an upload stands when it works on a row, and whose shape rows have.
LEMMA RowFacts ==
  ASSUME Typing
  PROVE  /\ \A i \in DOMAIN rows : rows[i] \in Row /\ rows[i].shape \in Uploads
         /\ \A v \in Uploads : calls[v].pc \in Wrote =>
              calls[v].id \in DOMAIN rows /\ rows[calls[v].id].name = calls[v].name
  BY DEF Typing, TypeOK, Row, CallKnows, HasRow, Wrote

\* Steps that write neither row nor frame: a call stays, ends without an
\* answer, is not yet at work on a row, or is classified.
LEMMA KeptAnswers ==
  ASSUME Typing, AnswersInv, rows' = rows,
         \A s \in Servers : frames'[s] = frames[s] \/ frames'[s] = NoIds,
         \A v, w : v \in Uploads /\ w \in Uploads /\ Overlap(v, w) => Overlap(v, w)',
         \A v \in Uploads :
           \/ calls'[v] = calls[v]
           \/ calls'[v].pc \in {"failed", "lost"}
           \/ /\ calls[v].pc \notin Wrote \cup {"answered", "failed", "lost"}
              /\ calls'[v].pc \notin Wrote \cup {"answered"}
           \/ /\ calls[v].pc = "classify" /\ calls'[v].pc = "persist"
              /\ calls'[v].id = calls[v].id
  PROVE  AnswersInv'
<1>1. \A u \in Uploads : Met(u) => Met(u)'
  BY DEF Met
<1>2. ShapedOnce'
  BY RowFacts DEF AnswersInv, ShapedOnce, Wrote
<1>3. WritersMet'
  <2>1. ASSUME NEW v \in Uploads, calls'[v].pc \in Wrote
        PROVE  calls[v].pc \in Wrote /\ calls'[v].id = calls[v].id
    BY <2>1 DEF Wrote
  <2> QED
    BY <2>1, RowFacts DEF AnswersInv, WritersMet
<1>4. RowStored'
  <2>1. ASSUME NEW i \in DOMAIN rows, NEW u \in Uploads, u = rows[i].shape,
               calls'[u].pc \in {"store", "answered"}
        PROVE  calls'[u] = calls[u]
    BY <2>1 DEF Wrote
  <2> QED
    BY <1>1, <2>1, RowFacts DEF AnswersInv, RowStored
<1>5. FrameStored'
  <2>1. ASSUME NEW i \in DOMAIN rows, NEW u \in Uploads, u = rows[i].shape,
               calls'[u].pc = "answered"
        PROVE  /\ calls'[u].server \in Servers
               /\ \/ Met(u)'
                  \/ i \in DOMAIN frames'[calls'[u].server] => frames'[calls'[u].server][i] = u
    <3>1. calls'[u] = calls[u]
      BY <2>1 DEF Wrote
    <3>2. /\ calls[u].server \in Servers
          /\ \/ Met(u)
             \/ i \in DOMAIN frames[calls[u].server] => frames[calls[u].server][i] = u
      BY <2>1, <3>1 DEF AnswersInv, FrameStored
    <3>3. DOMAIN NoIds = {}
      BY DEF NoIds
    <3> QED
      BY <1>1, <2>1, <3>1, <3>2, <3>3
  <2> QED
    BY <2>1, RowFacts DEF FrameStored
<1> QED
  BY <1>2, <1>3, <1>4, <1>5 DEF AnswersInv

\* An insert or a re-upload writes its file's shape.
LEMMA ShapeKeepsAnswers ==
  ASSUME Typing, CompanyMet, AnswersInv, frames' = frames, NEW u \in Uploads, NEW row,
         \A v, w : v \in Uploads /\ w \in Uploads /\ Overlap(v, w) => Overlap(v, w)',
         \A v \in Uploads : v # u => calls'[v] = calls[v],
         \/ Goes(u, "insert", "classify") /\ calls[u].id \notin DOMAIN rows
         \/ Goes(u, "update", "classify"),
         Writes(calls[u].id, row), row.shape = u
  PROVE  AnswersInv'
<1> DEFINE i == calls[u].id
<1>1. \A w \in Uploads : Met(w) => Met(w)'
  BY DEF Met
<1>2. /\ DOMAIN rows' = DOMAIN rows \cup {i} /\ rows'[i].shape = u
      /\ \A j \in DOMAIN rows : j # i => rows'[j] = rows[j]
  BY DEF Writes
<1>3. /\ calls[u].pc \in {"insert", "update"}
      /\ calls'[u].pc = "classify" /\ calls'[u].id = i
  BY DEF Goes
<1>4. ASSUME NEW j \in DOMAIN rows, j # i
      PROVE  /\ rows[j].shape \in Uploads /\ rows[j].shape # u /\ rows'[j] = rows[j]
             /\ calls'[rows[j].shape] = calls[rows[j].shape]
  <2>1. rows[j].shape # u
    BY <1>3, <1>4 DEF AnswersInv, ShapedOnce, Wrote
  <2> QED
    BY <1>2, <1>4, <2>1, RowFacts
<1> HIDE DEF i
<1>5. ShapedOnce'
  BY <1>2, <1>3, <1>4 DEF AnswersInv, ShapedOnce, Wrote
<1>6. WritersMet'
  <2>1. ASSUME NEW v \in Uploads, calls'[v].pc \in Wrote, v # u
        PROVE  (rows[calls[v].id].shape = v \/ Overlap(v, rows[calls[v].id].shape))'
    <3>1. /\ calls'[v] = calls[v] /\ calls[v].pc \in Wrote
          /\ calls[v].id \in DOMAIN rows /\ rows[calls[v].id].name = calls[v].name
      BY <2>1, RowFacts
    <3>2. CASE calls[v].id # i
      <4>1. PICK w \in Uploads : w = rows[calls[v].id].shape /\ w = rows'[calls'[v].id].shape
        BY <1>4, <3>1, <3>2
      <4>2. w = v \/ Overlap(v, w)
        BY <3>1, <4>1 DEF AnswersInv, WritersMet
      <4> QED
        BY <4>1, <4>2
    <3>3. CASE calls[v].id = i
      <4>1. calls[u].pc = "update" /\ calls[u].name = rows[i].name
        BY <3>1, <3>3 DEF i, Goes, Typing, CallKnows, HasRow
      <4>2. Overlap(v, u)
        BY <2>1, <3>1, <3>3, <4>1 DEF CompanyMet, Steps, Wrote
      <4> QED
        BY <1>2, <3>1, <3>3, <4>2 DEF Overlap
    <3> QED
      BY <3>2, <3>3
  <2> QED
    BY <1>2, <1>3, <2>1 DEF WritersMet
<1>7. RowStored'
  BY <1>1, <1>2, <1>3, <1>4 DEF AnswersInv, RowStored
<1>8. FrameStored'
  BY <1>1, <1>2, <1>3, <1>4 DEF AnswersInv, FrameStored
<1> QED
  BY <1>5, <1>6, <1>7, <1>8 DEF AnswersInv

\* The classification is written on the upload's own file's row, or on that of
\* an upload it met.
LEMMA PersistKeepsAnswers ==
  ASSUME Typing, AnswersInv, NEW u \in Uploads, Persist(u),
         \A v, w : v \in Uploads /\ w \in Uploads /\ Overlap(v, w) => Overlap(v, w)'
  PROVE  AnswersInv'
<1> DEFINE i == calls[u].id
           row == Classified(rows[i], u)
<1>1. calls[u] \in Call /\ calls[u].pc = "persist" /\ frames' = frames
  BY DEF Persist, Node, Typing, TypeOK
<1>2. i \in DOMAIN rows /\ rows[i] \in Row /\ rows[i].shape \in Uploads
  BY <1>1, RowFacts DEF Wrote
<1>3. ASSUME NEW r \in Row, NEW class, NEW status
      PROVE  LET q == [r EXCEPT !.class = class, !.status = status, !.quality = u]
             IN q.shape = r.shape /\ q.class = class /\ q.status = status /\ q.quality = u
  BY DEF Row
<1>4. /\ row.shape = rows[i].shape /\ row.class = calls[u].class
      /\ row.status = calls[u].status /\ row.quality = u
  BY <1>2, <1>3 DEF Classified
<1>5. rows' = Put(rows, i, row)
  BY DEF Persist
<1> HIDE DEF i, row
<1>6. /\ DOMAIN rows' = DOMAIN rows /\ rows'[i] = row
      /\ \A j \in DOMAIN rows : j # i => rows'[j] = rows[j]
  BY <1>2, <1>5 DEF Put
<1>7. /\ calls' = [calls EXCEPT ![u] = Moved(calls[u], "store")]
      /\ "store" \in Steps
  BY DEF Persist, Node, Moved, Steps
<1>8. /\ calls'[u].pc = "store" /\ calls'[u].id = calls[u].id
      /\ calls'[u].class = calls[u].class /\ calls'[u].status = calls[u].status
      /\ \A v \in Uploads : v # u => calls'[v] = calls[v]
  BY <1>1, <1>7, MovedIsCall DEF Typing, TypeOK
<1>9. /\ \A w \in Uploads : Met(w) => Met(w)'
      /\ \A j \in DOMAIN rows : rows'[j].shape = rows[j].shape /\ rows[j].shape \in Uploads
  BY <1>4, <1>6, RowFacts DEF Met
<1>10. rows[i].shape = u \/ Met(rows[i].shape)
  BY <1>1, <1>2 DEF i, AnswersInv, WritersMet, Met, Overlap, Wrote
<1>11. ShapedOnce'
  BY <1>1, <1>6, <1>8, <1>9 DEF AnswersInv, ShapedOnce, Wrote
<1>12. WritersMet'
  <2>1. \A v \in Uploads : calls'[v].pc \in Wrote =>
          calls[v].pc \in Wrote /\ calls'[v].id = calls[v].id /\ calls[v].id \in DOMAIN rows
    BY <1>1, <1>8, RowFacts DEF Wrote
  <2> QED
    BY <1>9, <2>1 DEF AnswersInv, WritersMet
<1>13. RowStored'
  <2>1. ASSUME NEW j \in DOMAIN rows, j # i, NEW w \in Uploads, w = rows[j].shape,
               calls'[w].pc \in {"store", "answered"}
        PROVE  \/ Met(w)'
               \/ /\ rows'[j].quality = w
                  /\ rows'[j].class = calls'[w].class /\ rows'[j].status = calls'[w].status
    <3>1. w # u
      BY <1>1, <2>1 DEF i, AnswersInv, ShapedOnce, Wrote
    <3>2. calls'[w] = calls[w] /\ rows'[j] = rows[j]
      BY <1>6, <1>8, <2>1, <3>1
    <3> QED
      BY <1>9, <2>1, <3>2 DEF AnswersInv, RowStored
  <2>2. ASSUME NEW w \in Uploads, w = rows[i].shape
        PROVE  \/ Met(w)'
               \/ /\ rows'[i].quality = w
                  /\ rows'[i].class = calls'[w].class /\ rows'[i].status = calls'[w].status
    BY <1>2, <1>4, <1>6, <1>8, <1>9, <1>10, <2>2
  <2> QED
    BY <1>6, <1>9, <2>1, <2>2 DEF RowStored
<1>14. FrameStored'
  BY <1>1, <1>6, <1>8, <1>9 DEF AnswersInv, FrameStored
<1> QED
  BY <1>11, <1>12, <1>13, <1>14 DEF AnswersInv

LEMMA AnsweredKeeps ==
  ASSUME NEW r \in Call
  PROVE  LET c == AnsweredCall(r) IN
         /\ c.pc = "answered" /\ c.id = r.id /\ c.server = r.server
         /\ c.class = r.class /\ c.status = r.status
  BY DEF AnsweredCall, Call

\* The frame is stored under the id of a row that describes the upload's file,
\* or that of an upload it met.
LEMMA StoreKeepsAnswers ==
  ASSUME Typing, AnswersInv, NEW u \in Uploads, StoreFrame(u),
         \A v, w : v \in Uploads /\ w \in Uploads /\ Overlap(v, w) => Overlap(v, w)'
  PROVE  AnswersInv'
<1> DEFINE i == calls[u].id
           s == calls[u].server
<1>1. calls[u] \in Call /\ calls[u].pc = "store" /\ rows' = rows
  BY DEF StoreFrame, Node, Typing, TypeOK
<1>2. i \in DOMAIN rows /\ rows[i].shape \in Uploads /\ s \in Servers
  BY <1>1, RowFacts DEF Typing, CallKnows, Steps, Wrote
<1>3. calls' = [calls EXCEPT ![u] = AnsweredCall(calls[u])]
  BY DEF StoreFrame, Node, AnsweredCall
<1>4. frames' = [frames EXCEPT ![s] = Put(frames[s], i, u)] /\ DOMAIN frames = Servers
  BY DEF StoreFrame, Typing
<1> HIDE DEF i, s
<1>5. /\ calls'[u].pc = "answered" /\ calls'[u].id = calls[u].id /\ calls'[u].server = s
      /\ calls'[u].class = calls[u].class /\ calls'[u].status = calls[u].status
      /\ \A v \in Uploads : v # u => calls'[v] = calls[v]
  BY <1>1, <1>3, AnsweredKeeps DEF s, Typing, TypeOK
<1>6. /\ frames'[s][i] = u
      /\ \A j \in DOMAIN frames'[s] :
           j # i => j \in DOMAIN frames[s] /\ frames'[s][j] = frames[s][j]
      /\ \A t \in Servers : t # s => frames'[t] = frames[t]
  <2>1. frames'[s] = Put(frames[s], i, u)
    BY <1>2, <1>4
  <2> QED
    BY <1>2, <1>4, <2>1 DEF Put
<1>7. /\ \A w \in Uploads : Met(w) => Met(w)'
      /\ \A j \in DOMAIN rows : rows[j].shape \in Uploads
  BY RowFacts DEF Met
<1>8. rows[i].shape = u \/ Met(rows[i].shape)
  BY <1>1, <1>2 DEF i, AnswersInv, WritersMet, Met, Overlap, Wrote
<1>9. ShapedOnce'
  BY <1>1, <1>5, <1>7 DEF AnswersInv, ShapedOnce, Wrote
<1>10. WritersMet'
  BY <1>1, <1>5, RowFacts DEF AnswersInv, WritersMet, Wrote
<1>11. RowStored'
  BY <1>1, <1>5, <1>7 DEF AnswersInv, RowStored
<1>12. FrameStored'
  <2>1. ASSUME NEW j \in DOMAIN rows, NEW x \in Uploads, x = rows[j].shape,
               calls'[x].pc = "answered"
        PROVE  /\ calls'[x].server \in Servers
               /\ \/ Met(x)'
                  \/ j \in DOMAIN frames'[calls'[x].server] => frames'[calls'[x].server][j] = x
    <3>1. CASE x = u
      <4>1. j = i
        BY <1>1, <2>1, <3>1 DEF i, AnswersInv, ShapedOnce, Wrote
      <4> QED
        BY <1>2, <1>5, <1>6, <3>1, <4>1
    <3>2. CASE x # u
      <4>1. calls'[x] = calls[x]
        BY <1>5, <3>2
      <4>2. /\ calls[x].server \in Servers
            /\ \/ Met(x)
               \/ j \in DOMAIN frames[calls[x].server] => frames[calls[x].server][j] = x
        BY <2>1, <4>1 DEF AnswersInv, FrameStored
      <4>3. CASE j = i
        BY <1>7, <1>8, <2>1, <3>2, <4>1, <4>2, <4>3
      <4>4. CASE j # i
        BY <1>6, <1>7, <4>1, <4>2, <4>4
      <4> QED
        BY <4>3, <4>4
    <3> QED
      BY <3>1, <3>2
  <2> QED
    BY <1>1, <1>7, <2>1 DEF FrameStored
<1> QED
  BY <1>9, <1>10, <1>11, <1>12 DEF AnswersInv

\* The steps of an upload that write no row but a new one.
LEMMA QuietStep ==
  ASSUME Typing, NEW u \in Uploads,
         \/ Refuse(u) \/ CheckExisting(u) \/ QualityGate(u) \/ DrawId(u) \/ InsertMetadata(u)
         \/ Classify(u) \/ Reuse(u) \/ UploadFails(u)
  PROVE  /\ frames' = frames
         /\ \A v \in Uploads : v # u => calls'[v] = calls[v]
         /\ Ends(u) \/ Looks(u) \/ Gated(u) \/ Draws(u) \/ Inserts(u) \/ Classifies(u)
<1>1. Effect(u)
  BY StepEffect DEF GraphStep
<1>2. frames' = frames
  BY DEF Refuse, CheckExisting, QualityGate, DrawId, InsertMetadata, Classify, Reuse, UploadFails
<1>3. CASE Refuse(u) \/ UploadFails(u)
  <2>1. calls'[u].pc \in {"refused", "failed"}
    BY <1>3, CutShortIsCall DEF Refuse, UploadFails, Node, Typing, TypeOK
  <2> QED
    BY <1>1, <1>2, <2>1 DEF Effect, Updates, Persists, Answers, Goes
<1>4. CASE ~(Refuse(u) \/ UploadFails(u))
  <2>1. calls[u].pc \in {"queued", "gate", "id", "insert", "classify"}
    BY <1>4 DEF CheckExisting, Served, QualityGate, DrawId, InsertMetadata, Classify, Reuse, Node
  <2> QED
    BY <1>1, <1>2, <2>1 DEF Effect, Updates, Persists, Answers, Goes
<1> QED
  BY <1>3, <1>4

LEMMA NextKeepsAnswers ==
  ASSUME Typing, CompanyMet, AnswersInv, [Next]_vars
  PROVE  AnswersInv'
<1>1. \A v, w : v \in Uploads /\ w \in Uploads /\ Overlap(v, w) => Overlap(v, w)'
  BY NextEffect, MetStays
<1>2. CASE UNCHANGED vars
  BY <1>1, <1>2, KeptAnswers DEF vars
<1>3. ASSUME NEW s \in Servers, ReadSequence(s) \/ SetSequence(s) PROVE AnswersInv'
  BY <1>1, <1>3, KeptAnswers DEF ReadSequence, SetSequence
<1>4. ASSUME NEW s \in Servers, Die(s) PROVE AnswersInv'
  <2>1. \A v \in Uploads : calls'[v] = calls[v] \/ calls'[v].pc = "lost"
    BY <1>4, CutShortIsCall DEF Die, Typing
  <2>2. \A t \in Servers : frames'[t] = frames[t] \/ frames'[t] = NoIds
    BY <1>4 DEF Die, Typing
  <2> QED
    BY <1>1, <1>4, <2>1, <2>2, KeptAnswers DEF Die
<1>5. ASSUME NEW u \in Uploads, NEW s \in Servers, NEW n \in Names, NEW force \in BOOLEAN,
             Arrive(u, s, n, force)
      PROVE  AnswersInv'
  <2> DEFINE c == [NotStarted EXCEPT !.pc = "queued", !.server = s, !.name = n, !.force = force]
  <2>1. c.pc = "queued"
    BY DEF NotStarted
  <2>2. calls'[u] = c /\ \A v \in Uploads : v # u => calls'[v] = calls[v]
    BY <1>5 DEF Arrive, Typing, TypeOK
  <2> HIDE DEF c
  <2> QED
    BY <1>1, <1>5, <2>1, <2>2, KeptAnswers DEF Arrive, Wrote
<1>6. ASSUME NEW u \in Uploads,
             \/ Refuse(u) \/ CheckExisting(u) \/ QualityGate(u) \/ DrawId(u) \/ InsertMetadata(u)
             \/ Classify(u) \/ Reuse(u) \/ UploadFails(u)
      PROVE  AnswersInv'
  <2>1. /\ frames' = frames
        /\ \A v \in Uploads : v # u => calls'[v] = calls[v]
        /\ Ends(u) \/ Looks(u) \/ Gated(u) \/ Draws(u) \/ Inserts(u) \/ Classifies(u)
    BY <1>6, QuietStep
  <2>2. CASE Inserts(u)
    <3>1. NewRow(u).shape = u
      BY DEF NewRow
    <3> QED
      BY <1>1, <2>1, <2>2, <3>1, ShapeKeepsAnswers DEF Inserts
  <2>3. CASE ~Inserts(u)
    <3>1. rows' = rows
      BY <2>1, <2>3 DEF Ends, Looks, Gated, Draws, Classifies, RowsKept
    <3>2. \/ calls'[u].pc = "failed"
          \/ /\ calls[u].pc \in {"queued", "gate", "id"}
             /\ calls'[u].pc \in {"refused", "gate", "id", "update", "insert"}
          \/ /\ calls[u].pc = "classify" /\ calls'[u].pc = "persist"
             /\ calls'[u].id = calls[u].id
      BY <2>1, <2>3 DEF Ends, Looks, Gated, Draws, Classifies, Goes
    <3> QED
      BY <1>1, <2>1, <3>1, <3>2, KeptAnswers DEF Wrote
  <2> QED
    BY <2>2, <2>3
<1>7. ASSUME NEW u \in Uploads, UpdateAfterReupload(u) PROVE AnswersInv'
  <2> DEFINE row == [rows[calls[u].id] EXCEPT !.shape = u, !.status = "Completed"]
  <2>1. calls[u].pc = "update" /\ calls[u].old # None /\ calls[u].id \in DOMAIN rows
    BY <1>7 DEF UpdateAfterReupload, Node, Typing, CallKnows, HasRow
  <2>2. ASSUME NEW r \in Row PROVE [r EXCEPT !.shape = u, !.status = "Completed"].shape = u
    BY DEF Row
  <2>3. row.shape = u
    BY <2>1, <2>2, RowFacts
  <2>4. calls' = [calls EXCEPT ![u] = Moved(calls[u], "classify")] /\ "classify" \in Steps
    BY <1>7 DEF UpdateAfterReupload, Node, Moved, Steps
  <2>5. Goes(u, "update", "classify") /\ \A v \in Uploads : v # u => calls'[v] = calls[v]
    BY <2>1, <2>4, MovedEffect
  <2>6. rows' = Put(rows, calls[u].id, row) /\ frames' = frames
    BY <1>7 DEF UpdateAfterReupload
  <2> HIDE DEF row
  <2>7. Writes(calls[u].id, row)
    BY <2>6 DEF Put, Writes
  <2> QED
    BY <1>1, <2>3, <2>5, <2>6, <2>7, ShapeKeepsAnswers
<1>8. ASSUME NEW u \in Uploads, Persist(u) \/ StoreFrame(u) PROVE AnswersInv'
  BY <1>1, <1>8, PersistKeepsAnswers, StoreKeepsAnswers
<1> QED
  BY <1>2, <1>3, <1>4, <1>5, <1>6, <1>7, <1>8 DEF Next, GraphStep

\* Report, classification, status and data frame of a dataset are those its
\* upload was answered, however many uploads and processes there are, unless
\* two uploads of the name overlapped.
THEOREM CatalogueSaysWhatWasAnswered == Spec => []RowSaysWhatWasAnswered
<1>1. Init => Typing /\ OverlapInv /\ AnswersInv
  BY InitTyping DEF Init, OverlapInv, CompanyMet, InsertersMet, SecondRowNeedsOverlap,
    AnswersInv, ShapedOnce, WritersMet, RowStored, FrameStored, NotStarted, NoIds, Steps, Wrote
<1>2. ASSUME Typing, OverlapInv, AnswersInv, [Next]_vars PROVE (Typing /\ OverlapInv /\ AnswersInv)'
  <2>1. AnswersInv'
    BY <1>2, NextKeepsAnswers DEF OverlapInv
  <2> QED
    BY <1>2, <2>1, NextTyping, NextEffect, AsideKeepsOverlaps, EffectKeepsOverlaps
<1>3. Typing /\ AnswersInv => RowSaysWhatWasAnswered
  BY RowFacts DEF AnswersInv, ShapedOnce, RowStored, FrameStored, RowSaysWhatWasAnswered, Met
<1> QED
  BY <1>1, <1>2, <1>3, PTL DEF Spec

=============================================================================
