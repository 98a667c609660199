-------------------------- MODULE ModelStoreProofs --------------------------
(***************************************************************************)
(* Proofs about ModelStore: what a start that trains nothing has found,    *)
(* and what the registry keeps of updates that take no lock.               *)
(***************************************************************************)
EXTENDS ModelStore, SequenceTheorems, TLAPS

----------------------------------------------------------------------------
(* Sequences of writes *)

FileNames == {"lightgbm_underwriting_result_actual.pkl", "isolation_forest.pkl", "isolation_forest_scaler.pkl",
              "xgboost_classifier.pkl", "xgboost_label_encoder.pkl", "kmeans.pkl", "kmeans_scaler.pkl"}

Keys == {"lightgbm_regressor", "isolation_forest", "xgboost_classifier", "kmeans_segmentation"} \union FitKeys

Ops == [op : {"load"}, on : {"dataset"}] \union [op : {"open", "dump"}, on : FileNames]
         \union [op : {"read", "truncate", "write"}, on : Keys]

Opening == {"load", "open", "read"}

(* What may follow a write: an opening its dump, a reading its truncation  *)
(* and that its write, and none of these comes after another write.        *)
Follows(x, y) ==
    /\ x.op = "open" => y = Op("dump", x.on)
    /\ x.op = "read" => y = Op("truncate", x.on)
    /\ x.op = "truncate" => y = Op("write", x.on)
    /\ y.op = "dump" => x.op = "open"
    /\ y.op = "truncate" => x.op = "read"
    /\ y.op = "write" => x.op = "truncate"

Unfinished == {"open", "read", "truncate"}

Linked(s) ==
    /\ s \in Seq(Ops)
    /\ \A i \in 1..Len(s) :
          /\ s[i].op \in Unfinished => i < Len(s)
          /\ i < Len(s) => Follows(s[i], s[i + 1])

(* A sequence a process may be given to begin with. *)
Startable(s) == Linked(s) /\ s # << >> /\ s[1].op \in Opening

LEMMA StartableHead ==
    ASSUME NEW s, Startable(s)
    PROVE  Linked(s) /\ s \in Seq(Ops) /\ Len(s) > 0 /\ s[1].op \in Opening
BY DEF Startable, Linked

LEMMA LinkedAt ==
    ASSUME NEW s, Linked(s), NEW i \in 1..Len(s)
    PROVE  /\ s[i] \in Ops
           /\ s[i].op \in Unfinished => i < Len(s)
           /\ i < Len(s) => Follows(s[i], s[i + 1])
BY DEF Linked

(* Saving a file, and updating the registry, are startable. *)
LEMMA SaveStartable ==
    ASSUME NEW file \in FileNames
    PROVE  Startable(Save(file))
<1> DEFINE s == Save(file)
<1>1. s \in Seq(Ops) /\ Len(s) = 2 /\ s # << >>
  BY DEF Ops, Save, Op
<1>2. s[1] = Op("open", file) /\ s[2] = Op("dump", file)
  BY DEF Save
<1> HIDE DEF s
<1>3. Follows(s[1], s[2]) /\ s[1].op \in Opening /\ s[2].op \notin Unfinished
  BY <1>2 DEF Follows, Op, Opening, Unfinished
<1>4. \A i \in 1..Len(s) : i = 1 \/ i = 2
  BY <1>1
<1>5. QED
  BY <1>1, <1>3, <1>4 DEF Startable, Linked, s

LEMMA UpdateStartable ==
    ASSUME NEW key \in Keys
    PROVE  Startable(UpdateRegistry(key))
<1> DEFINE s == UpdateRegistry(key)
<1>1. s \in Seq(Ops) /\ Len(s) = 3 /\ s # << >>
  BY DEF Ops, UpdateRegistry, Op
<1>2. s[1] = Op("read", key) /\ s[2] = Op("truncate", key) /\ s[3] = Op("write", key)
  BY DEF UpdateRegistry
<1> HIDE DEF s
<1>3. /\ Follows(s[1], s[2]) /\ Follows(s[2], s[3])
      /\ s[1].op \in Opening /\ s[3].op \notin Unfinished
  BY <1>2 DEF Follows, Op, Opening, Unfinished
<1>4. \A i \in 1..Len(s) : i = 1 \/ i = 2 \/ i = 3
  BY <1>1
<1>5. QED
  BY <1>1, <1>3, <1>4 DEF Startable, Linked, s

(* One startable sequence after another is startable: no write of the      *)
(* second depends on the first.                                            *)
LEMMA ConcatStartable ==
    ASSUME NEW s, NEW t, Startable(s), Startable(t)
    PROVE  Startable(s \o t)
<1> DEFINE st == s \o t
<1>1. /\ s \in Seq(Ops) /\ t \in Seq(Ops) /\ Len(s) \in Nat /\ Len(t) \in Nat
      /\ Len(s) > 0 /\ Len(t) > 0
  BY StartableHead
<1>2. st \in Seq(Ops) /\ Len(st) = Len(s) + Len(t) /\ st # << >>
  BY <1>1
<1>3. \A i \in 1..Len(s) : st[i] = s[i]
  BY <1>1
<1>4. \A i \in 1..Len(t) : st[Len(s) + i] = t[i]
  BY <1>1
<1> HIDE DEF st
<1>5. ASSUME NEW i \in 1..Len(st)
      PROVE  /\ st[i].op \in Unfinished => i < Len(st)
             /\ i < Len(st) => Follows(st[i], st[i + 1])
  <2>1. CASE i < Len(s)
    <3>1. i \in 1..Len(s) /\ i + 1 \in 1..Len(s)
      BY <2>1, <1>1
    <3>2. Follows(s[i], s[i + 1])
      BY <3>1, <2>1 DEF Startable, Linked
    <3>3. QED
      BY <3>1, <3>2, <2>1, <1>1, <1>2, <1>3
  <2>2. CASE i = Len(s)
    <3>1. st[i] = s[i] /\ i \in 1..Len(s) /\ s[i] \in Ops
      BY <2>2, <1>1, <1>3
    <3>2. s[i].op \notin Unfinished
      <4>1. s[i].op \in Unfinished => i < Len(s)
        BY <3>1, LinkedAt, StartableHead
      <4>2. QED
        BY <4>1, <2>2, <1>1
    <3>3. st[i + 1] = t[1] /\ i < Len(st)
      BY <2>2, <1>1, <1>2, <1>4
    <3>4. Follows(s[i], t[1])
      BY <3>2, StartableHead DEF Opening, Unfinished, Follows
    <3>5. QED
      BY <3>1, <3>3, <3>4
  <2>3. CASE i > Len(s)
    <3> DEFINE j == i - Len(s)
    <3>1. j \in 1..Len(t) /\ i = Len(s) + j
      BY <2>3, <1>1, <1>2
    <3>2. st[i] = t[j]
      BY <3>1, <1>4
    <3>3. t[j].op \in Unfinished => j < Len(t)
      BY <3>1, LinkedAt, StartableHead
    <3>4. j < Len(t) => Follows(t[j], t[j + 1])
      BY <3>1, LinkedAt, StartableHead
    <3>5. j < Len(t) => st[i + 1] = t[j + 1]
      <4>1. j < Len(t) => j + 1 \in 1..Len(t) /\ i + 1 = Len(s) + (j + 1)
        BY <3>1, <1>1
      <4>2. QED
        BY <4>1, <1>4
    <3>6. i < Len(st) <=> j < Len(t)
      BY <3>1, <1>1, <1>2
    <3> HIDE DEF j
    <3>7. QED
      BY <3>2, <3>3, <3>4, <3>5, <3>6
  <2>4. QED
    BY <2>1, <2>2, <2>3, <1>1, <1>2
<1>6. Linked(st)
  BY <1>2, <1>5 DEF Linked
<1>7. st[1].op \in Opening
  BY <1>1, <1>3, StartableHead
<1>8. QED
  BY <1>2, <1>6, <1>7 DEF st, Startable

(* What train.py writes for a model is startable. *)
LEMMA TrainStartable ==
    ASSUME NEW model \in ModelNames
    PROVE  Startable(Train(model))
<1>1. /\ \A f \in FileNames : Startable(Save(f))
      /\ \A k \in Keys : Startable(UpdateRegistry(k))
  BY SaveStartable, UpdateStartable
<1>2. Startable(TrainLightGBM)
  <2>1. /\ Startable(Save("lightgbm_underwriting_result_actual.pkl"))
        /\ Startable(UpdateRegistry("lightgbm_regressor"))
    BY <1>1 DEF FileNames, Keys
  <2>2. QED
    BY <2>1, ConcatStartable DEF TrainLightGBM
<1>3. Startable(TrainIsolationForest)
  <2>1. /\ Startable(Save("isolation_forest.pkl")) /\ Startable(Save("isolation_forest_scaler.pkl"))
        /\ Startable(UpdateRegistry("isolation_forest"))
    BY <1>1 DEF FileNames, Keys
  <2>2. Startable(Save("isolation_forest.pkl") \o Save("isolation_forest_scaler.pkl"))
    BY <2>1, ConcatStartable
  <2>3. QED
    BY <2>1, <2>2, ConcatStartable DEF TrainIsolationForest
<1>4. Startable(TrainXGBoost)
  <2>1. /\ Startable(Save("xgboost_classifier.pkl")) /\ Startable(Save("xgboost_label_encoder.pkl"))
        /\ Startable(UpdateRegistry("xgboost_classifier"))
    BY <1>1 DEF FileNames, Keys
  <2>2. Startable(Save("xgboost_classifier.pkl") \o Save("xgboost_label_encoder.pkl"))
    BY <2>1, ConcatStartable
  <2>3. QED
    BY <2>1, <2>2, ConcatStartable DEF TrainXGBoost
<1>5. Startable(TrainKMeans)
  <2>1. /\ Startable(Save("kmeans.pkl")) /\ Startable(Save("kmeans_scaler.pkl"))
        /\ Startable(UpdateRegistry("kmeans_segmentation"))
    BY <1>1 DEF FileNames, Keys
  <2>2. Startable(Save("kmeans.pkl") \o Save("kmeans_scaler.pkl"))
    BY <2>1, ConcatStartable
  <2>3. QED
    BY <2>1, <2>2, ConcatStartable DEF TrainKMeans
<1>6. CASE model = "lightgbm"
  BY <1>2, <1>6 DEF Train
<1>7. CASE model = "isolation_forest"
  BY <1>3, <1>7 DEF Train
<1>8. CASE model = "xgboost"
  BY <1>4, <1>8 DEF Train
<1>9. CASE model = "kmeans"
  BY <1>5, <1>9 DEF Train
<1>10. QED
  BY <1>6, <1>7, <1>8, <1>9 DEF ModelNames

LEMMA ScriptStartable == Startable(Script)
<1> DEFINE s == Script
<1>1. s \in Seq(Ops) /\ Len(s) = 1 /\ s # << >> /\ s[1] = Op("load", "dataset")
  BY DEF Script, Op, Ops
<1> HIDE DEF s
<1>2. s[1].op \in Opening /\ s[1].op \notin Unfinished
  BY <1>1 DEF Op, Opening, Unfinished
<1>3. \A i \in 1..Len(s) : i = 1
  BY <1>1
<1>4. QED
  BY <1>1, <1>2, <1>3 DEF Startable, Linked, s

(* What is left after the first writes of a linked sequence is linked. *)
LEMMA RestLinked ==
    ASSUME NEW s, Linked(s), NEW n \in Nat, n > 0, n <= Len(s),
           NEW r \in Seq(Ops), Len(r) = Len(s) - n,
           \A i \in 1..Len(r) : r[i] = s[i + n]
    PROVE  Linked(r)
<1> SUFFICES ASSUME NEW i \in 1..Len(r)
             PROVE  /\ r[i].op \in Unfinished => i < Len(r)
                    /\ i < Len(r) => Follows(r[i], r[i + 1])
  BY DEF Linked
<1>1. Len(s) \in Nat /\ Len(r) \in Nat
  BY DEF Linked
<1>2. i + n \in 1..Len(s) /\ r[i] = s[i + n]
  BY <1>1
<1>3. i < Len(r) => r[i + 1] = s[(i + n) + 1]
  BY <1>1
<1>4. i < Len(r) <=> i + n < Len(s)
  BY <1>1
<1>5. QED
  BY <1>2, <1>3, <1>4, LinkedAt

LEMMA TailLinked ==
    ASSUME NEW s, Linked(s), s # << >>
    PROVE  /\ Linked(Tail(s)) /\ Tail(s) \in Seq(Ops)
           /\ s[1] \in Ops
           /\ s[1].op \in Unfinished => Tail(s) # << >>
           /\ Tail(s) # << >> => Follows(s[1], Tail(s)[1]) /\ Tail(s)[1] \in Ops
<1> DEFINE r == Tail(s)
<1>1. s \in Seq(Ops) /\ Len(s) \in Nat /\ Len(s) > 0
  BY DEF Linked
<1>2. r \in Seq(Ops) /\ Len(r) = Len(s) - 1 /\ \A i \in 1..Len(r) : r[i] = s[i + 1]
  BY <1>1
<1> HIDE DEF r
<1>3. Linked(r)
  BY <1>1, <1>2, RestLinked
<1>4. 1 \in 1..Len(s) /\ s[1] \in Ops
  BY <1>1
<1>5. s[1].op \in Unfinished => r # << >>
  <2>1. s[1].op \in Unfinished => 1 < Len(s)
    BY <1>4, LinkedAt
  <2>2. QED
    BY <2>1, <1>1, <1>2
<1>6. ASSUME r # << >>
      PROVE  Follows(s[1], r[1]) /\ r[1] \in Ops
  <2>1. 1 \in 1..Len(r) /\ 1 < Len(s)
    BY <1>1, <1>2, <1>6
  <2>2. r[1] = s[1 + 1] /\ r[1] \in Ops
    BY <1>2, <2>1
  <2>3. QED
    BY <2>1, <2>2, <1>4, LinkedAt
<1>7. QED
  BY <1>2, <1>3, <1>4, <1>5, <1>6 DEF r

(* An update that is given up leaves a linked sequence that begins with an *)
(* opening.                                                                *)
LEMMA GivenUpLinked ==
    ASSUME NEW s, Linked(s), s # << >>, s[1].op = "read"
    PROVE  /\ Linked(SubSeq(s, 4, Len(s)))
           /\ SubSeq(s, 4, Len(s)) # << >> => SubSeq(s, 4, Len(s))[1].op \in Opening
<1> DEFINE r == SubSeq(s, 4, Len(s))
<1>1. s \in Seq(Ops) /\ Len(s) \in Nat /\ Len(s) > 0
  BY DEF Linked
<1>2. 1 < Len(s) /\ s[2].op = "truncate"
  <2>1. 1 \in 1..Len(s) /\ 1 + 1 = 2
    BY <1>1
  <2>2. 1 < Len(s)
    BY <2>1, LinkedAt DEF Unfinished
  <2>3. Follows(s[1], s[2])
    BY <2>1, <2>2, LinkedAt
  <2>4. QED
    BY <2>2, <2>3 DEF Follows, Op
<1>3. 2 < Len(s) /\ s[3].op = "write"
  <2>1. 2 \in 1..Len(s) /\ 2 + 1 = 3
    BY <1>1, <1>2
  <2>2. 2 < Len(s)
    BY <2>1, <1>2, LinkedAt DEF Unfinished
  <2>3. Follows(s[2], s[3])
    BY <2>1, <2>2, LinkedAt
  <2>4. QED
    BY <2>2, <2>3, <1>2 DEF Follows, Op
<1>4. r \in Seq(Ops) /\ Len(r) = Len(s) - 3 /\ \A i \in 1..Len(r) : r[i] = s[i + 3]
  <2>1. \A i \in 4..Len(s) : s[i] \in Ops
    BY <1>1
  <2>2. /\ r \in Seq(Ops) /\ Len(r) = (IF 4 <= Len(s) THEN Len(s) - 4 + 1 ELSE 0)
        /\ \A i \in 1..Len(s) - 4 + 1 : r[i] = s[4 + i - 1]
    <3>1. 4 \in Int /\ Len(s) \in Int
      BY <1>1
    <3>2. QED
      BY <3>1, <2>1, SubSeqProperties
  <2> HIDE DEF r
  <2>3. Len(r) = Len(s) - 3
    <3> DEFINE n == Len(s)
    <3>1. n \in Nat /\ 2 < n
      BY <1>1, <1>3
    <3>2. Len(r) = (IF 4 <= n THEN n - 4 + 1 ELSE 0)
      BY <2>2
    <3> HIDE DEF n
    <3>3. Len(r) = n - 3
      BY <3>1, <3>2
    <3>4. QED
      BY <3>3 DEF n
  <2>4. ASSUME NEW i \in 1..Len(r)
        PROVE  r[i] = s[i + 3]
    <3>1. i \in 1..Len(s) - 4 + 1 /\ 4 + i - 1 = i + 3
      BY <2>3, <1>1
    <3>2. r[i] = s[4 + i - 1]
      BY <3>1, <2>2
    <3>3. QED
      BY <3>1, <3>2
  <2>5. QED
    BY <2>2, <2>3, <2>4
<1> HIDE DEF r
<1>5. Linked(r)
  <2>1. 3 \in Nat /\ 3 > 0 /\ 3 <= Len(s)
    BY <1>1, <1>3
  <2>2. QED
    BY <2>1, <1>4, RestLinked
<1>6. ASSUME r # << >>
      PROVE  r[1].op \in Opening
  <2>1. 1 \in 1..Len(r) /\ 3 \in 1..Len(s) /\ 3 < Len(s) /\ 3 + 1 = 4
    BY <1>1, <1>4, <1>6
  <2>2. r[1] = s[4] /\ r[1] \in Ops
    BY <1>4, <2>1
  <2>3. Follows(s[3], s[4])
    BY <2>1, LinkedAt
  <2>4. s[4].op \notin {"dump", "truncate", "write"}
    BY <2>3, <1>3 DEF Follows
  <2>5. QED
    BY <2>2, <2>4 DEF Ops, Opening
<1>7. QED
  BY <1>5, <1>6 DEF r

----------------------------------------------------------------------------
(* Types *)

Is == {"whole", "torn", "missing"}

(* What the processes are at. *)
WorkOK ==
    /\ DOMAIN todo = Processes
    /\ \A p \in Processes : Linked(todo[p])
    /\ queue \in [Processes -> Seq(ModelNames)]

TypeOK ==
    /\ dataset \in Nat
    /\ files \in [RequiredModels -> [is : Is, data : Nat, newer : BOOLEAN]]
    /\ registry.is \in Is
    /\ WorkOK
    /\ data \in [Trainers -> Nat]
    /\ DOMAIN seen = Processes
    /\ service \in {"down", "training", "up", "unchecked"}
    /\ child \in Processes

AtOpening(p) == Running(p) => Next_(p).op \in Opening

(* A process that goes on with the rest of its writes begins with the      *)
(* first of them or, when there is none, with an opening.                  *)
LEMMA GoOnFacts ==
    ASSUME WorkOK, NEW p \in Processes, NEW rest, Linked(rest), GoOn(p, rest)
    PROVE  /\ WorkOK'
           /\ \A q \in Processes \ {p} : todo'[q] = todo[q]
           /\ rest # << >> => todo'[p] = rest
           /\ rest = << >> => AtOpening(p)'
<1>1. CASE rest = << >> /\ queue[p] # << >>
  <2>1. queue[p] \in Seq(ModelNames) /\ Head(queue[p]) \in ModelNames /\ Tail(queue[p]) \in Seq(ModelNames)
    BY <1>1 DEF WorkOK
  <2>2. Startable(Train(Head(queue[p])))
    BY <2>1, TrainStartable
  <2>3. /\ todo' = [todo EXCEPT ![p] = Train(Head(queue[p]))]
        /\ queue' = [queue EXCEPT ![p] = Tail(queue[p])]
    BY <1>1 DEF GoOn
  <2>4. todo'[p] = Train(Head(queue[p])) /\ \A q \in Processes \ {p} : todo'[q] = todo[q]
    BY <2>3 DEF WorkOK
  <2>5. WorkOK'
    BY <2>1, <2>2, <2>3, <2>4 DEF WorkOK, Startable
  <2>6. QED
    BY <1>1, <2>2, <2>4, <2>5 DEF Startable, AtOpening, Running, Next_
<1>2. CASE ~(rest = << >> /\ queue[p] # << >>)
  <2>1. todo' = [todo EXCEPT ![p] = rest] /\ queue' = queue
    BY <1>2 DEF GoOn
  <2>2. todo'[p] = rest /\ \A q \in Processes \ {p} : todo'[q] = todo[q]
    BY <2>1 DEF WorkOK
  <2>3. WorkOK'
    BY <2>1, <2>2 DEF WorkOK
  <2>4. QED
    BY <2>2, <2>3 DEF AtOpening, Running
<1>3. QED
  BY <1>1, <1>2

LEMMA AdvanceFacts ==
    ASSUME WorkOK, NEW p \in Processes, Running(p), Advance(p)
    PROVE  /\ WorkOK'
           /\ \A q \in Processes \ {p} : todo'[q] = todo[q]
           /\ Next_(p).op \in Unfinished => Running(p)' /\ Follows(Next_(p), Next_(p)')
           /\ Next_(p).op \notin Unfinished => AtOpening(p)'
<1> DEFINE s == todo[p]
<1>1. /\ Linked(s) /\ s # << >> /\ Next_(p) = s[1]
  BY DEF WorkOK, Running, Next_
<1>2. /\ Linked(Tail(s)) /\ s[1] \in Ops
      /\ s[1].op \in Unfinished => Tail(s) # << >>
      /\ Tail(s) # << >> => Follows(s[1], Tail(s)[1]) /\ Tail(s)[1] \in Ops
  BY <1>1, TailLinked
<1>3. GoOn(p, Tail(s))
  BY DEF Advance
<1> HIDE DEF s
<1>4. /\ WorkOK'
      /\ \A q \in Processes \ {p} : todo'[q] = todo[q]
      /\ Tail(s) # << >> => todo'[p] = Tail(s)
      /\ Tail(s) = << >> => AtOpening(p)'
  BY <1>2, <1>3, GoOnFacts
<1>5. ASSUME Next_(p).op \in Unfinished
      PROVE  Running(p)' /\ Follows(Next_(p), Next_(p)')
  BY <1>1, <1>2, <1>4, <1>5 DEF Running, Next_
<1>6. ASSUME Next_(p).op \notin Unfinished
      PROVE  AtOpening(p)'
  <2>1. CASE Tail(s) = << >>
    BY <2>1, <1>4
  <2>2. CASE Tail(s) # << >>
    <3>1. Follows(s[1], Tail(s)[1]) /\ Tail(s)[1] \in Ops /\ todo'[p] = Tail(s)
      BY <2>2, <1>2, <1>4
    <3>2. Tail(s)[1].op \in Opening
      BY <3>1, <1>1, <1>6 DEF Follows, Unfinished, Opening, Ops
    <3>3. QED
      BY <3>1, <3>2 DEF AtOpening, Next_
  <2>3. QED
    BY <2>1, <2>2
<1>7. QED
  BY <1>4, <1>5, <1>6

(* Starting and ending processes. *)
LEMMA EmptyLinked == Linked(<< >>)
<1>1. << >> \in Seq(Ops) /\ Len(<< >>) = 0
  OBVIOUS
<1>2. QED
  BY <1>1 DEF Linked

LEMMA SetFacts ==
    ASSUME WorkOK, NEW p \in Processes, NEW s, Linked(s), NEW m \in Seq(ModelNames),
           todo' = [todo EXCEPT ![p] = s],
           queue' = [queue EXCEPT ![p] = m]
    PROVE  /\ WorkOK'
           /\ todo'[p] = s
           /\ \A q \in Processes \ {p} : todo'[q] = todo[q]
<1>1. todo'[p] = s /\ \A q \in Processes \ {p} : todo'[q] = todo[q]
  BY DEF WorkOK
<1>2. QED
  BY <1>1 DEF WorkOK

LEMMA SpawnFacts ==
    ASSUME WorkOK, NEW t \in Trainers, NEW models \in Seq(ModelNames), Spawn(t, models)
    PROVE  /\ WorkOK'
           /\ Running(t)' /\ Next_(t)'.op = "load"
           /\ \A q \in Processes \ {t} : todo'[q] = todo[q]
           /\ ~Running(t)
<1>1. t \in Processes /\ Linked(Script) /\ Script # << >> /\ Script[1].op = "load"
  BY ScriptStartable DEF Processes, Startable, Script, Op
<1>2. todo' = [todo EXCEPT ![t] = Script] /\ queue' = [queue EXCEPT ![t] = models] /\ ~Running(t)
  BY DEF Spawn
<1>3. /\ WorkOK'
      /\ todo'[t] = Script
      /\ \A q \in Processes \ {t} : todo'[q] = todo[q]
  BY <1>1, <1>2, SetFacts
<1>4. QED
  BY <1>1, <1>2, <1>3 DEF Running, Next_

LEMMA DieFacts ==
    ASSUME WorkOK, NEW p \in Processes, Die(p)
    PROVE  /\ WorkOK'
           /\ ~Running(p)'
           /\ \A q \in Processes \ {p} : todo'[q] = todo[q]
<1>1. todo' = [todo EXCEPT ![p] = << >>] /\ queue' = [queue EXCEPT ![p] = << >>]
  BY DEF Die
<1>2. << >> \in Seq(ModelNames)
  OBVIOUS
<1>3. QED
  BY <1>1, <1>2, SetFacts, EmptyLinked DEF Running

LEMMA FitFacts ==
    ASSUME WorkOK, NEW key \in FitKeys, FitForQuestion(key)
    PROVE  /\ WorkOK'
           /\ Running(Service)' /\ Next_(Service)'.op = "read"
           /\ \A q \in Processes \ {Service} : todo'[q] = todo[q]
           /\ ~Running(Service)
<1>1. Service \in Processes /\ key \in Keys
  BY DEF Processes, Keys
<1>2. Linked(UpdateRegistry(key)) /\ UpdateRegistry(key) # << >> /\ UpdateRegistry(key)[1].op = "read"
  BY <1>1, UpdateStartable DEF Startable, UpdateRegistry, Op
<1>3. todo' = [todo EXCEPT ![Service] = UpdateRegistry(key)] /\ queue' = queue /\ ~Running(Service)
  BY DEF FitForQuestion
<1>4. todo'[Service] = UpdateRegistry(key) /\ \A q \in Processes \ {Service} : todo'[q] = todo[q]
  BY <1>1, <1>3 DEF WorkOK
<1>5. WorkOK'
  BY <1>2, <1>3, <1>4 DEF WorkOK
<1>6. QED
  BY <1>2, <1>3, <1>4, <1>5 DEF Running, Next_

(* An update is given up or its truncation is next. *)
LEMMA ReadFacts ==
    ASSUME WorkOK, NEW p \in Processes, ReadRegistry(p)
    PROVE  /\ WorkOK'
           /\ \A q \in Processes \ {p} : todo'[q] = todo[q]
           /\ Readable(p) => Running(p)' /\ Next_(p)'.op = "truncate" /\ seen' = [seen EXCEPT ![p] = registry.models]
           /\ ~Readable(p) => AtOpening(p)' /\ seen' = seen
<1>1. Running(p) /\ Next_(p).op = "read"
  BY DEF ReadRegistry
<1>2. CASE Readable(p)
  <2>1. Advance(p) /\ seen' = [seen EXCEPT ![p] = registry.models]
    BY <1>2 DEF ReadRegistry
  <2>2. QED
    BY <1>1, <1>2, <2>1, AdvanceFacts DEF Unfinished, Follows, Op
<1>3. CASE ~Readable(p)
  <2> DEFINE r == SubSeq(todo[p], 4, Len(todo[p]))
  <2>1. GoOn(p, r) /\ seen' = seen
    BY <1>3 DEF ReadRegistry
  <2>2. Linked(r) /\ (r # << >> => r[1].op \in Opening)
    BY <1>1, GivenUpLinked DEF WorkOK, Running, Next_
  <2> HIDE DEF r
  <2>3. /\ WorkOK'
        /\ \A q \in Processes \ {p} : todo'[q] = todo[q]
        /\ r # << >> => todo'[p] = r
        /\ r = << >> => AtOpening(p)'
    BY <2>1, <2>2, GoOnFacts
  <2>4. AtOpening(p)'
    BY <2>2, <2>3 DEF AtOpening, Next_
  <2>5. QED
    BY <1>3, <2>1, <2>3, <2>4
<1>4. QED
  BY <1>2, <1>3

LEMMA InitTypeOK == Init => TypeOK
<1> SUFFICES ASSUME Init PROVE TypeOK
  OBVIOUS
<1>1. dataset \in Nat /\ service \in {"down", "training", "up", "unchecked"} /\ child \in Processes
  BY DEF Init, Processes
<1>2. files \in [RequiredModels -> [is : Is, data : Nat, newer : BOOLEAN]]
  <2>1. PICK from \in Checkouts, new \in {FALSE, dataset = 1} :
           files = [f \in RequiredModels |->
                      IF f \in from.lost THEN File("missing", 0, FALSE) ELSE File("whole", 1, new)]
    BY DEF Init
  <2>2. new \in BOOLEAN
    OBVIOUS
  <2>3. QED
    BY <2>1, <2>2 DEF File, Is
<1>3. registry.is \in Is
  BY CheckoutsAssumption DEF Init, Is
<1>4. WorkOK
  <2>1. << >> \in Seq(ModelNames)
    OBVIOUS
  <2>2. QED
    BY <2>1, EmptyLinked DEF Init, WorkOK
<1>5. data \in [Trainers -> Nat] /\ DOMAIN seen = Processes
  BY DEF Init
<1>6. QED
  BY <1>1, <1>2, <1>3, <1>4, <1>5 DEF TypeOK

(* The models an operator names, and the models of a boot, are sequences   *)
(* train.py knows.                                                         *)
LEMMA ScriptsTyped ==
    /\ AllModels \in Seq(ModelNames)
    /\ \A model \in CLIModels : << model >> \in Seq(ModelNames)
<1>1. AllModels \in Seq(ModelNames)
  BY ModelsAssumption
<1>2. Range(AllModels) \subseteq ModelNames
  BY <1>1 DEF Range
<1>3. \A model \in CLIModels : model \in ModelNames
  BY <1>2, ModelsAssumption
<1>4. QED
  BY <1>1, <1>3

LEMMA NextTypeOK == TypeOK /\ [Next]_vars => TypeOK'
<1> SUFFICES ASSUME TypeOK, [Next]_vars PROVE TypeOK'
  OBVIOUS
<1> USE DEF TypeOK
<1>1. ASSUME NEW t \in Trainers, LoadDataset(t) PROVE TypeOK'
  <2>1. t \in Processes /\ Running(t)
    BY <1>1 DEF Processes, LoadDataset
  <2>2. WorkOK'
    <3>1. CASE dataset = 0
      <4>1. << >> \in Seq(ModelNames)
        OBVIOUS
      <4>2. QED
        BY <4>1, <3>1, <2>1, <1>1, SetFacts, EmptyLinked DEF LoadDataset
    <3>2. CASE dataset # 0
      BY <3>2, <2>1, <1>1, AdvanceFacts DEF LoadDataset
    <3>3. QED
      BY <3>1, <3>2
  <2>3. QED
    BY <2>2, <1>1 DEF LoadDataset
<1>2. ASSUME NEW t \in Trainers, OpenFile(t) PROVE TypeOK'
  <2>1. t \in Processes /\ Running(t) /\ Advance(t)
    BY <1>2 DEF Processes, OpenFile
  <2>2. WorkOK'
    BY <2>1, AdvanceFacts
  <2>3. File("torn", 0, TRUE) \in [is : Is, data : Nat, newer : BOOLEAN]
    BY DEF File, Is
  <2>4. files' \in [RequiredModels -> [is : Is, data : Nat, newer : BOOLEAN]]
    BY <2>3, <1>2 DEF OpenFile
  <2>5. QED
    BY <2>2, <2>4, <1>2 DEF OpenFile
<1>3. ASSUME NEW t \in Trainers, NEW outcome \in {"whole", "torn"}, DumpFile(t, outcome) PROVE TypeOK'
  <2>1. t \in Processes /\ Running(t) /\ Advance(t)
    BY <1>3 DEF Processes, DumpFile
  <2>2. WorkOK'
    BY <2>1, AdvanceFacts
  <2>3. File(outcome, data[t], TRUE) \in [is : Is, data : Nat, newer : BOOLEAN]
    BY DEF File, Is
  <2>4. files' \in [RequiredModels -> [is : Is, data : Nat, newer : BOOLEAN]]
    BY <2>3, <1>3 DEF DumpFile
  <2>5. QED
    BY <2>2, <2>4, <1>3 DEF DumpFile
<1>4. ASSUME NEW p \in Processes, ReadRegistry(p) PROVE TypeOK'
  <2>1. WorkOK'
    BY <1>4, ReadFacts
  <2>2. DOMAIN seen' = Processes
    BY <1>4, ReadFacts
  <2>3. QED
    BY <2>1, <2>2, <1>4 DEF ReadRegistry
<1>5. ASSUME NEW p \in Processes, TruncateRegistry(p) PROVE TypeOK'
  <2>1. WorkOK'
    BY <1>5, AdvanceFacts DEF TruncateRegistry
  <2>2. QED
    BY <2>1, <1>5 DEF TruncateRegistry, Is
<1>6. ASSUME NEW p \in Processes, NEW outcome \in {"whole", "torn"}, WriteRegistry(p, outcome) PROVE TypeOK'
  <2>1. WorkOK'
    BY <1>6, AdvanceFacts DEF WriteRegistry
  <2>2. QED
    BY <2>1, <1>6 DEF WriteRegistry, Is
<1>7. ASSUME NEW t \in Trainers, Boot(t) PROVE TypeOK'
  <2>1. WorkOK' /\ service' \in {"down", "training", "up", "unchecked"} /\ child' \in Processes
    <3>1. CASE UpToDate
      BY <3>1, <1>7 DEF Boot, WorkOK
    <3>2. CASE ~UpToDate
      <4>1. Spawn(t, AllModels) /\ service' = "training" /\ child' = t
        BY <3>2, <1>7 DEF Boot
      <4>2. QED
        BY <4>1, SpawnFacts, ScriptsTyped DEF Processes
    <3>3. QED
      BY <3>1, <3>2
  <2>2. QED
    BY <2>1, <1>7 DEF Boot
<1>8. CASE TrainingEnds
  <2>1. child' \in Processes
    BY <1>8 DEF TrainingEnds, Processes
  <2>2. QED
    BY <2>1, <1>8 DEF TrainingEnds, WorkOK
<1>9. CASE TrainingTimesOut
  <2>1. WorkOK' /\ child' \in Processes
    BY <1>9, DieFacts DEF TrainingTimesOut, Processes
  <2>2. QED
    BY <2>1, <1>9 DEF TrainingTimesOut, Die
<1>10. ASSUME NEW t \in Trainers, TrainerDies(t) PROVE TypeOK'
  <2>1. t \in Processes
    BY DEF Processes
  <2>2. WorkOK'
    BY <1>10, <2>1, DieFacts DEF TrainerDies
  <2>3. QED
    BY <2>2, <1>10 DEF TrainerDies, Die
<1>11. CASE ServiceDies
  <2>1. Service \in Processes
    BY DEF Processes
  <2>2. WorkOK'
    BY <1>11, <2>1, DieFacts DEF ServiceDies
  <2>3. QED
    BY <2>1, <2>2, <1>11 DEF ServiceDies, Die
<1>12. ASSUME NEW t \in Trainers, NEW model \in CLIModels, OperatorTrains(t, model) PROVE TypeOK'
  <2>1. WorkOK'
    BY <1>12, SpawnFacts, ScriptsTyped DEF OperatorTrains
  <2>2. QED
    BY <2>1, <1>12 DEF OperatorTrains
<1>13. ASSUME NEW key \in FitKeys, FitForQuestion(key) PROVE TypeOK'
  <2>1. WorkOK'
    BY <1>13, FitFacts
  <2>2. QED
    BY <2>1, <1>13 DEF FitForQuestion
<1>14. ASSUME NEW preserved \in BOOLEAN, ReplaceDataset(preserved) PROVE TypeOK'
  <2>1. files' \in [RequiredModels -> [is : Is, data : Nat, newer : BOOLEAN]]
    BY <1>14 DEF ReplaceDataset
  <2>2. QED
    BY <2>1, <1>14 DEF ReplaceDataset, WorkOK
<1>15. CASE UNCHANGED vars \/ BootSkips
  BY <1>15 DEF vars, BootSkips, WorkOK
<1>16. QED
  BY <1>1, <1>2, <1>3, <1>4, <1>5, <1>6, <1>7, <1>8, <1>9, <1>10, <1>11, <1>12, <1>13, <1>14, <1>15
     DEF Next

----------------------------------------------------------------------------
(* What a start finds in the files *)

Fresh == "replaced" \notin blame

(* A trainer works with the dataset there is now. *)
LoadedCurrent == \A t \in Trainers : Running(t) /\ Next_(t).op # "load" => data[t] = dataset

NewerIsCurrent ==
    \A f \in RequiredModels :
        files[f].is = "whole" /\ files[f].newer => files[f].data = dataset \/ f \in outdated

(* A torn file is being written, or its writer died. *)
TornIsAccounted ==
    \A f \in RequiredModels : files[f].is = "torn" => f \in cut \/ \E t \in Trainers : Writing(t, "dump", f)

DumpedIsNewer ==
    \A t \in Trainers : \A f \in RequiredModels :
        Writing(t, "dump", f) => files[f].newer /\ f \notin outdated

(* As long as no dataset was replaced under a trainer. *)
FilesInv == Fresh => LoadedCurrent /\ NewerIsCurrent /\ TornIsAccounted /\ DumpedIsNewer

(* A step that leaves the files, the dataset and the loaded data alone,    *)
(* makes no new writer and loses none that is not entered into cut.        *)
LEMMA FilesUntouched ==
    ASSUME FilesInv, UNCHANGED << dataset, files, outdated >>, blame \subseteq blame', 
           \A t \in Trainers : Running(t)' /\ Next_(t)'.op # "load" =>
               (Running(t) /\ Next_(t).op # "load" /\ data'[t] = data[t]) \/ data'[t] = dataset,
           \A t \in Trainers : \A f \in RequiredModels :
               /\ Writing(t, "dump", f)' => Writing(t, "dump", f)
               /\ Writing(t, "dump", f) => Writing(t, "dump", f)' \/ f \in cut',
           \A f \in RequiredModels : f \in cut => f \in cut'
    PROVE  FilesInv'
<1> SUFFICES ASSUME Fresh' PROVE (LoadedCurrent /\ NewerIsCurrent /\ TornIsAccounted /\ DumpedIsNewer)'
  BY DEF FilesInv
<1>1. LoadedCurrent /\ NewerIsCurrent /\ TornIsAccounted /\ DumpedIsNewer
  BY DEF FilesInv, Fresh
<1>2. LoadedCurrent'
  BY <1>1 DEF LoadedCurrent
<1>3. NewerIsCurrent'
  BY <1>1 DEF NewerIsCurrent
<1>4. TornIsAccounted'
  BY <1>1 DEF TornIsAccounted
<1>5. DumpedIsNewer'
  BY <1>1 DEF DumpedIsNewer
<1>6. QED
  BY <1>2, <1>3, <1>4, <1>5

LEMMA InitFilesInv == Init => FilesInv
<1> SUFFICES ASSUME Init PROVE FilesInv
  OBVIOUS
<1>1. PICK from \in Checkouts, new \in {FALSE, dataset = 1} :
         files = [f \in RequiredModels |->
                    IF f \in from.lost THEN File("missing", 0, FALSE) ELSE File("whole", 1, new)]
  BY DEF Init
<1>2. \A p \in Processes : ~Running(p)
  BY DEF Init, Running
<1>3. \A t \in Trainers : t \in Processes
  BY DEF Processes
<1>4. new => dataset = 1
  OBVIOUS
<1>5. NewerIsCurrent
  BY <1>1, <1>4 DEF NewerIsCurrent, File
<1>6. TornIsAccounted
  BY <1>1 DEF TornIsAccounted, File
<1>7. LoadedCurrent /\ DumpedIsNewer
  BY <1>2, <1>3 DEF LoadedCurrent, DumpedIsNewer, Writing
<1>8. QED
  BY <1>5, <1>6, <1>7 DEF FilesInv

(* The same when one process goes on to something other than a dump, or    *)
(* ends.                                                                   *)
LEMMA FilesMoved ==
    ASSUME TypeOK, FilesInv, UNCHANGED << dataset, files, outdated, data >>, blame \subseteq blame', NEW p \in Processes,
           \A q \in Processes \ {p} : todo'[q] = todo[q],
           Running(p)' => Next_(p)'.op # "dump",
           Running(p)' /\ Next_(p)'.op # "load" => p \notin Trainers \/ (Running(p) /\ Next_(p).op # "load"),
           \A f \in RequiredModels : Writing(p, "dump", f) => f \in cut',
           \A f \in RequiredModels : f \in cut => f \in cut'
    PROVE  FilesInv'
<1>1. \A t \in Trainers : t \in Processes
  BY DEF Processes
<1>2. ASSUME NEW t \in Trainers, Running(t)', Next_(t)'.op # "load"
      PROVE  Running(t) /\ Next_(t).op # "load" /\ data'[t] = data[t]
  BY <1>1, <1>2 DEF Running, Next_
<1>3. ASSUME NEW t \in Trainers, NEW f \in RequiredModels
      PROVE  /\ Writing(t, "dump", f)' => Writing(t, "dump", f)
             /\ Writing(t, "dump", f) => Writing(t, "dump", f)' \/ f \in cut'
  BY <1>1, <1>3 DEF Writing, Running, Next_
<1>4. QED
  BY <1>2, <1>3, FilesUntouched

LEMMA DieFilesInv ==
    ASSUME TypeOK, FilesInv, NEW p \in Processes, Die(p), UNCHANGED << dataset, files, outdated, data, blame >>
    PROVE  FilesInv'
<1>1. ~Running(p)' /\ \A q \in Processes \ {p} : todo'[q] = todo[q]
  BY DieFacts DEF TypeOK
<1>2. \A f \in RequiredModels : Writing(p, "dump", f) => f \in cut'
  BY DEF Die, Left, Writing
<1>3. \A f \in RequiredModels : f \in cut => f \in cut'
  BY DEF Die
<1>4. QED
  BY <1>1, <1>2, <1>3, FilesMoved

LEMMA SpawnFilesInv ==
    ASSUME TypeOK, FilesInv, NEW t \in Trainers, NEW models \in Seq(ModelNames), Spawn(t, models),
           UNCHANGED << dataset, files, outdated, data, blame, cut >>
    PROVE  FilesInv'
<1>1. /\ t \in Processes /\ ~Running(t)
      /\ Running(t)' /\ Next_(t)'.op = "load"
      /\ \A q \in Processes \ {t} : todo'[q] = todo[q]
  BY SpawnFacts DEF TypeOK, Processes
<1>2. QED
  BY <1>1, FilesMoved DEF Writing

(* Emptying a file makes its writer the one who accounts for it.           *)
LEMMA OpenFilesInv ==
    ASSUME TypeOK, FilesInv, NEW t \in Trainers, OpenFile(t)
    PROVE  FilesInv'
<1> DEFINE g == Next_(t).on
<1> SUFFICES ASSUME Fresh' PROVE (LoadedCurrent /\ NewerIsCurrent /\ TornIsAccounted /\ DumpedIsNewer)'
  BY DEF FilesInv
<1>1. /\ Running(t) /\ Next_(t).op = "open" /\ Advance(t) /\ t \in Processes
      /\ files' = [files EXCEPT ![g] = File("torn", 0, TRUE)]
      /\ outdated' = outdated \ {g}
      /\ UNCHANGED << dataset, data, cut, blame >>
  BY DEF OpenFile, Processes
<1>2. LoadedCurrent /\ NewerIsCurrent /\ TornIsAccounted /\ DumpedIsNewer
  BY <1>1 DEF FilesInv, Fresh
<1>3. /\ Running(t)' /\ Next_(t)' = [op |-> "dump", on |-> g]
      /\ \A q \in Processes \ {t} : todo'[q] = todo[q]
  BY <1>1, AdvanceFacts DEF TypeOK, Unfinished, Follows, Op
<1>4. \A u \in Trainers : u \in Processes /\ (u # t => todo'[u] = todo[u])
  BY <1>3 DEF Processes
<1>5. \A f \in RequiredModels : /\ f # g => files'[f] = files[f]
                                /\ f = g => files'[f] = File("torn", 0, TRUE)
  BY <1>1 DEF TypeOK
<1> HIDE DEF g
<1>6. LoadedCurrent'
  BY <1>1, <1>2, <1>4 DEF LoadedCurrent, Running, Next_
<1>7. NewerIsCurrent'
  BY <1>1, <1>2, <1>5 DEF NewerIsCurrent, File
<1>8. TornIsAccounted'
  <2> SUFFICES ASSUME NEW f \in RequiredModels, files'[f].is = "torn", f \notin cut'
               PROVE  \E u \in Trainers : Writing(u, "dump", f)'
    BY DEF TornIsAccounted
  <2>1. CASE f = g
    BY <2>1, <1>3 DEF Writing
  <2>2. CASE f # g
    <3>1. PICK u \in Trainers : Writing(u, "dump", f)
      BY <2>2, <1>1, <1>2, <1>5 DEF TornIsAccounted
    <3>2. u # t
      BY <3>1, <1>1 DEF Writing
    <3>3. QED
      BY <3>1, <3>2, <1>4 DEF Writing, Running, Next_
  <2>3. QED
    BY <2>1, <2>2
<1>9. DumpedIsNewer'
  <2> SUFFICES ASSUME NEW u \in Trainers, NEW f \in RequiredModels, Writing(u, "dump", f)'
               PROVE  files'[f].newer /\ f \notin outdated'
    BY DEF DumpedIsNewer
  <2>1. CASE f = g
    BY <2>1, <1>1, <1>5 DEF File
  <2>2. CASE f # g
    <3>1. u # t
      BY <2>2, <1>3 DEF Writing
    <3>2. Writing(u, "dump", f)
      BY <3>1, <1>4 DEF Writing, Running, Next_
    <3>3. QED
      BY <2>2, <3>2, <1>1, <1>2, <1>5 DEF DumpedIsNewer
  <2>3. QED
    BY <2>1, <2>2
<1>10. QED
  BY <1>6, <1>7, <1>8, <1>9

(* While no dataset is replaced under a trainer, whoever has the file open *)
(* has the same data: no dump leaves the file torn.                        *)
LEMMA DumpIsWhole ==
    ASSUME TypeOK, FilesInv, Fresh, NEW t \in Trainers, Running(t), Next_(t).op = "dump",
           Next_(t).on \in RequiredModels
    PROVE  ~Mixed(t, Next_(t).on)
<1>1. LoadedCurrent /\ NewerIsCurrent /\ DumpedIsNewer
  BY DEF FilesInv
<1>2. data[t] = dataset /\ files[Next_(t).on].newer /\ Next_(t).on \notin outdated
  BY <1>1 DEF LoadedCurrent, DumpedIsNewer, Writing
<1>3. files[Next_(t).on].is = "whole" => files[Next_(t).on].data = dataset
  BY <1>1, <1>2 DEF NewerIsCurrent
<1>4. \A u \in Trainers : Writing(u, "dump", Next_(t).on) => data[u] = dataset
  BY <1>1 DEF LoadedCurrent, Writing
<1>5. QED
  BY <1>2, <1>3, <1>4 DEF Mixed

LEMMA DumpFilesInv ==
    ASSUME TypeOK, FilesInv, NEW t \in Trainers, NEW outcome \in {"whole", "torn"}, DumpFile(t, outcome)
    PROVE  FilesInv'
<1> DEFINE g == Next_(t).on
<1> SUFFICES ASSUME Fresh' PROVE (LoadedCurrent /\ NewerIsCurrent /\ TornIsAccounted /\ DumpedIsNewer)'
  BY DEF FilesInv
<1>1. /\ Running(t) /\ Next_(t).op = "dump" /\ Advance(t) /\ t \in Processes
      /\ files' = [files EXCEPT ![g] = File(outcome, data[t], TRUE)]
      /\ cut' = cut \ {g} /\ outdated' = outdated \ {g}
      /\ (outcome = "torn" => Mixed(t, g))
      /\ UNCHANGED << dataset, data, blame >>
  BY DEF DumpFile, Processes
<1>2. LoadedCurrent /\ NewerIsCurrent /\ TornIsAccounted /\ DumpedIsNewer /\ Fresh
  BY <1>1 DEF FilesInv, Fresh
<1>3. /\ AtOpening(t)'
      /\ \A q \in Processes \ {t} : todo'[q] = todo[q]
  BY <1>1, AdvanceFacts DEF TypeOK, Unfinished
<1>4. \A u \in Trainers : u \in Processes /\ (u # t => todo'[u] = todo[u])
  BY <1>3 DEF Processes
<1>5. g \in RequiredModels => outcome = "whole"
  BY <1>1, <1>2, DumpIsWhole
<1>6. \A f \in RequiredModels : /\ f # g => files'[f] = files[f]
                                /\ f = g => files'[f] = File("whole", data[t], TRUE)
  BY <1>1, <1>5 DEF TypeOK
<1>7. data[t] = dataset
  BY <1>1, <1>2 DEF LoadedCurrent
<1> HIDE DEF g
<1>8. LoadedCurrent'
  BY <1>1, <1>2, <1>4, <1>7 DEF LoadedCurrent, Running, Next_
<1>9. NewerIsCurrent'
  BY <1>1, <1>2, <1>6, <1>7 DEF NewerIsCurrent, File
<1>10. TornIsAccounted'
  <2> SUFFICES ASSUME NEW f \in RequiredModels, files'[f].is = "torn", f \notin cut'
               PROVE  \E u \in Trainers : Writing(u, "dump", f)'
    BY DEF TornIsAccounted
  <2>1. f # g /\ files'[f] = files[f] /\ f \notin cut
    BY <1>1, <1>6 DEF File
  <2>2. PICK u \in Trainers : Writing(u, "dump", f)
    BY <2>1, <1>2 DEF TornIsAccounted
  <2>3. u # t
    BY <2>1, <2>2 DEF Writing, g
  <2>4. QED
    BY <2>2, <2>3, <1>4 DEF Writing, Running, Next_
<1>11. DumpedIsNewer'
  <2> SUFFICES ASSUME NEW u \in Trainers, NEW f \in RequiredModels, Writing(u, "dump", f)'
               PROVE  files'[f].newer /\ f \notin outdated'
    BY DEF DumpedIsNewer
  <2>1. u # t
    BY <1>3 DEF Writing, AtOpening, Opening
  <2>2. Writing(u, "dump", f)
    BY <2>1, <1>4 DEF Writing, Running, Next_
  <2>3. QED
    BY <2>2, <1>1, <1>2, <1>6 DEF DumpedIsNewer, File
<1>12. QED
  BY <1>8, <1>9, <1>10, <1>11

LEMMA RegistryIsNoModel == Registry \notin RequiredModels
<1>1. ASSUME NEW model \in ModelNames, NEW f \in Saved(model)
      PROVE  f \in FileNames
  <2>1. Train(model) \in Seq(Ops)
    BY TrainStartable DEF Startable, Linked
  <2>2. PICK step \in Range(Train(model)) : step.op = "dump" /\ f = step.on
    BY DEF Saved
  <2>3. step \in Ops
    BY <2>1, <2>2 DEF Range
  <2>4. QED
    BY <2>2, <2>3 DEF Ops
<1>2. \A m \in Range(AllModels) : m \in ModelNames
  BY ModelsAssumption DEF Range
<1>3. Registry \notin FileNames
  BY DEF Registry, FileNames
<1>4. QED
  BY <1>1, <1>2, <1>3 DEF RequiredModels

LEMMA NextFilesInv == TypeOK /\ FilesInv /\ [Next]_vars => FilesInv'
<1> SUFFICES ASSUME TypeOK, FilesInv, [Next]_vars PROVE FilesInv'
  OBVIOUS
<1>1. ASSUME NEW t \in Trainers, LoadDataset(t) PROVE FilesInv'
  <2>1. /\ t \in Processes /\ Running(t) /\ Next_(t).op = "load"
        /\ data' = [data EXCEPT ![t] = dataset] /\ UNCHANGED << dataset, files, outdated, cut, blame >>
    BY <1>1 DEF Processes, LoadDataset
  <2>2. AtOpening(t)' /\ \A q \in Processes \ {t} : todo'[q] = todo[q]
    <3>1. CASE dataset = 0
      <4>1. todo' = [todo EXCEPT ![t] = << >>]
        BY <3>1, <1>1 DEF LoadDataset
      <4>2. QED
        BY <4>1, <2>1 DEF TypeOK, WorkOK, AtOpening, Running
    <3>2. CASE dataset # 0
      BY <3>2, <2>1, <1>1, AdvanceFacts DEF LoadDataset, TypeOK, Unfinished
    <3>3. QED
      BY <3>1, <3>2
  <2>3. \A u \in Trainers : u \in Processes /\ (u # t => todo'[u] = todo[u])
    BY <2>2 DEF Processes
  <2>4. ASSUME NEW u \in Trainers, Running(u)', Next_(u)'.op # "load"
        PROVE  (Running(u) /\ Next_(u).op # "load" /\ data'[u] = data[u]) \/ data'[u] = dataset
    BY <2>1, <2>3, <2>4 DEF Running, Next_, TypeOK
  <2>5. ASSUME NEW u \in Trainers, NEW f \in RequiredModels
        PROVE  Writing(u, "dump", f)' <=> Writing(u, "dump", f)
    BY <2>1, <2>2, <2>3, <2>5 DEF Writing, Running, Next_, AtOpening, Opening
  <2>6. QED
    BY <2>1, <2>4, <2>5, FilesUntouched
<1>2. ASSUME NEW t \in Trainers, OpenFile(t) PROVE FilesInv'
  BY <1>2, OpenFilesInv
<1>3. ASSUME NEW t \in Trainers, NEW outcome \in {"whole", "torn"}, DumpFile(t, outcome) PROVE FilesInv'
  BY <1>3, DumpFilesInv
<1>4. ASSUME NEW p \in Processes, ReadRegistry(p) PROVE FilesInv'
  <2>1. /\ Running(p) /\ Next_(p).op = "read"
        /\ UNCHANGED << dataset, files, outdated, data, cut >> /\ blame \subseteq blame'
    BY <1>4 DEF ReadRegistry
  <2>2. /\ \A q \in Processes \ {p} : todo'[q] = todo[q]
        /\ Running(p)' => Next_(p)'.op # "dump"
    BY <1>4, ReadFacts DEF TypeOK, AtOpening, Opening
  <2>3. QED
    BY <2>1, <2>2, FilesMoved DEF Writing
<1>5. ASSUME NEW p \in Processes, TruncateRegistry(p) PROVE FilesInv'
  <2>1. /\ Running(p) /\ Next_(p).op = "truncate" /\ Advance(p)
        /\ UNCHANGED << dataset, files, outdated, data, cut, blame >>
    BY <1>5 DEF TruncateRegistry
  <2>2. /\ \A q \in Processes \ {p} : todo'[q] = todo[q]
        /\ Running(p)' /\ Next_(p)'.op = "write"
    BY <2>1, AdvanceFacts DEF TypeOK, Unfinished, Follows, Op
  <2>3. QED
    BY <2>1, <2>2, FilesMoved DEF Writing
<1>6. ASSUME NEW p \in Processes, NEW outcome \in {"whole", "torn"}, WriteRegistry(p, outcome) PROVE FilesInv'
  <2>1. /\ Running(p) /\ Next_(p).op = "write" /\ Advance(p)
        /\ UNCHANGED << dataset, files, outdated, data, blame >>
    BY <1>6 DEF WriteRegistry
  <2>2. \A f \in RequiredModels : f \in cut => f \in cut'
    BY <1>6, RegistryIsNoModel DEF WriteRegistry
  <2>3. /\ \A q \in Processes \ {p} : todo'[q] = todo[q]
        /\ Running(p)' => Next_(p)'.op # "dump"
    BY <2>1, AdvanceFacts DEF TypeOK, Unfinished, AtOpening, Opening
  <2>4. QED
    BY <2>1, <2>2, <2>3, FilesMoved DEF Writing
<1>7. ASSUME NEW t \in Trainers, Boot(t) PROVE FilesInv'
  <2>1. UNCHANGED << dataset, files, outdated, data, blame, cut >>
    BY <1>7 DEF Boot
  <2>2. CASE UpToDate
    <3>1. todo' = todo
      BY <2>2, <1>7 DEF Boot
    <3>2. QED
      BY <2>1, <3>1, FilesUntouched DEF Running, Next_, Writing
  <2>3. CASE ~UpToDate
    <3>1. Spawn(t, AllModels)
      BY <2>3, <1>7 DEF Boot
    <3>2. QED
      BY <2>1, <3>1, SpawnFilesInv, ScriptsTyped
  <2>4. QED
    BY <2>2, <2>3
<1>8. CASE TrainingEnds
  BY <1>8, FilesUntouched DEF TrainingEnds, Running, Next_, Writing
<1>9. CASE TrainingTimesOut
  BY <1>9, DieFilesInv DEF TrainingTimesOut, TypeOK
<1>10. ASSUME NEW t \in Trainers, TrainerDies(t) PROVE FilesInv'
  BY <1>10, DieFilesInv DEF TrainerDies, Processes
<1>11. CASE ServiceDies
  BY <1>11, DieFilesInv DEF ServiceDies, Processes
<1>12. ASSUME NEW t \in Trainers, NEW model \in CLIModels, OperatorTrains(t, model) PROVE FilesInv'
  BY <1>12, SpawnFilesInv, ScriptsTyped DEF OperatorTrains
<1>13. ASSUME NEW key \in FitKeys, FitForQuestion(key) PROVE FilesInv'
  <2>1. Service \in Processes /\ UNCHANGED << dataset, files, outdated, data, cut, blame >>
    BY <1>13 DEF FitForQuestion, Processes
  <2>2. QED
    BY <2>1, <1>13, FitFacts, FilesMoved, TrainersAssumption DEF TypeOK, Writing
<1>14. ASSUME NEW preserved \in BOOLEAN, ReplaceDataset(preserved) PROVE FilesInv'
  <2> SUFFICES ASSUME Fresh' PROVE (LoadedCurrent /\ NewerIsCurrent /\ TornIsAccounted /\ DumpedIsNewer)'
    BY DEF FilesInv
  <2>1. /\ \A t \in Trainers : ~Running(t)
        /\ files' = [f \in RequiredModels |-> [files[f] EXCEPT !.newer = preserved]]
        /\ outdated' = IF preserved THEN RequiredModels ELSE {}
        /\ UNCHANGED << todo, cut >> /\ Fresh
    BY <1>14 DEF ReplaceDataset, Fresh
  <2>2. TornIsAccounted
    BY <2>1 DEF FilesInv
  <2>3. \A f \in RequiredModels :
            files'[f].is = files[f].is /\ files'[f].newer = preserved
    BY <2>1 DEF TypeOK
  <2>4. \A t \in Trainers : ~Running(t)'
    BY <2>1 DEF Running
  <2>5. TornIsAccounted'
    BY <2>1, <2>2, <2>3 DEF TornIsAccounted, Writing
  <2>6. NewerIsCurrent'
    BY <2>1, <2>3 DEF NewerIsCurrent
  <2>7. QED
    BY <2>4, <2>5, <2>6 DEF LoadedCurrent, DumpedIsNewer, Writing
<1>15. CASE UNCHANGED vars \/ BootSkips
  BY <1>15, FilesUntouched DEF vars, BootSkips, Running, Next_, Writing
<1>16. QED
  BY <1>1, <1>2, <1>3, <1>4, <1>5, <1>6, <1>7, <1>8, <1>9, <1>10, <1>11, <1>12, <1>13, <1>14, <1>15
     DEF Next

----------------------------------------------------------------------------
(* What the registry keeps *)

Calm == "overlap" \notin blame

AtWrite(p) == Running(p) /\ Next_(p).op = "write"

OneUpdate == \A p, q \in Processes : InUpdate(p) /\ InUpdate(q) => p = q

(* The registry is torn from its truncation to its writing, and for good   *)
(* when a process died between them.                                       *)
TornRegistry == registry.is = "torn" <=> (Registry \in cut \/ \E p \in Processes : AtWrite(p))

CutIsFinal == Registry \in cut => \A p \in Processes : ~InUpdate(p)

(* Whoever is in an update has read every key there is.                    *)
SeenAll == Registry \notin cut => \A p \in Processes : InUpdate(p) => wrote \subseteq DOMAIN seen[p]

KeptAll == Registry \notin cut /\ (\A p \in Processes : ~AtWrite(p)) => wrote \subseteq DOMAIN registry.models

(* As long as no two updates overlapped.                                   *)
RegistryInv == Calm => OneUpdate /\ TornRegistry /\ CutIsFinal /\ SeenAll /\ KeptAll

LEMMA InitRegistryInv == Init => RegistryInv
<1> SUFFICES ASSUME Init PROVE RegistryInv
  OBVIOUS
<1>1. \A p \in Processes : ~Running(p)
  BY DEF Init, Running
<1>2. /\ registry.is # "torn" /\ cut = {} /\ wrote = DOMAIN registry.models
  BY CheckoutsAssumption DEF Init
<1>3. QED
  BY <1>1, <1>2 DEF RegistryInv, OneUpdate, TornRegistry, CutIsFinal, SeenAll, KeptAll, InUpdate, AtWrite

(* A step that leaves the registry alone, begins no update and ends none   *)
(* that is at its writing.                                                 *)
LEMMA RegistryUntouched ==
    ASSUME RegistryInv, UNCHANGED << registry, wrote >>, blame \subseteq blame',
           Registry \in cut' <=> Registry \in cut,
           \A q \in Processes : InUpdate(q)' => InUpdate(q) /\ seen'[q] = seen[q],
           \A q \in Processes : AtWrite(q)' <=> AtWrite(q)
    PROVE  RegistryInv'
<1> SUFFICES ASSUME Calm' PROVE (OneUpdate /\ TornRegistry /\ CutIsFinal /\ SeenAll /\ KeptAll)'
  BY DEF RegistryInv
<1>1. OneUpdate /\ TornRegistry /\ CutIsFinal /\ SeenAll /\ KeptAll
  BY DEF RegistryInv, Calm
<1>2. OneUpdate'
  BY <1>1 DEF OneUpdate
<1>3. TornRegistry'
  BY <1>1 DEF TornRegistry
<1>4. CutIsFinal' /\ SeenAll'
  BY <1>1 DEF CutIsFinal, SeenAll
<1>5. KeptAll'
  BY <1>1 DEF KeptAll
<1>6. QED
  BY <1>2, <1>3, <1>4, <1>5

(* The same when one process goes on outside updates. *)
LEMMA RegistryMoved ==
    ASSUME TypeOK, RegistryInv, UNCHANGED << registry, wrote, seen >>, blame \subseteq blame',
           Registry \in cut' <=> Registry \in cut,
           NEW p \in Processes, \A q \in Processes \ {p} : todo'[q] = todo[q],
           ~InUpdate(p), ~InUpdate(p)'
    PROVE  RegistryInv'
<1>1. \A q \in Processes : InUpdate(q)' => InUpdate(q) /\ seen'[q] = seen[q]
  BY DEF InUpdate, Running, Next_
<1>2. \A q \in Processes : AtWrite(q)' <=> AtWrite(q)
  BY DEF InUpdate, AtWrite, Running, Next_
<1>3. QED
  BY <1>1, <1>2, RegistryUntouched

LEMMA SpawnRegistryInv ==
    ASSUME TypeOK, RegistryInv, NEW t \in Trainers, NEW models \in Seq(ModelNames), Spawn(t, models),
           UNCHANGED << registry, wrote, seen, blame, cut >>
    PROVE  RegistryInv'
<1>1. /\ t \in Processes /\ ~Running(t)
      /\ Running(t)' /\ Next_(t)'.op = "load"
      /\ \A q \in Processes \ {t} : todo'[q] = todo[q]
  BY SpawnFacts DEF TypeOK, Processes
<1>2. QED
  BY <1>1, RegistryMoved DEF InUpdate

(* A process that dies between its truncation and its writing was the only *)
(* one in an update.                                                       *)
LEMMA DieRegistryInv ==
    ASSUME TypeOK, RegistryInv, NEW p \in Processes, Die(p), UNCHANGED << registry, wrote, blame >>
    PROVE  RegistryInv'
<1>1. /\ ~Running(p)' /\ \A q \in Processes \ {p} : todo'[q] = todo[q]
      /\ seen' = [seen EXCEPT ![p] = << >>] /\ cut' = cut \union Left(p)
  BY DieFacts DEF TypeOK, Die
<1>2. \A q \in Processes \ {p} : seen'[q] = seen[q]
  BY <1>1 DEF TypeOK
<1>3. Registry \in Left(p) <=> AtWrite(p)
  BY RegistryIsNoModel DEF Left, AtWrite, Registry
<1>4. ASSUME NEW q \in Processes
      PROVE  /\ InUpdate(q)' => q # p /\ InUpdate(q) /\ seen'[q] = seen[q]
             /\ AtWrite(q)' <=> q # p /\ AtWrite(q)
  BY <1>1, <1>2 DEF InUpdate, AtWrite, Running, Next_
<1>5. CASE ~AtWrite(p)
  BY <1>1, <1>3, <1>4, <1>5, RegistryUntouched
<1>6. CASE AtWrite(p)
  <2> SUFFICES ASSUME Calm' PROVE (OneUpdate /\ TornRegistry /\ CutIsFinal /\ SeenAll /\ KeptAll)'
    BY DEF RegistryInv
  <2>1. OneUpdate /\ TornRegistry
    BY DEF RegistryInv, Calm
  <2>2. Registry \in cut' /\ registry'.is = "torn"
    BY <1>1, <1>3, <1>6, <2>1 DEF TornRegistry
  <2>3. \A q \in Processes : ~InUpdate(q)'
    BY <1>4, <1>6, <2>1 DEF OneUpdate, InUpdate, AtWrite
  <2>4. QED
    BY <2>2, <2>3 DEF OneUpdate, TornRegistry, CutIsFinal, SeenAll, KeptAll
<1>7. QED
  BY <1>5, <1>6

(* Reading begins an update; nobody else is in one unless it is recorded.  *)
LEMMA ReadRegistryInv ==
    ASSUME TypeOK, RegistryInv, NEW p \in Processes, ReadRegistry(p)
    PROVE  RegistryInv'
<1>1. /\ Running(p) /\ Next_(p).op = "read" /\ UNCHANGED << registry, wrote, cut >>
      /\ blame' = blame \union {b \in {"overlap"} : Overlap(p)}
  BY DEF ReadRegistry
<1>2. \A q \in Processes \ {p} : todo'[q] = todo[q]
  BY ReadFacts DEF TypeOK
<1>3. CASE ~Readable(p)
  <2>1. AtOpening(p)' /\ seen' = seen
    BY <1>3, ReadFacts DEF TypeOK
  <2>2. ~InUpdate(p) /\ ~InUpdate(p)'
    BY <1>1, <2>1 DEF InUpdate, AtOpening, Opening
  <2>3. QED
    BY <1>1, <1>2, <2>1, <2>2, RegistryMoved
<1>4. CASE Readable(p)
  <2> SUFFICES ASSUME Calm' PROVE (OneUpdate /\ TornRegistry /\ CutIsFinal /\ SeenAll /\ KeptAll)'
    BY DEF RegistryInv
  <2>1. /\ Running(p)' /\ Next_(p)'.op = "truncate"
        /\ seen' = [seen EXCEPT ![p] = registry.models]
    BY <1>4, ReadFacts DEF TypeOK
  <2>2. TornRegistry /\ CutIsFinal /\ KeptAll
    BY <1>1 DEF RegistryInv, Calm
  <2>3. \A q \in Processes : ~InUpdate(q)
    <3>1. ~Overlap(p)
      BY <1>1 DEF Calm
    <3>2. QED
      BY <1>1, <3>1 DEF Overlap, InUpdate
  <2>4. \A q \in Processes : InUpdate(q)' => q = p
    BY <1>2, <2>3 DEF InUpdate, Running, Next_
  <2>5. \A q \in Processes : ~AtWrite(q) /\ ~AtWrite(q)'
    BY <2>1, <2>3, <2>4 DEF InUpdate, AtWrite
  <2>6. Registry \notin cut
    BY <1>4, <2>2 DEF TornRegistry, Readable
  <2>7. seen'[p] = registry.models
    BY <2>1 DEF TypeOK
  <2>8. wrote \subseteq DOMAIN registry.models
    BY <2>2, <2>5, <2>6 DEF KeptAll
  <2>9. QED
    BY <1>1, <2>2, <2>4, <2>5, <2>6, <2>7, <2>8
       DEF OneUpdate, TornRegistry, CutIsFinal, SeenAll, KeptAll
<1>5. QED
  BY <1>3, <1>4

LEMMA TruncateRegistryInv ==
    ASSUME TypeOK, RegistryInv, NEW p \in Processes, TruncateRegistry(p)
    PROVE  RegistryInv'
<1> SUFFICES ASSUME Calm' PROVE (OneUpdate /\ TornRegistry /\ CutIsFinal /\ SeenAll /\ KeptAll)'
  BY DEF RegistryInv
<1>1. /\ Running(p) /\ Next_(p).op = "truncate" /\ Advance(p) /\ UNCHANGED << seen, wrote, cut, blame >>
      /\ registry' = [is |-> "torn", models |-> << >>]
  BY DEF TruncateRegistry
<1>2. /\ Running(p)' /\ Next_(p)'.op = "write"
      /\ \A q \in Processes \ {p} : todo'[q] = todo[q]
  BY <1>1, AdvanceFacts DEF TypeOK, Unfinished, Follows, Op
<1>3. OneUpdate /\ CutIsFinal /\ SeenAll
  BY <1>1 DEF RegistryInv, Calm
<1>4. InUpdate(p) /\ InUpdate(p)' /\ AtWrite(p)'
  BY <1>1, <1>2 DEF InUpdate, AtWrite
<1>5. Registry \notin cut
  BY <1>3, <1>4 DEF CutIsFinal
<1>6. \A q \in Processes : InUpdate(q)' => q = p
  BY <1>2, <1>3, <1>4 DEF OneUpdate, InUpdate, Running, Next_
<1>7. QED
  BY <1>1, <1>3, <1>4, <1>5, <1>6 DEF OneUpdate, TornRegistry, CutIsFinal, SeenAll, KeptAll

(* The only process in an update writes what it has read, which is all     *)
(* there was, and its own key.                                             *)
LEMMA WriteRegistryInv ==
    ASSUME TypeOK, RegistryInv, NEW p \in Processes, NEW outcome \in {"whole", "torn"}, WriteRegistry(p, outcome)
    PROVE  RegistryInv'
<1> SUFFICES ASSUME Calm' PROVE (OneUpdate /\ TornRegistry /\ CutIsFinal /\ SeenAll /\ KeptAll)'
  BY DEF RegistryInv
<1> DEFINE key == Next_(p).on
<1>1. /\ Running(p) /\ Next_(p).op = "write" /\ Advance(p) /\ blame' = blame
      /\ outcome = "torn" => registry.is = "whole"
      /\ wrote' = wrote \union {key}
  BY DEF WriteRegistry
<1>2. OneUpdate /\ TornRegistry /\ CutIsFinal /\ SeenAll
  BY <1>1 DEF RegistryInv, Calm
<1>3. InUpdate(p) /\ AtWrite(p)
  BY <1>1 DEF InUpdate, AtWrite
<1>4. Registry \notin cut /\ registry.is = "torn"
  BY <1>2, <1>3 DEF CutIsFinal, TornRegistry
<1>5. /\ outcome = "whole"
      /\ registry' = [is |-> "whole", models |-> Entries(p, key)]
      /\ Registry \notin cut'
  BY <1>1, <1>4 DEF WriteRegistry
<1>6. AtOpening(p)' /\ \A q \in Processes \ {p} : todo'[q] = todo[q]
  BY <1>1, AdvanceFacts DEF TypeOK, Unfinished
<1>7. \A q \in Processes : ~InUpdate(q)'
  BY <1>2, <1>3, <1>6 DEF OneUpdate, InUpdate, Running, Next_, AtOpening, Opening
<1>8. wrote' \subseteq DOMAIN registry'.models
  <2>1. DOMAIN Entries(p, key) = DOMAIN seen[p] \union {key}
    BY DEF Entries
  <2>2. wrote \subseteq DOMAIN seen[p]
    BY <1>2, <1>3, <1>4 DEF SeenAll
  <2>3. QED
    BY <1>1, <1>5, <2>1, <2>2
<1>9. \A q \in Processes : ~AtWrite(q)'
  BY <1>7 DEF InUpdate, AtWrite
<1>10. QED
  BY <1>5, <1>7, <1>8, <1>9 DEF OneUpdate, TornRegistry, CutIsFinal, SeenAll, KeptAll

LEMMA NextRegistryInv == TypeOK /\ RegistryInv /\ [Next]_vars => RegistryInv'
<1> SUFFICES ASSUME TypeOK, RegistryInv, [Next]_vars PROVE RegistryInv'
  OBVIOUS
<1>1. ASSUME NEW t \in Trainers, LoadDataset(t) PROVE RegistryInv'
  <2>1. /\ t \in Processes /\ Running(t) /\ Next_(t).op = "load"
        /\ UNCHANGED << registry, wrote, seen, cut, blame >>
    BY <1>1 DEF Processes, LoadDataset
  <2>2. AtOpening(t)' /\ \A q \in Processes \ {t} : todo'[q] = todo[q]
    <3>1. CASE dataset = 0
      <4>1. todo' = [todo EXCEPT ![t] = << >>]
        BY <3>1, <1>1 DEF LoadDataset
      <4>2. QED
        BY <4>1, <2>1 DEF TypeOK, WorkOK, AtOpening, Running
    <3>2. CASE dataset # 0
      BY <3>2, <2>1, <1>1, AdvanceFacts DEF LoadDataset, TypeOK, Unfinished
    <3>3. QED
      BY <3>1, <3>2
  <2>3. ~InUpdate(t) /\ ~InUpdate(t)'
    BY <2>1, <2>2 DEF InUpdate, AtOpening, Opening
  <2>4. QED
    BY <2>1, <2>2, <2>3, RegistryMoved
<1>2. ASSUME NEW t \in Trainers, OpenFile(t) PROVE RegistryInv'
  <2>1. /\ t \in Processes /\ Running(t) /\ Next_(t).op = "open" /\ Advance(t)
        /\ UNCHANGED << registry, wrote, seen, cut, blame >>
    BY <1>2 DEF Processes, OpenFile
  <2>2. Next_(t)'.op = "dump" /\ \A q \in Processes \ {t} : todo'[q] = todo[q]
    BY <2>1, AdvanceFacts DEF TypeOK, Unfinished, Follows, Op
  <2>3. QED
    BY <2>1, <2>2, RegistryMoved DEF InUpdate
<1>3. ASSUME NEW t \in Trainers, NEW outcome \in {"whole", "torn"}, DumpFile(t, outcome) PROVE RegistryInv'
  <2>1. /\ t \in Processes /\ Running(t) /\ Next_(t).op = "dump" /\ Advance(t)
        /\ UNCHANGED << registry, wrote, seen, blame >> /\ cut' = cut \ {Next_(t).on}
    BY <1>3 DEF Processes, DumpFile
  <2>2. Registry # Next_(t).on
    <3>1. todo[t][1] \in Ops
      BY <2>1, TailLinked DEF TypeOK, WorkOK, Running
    <3>2. Next_(t).on \in FileNames
      BY <2>1, <3>1 DEF Next_, Ops
    <3>3. QED
      BY <3>2 DEF FileNames, Registry
  <2>3. AtOpening(t)' /\ \A q \in Processes \ {t} : todo'[q] = todo[q]
    BY <2>1, AdvanceFacts DEF TypeOK, Unfinished
  <2>4. ~InUpdate(t) /\ ~InUpdate(t)'
    BY <2>1, <2>3 DEF InUpdate, AtOpening, Opening
  <2>5. QED
    BY <2>1, <2>2, <2>3, <2>4, RegistryMoved
<1>4. ASSUME NEW p \in Processes, ReadRegistry(p) PROVE RegistryInv'
  BY <1>4, ReadRegistryInv
<1>5. ASSUME NEW p \in Processes, TruncateRegistry(p) PROVE RegistryInv'
  BY <1>5, TruncateRegistryInv
<1>6. ASSUME NEW p \in Processes, NEW outcome \in {"whole", "torn"}, WriteRegistry(p, outcome) PROVE RegistryInv'
  BY <1>6, WriteRegistryInv
<1>7. ASSUME NEW t \in Trainers, Boot(t) PROVE RegistryInv'
  <2>1. UNCHANGED << registry, wrote, seen, blame, cut >>
    BY <1>7 DEF Boot
  <2>2. CASE UpToDate
    <3>1. todo' = todo
      BY <2>2, <1>7 DEF Boot
    <3>2. QED
      BY <2>1, <3>1, RegistryUntouched DEF Running, Next_, InUpdate, AtWrite
  <2>3. CASE ~UpToDate
    <3>1. Spawn(t, AllModels)
      BY <2>3, <1>7 DEF Boot
    <3>2. QED
      BY <2>1, <3>1, SpawnRegistryInv, ScriptsTyped
  <2>4. QED
    BY <2>2, <2>3
<1>8. CASE TrainingEnds
  BY <1>8, RegistryUntouched DEF TrainingEnds, Running, Next_, InUpdate, AtWrite
<1>9. CASE TrainingTimesOut
  BY <1>9, DieRegistryInv DEF TrainingTimesOut, TypeOK
<1>10. ASSUME NEW t \in Trainers, TrainerDies(t) PROVE RegistryInv'
  BY <1>10, DieRegistryInv DEF TrainerDies, Processes
<1>11. CASE ServiceDies
  BY <1>11, DieRegistryInv DEF ServiceDies, Processes
<1>12. ASSUME NEW t \in Trainers, NEW model \in CLIModels, OperatorTrains(t, model) PROVE RegistryInv'
  BY <1>12, SpawnRegistryInv, ScriptsTyped DEF OperatorTrains
<1>13. ASSUME NEW key \in FitKeys, FitForQuestion(key) PROVE RegistryInv'
  <2>1. Service \in Processes /\ UNCHANGED << registry, wrote, seen, cut, blame >>
    BY <1>13 DEF FitForQuestion, Processes
  <2>2. QED
    BY <2>1, <1>13, FitFacts, RegistryMoved DEF TypeOK, InUpdate
<1>14. ASSUME NEW preserved \in BOOLEAN, ReplaceDataset(preserved) PROVE RegistryInv'
  BY <1>14, RegistryUntouched DEF ReplaceDataset, Running, Next_, InUpdate, AtWrite
<1>15. CASE UNCHANGED vars \/ BootSkips
  BY <1>15, RegistryUntouched DEF vars, BootSkips, Running, Next_, InUpdate, AtWrite
<1>16. QED
  BY <1>1, <1>2, <1>3, <1>4, <1>5, <1>6, <1>7, <1>8, <1>9, <1>10, <1>11, <1>12, <1>13, <1>14, <1>15
     DEF Next

----------------------------------------------------------------------------
(* The theorems *)

IInv == TypeOK /\ FilesInv /\ RegistryInv

(* For every set of trainers, models and keys and every number of runs,    *)
(* fits and deaths: the types, what the files hold (FilesInv), and who may *)
(* be between reading and writing the registry (RegistryInv) stay as       *)
(* train.py and the recorders of the service leave them.                   *)
THEOREM StoreInvariant == Spec => []IInv
<1>1. Init => IInv
  BY InitTypeOK, InitFilesInv, InitRegistryInv DEF IInv
<1>2. IInv /\ [Next]_vars => IInv'
  BY NextTypeOK, NextFilesInv, NextRegistryInv DEF IInv
<1>3. QED
  BY <1>1, <1>2, PTL DEF Spec

(* As long as no two updates overlapped and none was cut off, neither a    *)
(* trainer's update of the registry nor the service's loses an entry or    *)
(* leaves the file torn.                                                   *)
THEOREM RegistryIsKept == Spec => []RegistryKept
<1>1. IInv => RegistryKept
  <2> SUFFICES ASSUME RegistryInv, Calm, Registry \notin cut, \A p \in Processes : ~InUpdate(p)
               PROVE  registry.is # "torn" /\ wrote \subseteq DOMAIN registry.models
    BY DEF IInv, RegistryKept, Calm
  <2>1. \A p \in Processes : ~AtWrite(p)
    BY DEF InUpdate, AtWrite
  <2>2. QED
    BY <2>1 DEF RegistryInv, TornRegistry, KeptAll
<1>2. QED
  BY <1>1, StoreInvariant, PTL

(* A start of the service that finds the models up to date and trains      *)
(* nothing finds every model whole and of this dataset, or a file whose    *)
(* writer died, or that is older than the coming of a dataset which kept   *)
(* an older time stamp, or a trainer at work; unless the dataset was       *)
(* replaced under one.                                                     *)
THEOREM SkippedOnlyWhenTrained == Spec => SkippedMeansTrained
<1> DEFINE Skip == service = "down" /\ service' = "up" /\ "replaced" \notin blame
<1>1. ASSUME IInv, [Next]_vars, Skip
      PROVE  UpToDate
  <2>1. service # service' /\ service' \notin {"down", "unchecked"} /\ service # "training"
    BY <1>1
  <2>2. ASSUME NEW t \in Trainers, Boot(t) PROVE UpToDate
    BY <2>2, <1>1 DEF Boot
  <2>3. \E t \in Trainers : Boot(t)
    BY <1>1, <2>1 DEF Next, vars, LoadDataset, OpenFile, TrainerDies, DumpFile, OperatorTrains, ReadRegistry,
          TruncateRegistry, WriteRegistry, FitForQuestion, TrainingEnds, TrainingTimesOut, ServiceDies,
          ReplaceDataset, BootSkips
  <2>4. QED
    BY <2>2, <2>3
<1>2. ASSUME IInv, UpToDate, Fresh, NEW f \in RequiredModels
      PROVE  \/ files[f].is = "whole" /\ files[f].data = dataset
             \/ f \in cut \union outdated
             \/ \E t \in Trainers : Running(t)
  <2>1. files[f].newer /\ files[f].is \in {"whole", "torn"}
    BY <1>2 DEF UpToDate, IInv, TypeOK, Is
  <2>2. NewerIsCurrent /\ TornIsAccounted
    BY <1>2 DEF IInv, FilesInv
  <2>3. QED
    BY <2>1, <2>2 DEF NewerIsCurrent, TornIsAccounted, Writing
<1>3. IInv /\ [Next]_vars =>
        [service = "down" /\ service' = "up" /\ "replaced" \notin blame =>
            \A f \in RequiredModels :
                \/ files[f].is = "whole" /\ files[f].data = dataset
                \/ f \in cut \union outdated
                \/ \E t \in Trainers : Running(t)]_vars
  BY <1>1, <1>2 DEF Fresh
<1>4. QED
  BY <1>3, StoreInvariant, PTL DEF Spec, SkippedMeansTrained

=============================================================================
