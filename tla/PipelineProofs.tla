--------------------------- MODULE PipelineProofs ---------------------------
(***************************************************************************)
(* Proofs about the Orchestrator's pipeline, for every number of requests, *)
(* follow-ups and contents, and whether or not services fail.              *)
(***************************************************************************)
EXTENDS Pipeline, TLAPS

Positions == {"identify", "agent1", "extract", "agent2", "fetch", "persist", "agent3",
              "finalize", "answered"}
Stages == {"too_large", "agent1", "classification_missing", "agent2", "fetch_failed"}

\* What a node may make of a record of type Request is one again.
LEMMA UpdatesAreTyped ==
  ASSUME NEW r \in Request
  PROVE  /\ \A pc \in Positions : [r EXCEPT !.pc = pc] \in Request
         /\ \A e \in Stages : [r EXCEPT !.error = e] \in Request
         /\ \A b \in Agent1Body : [r EXCEPT !.a1 = b] \in Request
         /\ \A d \in Requests : [r EXCEPT !.domain = d] \in Request
         /\ \A b \in Agent2Body : [r EXCEPT !.a2 = b] \in Request
         /\ \A f \in BOOLEAN :
              [r EXCEPT !.pc = "agent1", !.fingerprint = TRUE, !.reclassify = f] \in Request
         /\ \A e \in Entry :
              [r EXCEPT !.pc = "agent3", !.fingerprint = TRUE, !.hit = TRUE,
                        !.a1 = e.a1, !.domain = e.domain, !.a2 = e.a2] \in Request
  BY DEF Request, Entry, Positions, Stages

LEMMA RoutesAreTyped ==
  ASSUME NEW r \in Request, NEW next \in Positions
  PROVE  RouteAfter(r, next) \in Request
  BY UpdatesAreTyped DEF RouteAfter, Positions

\* A node changes one request's record.
LEMMA NodeChangesOne ==
  ASSUME NEW q \in Requests, NEW name, NEW u \in Request,
         request \in [Requests -> Request], Node(q, name, u)
  PROVE  /\ request[q].pc = name
         /\ request' \in [Requests -> Request]
         /\ request'[q] = u
         /\ \A x \in Requests \ {q} : request'[x] = request[x]
  BY DEF Node

\* What each node makes of the record is a record.
LEMMA Agent1Typed ==
  ASSUME NEW q \in Requests, NEW classified \in BOOLEAN, request[q] \in Request
  PROVE  /\ [of |-> q, reclassified |-> request[q].reclassify, classified |-> classified]
              \in Agent1Body
         /\ [request[q] EXCEPT !.a1 = [of |-> q, reclassified |-> request[q].reclassify,
                                       classified |-> classified]] \in Request
<1>1. [of |-> q, reclassified |-> request[q].reclassify, classified |-> classified] \in Agent1Body
  BY DEF Agent1Body, Request
<1> QED BY <1>1, UpdatesAreTyped

LEMMA FetchedTyped ==
  ASSUME NEW q \in Requests, request[q] \in Request, request[q].a2 # None, NEW status
  PROVE  FetchedBody(q, status) \in Agent2Body
  BY DEF FetchedBody, Agent2Body, Request

LEMMA EntryTyped ==
  ASSUME NEW r \in Request, r.a1 # None, r.domain # None, r.a2 # None
  PROVE  [a1 |-> r.a1, domain |-> r.domain, a2 |-> r.a2] \in Entry
  BY DEF Request, Entry

LEMMA AskTyped ==
  ASSUME NEW a \in Ask, NEW b \in Agent2Body
  PROVE  [a EXCEPT !.pc = "fetch", !.of = b.of, !.full = b.full] \in Ask
<1>1. b.of \in Requests /\ b.full \in BOOLEAN
  BY DEF Agent2Body
<1> QED BY <1>1 DEF Ask

\* The bodies a node reads are there: Agent 1's from the extraction on, Agent 2's
\* from the fetch on, all of them when a request succeeds.
Present(r) ==
  /\ r.error # "none" => r.pc = "answered"
  /\ r.pc \in {"extract", "agent2", "fetch", "persist", "agent3", "finalize"} => r.a1 # None
  /\ r.pc \in {"agent2", "fetch", "persist", "agent3", "finalize"} => r.domain # None
  /\ r.pc \in {"fetch", "persist", "agent3", "finalize"} => r.a2 # None
  /\ (r.pc = "answered" /\ r.error = "none") => r.a1 # None /\ r.domain # None /\ r.a2 # None

Typing == TypeOK /\ \A q \in Requests : Present(request[q])

LEMMA TypingOfNode ==
  ASSUME Typing, NEW q \in Requests, NEW name, NEW u \in Request, Present(u), Node(q, name, u),
         ask' = ask, registered' \subseteq Contents, cache' \in [Contents -> Entry \cup {None}],
         profile' \in [Requests -> {"none", "working", "stored", "unstored", "rejected"}]
  PROVE  Typing'
<1>1. /\ request' \in [Requests -> Request]
      /\ request'[q] = u
      /\ \A x \in Requests \ {q} : request'[x] = request[x]
  BY NodeChangesOne DEF Typing, TypeOK
<1>2. \A x \in Requests : Present(request'[x])
  BY <1>1 DEF Typing
<1>3. TypeOK'
  BY <1>1 DEF Typing, TypeOK
<1> QED BY <1>2, <1>3 DEF Typing, Present

LEMMA TypingOfAsk ==
  ASSUME Typing, NEW k \in Asks, NEW from, NEW u \in Ask, AskStep(k, from, u)
  PROVE  Typing'
  BY DEF Typing, TypeOK, Present, AskStep

LEMMA TypingAtStart == Init => Typing
<1> SUFFICES ASSUME Init PROVE Typing
  OBVIOUS
<1>1. request \in [Requests -> Request]
  BY DEF Init, Request
<1>2. ask \in [Asks -> Ask]
  BY DEF Init, Ask
<1>3. \A q \in Requests : Present(request[q])
  BY DEF Init, Present
<1> QED BY <1>1, <1>2, <1>3 DEF Typing, TypeOK, Init

LEMMA TypingKept == Typing /\ [Next]_vars => Typing'
<1> SUFFICES ASSUME Typing, [Next]_vars PROVE Typing'
  OBVIOUS
<1> USE DEF Typing
<1>0. CASE UNCHANGED vars
  BY <1>0 DEF vars, TypeOK, Present
<1>1. \A q \in Requests : request[q] \in Request /\ Present(request[q])
  BY DEF TypeOK
<1>2. ASSUME NEW q \in Requests, Arrive(q) PROVE Typing'
  <2> DEFINE r == request[q]
  <2>1. /\ Present([r EXCEPT !.pc = "identify"]) \/ r.pc # "idle"
        /\ Present(RouteAfter(Fail(q, "too_large"), "identify"))
    BY <1>1 DEF Present, RouteAfter, Fail, Request
  <2>2. /\ [r EXCEPT !.pc = "identify"] \in Request
        /\ RouteAfter(Fail(q, "too_large"), "identify") \in Request
    BY <1>1, UpdatesAreTyped, RoutesAreTyped DEF Fail, Positions, Stages
  <2> QED BY <1>2, <2>1, <2>2, TypingOfNode DEF Arrive, TypeOK, Node
<1>3. ASSUME NEW q \in Requests, Identify(q) PROVE Typing'
  <2> DEFINE r == request[q]
             e == cache[r.content]
             u == IF IsHit(q)
                  THEN [r EXCEPT !.pc = "agent3", !.fingerprint = TRUE, !.hit = TRUE,
                                 !.a1 = e.a1, !.domain = e.domain, !.a2 = e.a2]
                  ELSE [r EXCEPT !.pc = "agent1", !.fingerprint = TRUE, !.reclassify = Forced(q)]
  <2>1. r \in Request /\ r.pc = "identify" /\ r.content \in Contents
    BY <1>1, <1>3 DEF Identify, Node, Request
  <2>2. CASE IsHit(q)
    <3>1. e \in Entry
      BY <2>1, <2>2 DEF IsHit, TypeOK
    <3>2. [r EXCEPT !.pc = "agent3", !.fingerprint = TRUE, !.hit = TRUE,
                    !.a1 = e.a1, !.domain = e.domain, !.a2 = e.a2] \in Request
      BY <2>1, <3>1, UpdatesAreTyped
    <3>3. e.a1 # None /\ e.domain # None /\ e.a2 # None
      BY <3>1, NoneIsNew DEF Entry
    <3>4. u \in Request
      BY <2>2, <3>2
    <3>5. u.pc = "agent3" /\ u.error = r.error /\ u.a1 # None /\ u.domain # None /\ u.a2 # None
      BY <2>1, <2>2, <3>3 DEF Request
    <3>6. Present(u)
      BY <2>1, <3>5, <1>1 DEF Present
    <3> QED BY <1>3, <3>4, <3>6, <2>1, TypingOfNode DEF Identify, TypeOK
  <2>3. CASE ~IsHit(q)
    <3>1. Forced(q) \in BOOLEAN
      BY <2>1 DEF Forced, Request
    <3>2. [r EXCEPT !.pc = "agent1", !.fingerprint = TRUE, !.reclassify = Forced(q)] \in Request
      BY <2>1, <3>1, UpdatesAreTyped
    <3>3. u \in Request
      BY <2>3, <3>2
    <3>4. Present(u)
      BY <2>1, <2>3, <1>1 DEF Present, Request
    <3> QED BY <1>3, <3>3, <3>4, <2>1, TypingOfNode DEF Identify, TypeOK
  <2> QED BY <2>2, <2>3
<1>4. ASSUME NEW q \in Requests, RegistryUnavailable(q) PROVE Typing'
  <2> DEFINE u == [request[q] EXCEPT !.pc = "agent1"]
  <2>1. Node(q, "identify", u) /\ request[q].pc = "identify"
    BY <1>4 DEF RegistryUnavailable, Node
  <2>2. u \in Request
    BY <1>1, UpdatesAreTyped DEF Positions
  <2>3. Present(u)
    BY <2>1, <1>1 DEF Present, Request
  <2>4. registered' \subseteq Contents
    BY <1>4, <1>1 DEF RegistryUnavailable, TypeOK, Request
  <2> QED BY <1>4, <2>1, <2>2, <2>3, <2>4, TypingOfNode DEF RegistryUnavailable, TypeOK
<1>5. ASSUME NEW q \in Requests, Agent1Answers(q) PROVE Typing'
  <2> PICK classified \in BOOLEAN :
        Node(q, "agent1",
          RouteAfter([request[q] EXCEPT !.a1 = [of |-> q, reclassified |-> request[q].reclassify,
                                                classified |-> classified]], "extract"))
    BY <1>5 DEF Agent1Answers
  <2> DEFINE body == [of |-> q, reclassified |-> request[q].reclassify, classified |-> classified]
             n == [request[q] EXCEPT !.a1 = body]
  <2>1. n \in Request /\ body \in Agent1Body
    BY <1>1, Agent1Typed
  <2>2. RouteAfter(n, "extract") \in Request
    BY <2>1, RoutesAreTyped DEF Positions
  <2>3. Present(RouteAfter(n, "extract"))
    BY <2>1, <1>1, NoneIsNew DEF Present, RouteAfter, Request, Node
  <2> QED BY <1>5, <2>2, <2>3, TypingOfNode DEF Agent1Answers, TypeOK
<1>6. ASSUME NEW q \in Requests, NEW name, NEW next \in Positions, NEW stage \in Stages,
             Node(q, name, RouteAfter(Fail(q, stage), next)),
             UNCHANGED <<ask, registered, cache, profile>>
      PROVE  Typing'
  <2>1. Fail(q, stage) \in Request
    BY <1>1, UpdatesAreTyped DEF Fail
  <2>2. RouteAfter(Fail(q, stage), next) \in Request
    BY <2>1, RoutesAreTyped
  <2>3. Present(RouteAfter(Fail(q, stage), next))
    BY <1>1 DEF Present, RouteAfter, Fail, Request, Stages
  <2> QED BY <1>6, <2>2, <2>3, TypingOfNode DEF TypeOK
<1>7. ASSUME NEW q \in Requests, Agent1Fails(q) \/ CallAgent2Fails(q) PROVE Typing'
  BY <1>6, <1>7 DEF Agent1Fails, CallAgent2Fails, Positions, Stages
<1>8. ASSUME NEW q \in Requests, Extract(q) PROVE Typing'
  <2> DEFINE r == request[q]
             n == [r EXCEPT !.domain = r.a1.of]
             u == RouteAfter(IF r.a1.classified THEN n ELSE Fail(q, "classification_missing"), "agent2")
  <2>1. r \in Request /\ r.a1 \in Agent1Body /\ Present(r) /\ r.pc = "extract"
    BY <1>1, <1>8 DEF Extract, Node, Present, Request
  <2>2. n \in Request
    BY <2>1, UpdatesAreTyped DEF Agent1Body
  <2>3. Fail(q, "classification_missing") \in Request
    BY <2>1, UpdatesAreTyped DEF Fail, Stages
  <2>4. u \in Request
    BY <2>2, <2>3, RoutesAreTyped DEF Positions
  <2>5. n.domain # None
    BY <2>1, NoneIsNew DEF Request, Agent1Body
  <2>6. Present(u)
    BY <2>1, <2>5 DEF Present, RouteAfter, Fail, Request
  <2> QED BY <1>8, <2>4, <2>6, TypingOfNode DEF Extract, TypeOK
<1>9. ASSUME NEW q \in Requests, Agent2Ends(q) PROVE Typing'
  BY <1>9 DEF Agent2Ends, TypeOK, Present
<1>10. ASSUME NEW q \in Requests, CallAgent2Returns(q) PROVE Typing'
  <2> DEFINE r == request[q]
             n == [r EXCEPT !.a2 = [of |-> q, full |-> FALSE]]
             u == RouteAfter(IF profile[q] = "rejected" THEN Fail(q, "agent2") ELSE n, "fetch")
  <2>1. r \in Request /\ Present(r) /\ r.pc = "agent2"
    BY <1>1, <1>10 DEF CallAgent2Returns, Node
  <2>2. [of |-> q, full |-> FALSE] \in Agent2Body
    BY DEF Agent2Body
  <2>3. n \in Request /\ Fail(q, "agent2") \in Request
    BY <2>1, <2>2, UpdatesAreTyped DEF Fail, Stages
  <2>4. u \in Request
    BY <2>3, RoutesAreTyped DEF Positions
  <2>5. n.a2 # None
    BY <2>1, <2>2, NoneIsNew DEF Request
  <2>6. Present(u)
    BY <2>1, <2>5 DEF Present, RouteAfter, Fail, Request
  <2> QED BY <1>10, <2>4, <2>6, TypingOfNode DEF CallAgent2Returns, TypeOK
<1>11. ASSUME NEW q \in Requests, FetchAgent2Result(q) PROVE Typing'
  <2>1. CASE Node(q, "fetch", RouteAfter(Fail(q, "fetch_failed"), "persist"))
    BY <1>6, <1>11, <2>1 DEF FetchAgent2Result, Positions, Stages
  <2>2. ASSUME NEW status,
               Node(q, "fetch", RouteAfter([request[q] EXCEPT !.a2 = FetchedBody(q, status)], "persist"))
        PROVE  Typing'
    <3> DEFINE r == request[q]
               n == [r EXCEPT !.a2 = FetchedBody(q, status)]
    <3>1. r \in Request /\ Present(r) /\ r.pc = "fetch"
      BY <1>1, <2>2 DEF Node
    <3>2. FetchedBody(q, status) \in Agent2Body
      BY <3>1, FetchedTyped DEF Present
    <3>3. n \in Request /\ RouteAfter(n, "persist") \in Request
      BY <3>1, <3>2, UpdatesAreTyped, RoutesAreTyped DEF Positions
    <3>4. n.a2 # None
      BY <3>1, <3>2, NoneIsNew DEF Request
    <3>5. Present(RouteAfter(n, "persist"))
      BY <3>1, <3>4 DEF Present, RouteAfter, Request
    <3> QED BY <1>11, <2>2, <3>3, <3>5, TypingOfNode DEF FetchAgent2Result, TypeOK
  <2> QED BY <1>11, <2>1, <2>2 DEF FetchAgent2Result
<1>12. ASSUME NEW q \in Requests, PersistMasterDataset(q) PROVE Typing'
  <2> DEFINE r == request[q]
             u == [r EXCEPT !.pc = "agent3"]
             entry == [a1 |-> r.a1, domain |-> r.domain, a2 |-> r.a2]
  <2>1. r \in Request /\ Present(r) /\ r.pc = "persist"
    BY <1>1, <1>12 DEF PersistMasterDataset, Node
  <2>2. u \in Request
    BY <2>1, UpdatesAreTyped DEF Positions
  <2>5. Present(u)
    BY <2>1 DEF Present, Request
  <2>3. entry \in Entry
    BY <2>1, EntryTyped DEF Present
  <2>4. cache' \in [Contents -> Entry \cup {None}]
    BY <1>12, <2>3 DEF PersistMasterDataset, Upsert, TypeOK
  <2> QED BY <1>12, <2>2, <2>4, <2>5, TypingOfNode DEF PersistMasterDataset, TypeOK
<1>13. ASSUME NEW q \in Requests, NEW pc \in {"finalize", "answered"}, request[q].pc \in {"agent3", "finalize"},
              Node(q, request[q].pc, [request[q] EXCEPT !.pc = pc]),
              UNCHANGED <<ask, registered, cache, profile>>
       PROVE  Typing'
  <2>1. [request[q] EXCEPT !.pc = pc] \in Request
    BY <1>1, UpdatesAreTyped DEF Positions
  <2>2. Present([request[q] EXCEPT !.pc = pc])
    BY <1>1, <1>13 DEF Present, Request
  <2> QED BY <1>13, <2>1, <2>2, TypingOfNode DEF TypeOK
<1>14. ASSUME NEW q \in Requests, CallAgent3(q) \/ Finalize(q) PROVE Typing'
  BY <1>13, <1>14 DEF CallAgent3, Finalize, AfterAgent3, Node
<1>15. ASSUME NEW k \in Asks, AskArrives(k) PROVE Typing'
  <2> PICK q \in Requests :
        /\ Succeeded(q)
        /\ AskStep(k, "idle", [ask[k] EXCEPT !.pc = "fetch", !.of = request[q].a2.of,
                                             !.full = request[q].a2.full])
    BY <1>15 DEF AskArrives
  <2>1. request[q].a2 \in Agent2Body
    BY <1>1 DEF Succeeded, Present, Request
  <2>2. [ask[k] EXCEPT !.pc = "fetch", !.of = request[q].a2.of, !.full = request[q].a2.full] \in Ask
    BY <2>1, AskTyped DEF TypeOK
  <2> QED BY <2>2, TypingOfAsk
<1>16. ASSUME NEW k \in Asks, AskFetches(k) \/ AskAnalyzes(k) PROVE Typing'
  <2>1. \A a \in {"none", "unknown", "unreachable", "agent3"} :
          [ask[k] EXCEPT !.pc = "answered", !.answer = a] \in Ask
    BY DEF Ask, TypeOK
  <2>2. [ask[k] EXCEPT !.pc = "agent3"] \in Ask
    BY DEF Ask, TypeOK
  <2>3. CASE AskAnalyzes(k)
    BY <2>1, <2>3, TypingOfAsk DEF AskAnalyzes
  <2>4. CASE AskFetches(k)
    <3>1. \A status : (CASE status = 200 -> [ask[k] EXCEPT !.pc = "agent3"]
                         [] status = 404 -> [ask[k] EXCEPT !.pc = "answered", !.answer = "unknown"]
                         [] OTHER -> [ask[k] EXCEPT !.pc = "answered", !.answer = "unreachable"]) \in Ask
      BY <2>1, <2>2
    <3> QED BY <2>1, <2>4, <3>1, TypingOfAsk DEF AskFetches
  <2> QED BY <1>16, <2>3, <2>4
<1>17. ASSUME NEW c \in Contents, DeleteMaster(c) PROVE Typing'
  BY <1>17 DEF DeleteMaster, TypeOK, Present
<1> QED
  BY <1>0, <1>2, <1>3, <1>4, <1>5, <1>7, <1>8, <1>9, <1>10, <1>11, <1>12, <1>14, <1>15, <1>16, <1>17
  DEF Next, RequestStep, AskStepOn

\* Every variable keeps its type, and a node finds the bodies it reads: no node
\* of the graph runs on a state an earlier one has not filled in.
THEOREM TypeCorrect == Spec => []TypeOK
<1>1. Typing => TypeOK
  BY DEF Typing
<1> QED BY TypingAtStart, TypingKept, <1>1, PTL DEF Spec

-----------------------------------------------------------------------------
(* Results are whole, forced requests fresh, failures not served.          *)

Settled == {"agent3", "finalize", "answered"}

\* Request x got past Agent 2 and the persist node, on content c; it stays so.
MadeBy(x, c) ==
  x \in Requests /\ request[x].pc \in Settled /\ request[x].error = "none" /\ request[x].content = c

\* What a record says of the request q it belongs to: a hit serves one run's
\* bodies and was not forced, a miss holds q's own.
Sound(q, r) ==
  /\ r.hit => /\ r.pc \in Settled /\ r.error = "none"
              /\ ~r.revalidate /\ ~r.reclassify
              /\ r.a1 # None /\ r.a2 # None
              /\ r.domain = r.a1.of /\ r.a2.of = r.a1.of
  /\ ~r.hit => /\ r.a1 # None => r.a1.of = q /\ r.a1.reclassified = r.reclassify
               /\ r.domain # None => r.domain = q
               /\ r.a2 # None => r.a2.of = q
  /\ r.fingerprint /\ r.revalidate => r.reclassify
  /\ r.pc \in {"idle", "identify"} => r.a1 = None

HitSound(r) == r.hit => MadeBy(r.a1.of, r.content)

CacheSound ==
  \A c \in Contents :
    cache[c] # None =>
      /\ cache[c].domain = cache[c].a1.of /\ cache[c].a2.of = cache[c].a1.of
      /\ MadeBy(cache[c].a1.of, c)

RunInv ==
  /\ CacheSound
  /\ \A q \in Requests : Sound(q, request[q]) /\ HitSound(request[q])

\* A node keeps the invariant when what it makes of its record is sound and,
\* once the request is past Agent 2, leaves its error, its content and hit alone.
LEMMA NodeKeepsRuns ==
  ASSUME Typing, RunInv, NEW q \in Requests, NEW name, NEW u \in Request, Node(q, name, u),
         Sound(q, u), u.content = request[q].content, HitSound(u),
         name \in Settled => u.pc \in Settled /\ u.error = request[q].error
  PROVE  /\ \A x \in Requests : Sound(x, request'[x]) /\ HitSound(request[x])'
         /\ \A x, c : MadeBy(x, c) => MadeBy(x, c)'
<1>1. /\ request[q].pc = name
      /\ request'[q] = u
      /\ \A x \in Requests \ {q} : request'[x] = request[x]
  BY NodeChangesOne DEF Typing, TypeOK
<1>2. \A x, c : MadeBy(x, c) => MadeBy(x, c)'
  BY <1>1 DEF MadeBy
<1>3. \A x \in Requests : Sound(x, request'[x])
  BY <1>1 DEF RunInv
<1>4. ASSUME NEW x \in Requests PROVE HitSound(request[x])'
  <2>1. HitSound(request[x]) \/ x = q
    BY DEF RunInv
  <2>2. CASE x = q
    BY <1>1, <1>2, <2>2 DEF HitSound
  <2>3. CASE x # q
    BY <1>1, <1>2, <2>1, <2>3 DEF HitSound
  <2> QED BY <2>2, <2>3
<1> QED BY <1>2, <1>3, <1>4

\* When in addition nothing new is cached, the whole invariant is kept.
LEMMA NodeKeepsRunInv ==
  ASSUME Typing, RunInv, NEW q \in Requests, NEW name, NEW u \in Request, Node(q, name, u),
         Sound(q, u), u.content = request[q].content, HitSound(u),
         name \in Settled => u.pc \in Settled /\ u.error = request[q].error,
         cache' = cache
  PROVE  RunInv'
<1>1. /\ \A x \in Requests : Sound(x, request'[x]) /\ HitSound(request[x])'
      /\ \A x, c : MadeBy(x, c) => MadeBy(x, c)'
  BY NodeKeepsRuns
<1>2. CacheSound'
  BY <1>1 DEF RunInv, CacheSound
<1>3. \A x \in Requests : Sound(x, request[x])'
  BY <1>1 DEF Sound
<1> QED BY <1>1, <1>2, <1>3 DEF RunInv

LEMMA NodeMakes ==
  ASSUME Typing, Typing', NEW q \in Requests, NEW name, NEW u, Node(q, name, u)
  PROVE  u \in Request /\ request[q] \in Request /\ request[q].pc = name /\ Present(request[q])
  BY DEF Node, Typing, TypeOK

LEMMA RunInvAtStart == Init => RunInv
  BY DEF Init, RunInv, CacheSound, Sound, HitSound

LEMMA RunInvKept == Typing /\ RunInv /\ Typing' /\ [Next]_vars => RunInv'
<1> SUFFICES ASSUME Typing, RunInv, Typing', [Next]_vars PROVE RunInv'
  OBVIOUS
<1>0. CASE UNCHANGED vars
  BY <1>0 DEF vars, RunInv, CacheSound, Sound, HitSound, MadeBy
<1>1. \A q \in Requests : Sound(q, request[q]) /\ HitSound(request[q])
  BY DEF RunInv
<1>2. ASSUME NEW q \in Requests, Arrive(q) PROVE RunInv'
  <2>1. CASE Node(q, "idle", [request[q] EXCEPT !.pc = "identify"])
    <3> DEFINE u == [request[q] EXCEPT !.pc = "identify"]
    <3>1. u \in Request /\ request[q] \in Request /\ request[q].pc = "idle"
      BY <2>1, NodeMakes
    <3>2. Sound(q, u) /\ ~u.hit /\ u.content = request[q].content
      BY <3>1, <1>1 DEF Sound, Request, Settled
    <3> QED BY <1>2, <2>1, <3>1, <3>2, NodeKeepsRunInv DEF Arrive, HitSound, Settled
  <2>2. CASE Node(q, "idle", RouteAfter(Fail(q, "too_large"), "identify"))
    <3> DEFINE u == RouteAfter(Fail(q, "too_large"), "identify")
    <3>1. u \in Request /\ request[q] \in Request /\ request[q].pc = "idle"
      BY <2>2, NodeMakes
    <3>2. Sound(q, u) /\ ~u.hit /\ u.content = request[q].content
      BY <3>1, <1>1 DEF Sound, Request, Settled, RouteAfter, Fail
    <3> QED BY <1>2, <2>2, <3>1, <3>2, NodeKeepsRunInv DEF Arrive, HitSound, Settled
  <2> QED BY <1>2, <2>1, <2>2 DEF Arrive
<1>3. ASSUME NEW q \in Requests, Identify(q) PROVE RunInv'
  <2> DEFINE r == request[q]
             e == cache[r.content]
             hit == [r EXCEPT !.pc = "agent3", !.fingerprint = TRUE, !.hit = TRUE,
                              !.a1 = e.a1, !.domain = e.domain, !.a2 = e.a2]
             miss == [r EXCEPT !.pc = "agent1", !.fingerprint = TRUE, !.reclassify = Forced(q)]
  <2>1. /\ Node(q, "identify", IF IsHit(q) THEN hit ELSE miss)
        /\ cache' = cache
    BY <1>3 DEF Identify
  <2>2. CASE IsHit(q)
    <3>1. hit \in Request /\ r \in Request /\ r.pc = "identify" /\ Present(r)
      BY <2>1, <2>2, NodeMakes
    <3>2. e \in Entry /\ r.content \in Contents
      BY <2>2, <3>1 DEF IsHit, Typing, TypeOK, Request
    <3>3. e.domain = e.a1.of /\ e.a2.of = e.a1.of /\ MadeBy(e.a1.of, r.content)
      BY <2>2, <3>2 DEF IsHit, RunInv, CacheSound
    <3>4. e.a1 # None /\ e.a2 # None
      BY <3>2, NoneIsNew DEF Entry
    <3>5. /\ hit.pc = "agent3" /\ hit.hit /\ hit.error = r.error
          /\ hit.a1 = e.a1 /\ hit.a2 = e.a2 /\ hit.domain = e.domain /\ hit.content = r.content
          /\ hit.revalidate = r.revalidate /\ hit.reclassify = r.reclassify
      BY <3>1 DEF Request
    <3>6. r.error = "none" /\ ~r.revalidate /\ ~r.reclassify
      BY <2>2, <3>1 DEF Present, IsHit, Forced
    <3>7. Sound(q, hit)
      BY <3>3, <3>4, <3>5, <3>6 DEF Sound, Settled
    <3>8. HitSound(hit)
      BY <3>3, <3>5 DEF HitSound
    <3> QED BY <2>1, <2>2, <3>1, <3>5, <3>7, <3>8, NodeKeepsRunInv DEF Settled
  <2>3. CASE ~IsHit(q)
    <3>1. miss \in Request /\ r \in Request /\ r.pc = "identify"
      BY <2>1, <2>3, NodeMakes
    <3>2. Sound(q, miss) /\ ~miss.hit /\ miss.content = r.content
      BY <3>1, <1>1 DEF Sound, Request, Settled, Forced
    <3> QED BY <2>1, <2>3, <3>1, <3>2, NodeKeepsRunInv DEF HitSound, Settled
  <2> QED BY <2>2, <2>3
<1>4. ASSUME NEW q \in Requests, RegistryUnavailable(q) PROVE RunInv'
  <2> DEFINE u == [request[q] EXCEPT !.pc = "agent1"]
  <2>1. Node(q, "identify", u) /\ cache' = cache
    BY <1>4 DEF RegistryUnavailable
  <2>2. u \in Request /\ request[q] \in Request /\ request[q].pc = "identify"
    BY <2>1, NodeMakes
  <2>3. Sound(q, u) /\ ~u.hit /\ u.content = request[q].content
    BY <2>2, <1>1 DEF Sound, Request, Settled
  <2> QED BY <2>1, <2>2, <2>3, NodeKeepsRunInv DEF HitSound, Settled
<1>5. ASSUME NEW q \in Requests, NEW name \in {"agent1", "extract", "agent2", "fetch"}, NEW n \in Request,
             NEW next \in Positions \ {"identify"}, Node(q, name, RouteAfter(n, next)), cache' = cache,
             request[q].pc = name => Sound(q, n) /\ ~n.hit /\ n.content = request[q].content
      PROVE  RunInv'
  <2> DEFINE u == RouteAfter(n, next)
  <2>1. u \in Request /\ request[q] \in Request /\ request[q].pc = name
    BY <1>5, NodeMakes
  <2>2. Sound(q, u) /\ ~u.hit /\ u.content = request[q].content
    BY <2>1, <1>5 DEF Sound, RouteAfter, Request, Positions
  <2> QED BY <1>5, <2>1, <2>2, NodeKeepsRunInv DEF HitSound, Settled
<1>6. ASSUME NEW q \in Requests, NEW name \in {"agent1", "extract", "agent2", "fetch"},
             request[q].pc = name
      PROVE  request[q] \in Request /\ ~request[q].hit /\ Sound(q, request[q]) /\ Present(request[q])
  BY <1>1, <1>6 DEF Sound, Settled, Typing, TypeOK
<1>7. ASSUME NEW q \in Requests, NEW name \in {"agent1", "extract", "agent2", "fetch"},
             NEW stage \in Stages, NEW next \in Positions \ {"identify"},
             Node(q, name, RouteAfter(Fail(q, stage), next)), cache' = cache
      PROVE  RunInv'
  <2>1. request[q].pc = name
    BY <1>7 DEF Node
  <2>2. Fail(q, stage) \in Request
    BY <2>1, <1>6, UpdatesAreTyped DEF Fail
  <2>3. Sound(q, Fail(q, stage)) /\ ~Fail(q, stage).hit /\ Fail(q, stage).content = request[q].content
    BY <2>1, <1>6 DEF Fail, Sound, Request
  <2> QED BY <1>5, <1>7, <2>2, <2>3
<1>8. ASSUME NEW q \in Requests, Agent1Fails(q) \/ CallAgent2Fails(q) PROVE RunInv'
  BY <1>7, <1>8 DEF Agent1Fails, CallAgent2Fails, Positions, Stages
<1>9. ASSUME NEW q \in Requests, Agent1Answers(q) PROVE RunInv'
  <2> PICK classified \in BOOLEAN :
        Node(q, "agent1",
          RouteAfter([request[q] EXCEPT !.a1 = [of |-> q, reclassified |-> request[q].reclassify,
                                                classified |-> classified]], "extract"))
    BY <1>9 DEF Agent1Answers
  <2> DEFINE n == [request[q] EXCEPT !.a1 = [of |-> q, reclassified |-> request[q].reclassify,
                                             classified |-> classified]]
  <2>1. request[q].pc = "agent1"
    BY DEF Node
  <2>2. n \in Request
    BY <2>1, <1>6, Agent1Typed
  <2>3. Sound(q, n) /\ ~n.hit /\ n.content = request[q].content
    BY <2>1, <1>6 DEF Sound, Request
  <2>4. cache' = cache /\ "extract" \in Positions \ {"identify"}
    BY <1>9 DEF Agent1Answers, Positions
  <2>5. Node(q, "agent1", RouteAfter(n, "extract"))
    OBVIOUS
  <2> HIDE DEF n
  <2> QED BY <1>5, <2>2, <2>3, <2>4, <2>5
<1>10. ASSUME NEW q \in Requests, Extract(q) PROVE RunInv'
  <2> DEFINE r == request[q]
             n == IF r.a1.classified THEN [r EXCEPT !.domain = r.a1.of]
                  ELSE Fail(q, "classification_missing")
  <2>1. Node(q, "extract", RouteAfter(n, "agent2")) /\ r.pc = "extract"
    BY <1>10 DEF Extract, Node
  <2>2. r \in Request /\ ~r.hit /\ Sound(q, r) /\ r.a1 # None
    BY <2>1, <1>6 DEF Present
  <2>3. r.a1.of = q
    BY <2>2 DEF Sound
  <2>4. n \in Request
    BY <2>2, <2>3, UpdatesAreTyped DEF Fail, Stages
  <2>5. Sound(q, n) /\ ~n.hit /\ n.content = r.content
    BY <2>1, <2>2, <2>3 DEF Sound, Request, Fail
  <2> QED BY <1>5, <1>10, <2>1, <2>4, <2>5 DEF Extract, Positions
<1>11. ASSUME NEW q \in Requests, Agent2Ends(q) PROVE RunInv'
  BY <1>11 DEF Agent2Ends, RunInv, CacheSound, Sound, HitSound, MadeBy
<1>12. ASSUME NEW q \in Requests, CallAgent2Returns(q) PROVE RunInv'
  <2> DEFINE r == request[q]
             n == IF profile[q] = "rejected" THEN Fail(q, "agent2")
                  ELSE [r EXCEPT !.a2 = [of |-> q, full |-> FALSE]]
  <2>1. Node(q, "agent2", RouteAfter(n, "fetch")) /\ r.pc = "agent2"
    BY <1>12 DEF CallAgent2Returns, Node
  <2>2. r \in Request /\ ~r.hit /\ Sound(q, r)
    BY <2>1, <1>6
  <2>3. [of |-> q, full |-> FALSE] \in Agent2Body
    BY DEF Agent2Body
  <2>4. n \in Request
    BY <2>2, <2>3, UpdatesAreTyped DEF Fail, Stages
  <2>5. Sound(q, n) /\ ~n.hit /\ n.content = r.content
    BY <2>1, <2>2 DEF Sound, Request, Fail
  <2> QED BY <1>5, <1>12, <2>1, <2>4, <2>5 DEF CallAgent2Returns, Positions
<1>13. ASSUME NEW q \in Requests, FetchAgent2Result(q) PROVE RunInv'
  <2>1. CASE Node(q, "fetch", RouteAfter(Fail(q, "fetch_failed"), "persist"))
    BY <1>7, <1>13, <2>1 DEF FetchAgent2Result, Positions, Stages
  <2>2. ASSUME NEW status,
               Node(q, "fetch", RouteAfter([request[q] EXCEPT !.a2 = FetchedBody(q, status)], "persist"))
        PROVE  RunInv'
    <3> DEFINE r == request[q]
               n == [r EXCEPT !.a2 = FetchedBody(q, status)]
    <3>1. r.pc = "fetch"
      BY <2>2 DEF Node
    <3>2. r \in Request /\ ~r.hit /\ Sound(q, r) /\ r.a2 # None
      BY <3>1, <1>6 DEF Present
    <3>3. FetchedBody(q, status) \in Agent2Body /\ FetchedBody(q, status).of = q
      BY <3>2, FetchedTyped DEF Sound, FetchedBody
    <3>4. n \in Request
      BY <3>2, <3>3, UpdatesAreTyped
    <3>5. Sound(q, n) /\ ~n.hit /\ n.content = r.content
      BY <3>1, <3>2, <3>3 DEF Sound, Request
    <3> QED BY <1>5, <1>13, <2>2, <3>4, <3>5 DEF FetchAgent2Result, Positions
  <2> QED BY <1>13, <2>1, <2>2 DEF FetchAgent2Result
<1>14. ASSUME NEW q \in Requests, PersistMasterDataset(q) PROVE RunInv'
  <2> DEFINE r == request[q]
             u == [r EXCEPT !.pc = "agent3"]
             entry == [a1 |-> r.a1, domain |-> r.domain, a2 |-> r.a2]
  <2>1. Node(q, "persist", u)
    BY <1>14 DEF PersistMasterDataset
  <2>2. u \in Request /\ r \in Request /\ r.pc = "persist" /\ Present(r)
    BY <2>1, NodeMakes
  <2>3. ~r.hit /\ Sound(q, r)
    BY <2>2, <1>1 DEF Sound, Settled
  <2>4. /\ u.pc = "agent3" /\ u.error = r.error /\ u.content = r.content /\ ~u.hit
        /\ Sound(q, u)
    BY <2>2, <2>3 DEF Sound, Request
  <2>5. /\ \A x \in Requests : Sound(x, request'[x]) /\ HitSound(request[x])'
        /\ \A x, c : MadeBy(x, c) => MadeBy(x, c)'
    BY <2>1, <2>2, <2>4, NodeKeepsRuns DEF HitSound, Settled
  <2>6. r.error = "none" /\ r.a1 # None /\ r.domain # None /\ r.a2 # None
    BY <2>2 DEF Present
  <2>7. entry.a1.of = q /\ entry.domain = q /\ entry.a2.of = q
    BY <2>3, <2>6 DEF Sound
  <2>8. \A c : c = r.content => MadeBy(q, c)'
    <3>1. request'[q] = u
      BY <2>1, <2>2, NodeChangesOne DEF Typing, TypeOK
    <3> QED BY <3>1, <2>4, <2>6 DEF MadeBy, Settled
  <2>9. \A c \in Contents : cache'[c] = cache[c] \/ (c = r.content /\ cache'[c] = entry)
    BY <1>14, <2>2 DEF PersistMasterDataset, Upsert, Typing, TypeOK
  <2>10. CacheSound'
    <3> SUFFICES ASSUME NEW c \in Contents, cache'[c] # None
                 PROVE  /\ cache'[c].domain = cache'[c].a1.of /\ cache'[c].a2.of = cache'[c].a1.of
                        /\ \A x : x = cache'[c].a1.of => MadeBy(x, c)'
      BY DEF CacheSound, MadeBy
    <3>1. CASE cache'[c] = cache[c]
      BY <3>1, <2>5 DEF CacheSound, RunInv
    <3>2. CASE c = r.content /\ cache'[c] = entry
      BY <3>2, <2>7, <2>8
    <3> QED BY <2>9, <3>1, <3>2
  <2> QED BY <2>5, <2>10 DEF RunInv, Sound
<1>15. ASSUME NEW q \in Requests, NEW pc \in {"finalize", "answered"}, request[q].pc \in {"agent3", "finalize"},
              Node(q, request[q].pc, [request[q] EXCEPT !.pc = pc]), cache' = cache
       PROVE  RunInv'
  <2> DEFINE r == request[q]
             u == [r EXCEPT !.pc = pc]
  <2>1. u \in Request /\ r \in Request
    BY <1>15, NodeMakes
  <2>2. Sound(q, u) /\ u.content = r.content /\ u.error = r.error /\ u.pc \in Settled
    BY <2>1, <1>1, <1>15 DEF Sound, Request, Settled
  <2>3. HitSound(u)
    BY <2>1, <1>1 DEF HitSound, Request
  <2> QED BY <1>15, <2>1, <2>2, <2>3, NodeKeepsRunInv
<1>16. ASSUME NEW q \in Requests, CallAgent3(q) \/ Finalize(q) PROVE RunInv'
  BY <1>15, <1>16 DEF CallAgent3, Finalize, AfterAgent3, Node
<1>17. ASSUME NEW k \in Asks, AskArrives(k) \/ AskFetches(k) \/ AskAnalyzes(k) PROVE RunInv'
  <2>1. UNCHANGED <<request, cache>>
    BY <1>17 DEF AskArrives, AskFetches, AskAnalyzes, AskStep
  <2> QED BY <2>1 DEF RunInv, CacheSound, Sound, HitSound, MadeBy
<1>18. ASSUME NEW c \in Contents, DeleteMaster(c) PROVE RunInv'
  <2>1. request' = request /\ \A d \in Contents : cache'[d] # None => cache'[d] = cache[d]
    BY <1>18 DEF DeleteMaster, Typing, TypeOK
  <2> QED BY <2>1 DEF RunInv, CacheSound, Sound, HitSound, MadeBy
<1> QED
  BY <1>0, <1>2, <1>3, <1>4, <1>8, <1>9, <1>10, <1>11, <1>12, <1>13, <1>14, <1>16, <1>17, <1>18
  DEF Next, RequestStep, AskStepOn

LEMMA RunsStaySound == Spec => [](Typing /\ RunInv)
  BY TypingAtStart, TypingKept, RunInvAtStart, RunInvKept, PTL DEF Spec

\* Whatever is cached or answered was made by one run on the very content
\* uploaded, however many requests, refreshes and deletions interleave.
THEOREM WholeResults == Spec => []ResultsAreWhole
<1>1. Typing /\ RunInv => ResultsAreWhole
  <2> SUFFICES ASSUME Typing, RunInv PROVE ResultsAreWhole
    OBVIOUS
  <2>1. ASSUME NEW c \in Contents, cache[c] # None
        PROVE  OneRunMadeIt(cache[c].a1, cache[c].domain, cache[c].a2, c)
    <3>1. cache[c] \in Entry
      BY <2>1 DEF Typing, TypeOK
    <3> QED BY <2>1, <3>1, NoneIsNew DEF RunInv, CacheSound, MadeBy, OneRunMadeIt, Entry
  <2>2. ASSUME NEW q \in Requests, Succeeded(q)
        PROVE  OneRunMadeIt(request[q].a1, request[q].domain, request[q].a2, request[q].content)
    BY <2>2 DEF Typing, Present, Succeeded, RunInv, Sound, HitSound, MadeBy, OneRunMadeIt
  <2> QED BY <2>1, <2>2 DEF ResultsAreWhole
<1> QED BY <1>1, RunsStaySound, PTL

\* A forced request is answered with bodies made for it.
THEOREM ForcedStaysFresh == Spec => []ForcedIsFresh
<1>1. Typing /\ RunInv => ForcedIsFresh
  BY DEF Typing, TypeOK, Request, Present, RunInv, Sound, Succeeded, ForcedIsFresh
<1> QED BY <1>1, RunsStaySound, PTL

\* No body made for a request that failed is cached or served.
THEOREM FailuresStayPrivate == Spec => []FailuresAreNotServed
<1>1. Typing /\ RunInv => FailuresAreNotServed
  BY DEF Typing, RunInv, CacheSound, HitSound, MadeBy, FailuresAreNotServed
<1> QED BY <1>1, RunsStaySound, PTL

-----------------------------------------------------------------------------
(* Full results can be asked about.                                        *)

Stored(b) == (b # None /\ b.full) => profile[b.of] = "stored"

\* A full body, wherever it went, is one Agent 2 has stored; a run not yet
\* posted has no state at Agent 2; a follow-up remembers what it was told.
StoredInv ==
  /\ \A q \in Requests :
       /\ Stored(request[q].a2)
       /\ request[q].pc \in {"idle", "identify", "agent1", "extract"} => profile[q] = "none"
  /\ \A c \in Contents : cache[c] # None => Stored(cache[c].a2)
  /\ \A k \in Asks :
       /\ ask[k].full => profile[ask[k].of] = "stored"
       /\ ask[k].answer = "unknown" => ~ask[k].full
       /\ ask[k].pc \in {"idle", "fetch", "agent3"} => ask[k].answer = "none"

LEMMA StoredAtStart == Init => StoredInv
<1> SUFFICES ASSUME Init PROVE StoredInv
  OBVIOUS
<1>1. \A q \in Requests : request[q].a2 = None /\ profile[q] = "none"
  BY DEF Init
<1>2. \A k \in Asks : ~ask[k].full /\ ask[k].answer = "none"
  BY DEF Init
<1>3. \A c \in Contents : cache[c] = None
  BY DEF Init
<1> QED BY <1>1, <1>2, <1>3 DEF StoredInv, Stored

\* A node that hands on a stored body, and leaves Agent 2 alone.
LEMMA NodeKeepsStored ==
  ASSUME Typing, Typing', StoredInv, NEW q \in Requests, NEW name, NEW u, Node(q, name, u),
         Stored(u.a2), u.pc \notin {"idle", "identify", "agent1", "extract"} \/ profile[q] = "none",
         UNCHANGED <<ask, profile>>,
         \A c \in Contents :
           cache'[c] = cache[c] \/ cache'[c] = None \/ cache'[c].a2 = request[q].a2
  PROVE  StoredInv'
<1>1. \A x \in Requests : request'[x] = IF x = q THEN u ELSE request[x]
  BY NodeChangesOne, NodeMakes DEF Typing, TypeOK
<1>2. \A x \in Requests :
        /\ Stored(request[x].a2)'
        /\ request'[x].pc \in {"idle", "identify", "agent1", "extract"} => profile'[x] = "none"
  BY <1>1 DEF StoredInv, Stored
<1>3. \A c \in Contents : cache'[c] # None => Stored(cache[c].a2)'
  BY DEF StoredInv, Stored
<1> QED BY <1>2, <1>3 DEF StoredInv

LEMMA StoredKept == Typing /\ RunInv /\ StoredInv /\ Typing' /\ [Next]_vars => StoredInv'
<1> SUFFICES ASSUME Typing, RunInv, StoredInv, Typing', [Next]_vars PROVE StoredInv'
  OBVIOUS
<1>0. CASE UNCHANGED vars
  BY <1>0 DEF vars, StoredInv, Stored
<1>1. \A q \in Requests :
        /\ request[q] \in Request /\ Stored(request[q].a2)
        /\ request[q].pc \in {"idle", "identify", "agent1", "extract"} => profile[q] = "none"
  BY DEF Typing, TypeOK, StoredInv
<1>2. ASSUME NEW q \in Requests, NEW name, NEW u, Node(q, name, u), u.a2 = request[q].a2,
             u.pc \notin {"idle", "identify", "agent1", "extract"}
               \/ name \in {"idle", "identify", "agent1", "extract"},
             UNCHANGED <<ask, cache, profile>>
      PROVE  StoredInv'
  BY <1>1, <1>2, NodeKeepsStored, NodeMakes
<1>3. ASSUME NEW q \in Requests, NEW name, NEW stage, NEW next,
             Node(q, name, RouteAfter(Fail(q, stage), next)), stage # "none",
             UNCHANGED <<ask, cache, profile>>
      PROVE  StoredInv'
  <2> DEFINE u == RouteAfter(Fail(q, stage), next)
  <2>1. u.a2 = request[q].a2 /\ u.pc = "answered"
    BY <1>1, <1>3 DEF RouteAfter, Fail, Request
  <2> QED BY <1>2, <1>3, <2>1
<1>4. ASSUME NEW q \in Requests, Agent1Fails(q) \/ CallAgent2Fails(q) PROVE StoredInv'
  BY <1>3, <1>4 DEF Agent1Fails, CallAgent2Fails
<1>5. ASSUME NEW q \in Requests, Arrive(q) PROVE StoredInv'
  <2>1. CASE Node(q, "idle", [request[q] EXCEPT !.pc = "identify"])
    <3>1. [request[q] EXCEPT !.pc = "identify"].a2 = request[q].a2
      BY <1>1 DEF Request
    <3> QED BY <1>2, <1>5, <2>1, <3>1 DEF Arrive
  <2>2. CASE Node(q, "idle", RouteAfter(Fail(q, "too_large"), "identify"))
    BY <1>3, <1>5, <2>2 DEF Arrive
  <2> QED BY <1>5, <2>1, <2>2 DEF Arrive
<1>6. ASSUME NEW q \in Requests, Identify(q) PROVE StoredInv'
  <2> DEFINE r == request[q]
             e == cache[r.content]
             hit == [r EXCEPT !.pc = "agent3", !.fingerprint = TRUE, !.hit = TRUE,
                              !.a1 = e.a1, !.domain = e.domain, !.a2 = e.a2]
             miss == [r EXCEPT !.pc = "agent1", !.fingerprint = TRUE, !.reclassify = Forced(q)]
  <2>1. /\ Node(q, "identify", IF IsHit(q) THEN hit ELSE miss)
        /\ UNCHANGED <<ask, cache, profile>>
    BY <1>6 DEF Identify
  <2>2. CASE IsHit(q)
    <3>1. hit.a2 = e.a2 /\ hit.pc = "agent3"
      BY <1>1 DEF Request
    <3>2. Stored(e.a2)
      BY <1>1, <2>2 DEF IsHit, StoredInv, Request
    <3> QED BY <2>1, <2>2, <3>1, <3>2, NodeKeepsStored
  <2>3. CASE ~IsHit(q)
    <3>1. miss.a2 = r.a2
      BY <1>1 DEF Request
    <3> QED BY <1>2, <2>1, <2>3, <3>1
  <2> QED BY <2>2, <2>3
<1>7. ASSUME NEW q \in Requests, RegistryUnavailable(q) PROVE StoredInv'
  <2>1. [request[q] EXCEPT !.pc = "agent1"].a2 = request[q].a2
    BY <1>1 DEF Request
  <2> QED BY <1>2, <1>7, <2>1 DEF RegistryUnavailable
<1>8. ASSUME NEW q \in Requests, Agent1Answers(q) PROVE StoredInv'
  <2> PICK body \in Agent1Body :
        Node(q, "agent1", RouteAfter([request[q] EXCEPT !.a1 = body], "extract"))
    BY <1>1, <1>8, Agent1Typed DEF Agent1Answers
  <2>1. RouteAfter([request[q] EXCEPT !.a1 = body], "extract").a2 = request[q].a2
    BY <1>1 DEF Request, RouteAfter
  <2> QED BY <1>2, <1>8, <2>1 DEF Agent1Answers
<1>9. ASSUME NEW q \in Requests, Extract(q) PROVE StoredInv'
  <2> DEFINE r == request[q]
             n == IF r.a1.classified THEN [r EXCEPT !.domain = r.a1.of]
                  ELSE Fail(q, "classification_missing")
             u == RouteAfter(n, "agent2")
  <2>1. Node(q, "extract", u) /\ r.pc = "extract" /\ UNCHANGED <<ask, cache>>
    BY <1>9 DEF Extract, Node
  <2>2. u.a2 = r.a2 /\ u.pc \in {"agent2", "answered"}
    BY <1>1 DEF Request, RouteAfter, Fail
  <2>3. \A x \in Requests : request'[x] = IF x = q THEN u ELSE request[x]
    BY <2>1, NodeChangesOne, NodeMakes DEF Typing, TypeOK
  <2>4. \A x : profile[x] = "stored" => profile'[x] = "stored"
    BY <1>1, <1>9, <2>1 DEF Extract, Typing, TypeOK
  <2>5. \A x \in Requests \ {q} : profile'[x] = profile[x]
    BY <1>9 DEF Extract, Typing, TypeOK
  <2> QED BY <2>1, <2>2, <2>3, <2>4, <2>5 DEF StoredInv, Stored
<1>10. ASSUME NEW q \in Requests, Agent2Ends(q) PROVE StoredInv'
  <2> PICK s \in {"stored", "unstored", "rejected"} :
        profile[q] = "working" /\ profile' = [profile EXCEPT ![q] = s]
    BY <1>10 DEF Agent2Ends
  <2>1. \A x : profile[x] = "stored" => profile'[x] = "stored"
    BY DEF Typing, TypeOK
  <2>2. \A x \in Requests : profile[x] = "none" => profile'[x] = "none"
    BY DEF Typing, TypeOK
  <2> QED BY <1>10, <2>1, <2>2 DEF Agent2Ends, StoredInv, Stored
<1>11. ASSUME NEW q \in Requests, CallAgent2Returns(q) PROVE StoredInv'
  <2> DEFINE r == request[q]
             n == IF profile[q] = "rejected" THEN Fail(q, "agent2")
                  ELSE [r EXCEPT !.a2 = [of |-> q, full |-> FALSE]]
             u == RouteAfter(n, "fetch")
  <2>1. Node(q, "agent2", u) /\ UNCHANGED <<ask, cache, profile>>
    BY <1>11 DEF CallAgent2Returns
  <2>2. u.pc \in {"fetch", "answered"} /\ (u.a2 = r.a2 \/ u.a2 = [of |-> q, full |-> FALSE])
    BY <1>1 DEF Request, RouteAfter, Fail
  <2>3. Stored(u.a2)
    BY <1>1, <2>2 DEF Stored
  <2> QED BY <2>1, <2>2, <2>3, NodeKeepsStored
<1>12. ASSUME NEW q \in Requests, FetchAgent2Result(q) PROVE StoredInv'
  <2>1. CASE Node(q, "fetch", RouteAfter(Fail(q, "fetch_failed"), "persist"))
    BY <1>3, <1>12, <2>1 DEF FetchAgent2Result
  <2>2. ASSUME NEW status \in ResultStatus(q),
               Node(q, "fetch", RouteAfter([request[q] EXCEPT !.a2 = FetchedBody(q, status)], "persist"))
        PROVE  StoredInv'
    <3> DEFINE r == request[q]
               u == RouteAfter([r EXCEPT !.a2 = FetchedBody(q, status)], "persist")
    <3>1. r.pc = "fetch" /\ Present(r) /\ Sound(q, r)
      BY <2>2, NodeMakes DEF RunInv
    <3>2. r.a2 # None /\ r.a2.of = q
      BY <3>1 DEF Present, Sound, Settled
    <3>3. u.pc \in {"persist", "answered"} /\ u.a2 = FetchedBody(q, status)
      BY <1>1 DEF Request, RouteAfter
    <3>4. Stored(FetchedBody(q, status))
      BY <1>1, <2>2, <3>2 DEF Stored, FetchedBody, ResultStatus
    <3> QED BY <1>12, <2>2, <3>3, <3>4, NodeKeepsStored DEF FetchAgent2Result
  <2> QED BY <1>12, <2>1, <2>2 DEF FetchAgent2Result
<1>13. ASSUME NEW q \in Requests, PersistMasterDataset(q) PROVE StoredInv'
  <2> DEFINE r == request[q]
             u == [r EXCEPT !.pc = "agent3"]
  <2>1. Node(q, "persist", u) /\ UNCHANGED <<ask, profile>>
    BY <1>13 DEF PersistMasterDataset
  <2>2. u.a2 = r.a2 /\ u.pc = "agent3"
    BY <1>1 DEF Request
  <2>3. \A c \in Contents : cache'[c] = cache[c] \/ cache'[c].a2 = r.a2
    BY <1>13 DEF PersistMasterDataset, Upsert, Typing, TypeOK
  <2> QED BY <1>1, <2>1, <2>2, <2>3, NodeKeepsStored
<1>14. ASSUME NEW q \in Requests, CallAgent3(q) \/ Finalize(q) PROVE StoredInv'
  <2>1. \A pc : /\ [request[q] EXCEPT !.pc = pc].a2 = request[q].a2
                /\ [request[q] EXCEPT !.pc = pc].pc = pc
    BY <1>1 DEF Request
  <2>2. CASE CallAgent3(q)
    BY <1>2, <2>1, <2>2 DEF CallAgent3, AfterAgent3
  <2>3. CASE Finalize(q)
    BY <1>2, <2>1, <2>3 DEF Finalize
  <2> QED BY <1>14, <2>2, <2>3
<1>15. ASSUME NEW k \in Asks, NEW from, NEW u, AskStep(k, from, u),
              u.full => profile[u.of] = "stored", u.answer = "unknown" => ~u.full,
              u.pc \in {"idle", "fetch", "agent3"} => u.answer = "none"
       PROVE  StoredInv'
  <2>1. \A x \in Asks : ask'[x] = IF x = k THEN u ELSE ask[x]
    BY <1>15 DEF AskStep, Typing, TypeOK
  <2> QED BY <1>15, <2>1 DEF AskStep, StoredInv, Stored
<1>16. \A k \in Asks : ask[k] \in Ask /\ (ask[k].full => profile[ask[k].of] = "stored")
  BY DEF Typing, TypeOK, StoredInv
<1>17. ASSUME NEW k \in Asks, AskArrives(k) PROVE StoredInv'
  <2> DEFINE u(q) == [ask[k] EXCEPT !.pc = "fetch", !.of = request[q].a2.of, !.full = request[q].a2.full]
  <2>1. PICK q \in Requests : Succeeded(q) /\ AskStep(k, "idle", u(q))
    BY <1>17 DEF AskArrives
  <2>2. request[q].a2 # None /\ ask[k].pc = "idle"
    BY <2>1 DEF Succeeded, Typing, Present, AskStep
  <2>3. /\ u(q).pc = "fetch" /\ u(q).of = request[q].a2.of /\ u(q).full = request[q].a2.full
        /\ u(q).answer = ask[k].answer
    BY <1>16 DEF Ask
  <2>4. ask[k].answer = "none"
    BY <2>2 DEF StoredInv
  <2>5. u(q).full => profile[u(q).of] = "stored"
    BY <1>1, <2>2, <2>3 DEF Stored
  <2> QED BY <1>15, <2>1, <2>3, <2>4, <2>5
<1>18. ASSUME NEW k \in Asks, NEW from, NEW a, a = "unknown" => ~ask[k].full,
              AskStep(k, from, [ask[k] EXCEPT !.pc = "answered", !.answer = a])
       PROVE  StoredInv'
  <2> DEFINE u == [ask[k] EXCEPT !.pc = "answered", !.answer = a]
  <2>1. u.pc = "answered" /\ u.answer = a /\ u.of = ask[k].of /\ u.full = ask[k].full
    BY <1>16 DEF Ask
  <2> QED BY <1>15, <1>16, <1>18, <2>1
<1>19. ASSUME NEW k \in Asks, AskFetches(k) PROVE StoredInv'
  <2>1. CASE AskStep(k, "fetch", [ask[k] EXCEPT !.pc = "agent3"])
    <3> DEFINE u == [ask[k] EXCEPT !.pc = "agent3"]
    <3>1. /\ u.pc = "agent3" /\ u.of = ask[k].of /\ u.full = ask[k].full
          /\ u.answer = ask[k].answer /\ ask[k].pc = "fetch"
      BY <1>16, <2>1 DEF Ask, AskStep
    <3>2. ask[k].answer = "none"
      BY <3>1 DEF StoredInv
    <3> QED BY <1>15, <1>16, <2>1, <3>1, <3>2
  <2>2. CASE AskStep(k, "fetch", [ask[k] EXCEPT !.pc = "answered", !.answer = "unreachable"])
    <3>1. "unreachable" # "unknown"
      OBVIOUS
    <3> QED BY <1>18, <2>2, <3>1
  <2>3. CASE /\ 404 \in ResultStatus(ask[k].of)
             /\ AskStep(k, "fetch", [ask[k] EXCEPT !.pc = "answered", !.answer = "unknown"])
    <3>1. ~ask[k].full
      BY <1>16, <2>3 DEF ResultStatus
    <3> QED BY <1>18, <2>3, <3>1
  <2> QED BY <1>19, <2>1, <2>2, <2>3 DEF AskFetches
<1>20. ASSUME NEW k \in Asks, AskAnalyzes(k) PROVE StoredInv'
  BY <1>18, <1>20 DEF AskAnalyzes
<1>21. ASSUME NEW c \in Contents, DeleteMaster(c) PROVE StoredInv'
  <2>1. \A d \in Contents : cache'[d] # None => cache'[d] = cache[d]
    BY <1>21 DEF DeleteMaster, Typing, TypeOK
  <2> QED BY <1>21, <2>1 DEF DeleteMaster, StoredInv, Stored
<1> QED
  BY <1>0, <1>4, <1>5, <1>6, <1>7, <1>8, <1>9, <1>10, <1>11, <1>12, <1>13, <1>14, <1>17, <1>19, <1>20, <1>21
  DEF Next, RequestStep, AskStepOn

\* Whoever holds a full result, his own or a cached one, can ask about its run.
THEOREM FullResultsAreKnown == Spec => []FullResultCanBeAsked
<1>1. StoredInv => FullResultCanBeAsked
  BY DEF StoredInv, FullResultCanBeAsked
<1> QED
  BY <1>1, TypingAtStart, TypingKept, RunInvAtStart, RunInvKept, StoredAtStart, StoredKept, PTL DEF Spec
=============================================================================
