----------------------- MODULE PresentationSafety_proofs -----------------------
(***************************************************************************)
(* What clients are promised, and what a sealed pause means.                *)
(*                                                                         *)
(* Evidence says that a shown result is true.  The first part adds its       *)
(* counterpart, that a zero result and every discarded query are true as     *)
(* well: a scene whose zero result exists anywhere is gone for ever, and one *)
(* commit is in flight in one scene at a time.  With it guest, host and      *)
(* connection implement FeedbackOutcome.                                    *)
(*                                                                         *)
(* The second part is about the pause barrier.                              *)
(***************************************************************************)
EXTENDS Presentation_proofs

Carries(lane, type, id) == \E i \in DOMAIN lane : lane[i].type = type /\ lane[i].id = id
Once(lane) == \A i, j \in DOMAIN lane :
  lane[i].type = "scene" /\ lane[j].type = "scene" /\ lane[i].id = lane[j].id => i = j
OnItsWay(id) == Carries(display, "scene", id)

\* Scenes that were sent and that no drawable will ever show.
GoneIds ==
  {id \in Ids : /\ Sampling(id) /\ id \notin displayed
                /\ journal[id] \in {"none", "zero"} /\ ~OnItsWay(id)}

\* Scenes whose record is over, or never was.
OverIds == {id \in Ids : Sampling(id) /\ ~InLedger(id)}

\* The lanes and the journal: a scene arrives once and before it has a record, a zero
\* result is final, and an acknowledgement follows its record's end.
ScenesOnce ==
  Once(display) /\ \A id \in Ids : OnItsWay(id) => journal[id] = "none" /\ id \notin displayed
UnshownRecords == \A id \in Ids : journal[id] \in {"queued", "submitted", "zero"} => id \notin displayed
ZerosAreTrue   == \A id \in Ids : Carries(feedback, "zero", id) => id \in GoneIds
AcksSettle     == \A id \in Ids : Carries(display, "ack", id) => id \in OverIds
RecordsSample  == \A id \in Ids : InLedger(id) => Sampling(id)
ResultFate     == ScenesOnce /\ UnshownRecords /\ ZerosAreTrue /\ AcksSettle /\ RecordsSample

\* What scenes have sampled is no commit to come, and of earlier scenes.
OldLayer(id, layer) ==
  /\ layer[2] # 0 /\ layer[2] < nextId
  /\ dirty[RootOf[layer[1]]] # 0 => id < dirty[RootOf[layer[1]]]
SampleFate ==
  /\ \A id \in Ids : \A layer \in packet[id].layers : OldLayer(id, layer)
  /\ \A u \in Pending : \A id \in Ids : ~Shows(id, <<u.surface, u.id>>)

\* A query at its surface is about no scene that can still be shown; one in the ledger
\* is about its own scene only, the last that sampled the commit.
QueryFate(q) ==
  /\ query[q].at = "unused" => query[q].commit = 0
  /\ query[q].at \in {"unused", "listed"} => ~query[q].retired
  /\ query[q].at = "listed" =>
       /\ \A id \in Ids : Shows(id, Target(q)) => id \in GoneIds
       /\ query[q].commit # 0 /\ query[q].commit = content[query[q].surface] => query[q].bound
  /\ query[q].at = "ledger" =>
       /\ \A id \in Ids : Shows(id, Target(q)) => id <= query[q].scene /\ (id = query[q].scene \/ id \in GoneIds)
       /\ query[q].retired => query[q].commit # content[query[q].surface]
QueriesFate == \A q \in Queries : QueryFate(q)

Fate == ResultFate /\ SampleFate /\ QueriesFate

-----------------------------------------------------------------------------
(* Lanes.                                                                  *)

LEMMA CarriesOne == ASSUME NEW m, NEW type, NEW id PROVE Carries(<<m>>, type, id) <=> m.type = type /\ m.id = id
BY DEF Carries

LEMMA CarriesNone == ASSUME NEW type, NEW id PROVE ~Carries(<<>>, type, id)
BY DEF Carries

LEMMA Appended ==
  ASSUME NEW S, NEW lane \in Seq(S), NEW more \in Seq(S)
  PROVE  /\ \A i \in DOMAIN (lane \o more) :
               \/ i \in DOMAIN lane /\ (lane \o more)[i] = lane[i]
               \/ i - Len(lane) \in DOMAIN more /\ (lane \o more)[i] = more[i - Len(lane)]
         /\ \A i \in DOMAIN lane : i \in DOMAIN (lane \o more) /\ (lane \o more)[i] = lane[i]
         /\ \A k \in DOMAIN more : Len(lane) + k \in DOMAIN (lane \o more) /\ (lane \o more)[Len(lane) + k] = more[k]
OBVIOUS

LEMMA CarriesAppended ==
  ASSUME NEW S, NEW lane \in Seq(S), NEW more \in Seq(S), NEW type, NEW id
  PROVE  Carries(lane \o more, type, id) <=> Carries(lane, type, id) \/ Carries(more, type, id)
<1>1. ASSUME Carries(lane \o more, type, id) PROVE Carries(lane, type, id) \/ Carries(more, type, id)
  BY <1>1, Appended DEF Carries
<1>2. ASSUME Carries(lane, type, id) \/ Carries(more, type, id) PROVE Carries(lane \o more, type, id)
  <2>1. CASE Carries(lane, type, id)
    BY <2>1, Appended DEF Carries
  <2>2. CASE Carries(more, type, id)
    <3>1. PICK k \in DOMAIN more : more[k].type = type /\ more[k].id = id
      BY <2>2 DEF Carries
    <3>2. Len(lane) + k \in DOMAIN (lane \o more) /\ (lane \o more)[Len(lane) + k] = more[k]
      BY Appended
    <3> QED BY <3>1, <3>2 DEF Carries
  <2> QED BY <1>2, <2>1, <2>2
<1> QED BY <1>1, <1>2

LEMMA OnceAppended ==
  ASSUME NEW S, NEW lane \in Seq(S), NEW more \in Seq(S), Once(lane),
         \A k \in DOMAIN more : more[k].type # "scene"
  PROVE  Once(lane \o more)
<1> SUFFICES ASSUME NEW i \in DOMAIN (lane \o more), NEW j \in DOMAIN (lane \o more),
                    (lane \o more)[i].type = "scene", (lane \o more)[j].type = "scene",
                    (lane \o more)[i].id = (lane \o more)[j].id
             PROVE  i = j
  BY DEF Once
<1>1. i \in DOMAIN lane /\ (lane \o more)[i] = lane[i] /\ j \in DOMAIN lane /\ (lane \o more)[j] = lane[j]
  BY Appended
<1> QED BY <1>1 DEF Once

LEMMA TailOfLane ==
  ASSUME NEW S, NEW lane \in Seq(S), lane # <<>>
  PROVE  /\ \A type, id : Carries(Tail(lane), type, id) => Carries(lane, type, id)
         /\ Once(lane) => Once(Tail(lane))
         /\ Carries(lane, Head(lane).type, Head(lane).id)
         /\ Once(lane) /\ Head(lane).type = "scene" => ~Carries(Tail(lane), "scene", Head(lane).id)
<1>1. /\ 1 \in DOMAIN lane /\ Head(lane) = lane[1]
      /\ \A i \in DOMAIN Tail(lane) : i \in Nat \ {0} /\ i + 1 \in DOMAIN lane /\ Tail(lane)[i] = lane[i + 1]
  OBVIOUS
<1>2. \A type, id : Carries(Tail(lane), type, id) => Carries(lane, type, id)
  BY <1>1 DEF Carries
<1>3. ASSUME Once(lane) PROVE Once(Tail(lane))
  <2> SUFFICES ASSUME NEW i \in DOMAIN Tail(lane), NEW j \in DOMAIN Tail(lane),
                      Tail(lane)[i].type = "scene", Tail(lane)[j].type = "scene",
                      Tail(lane)[i].id = Tail(lane)[j].id
               PROVE  i = j
    BY DEF Once
  <2>1. i + 1 = j + 1
    BY <1>1, <1>3 DEF Once
  <2> QED BY <1>1, <2>1
<1>4. Carries(lane, Head(lane).type, Head(lane).id)
  BY <1>1 DEF Carries
<1>5. ASSUME Once(lane), Head(lane).type = "scene" PROVE ~Carries(Tail(lane), "scene", Head(lane).id)
  <2> SUFFICES ASSUME NEW i \in DOMAIN Tail(lane), Tail(lane)[i].type = "scene", Tail(lane)[i].id = Head(lane).id
               PROVE  FALSE
    BY DEF Carries
  <2>1. i + 1 = 1
    BY <1>1, <1>5 DEF Once
  <2> QED BY <1>1, <2>1
<1> QED BY <1>2, <1>3, <1>4, <1>5

LEMMA AcksCarryAcks ==
  ASSUME NEW ids \in SUBSET Ids
  PROVE  /\ \A k \in DOMAIN Acks(ids) : Acks(ids)[k].type = "ack" /\ Acks(ids)[k].id \in ids
         /\ \A id : Carries(Acks(ids), "ack", id) => id \in ids
<1> DEFINE order == SetToSeq(ids)
<1>1. order \in Seq(ids)
  BY BatchesAreFinite, BatchIsSeq
<1>2. Acks(ids) = [k \in DOMAIN order |-> [type |-> "ack", id |-> order[k]]]
  BY DEF Acks
<1> HIDE DEF order
<1>3. \A k \in DOMAIN Acks(ids) : Acks(ids)[k].type = "ack" /\ Acks(ids)[k].id \in ids
  BY <1>1, <1>2
<1> QED BY <1>3 DEF Carries

LEMMA ResultsCarryResults ==
  ASSUME NEW ids \in SUBSET InState(Terminal)
  PROVE  \A id : Carries(Results(ids), "zero", id) => id \in Ids /\ journal[id] = "zero"
<1> DEFINE order == SetToSeq(ids)
<1>1. order \in Seq(ids) /\ ids \subseteq Ids
  BY BatchesAreFinite, BatchIsSeq DEF InState
<1>2. Results(ids) = [k \in DOMAIN order |-> [type |-> journal[order[k]], id |-> order[k]]]
  BY DEF Results
<1> HIDE DEF order
<1> QED BY <1>1, <1>2 DEF Carries

-----------------------------------------------------------------------------
(* What a step tells clients.                                              *)

\* The ways in which a query may move without its surface showing anything new.
Ends(q) ==
  \/ query'[q] = query[q]
  \/ query[q].at \in {"listed", "ledger"} /\ query'[q] = Ended(query[q], "failed")
  \/ /\ query[q].at = "ledger" /\ query[q].scene \in displayed
     /\ query'[q] = Ended(query[q], "presented")
  \/ query[q].at = "listed" /\ query'[q] = Ended(query[q], "discarded")
  \/ /\ query[q].at = "ledger" /\ query[q].scene \in GoneIds
     /\ \/ query'[q] = Ended(query[q], "discarded")
        \/ /\ ~query[q].retired /\ query[q].surface \in alive
           /\ query'[q] = Placed(query[q], "listed", 0)
Asks(q) == query[q].at = "unused" /\ query'[q] = Placed(query[q], "listed", 0)

Progress(record) == IF record.at \in {"listed", "ledger"} THEN "pending" ELSE record.at
Truth(q, end) ==
  \/ end = "presented" /\ WasDisplayed(q)
  \/ end = "discarded" /\ ~WasDisplayed(q)
  \/ end = "failed"
Told(q) ==
  /\ query'[q].surface = query[q].surface /\ query'[q].commit = query[q].commit
  /\ \/ Progress(query'[q]) = Progress(query[q])
     \/ Progress(query[q]) = "pending" /\ Truth(q, query'[q].at)

\* A step after which every client knows what it knew, or more, and that is true.
Concluding ==
  /\ \A q \in Queries : Told(q)
  /\ query' = [q \in Queries |-> query'[q]]
  /\ displayed' = displayed /\ \A id \in displayed : packet'[id] = packet[id]

LEMMA LayersAreCommits ==
  ASSUME Evidence, Fate
  PROVE  /\ \A id \in Ids : \A layer \in packet[id].layers : layer \in Surfaces \X Ids
         /\ \A q \in Queries : \A id \in Ids : Shows(id, Target(q)) => query[q].commit # 0
<1>1. /\ nextId \in 1 .. MaxId + 1 /\ MaxId \in Nat /\ Ids = 1 .. MaxId
      /\ packet \in [Ids -> [layers : SUBSET (Surfaces \X Nat), epoch : Nat]]
  BY LaneAssumption DEF Evidence, GuestShape, Ids
<1>2. ASSUME NEW id \in Ids, NEW layer \in packet[id].layers
      PROVE  layer \in Surfaces \X Ids /\ layer[2] # 0
  <2>1. layer \in Surfaces \X Nat
    BY <1>1
  <2>2. layer[2] # 0 /\ layer[2] < nextId
    BY DEF Fate, SampleFate, OldLayer
  <2> QED BY <1>1, <2>1, <2>2
<1> QED BY <1>2 DEF Shows, Target

\* A query that ends as its surface goes on, or with its scene, hears the truth.
LEMMA EndsAreTrue ==
  ASSUME Evidence, Fate, NEW q \in Queries, Ends(q)
  PROVE  Told(q)
<1>1. query[q] \in QueryRecord
  BY LanesAreTyped
<1>2. displayed \subseteq Ids /\ GoneIds \cap displayed = {}
  BY DEF Evidence, HostHoldsEvidence, GoneIds
<1>3. QueryFate(q)
  BY DEF Fate, QueriesFate
<1>4. CASE query'[q] = query[q]
  BY <1>4 DEF Told
<1>5. CASE query[q].at \in {"listed", "ledger"} /\ query'[q] = Ended(query[q], "failed")
  BY <1>1, <1>5 DEF Told, Ended, Progress, Truth
<1>6. CASE query[q].at = "ledger" /\ query[q].scene \in displayed
           /\ query'[q] = Ended(query[q], "presented")
  <2>1. WasDisplayed(q)
    BY <1>6 DEF Evidence, QueriesFollowContent, WasDisplayed
  <2> QED BY <1>1, <1>6, <2>1 DEF Told, Ended, Progress, Truth
<1>7. CASE query[q].at = "listed" /\ query'[q] = Ended(query[q], "discarded")
  <2>1. ~WasDisplayed(q)
    BY <1>2, <1>3, <1>7 DEF QueryFate, WasDisplayed
  <2> QED BY <1>1, <1>7, <2>1 DEF Told, Ended, Progress, Truth
<1>8. CASE query[q].at = "ledger" /\ query[q].scene \in GoneIds
           /\ query'[q] = Ended(query[q], "discarded")
  <2>1. ~WasDisplayed(q)
    BY <1>2, <1>3, <1>8 DEF QueryFate, WasDisplayed
  <2> QED BY <1>1, <1>8, <2>1 DEF Told, Ended, Progress, Truth
<1>9. CASE query[q].at = "ledger" /\ query'[q] = Placed(query[q], "listed", 0)
  BY <1>1, <1>9 DEF Told, Placed, Progress
<1> QED BY <1>4, <1>5, <1>6, <1>7, <1>8, <1>9 DEF Ends

LEMMA QueriesMove ==
  ASSUME Evidence, Fate, UNCHANGED <<surfaceState, packet>>, GoneIds \subseteq GoneIds',
         \A q \in Queries : Ends(q) \/ Asks(q)
  PROVE  SampleFate' /\ QueriesFate'
<1>1. SampleFate'
  BY DEF Fate, SampleFate, OldLayer, surfaceState, Pending, Shows
<1>2. ASSUME NEW q \in Queries PROVE QueryFate(q)'
  <2>1. query[q] \in QueryRecord /\ QueryFate(q)
    BY LanesAreTyped DEF Fate, QueriesFate
  <2>2. CASE query'[q] = query[q]
    BY <2>1, <2>2 DEF QueryFate, Target, Shows, surfaceState
  <2>3. CASE query'[q].at \in Final
    BY <2>3 DEF QueryFate, Final
  <2>4. CASE Asks(q)
    <3>1. /\ query'[q].at = "listed" /\ query'[q].commit = 0 /\ ~query'[q].retired
          /\ query[q].commit = 0 /\ query'[q].surface = query[q].surface
      BY <2>1, <2>4 DEF Asks, Placed, QueryFate
    <3>2. \A id \in Ids : ~Shows(id, Target(q))
      BY <3>1, LayersAreCommits
    <3> QED BY <3>1, <3>2 DEF QueryFate, Shows, Target
  <2>5. CASE /\ query[q].at = "ledger" /\ query[q].scene \in GoneIds
             /\ ~query[q].retired /\ query[q].surface \in alive
             /\ query'[q] = Placed(query[q], "listed", 0)
    <3>1. /\ query'[q].at = "listed" /\ query'[q].commit = query[q].commit /\ ~query'[q].retired
          /\ query'[q].bound = query[q].bound /\ query'[q].surface = query[q].surface
      BY <2>1, <2>5 DEF Placed
    <3>2. query[q].bound
      BY <2>5 DEF Evidence, QueriesFollowContent, BoundToContent
    <3>3. \A id \in Ids : Shows(id, Target(q)) => id \in GoneIds'
      BY <2>1, <2>5 DEF QueryFate
    <3> QED BY <3>1, <3>2, <3>3 DEF QueryFate, Shows, Target
  <2>6. \A outcome : query'[q] = Ended(query[q], outcome) => query'[q].at = outcome
    BY DEF Ended
  <2>7. \/ query'[q] = query[q] \/ Asks(q)
        \/ \E outcome \in Final : query'[q] = Ended(query[q], outcome)
        \/ /\ query[q].at = "ledger" /\ query[q].scene \in GoneIds
           /\ ~query[q].retired /\ query[q].surface \in alive
           /\ query'[q] = Placed(query[q], "listed", 0)
    BY DEF Ends, Final
  <2> QED BY <2>2, <2>3, <2>4, <2>5, <2>6, <2>7
<1> QED BY <1>1, <1>2 DEF QueriesFate

-----------------------------------------------------------------------------
(* What the guest writes.                                                  *)

\* No scene, and acknowledgements only of the scenes in over.
Harmless(more, over) ==
  /\ more \in Seq(SceneEvents)
  /\ \A k \in DOMAIN more :
       more[k].type # "scene" /\ (more[k].type = "ack" => more[k].id \in over)

LEMMA HarmlessConcat ==
  ASSUME NEW over, NEW a, NEW b, Harmless(a, over), Harmless(b, over)
  PROVE  Harmless(a \o b, over)
<1>1. a \in Seq(SceneEvents) /\ b \in Seq(SceneEvents) /\ a \o b \in Seq(SceneEvents)
  BY DEF Harmless
<1>2. ASSUME NEW k \in DOMAIN (a \o b)
      PROVE  (a \o b)[k].type # "scene" /\ ((a \o b)[k].type = "ack" => (a \o b)[k].id \in over)
  <2>1. CASE k \in DOMAIN a /\ (a \o b)[k] = a[k]
    BY <2>1 DEF Harmless
  <2>2. CASE k - Len(a) \in DOMAIN b /\ (a \o b)[k] = b[k - Len(a)]
    BY <2>2 DEF Harmless
  <2> QED BY <1>1, <2>1, <2>2, Appended
<1> QED BY <1>1, <1>2 DEF Harmless

LEMMA HarmlessOne ==
  ASSUME NEW over, NEW m \in SceneEvents, m.type # "scene", m.type = "ack" => m.id \in over
  PROVE  Harmless(<<m>>, over)
BY DEF Harmless

LEMMA HarmlessNone == ASSUME NEW over PROVE Harmless(<<>>, over)
BY DEF Harmless

LEMMA HarmlessAcks ==
  ASSUME NEW over, NEW ids \in SUBSET Ids, ids \subseteq over
  PROVE  Harmless(Acks(ids), over)
<1>1. Acks(ids) \in Seq(SceneEvents)
  BY AcksAreEvents
<1>2. \A k \in DOMAIN Acks(ids) : Acks(ids)[k].type = "ack" /\ Acks(ids)[k].id \in ids
  BY AcksCarryAcks
<1> QED BY <1>1, <1>2 DEF Harmless

LEMMA HarmlessReply ==
  ASSUME NEW over, NEW type \in {"reached", "drained", "resumed"}, NEW t \in Nat
  PROVE  Harmless(<<[type |-> type, token |-> t]>>, over)
<1> DEFINE m == [type |-> type, token |-> t]
<1>1. m \in SceneEvents /\ m.type \notin {"scene", "ack"}
  BY DEF SceneEvents
<1> HIDE DEF m
<1>2. Harmless(<<m>>, over)
  BY <1>1, HarmlessOne
<1> QED BY <1>2 DEF m

LEMMA HarmlessClock ==
  ASSUME NEW over, NEW e \in Nat
  PROVE  Harmless(<<[type |-> "clock", epoch |-> e]>>, over)
<1> DEFINE m == [type |-> "clock", epoch |-> e]
<1>1. m \in SceneEvents /\ m.type \notin {"scene", "ack"}
  BY DEF SceneEvents
<1> HIDE DEF m
<1>2. Harmless(<<m>>, over)
  BY <1>1, HarmlessOne
<1> QED BY <1>2 DEF m

LEMMA HarmlessReplies ==
  ASSUME Evidence, NEW over
  PROVE  /\ \A left : Harmless(DrainReply(left), over)
         /\ Harmless(ClockRequest, over) /\ Harmless(ResumedReply, over)
<1>1. epoch \in Nat /\ pause.drainToken \in Nat /\ pause.resumeToken \in Nat
  BY LanesAreTyped DEF PauseRecord
<1>2. Harmless(<<[type |-> "drained", token |-> pause.drainToken]>>, over)
  BY <1>1, HarmlessReply
<1>3. Harmless(<<[type |-> "resumed", token |-> pause.resumeToken]>>, over)
  BY <1>1, HarmlessReply
<1>4. Harmless(<<[type |-> "clock", epoch |-> epoch]>>, over)
  BY <1>1, HarmlessClock
<1> QED BY <1>2, <1>3, <1>4, HarmlessNone DEF DrainReply, ClockRequest, ResumedReply

\* A step of the guest that sends no scene.
LEMMA GuestWrites ==
  ASSUME Evidence, ResultFate, UNCHANGED <<journal, displayed, packet>>,
         NEW more, Harmless(more, OverIds'), display' = Written(display, more),
         feedback' = feedback \/ (feedback # <<>> /\ feedback' = Tail(feedback)),
         \A id \in Ids : ledger'[id] \in {"open", "shown"} => InLedger(id)
  PROVE  ResultFate' /\ GoneIds \subseteq GoneIds'
<1>1. /\ display \in Seq(SceneEvents) /\ more \in Seq(SceneEvents) /\ feedback \in Seq(ResultCommands)
      /\ \A k \in DOMAIN more : more[k].type # "scene"
  BY LanesAreTyped DEF Harmless
<1>2. \A type, id : Carries(display', type, id) => Carries(display, type, id) \/ Carries(more, type, id)
  BY <1>1, CarriesAppended DEF Written
<1>3. \A id : ~Carries(more, "scene", id)
  BY <1>1 DEF Carries
<1>4. \A id \in Ids : Carries(more, "ack", id) => id \in OverIds'
  BY DEF Harmless, Carries
<1>5. Once(display')
  BY <1>1, OnceAppended DEF ResultFate, ScenesOnce, Written
<1>6. \A type, id : Carries(feedback', type, id) => Carries(feedback, type, id)
  BY <1>1, TailOfLane
<1>7. GoneIds \subseteq GoneIds'
  BY <1>2, <1>3 DEF GoneIds, OnItsWay, Sampling
<1>8. ScenesOnce' /\ UnshownRecords'
  BY <1>2, <1>3, <1>5 DEF ResultFate, ScenesOnce, UnshownRecords, OnItsWay
<1>9. ZerosAreTrue'
  BY <1>6, <1>7 DEF ResultFate, ZerosAreTrue
<1>10. OverIds \subseteq OverIds'
  BY DEF OverIds, Sampling, InLedger
<1>11. AcksSettle'
  BY <1>2, <1>4, <1>10 DEF ResultFate, AcksSettle
<1>12. RecordsSample'
  BY DEF ResultFate, RecordsSample, Sampling, InLedger
<1> QED BY <1>7, <1>8, <1>9, <1>11, <1>12 DEF ResultFate

-----------------------------------------------------------------------------
(* The compositor's handlers that leave surfaces alone.                    *)

LEMMA EndingKeepsFate ==
  ASSUME Evidence, Fate, UNCHANGED <<surfaceState, packet, hostVars, displayed>>,
         query' = [q \in Queries |-> query'[q]], \A q \in Queries : Ends(q),
         NEW more, Harmless(more, OverIds'), display' = Written(display, more),
         feedback' = feedback \/ (feedback # <<>> /\ feedback' = Tail(feedback)),
         \A id \in Ids : ledger'[id] \in {"open", "shown"} => InLedger(id)
  PROVE  Fate' /\ Concluding
<1>1. journal' = journal
  BY DEF hostVars
<1>2. ResultFate' /\ GoneIds \subseteq GoneIds'
  BY <1>1, GuestWrites DEF Fate
<1>3. SampleFate' /\ QueriesFate'
  BY <1>2, QueriesMove
<1>4. \A q \in Queries : Told(q)
  BY EndsAreTrue
<1> QED BY <1>2, <1>3, <1>4 DEF Fate, Concluding

\* Nothing leaves the ledger and no query moves.
LEMMA QuietStepKeepsFate ==
  ASSUME Evidence, Fate, UNCHANGED <<surfaceState, packet, hostVars, displayed, query, ledger>>,
         NEW more, Harmless(more, OverIds'), display' = Written(display, more),
         feedback' = feedback \/ (feedback # <<>> /\ feedback' = Tail(feedback))
  PROVE  Fate' /\ Concluding
<1>1. query' = [q \in Queries |-> query'[q]] /\ \A q \in Queries : Ends(q)
  BY LanesAreTyped DEF Ends
<1>2. \A id \in Ids : ledger'[id] \in {"open", "shown"} => InLedger(id)
  BY DEF InLedger
<1> QED BY <1>1, <1>2, EndingKeepsFate

LEMMA NothingWritten ==
  ASSUME Evidence, display' = display
  PROVE  display' = Written(display, <<>>)
BY LanesAreTyped DEF Written

LEMMA RequestFeedbackKeepsFate ==
  ASSUME Evidence, Fate, NEW p \in Queries, InGuest(RequestFeedback(p))
  PROVE  Fate'
<1>1. /\ query' = [query EXCEPT ![p] = Placed(query[p], "listed", 0)] /\ query[p].at = "unused"
      /\ UNCHANGED <<surfaceState, packet, hostVars, displayed, ledger, feedback>>
      /\ display' = display \/ display' = Written(display, ClockRequest)
  BY DEF InGuest, RequestFeedback, surfaceVars, surfaceState
<1>2. \A q \in Queries : Ends(q) \/ Asks(q)
  BY <1>1, LanesAreTyped DEF Ends, Asks
<1>3. PICK more : Harmless(more, OverIds') /\ display' = Written(display, more)
  BY <1>1, NothingWritten, HarmlessNone, HarmlessReplies
<1>4. journal' = journal /\ \A id \in Ids : ledger'[id] \in {"open", "shown"} => InLedger(id)
  BY <1>1 DEF hostVars, InLedger
<1>5. ResultFate' /\ GoneIds \subseteq GoneIds'
  BY <1>1, <1>3, <1>4, GuestWrites DEF Fate
<1> QED BY <1>1, <1>2, <1>5, QueriesMove DEF Fate

\* Records that end are over when their acknowledgement is written.
LEMMA EndedIsOver ==
  ASSUME Fate, NEW ids \in SUBSET Outstanding, UNCHANGED packet,
         \A id \in ids : ledger'[id] \notin {"open", "shown"}
  PROVE  ids \subseteq OverIds'
BY DEF Fate, ResultFate, RecordsSample, Outstanding, OverIds, Sampling, InLedger

LEMMA AcknowledgeIsHarmless ==
  ASSUME Evidence, Fate, NEW ids \in SUBSET Outstanding, UNCHANGED packet, Acknowledge(ids)
  PROVE  /\ Harmless(Acks(ids) \o DrainReply(Outstanding \ ids), OverIds')
         /\ display' = Written(display, Acks(ids) \o DrainReply(Outstanding \ ids))
         /\ \A id \in Ids : ledger'[id] \in {"open", "shown"} => InLedger(id)
<1>1. ids \in SUBSET Ids
  BY DEF Outstanding
<1>2. ledger' = Without(ids)
  BY DEF Acknowledge
<1>3. \A id \in Ids : ledger'[id] = IF id \in ids THEN "none" ELSE ledger[id]
  BY <1>2 DEF Without
<1>4. ids \subseteq OverIds'
  BY <1>1, <1>3, EndedIsOver
<1>5. Harmless(Acks(ids), OverIds')
  BY <1>1, <1>4, HarmlessAcks
<1>6. Harmless(DrainReply(Outstanding \ ids), OverIds')
  BY HarmlessReplies
<1>7. Harmless(Acks(ids) \o DrainReply(Outstanding \ ids), OverIds')
  BY <1>5, <1>6, HarmlessConcat
<1> QED BY <1>3, <1>7 DEF Acknowledge, InLedger

LEMMA ReportedEnds ==
  ASSUME Evidence, NEW done \in SUBSET displayed, NEW over, query' = Reported(done, over)
  PROVE  query' = [q \in Queries |-> query'[q]] /\ \A q \in Queries : Ends(q)
<1>1. ASSUME NEW q \in Queries
      PROVE  Ends(q)
  <2>1. query'[q] = IF query[q].at # "ledger" \/ query[q].scene \notin done THEN query[q]
                    ELSE Ended(query[q], IF query[q].scene \in over THEN "failed"
                                                                     ELSE "presented")
    BY DEF Reported
  <2> QED BY <2>1 DEF Ends
<1> QED BY <1>1 DEF Reported

LEMMA FlushShownKeepsFate ==
  ASSUME Evidence, Fate, NEW ids \in SUBSET displayed, ids \subseteq Outstanding,
         NEW limited, FlushShown(ids, limited),
         UNCHANGED <<surfaceState, packet, hostVars, displayed>>,
         feedback' = feedback \/ (feedback # <<>> /\ feedback' = Tail(feedback))
  PROVE  Fate' /\ Concluding
<1>1. PICK done \in Presentable(ids) :
        /\ \E over \in SUBSET (done \cap limited) : query' = Reported(done, over)
        /\ Acknowledge(done)
  BY DEF FlushShown
<1>2. done \in SUBSET displayed /\ done \in SUBSET Outstanding
  BY <1>1 DEF Presentable
<1>3. query' = [q \in Queries |-> query'[q]] /\ \A q \in Queries : Ends(q)
  BY <1>1, <1>2, ReportedEnds
<1>4. /\ Harmless(Acks(done) \o DrainReply(Outstanding \ done), OverIds')
      /\ display' = Written(display, Acks(done) \o DrainReply(Outstanding \ done))
      /\ \A id \in Ids : ledger'[id] \in {"open", "shown"} => InLedger(id)
  BY <1>1, <1>2, AcknowledgeIsHarmless
<1> QED BY <1>3, <1>4, EndingKeepsFate

LEMMA WaitingIsDisplayed ==
  ASSUME Evidence
  PROVE  Waiting \in SUBSET displayed /\ Waiting \subseteq Outstanding /\ Waiting \subseteq Ids
BY DEF Waiting, Outstanding, InLedger, Evidence, LedgerHoldsEvidence

LEMMA ReceiveResultKeepsFate ==
  ASSUME Evidence, Fate, InGuest(ReceiveResult)
  PROVE  Fate' /\ Concluding
<1> DEFINE id == Head(feedback).id
<1>1. /\ UNCHANGED <<surfaceState, packet, hostVars, displayed>>
      /\ feedback # <<>> /\ feedback' = Tail(feedback)
      /\ Heard(feedback, "zero") \/ Heard(feedback, "shown")
  BY DEF InGuest, ReceiveResult, surfaceVars, surfaceState, Heard
<1>2. /\ Head(feedback) \in ResultCommands
      /\ Head(feedback).type \in {"zero", "shown"}
      /\ Carries(feedback, Head(feedback).type, id)
  BY <1>1, LanesAreTyped, HeardIsMember, TailOfLane
<1>3. /\ id \in Ids /\ Head(feedback).type = "shown" => id \in displayed
      /\ id \in Ids /\ Head(feedback).type = "zero" => id \in GoneIds
      /\ id \in Ids
  BY <1>2 DEF ResultCommands, Evidence, HostHoldsEvidence, Fate, ResultFate, ZerosAreTrue
<1>4. Sampling(id)
  BY <1>2, <1>3 DEF Evidence, HostHoldsEvidence, GoneIds
<1> HIDE DEF id
<1>5. CASE ~InLedger(id)
  <2>1. UNCHANGED <<query, ledger>> /\ display' = Written(display, <<[type |-> "ack", id |-> id]>>)
    BY <1>5 DEF InGuest, ReceiveResult, RepeatAck, id
  <2>2. [type |-> "ack", id |-> id] \in SceneEvents
    BY <1>3 DEF SceneEvents
  <2>3. id \in OverIds'
    BY <1>1, <1>3, <1>4, <1>5, <2>1 DEF OverIds, Sampling, InLedger
  <2>4. Harmless(<<[type |-> "ack", id |-> id]>>, OverIds')
    <3> DEFINE m == [type |-> "ack", id |-> id]
    <3>1. m \in SceneEvents /\ m.type = "ack" /\ m.id = id
      BY <2>2
    <3> HIDE DEF m
    <3>2. Harmless(<<m>>, OverIds')
      BY <2>3, <3>1, HarmlessOne
    <3> QED BY <3>2 DEF m
  <2> QED BY <1>1, <2>1, <2>4, QuietStepKeepsFate
<1>6. CASE InLedger(id) /\ ledger[id] = "open" /\ Head(feedback).type = "zero"
  <2>1. query' = Deferred(id) /\ Acknowledge({id})
    BY <1>6 DEF InGuest, ReceiveResult, id
  <2>2. query' = [q \in Queries |-> query'[q]] /\ \A q \in Queries : Ends(q)
    <3>1. id \in GoneIds
      BY <1>3, <1>6
    <3>2. ASSUME NEW q \in Queries PROVE Ends(q)
      BY <2>1, <3>1 DEF Deferred, Ends, Feedbacks
    <3> QED BY <2>1, <3>2 DEF Deferred
  <2>3. {id} \in SUBSET Outstanding
    BY <1>3, <1>6 DEF Outstanding
  <2> QED BY <1>1, <2>1, <2>2, <2>3, AcknowledgeIsHarmless, EndingKeepsFate
<1>7. CASE InLedger(id) /\ ~(ledger[id] = "open" /\ Head(feedback).type = "zero")
  <2>1. id \in displayed /\ id \in Outstanding
    BY <1>2, <1>3, <1>7 DEF InLedger, Evidence, LedgerHoldsEvidence, Outstanding
  <2>2. \/ ledger' = [ledger EXCEPT ![id] = "shown"] /\ UNCHANGED <<query, display>>
        \/ FlushShown({id}, ceiling)
    BY <1>2, <1>7 DEF InGuest, ReceiveResult, id
  <2>3. CASE ledger' = [ledger EXCEPT ![id] = "shown"] /\ UNCHANGED <<query, display>>
    <3>1. query' = [q \in Queries |-> query'[q]] /\ \A q \in Queries : Ends(q)
      BY <2>3, LanesAreTyped DEF Ends
    <3>2. \A i \in Ids : ledger'[i] \in {"open", "shown"} => InLedger(i)
      BY <1>7, <2>3, LanesAreTyped DEF InLedger
    <3> QED BY <1>1, <2>3, <3>1, <3>2, NothingWritten, HarmlessNone, EndingKeepsFate
  <2>4. CASE FlushShown({id}, ceiling)
    BY <1>1, <2>1, <2>4, FlushShownKeepsFate
  <2> QED BY <2>2, <2>3, <2>4
<1> QED BY <1>5, <1>6, <1>7

LEMMA TickKeepsFate ==
  ASSUME Evidence, Fate, NEW expired \in SUBSET Outstanding, NEW late \in BOOLEAN,
         NEW ask \in BOOLEAN, InGuest(Tick(expired, late, ask))
  PROVE  Fate' /\ Concluding
<1>1. UNCHANGED <<surfaceState, packet, hostVars, displayed, feedback>>
  BY DEF InGuest, Tick, surfaceVars, surfaceState
<1>2. PICK done \in Presentable(Waiting \ expired) :
        /\ \E over \in SUBSET (done \cap ceiling) :
             query' = [q \in Queries |-> IF q \in UNION {Feedbacks(id) : id \in expired}
                                         THEN Ended(query[q], "failed")
                                         ELSE Reported(done, over)[q]]
        /\ ledger' = Expired(done, expired)
        /\ LET left == Outstanding \ (done \cup expired)
           IN  display' = Written(display, Acks(done) \o DrainReply(left)
                                             \o IF ask THEN ClockRequest ELSE <<>>)
  BY DEF InGuest, Tick
<1>3. done \in SUBSET Ids /\ done \in SUBSET displayed /\ done \in SUBSET Outstanding
  BY <1>2, WaitingIsDisplayed DEF Presentable
<1>4. query' = [q \in Queries |-> query'[q]] /\ \A q \in Queries : Ends(q)
  <2>1. PICK over \in SUBSET (done \cap ceiling) :
          query' = [q \in Queries |-> IF q \in UNION {Feedbacks(id) : id \in expired}
                                      THEN Ended(query[q], "failed")
                                      ELSE Reported(done, over)[q]]
    BY <1>2
  <2>2. ASSUME NEW q \in Queries PROVE Ends(q)
    <3>1. \/ q \in UNION {Feedbacks(id) : id \in expired} /\ query'[q] = Ended(query[q], "failed")
          \/ query'[q] = Reported(done, over)[q]
      BY <2>1
    <3>2. Reported(done, over)[q] =
            IF query[q].at # "ledger" \/ query[q].scene \notin done THEN query[q]
            ELSE Ended(query[q], IF query[q].scene \in over THEN "failed" ELSE "presented")
      BY DEF Reported
    <3>3. q \in UNION {Feedbacks(id) : id \in expired} => query[q].at = "ledger"
      BY DEF Feedbacks
    <3> QED BY <1>3, <3>1, <3>2, <3>3 DEF Ends
  <2> QED BY <2>1, <2>2
<1>5. /\ \A id \in Ids : ledger'[id] \in {"open", "shown"} => InLedger(id)
      /\ \A id \in done : ledger'[id] \notin {"open", "shown"}
  BY <1>2, <1>3 DEF Expired, InLedger
<1> DEFINE left == Outstanding \ (done \cup expired)
           asked == IF ask THEN ClockRequest ELSE <<>>
<1>6. Harmless(Acks(done) \o DrainReply(left) \o asked, OverIds')
  <2> HIDE DEF left
  <2>1. Harmless(Acks(done), OverIds')
    BY <1>1, <1>3, <1>5, EndedIsOver, HarmlessAcks
  <2>2. Harmless(DrainReply(left), OverIds') /\ Harmless(asked, OverIds')
    BY HarmlessReplies, HarmlessNone
  <2> HIDE DEF asked
  <2>3. Harmless(Acks(done) \o DrainReply(left), OverIds')
    BY <2>1, <2>2, HarmlessConcat
  <2> QED BY <2>2, <2>3, HarmlessConcat
<1>7. display' = Written(display, Acks(done) \o DrainReply(left) \o asked)
  BY <1>2
<1> HIDE DEF left, asked
<1> QED BY <1>1, <1>4, <1>5, <1>6, <1>7, EndingKeepsFate

LEMMA SampleKeepsFate ==
  ASSUME Evidence, Fate, InGuest(SampleRejected \/ SampleFaults)
  PROVE  Fate' /\ Concluding
<1>1. feedback # <<>> /\ feedback' = Tail(feedback)
  BY DEF InGuest, SampleRejected, SampleFaults, SampleArrives, Heard
<1>2. CASE InGuest(SampleRejected)
  BY <1>1, <1>2, NothingWritten, HarmlessNone, QuietStepKeepsFate
     DEF InGuest, SampleRejected, ledgerVars, surfaceVars, surfaceState
<1>3. CASE InGuest(SampleFaults)
  BY <1>1, <1>3, WaitingIsDisplayed, FlushShownKeepsFate
     DEF InGuest, SampleFaults, ClockFault, surfaceVars, surfaceState
<1> QED BY <1>2, <1>3 DEF InGuest

LEMMA SampleAcceptedKeepsFate ==
  ASSUME Evidence, Fate, InGuest(SampleAccepted)
  PROVE  Fate' /\ Concluding
<1>1. /\ UNCHANGED <<surfaceState, packet, hostVars, displayed>>
      /\ feedback # <<>> /\ feedback' = Tail(feedback)
  BY DEF InGuest, SampleAccepted, SampleArrives, Heard, surfaceVars, surfaceState
<1>2. PICK done \in SUBSET Waiting :
        /\ \E over : query' = Reported(done, over)
        /\ ledger' = Without(done)
        /\ LET left == Outstanding \ done
           IN  display' = Written(display, ResumedReply \o Acks(done) \o DrainReply(left))
  BY DEF InGuest, SampleAccepted
<1>3. done \in SUBSET Ids /\ done \in SUBSET displayed /\ done \in SUBSET Outstanding
  BY WaitingIsDisplayed
<1>4. query' = [q \in Queries |-> query'[q]] /\ \A q \in Queries : Ends(q)
  BY <1>2, <1>3, ReportedEnds
<1>5. /\ \A id \in Ids : ledger'[id] \in {"open", "shown"} => InLedger(id)
      /\ \A id \in done : ledger'[id] \notin {"open", "shown"}
  BY <1>2, <1>3 DEF Without, InLedger
<1> DEFINE left == Outstanding \ done
<1>6. Harmless(ResumedReply \o Acks(done) \o DrainReply(left), OverIds')
  <2> HIDE DEF left
  <2>1. Harmless(Acks(done), OverIds')
    BY <1>1, <1>3, <1>5, EndedIsOver, HarmlessAcks
  <2>2. Harmless(DrainReply(left), OverIds') /\ Harmless(ResumedReply, OverIds')
    BY HarmlessReplies
  <2>3. Harmless(ResumedReply \o Acks(done), OverIds')
    BY <2>1, <2>2, HarmlessConcat
  <2> QED BY <2>2, <2>3, HarmlessConcat
<1>7. display' = Written(display, ResumedReply \o Acks(done) \o DrainReply(left))
  BY <1>2
<1> HIDE DEF left
<1> QED BY <1>1, <1>4, <1>5, <1>6, <1>7, EndingKeepsFate

LEMMA SceneSampleKeepsFate ==
  ASSUME Evidence, Fate, NEW id \in Ids, InGuest(SceneSample(id))
  PROVE  Fate' /\ Concluding
<1>1. /\ UNCHANGED <<surfaceState, packet, hostVars, displayed, feedback>>
      /\ FlushShown(Waiting, Outstanding) \/ (ledger[id] = "shown" /\ FlushShown({id}, ceiling))
  BY DEF InGuest, SceneSample, ClockFault, surfaceVars, surfaceState
<1>2. ledger[id] = "shown" => {id} \subseteq Waiting
  BY DEF Waiting
<1> QED BY <1>1, <1>2, WaitingIsDisplayed, FlushShownKeepsFate

-----------------------------------------------------------------------------
(* The barrier.                                                            *)

LEMMA ReceivePauseKeepsFate ==
  ASSUME Evidence, Fate, InGuest(ReceivePause)
  PROVE  Fate' /\ Concluding
<1> DEFINE asked == Head(control).token
<1>1. /\ UNCHANGED <<surfaceState, packet, query, ledger, hostVars, displayed, feedback>>
      /\ Heard(control, "pause")
      /\ display' = display \/ display' = Written(display, <<[type |-> "reached", token |-> asked]>>)
  BY DEF InGuest, ReceivePause, Reply, ledgerVars, surfaceVars, surfaceState
<1>2. asked \in Nat
  BY <1>1, BarrierCommandIsTyped
<1> HIDE DEF asked
<1>3. Harmless(<<[type |-> "reached", token |-> asked]>>, OverIds')
  BY <1>2, HarmlessReply
<1> QED BY <1>1, <1>3, NothingWritten, HarmlessNone, QuietStepKeepsFate

LEMMA ReceiveDrainKeepsFate ==
  ASSUME Evidence, Fate, InGuest(ReceiveDrain)
  PROVE  Fate' /\ Concluding
<1> DEFINE asked == Head(feedback).token
<1>1. /\ UNCHANGED <<surfaceState, packet, query, ledger, hostVars, displayed>>
      /\ Heard(feedback, "drain") /\ feedback # <<>> /\ feedback' = Tail(feedback)
      /\ display' = display \/ display' = Written(display, <<[type |-> "drained", token |-> asked]>>)
  BY DEF InGuest, ReceiveDrain, Reply, Heard, ledgerVars, surfaceVars, surfaceState
<1>2. Head(feedback) \in ResultCommands /\ Head(feedback).type = "drain"
  BY <1>1, LanesAreTyped, HeardIsMember
<1>3. asked \in Nat
  BY <1>2 DEF ResultCommands
<1> HIDE DEF asked
<1>4. Harmless(<<[type |-> "drained", token |-> asked]>>, OverIds')
  BY <1>3, HarmlessReply
<1> QED BY <1>1, <1>4, NothingWritten, HarmlessNone, QuietStepKeepsFate

LEMMA ReceiveResumeKeepsFate ==
  ASSUME Evidence, Fate, InGuest(ReceiveResume)
  PROVE  Fate' /\ Concluding
<1> DEFINE asked == Head(control).token
<1>1. /\ UNCHANGED <<surfaceState, packet, query, ledger, hostVars, displayed, feedback>>
      /\ Heard(control, "resume")
      /\ \/ display' = display
         \/ display' = Written(display, <<[type |-> "resumed", token |-> asked]>>)
         \/ display' = Written(display, <<[type |-> "clock", epoch |-> epoch + 1]>>)
  BY DEF InGuest, ReceiveResume, Reply, ledgerVars, surfaceVars, surfaceState
<1>2. asked \in Nat /\ epoch + 1 \in Nat
  BY <1>1, LanesAreTyped, BarrierCommandIsTyped
<1> HIDE DEF asked
<1>3. /\ Harmless(<<[type |-> "resumed", token |-> asked]>>, OverIds')
      /\ Harmless(<<[type |-> "clock", epoch |-> epoch + 1]>>, OverIds')
  BY <1>2, HarmlessReply, HarmlessClock
<1> QED BY <1>1, <1>3, NothingWritten, HarmlessNone, QuietStepKeepsFate

LEMMA GuestDetachKeepsFate ==
  ASSUME Evidence, Fate, InGuest(GuestDetach)
  PROVE  Fate' /\ Concluding
BY NothingWritten, HarmlessNone, QuietStepKeepsFate
   DEF InGuest, GuestDetach, ledgerVars, surfaceVars, surfaceState

-----------------------------------------------------------------------------
(* Commits and what surfaces show.                                         *)

LEMMA SurfaceStepKeepsResults ==
  ASSUME ResultFate, UNCHANGED <<display, feedback, journal, displayed, ledger, packet>>
  PROVE  ResultFate' /\ GoneIds' = GoneIds
<1>1. GoneIds' = GoneIds
  BY DEF GoneIds, OnItsWay, Sampling
<1>2. OverIds' = OverIds
  BY DEF OverIds, Sampling, InLedger
<1> QED BY <1>1, <1>2
        DEF ResultFate, ScenesOnce, UnshownRecords, ZerosAreTrue, AcksSettle, RecordsSample,
            OnItsWay, Sampling, InLedger

\* A scene to come has a later id than every scene that was sent.
LEMMA SamplesStayOld ==
  ASSUME Evidence, Fate, UNCHANGED packet, nextId' \in Nat, nextId' >= nextId,
         \A s \in Surfaces : dirty'[s] # 0 /\ dirty'[s] # dirty[s] => dirty'[s] >= nextId,
         \A s \in Surfaces : dirty'[s] \in Nat,
         \A u \in Pending' : u \in Pending \/ u.id = nextId
  PROVE  SampleFate'
<1>1. nextId \in Nat /\ Ids \subseteq Nat /\ RootOf \in [Surfaces -> Surfaces]
  BY LaneAssumption DEF Evidence, GuestShape, Ids
<1>2. ASSUME NEW id \in Ids, NEW layer \in packet[id].layers
      PROVE  OldLayer(id, layer)'
  <2>1. layer \in Surfaces \X Ids /\ OldLayer(id, layer)
    BY LayersAreCommits DEF Fate, SampleFate
  <2>2. id < nextId
    BY <1>1 DEF Evidence, SceneIdsAreFresh, Sampling
  <2>3. RootOf[layer[1]] \in Surfaces /\ layer[2] \in Nat
    BY <1>1, <2>1
  <2> QED BY <1>1, <2>1, <2>2, <2>3 DEF OldLayer
<1>3. ASSUME NEW u \in Pending', NEW id \in Ids PROVE ~Shows(id, <<u.surface, u.id>>)
  <2>1. CASE u \in Pending
    BY <2>1 DEF Fate, SampleFate
  <2>2. CASE u.id = nextId
    BY <1>1, <2>2 DEF Fate, SampleFate, OldLayer, Shows
  <2> QED BY <2>1, <2>2
<1> QED BY <1>2, <1>3 DEF SampleFate, Shows

LEMMA CommitKeepsFate ==
  ASSUME Evidence, Fate, NEW s \in Surfaces, NEW kind \in Kinds, InGuest(Commit(s, kind))
  PROVE  Fate'
<1>1. /\ nextId' = nextId + 1 /\ UNCHANGED <<alive, content, dirty, ledger, packet, display, feedback,
                                             hostVars, displayed>>
      /\ query' = [q \in Queries |->
                     IF q \in Listed(s) /\ query[q].commit = 0
                     THEN Committed(query[q], nextId) ELSE query[q]]
  BY DEF InGuest, Commit, laneVars
<1>2. /\ nextId \in Nat /\ nextId # 0 /\ nextId' \in Nat /\ nextId' >= nextId
      /\ dirty \in [Surfaces -> Nat]
  BY <1>1, LaneAssumption DEF Evidence, GuestShape
<1>3. ResultFate' /\ GoneIds' = GoneIds
  BY <1>1, SurfaceStepKeepsResults DEF Fate, hostVars
<1>4. \A u \in Pending' : u \in Pending \/ u.id = nextId
  BY CommitKeepsPending
<1>5. SampleFate'
  BY <1>1, <1>2, <1>4, SamplesStayOld
<1>6. ASSUME NEW q \in Queries PROVE QueryFate(q)'
  <2>1. query[q] \in QueryRecord /\ QueryFate(q)
    BY LanesAreTyped DEF Fate, QueriesFate
  <2>2. CASE ~(q \in Listed(s) /\ query[q].commit = 0)
    BY <1>1, <1>3, <2>1, <2>2 DEF QueryFate, Target, Shows
  <2>3. CASE q \in Listed(s) /\ query[q].commit = 0
    <3>1. query'[q] = Committed(query[q], nextId)
      BY <1>1, <2>3
    <3>2. /\ query'[q].at = "listed" /\ query'[q].commit = nextId /\ ~query'[q].retired
          /\ query'[q].surface = query[q].surface /\ query[q].surface \in Surfaces
      BY <2>1, <2>3, <3>1 DEF Committed, Listed, QueryFate, QueryRecord
    <3>3. \A id \in Ids : ~Shows(id, <<query[q].surface, nextId>>)
      BY <1>2 DEF Fate, SampleFate, OldLayer, Shows
    <3>4. content[query[q].surface] # nextId
      BY <1>2, <3>2 DEF Evidence, PendingIsNew, GuestShape
    <3> QED BY <1>1, <3>2, <3>3, <3>4 DEF QueryFate, Target, Shows
  <2> QED BY <2>2, <2>3
<1> QED BY <1>3, <1>5, <1>6 DEF Fate, QueriesFate

LEMMA UnmovedQueries ==
  ASSUME Fate, UNCHANGED <<query, content, packet>>, GoneIds' = GoneIds
  PROVE  QueriesFate'
BY DEF Fate, QueriesFate, QueryFate, Target, Shows

LEMMA StillConcluding ==
  ASSUME Evidence, UNCHANGED <<query, packet, displayed>>
  PROVE  Concluding
BY LanesAreTyped DEF Concluding, Told

LEMMA ApplyUnblockedKeepsFate ==
  ASSUME Evidence, Fate, NEW root \in Roots, InGuest(ApplyUnblocked(root))
  PROVE  Fate' /\ Concluding
<1>1. UNCHANGED <<content, cached, dirty, nextId, query, ledger, packet, display, feedback, hostVars,
                  displayed>>
  BY DEF InGuest, ApplyUnblocked, ledgerVars, laneVars
<1>2. PICK group \in blocked[root] :
        applying' = group /\ blocked' = [blocked EXCEPT ![root] = @ \ {group}]
  BY DEF InGuest, ApplyUnblocked
<1>3. /\ blocked \in [Surfaces -> SUBSET SUBSET UpdateRecord] /\ root \in Surfaces
      /\ nextId \in Nat /\ dirty \in [Surfaces -> Nat]
  BY BatchesAreFinite, LaneAssumption DEF Evidence, PendingIsNew, GuestShape
<1>4. Pending' \subseteq Pending
  <2>1. applying' \subseteq Pending /\ \A s \in Surfaces : cached'[s] \subseteq Pending
    BY <1>1, <1>2, <1>3, PendingMembers
  <2>2. \A s \in Surfaces : \A g \in blocked'[s] : g \in blocked[s]
    BY <1>2, <1>3
  <2>3. \A s \in Surfaces : \A g \in blocked'[s] : g \subseteq Pending
    BY <2>2, PendingMembers
  <2> QED BY <2>1, <2>3, PendingWithin
<1>5. ResultFate' /\ GoneIds' = GoneIds
  BY <1>1, SurfaceStepKeepsResults DEF Fate, hostVars
<1>6. SampleFate'
  BY <1>1, <1>3, <1>4, SamplesStayOld
<1> QED BY <1>1, <1>5, <1>6, UnmovedQueries, StillConcluding DEF Fate

LEMMA AppliedQueries ==
  ASSUME Evidence, Fate, NEW u \in applying, UNCHANGED <<packet, displayed>>, GoneIds' = GoneIds,
         content' = [content EXCEPT ![u.surface] = IF Publishes(u) THEN u.id ELSE 0],
         query' = [q \in Queries |-> AfterApply(q, u)]
  PROVE  \A q \in Queries : QueryFate(q)' /\ Told(q)
<1> DEFINE s == u.surface
<1>1. u \in Pending /\ s \in Surfaces /\ u.id \in Nat /\ u.id # 0
      /\ content \in [Surfaces -> Nat]
  BY PendingMembers, PendingAreUpdates DEF UpdateRecord, Evidence, GuestShape
<1>2. \A t \in Surfaces : t # s => content'[t] = content[t]
  BY <1>1
<1>3. content'[s] = (IF Publishes(u) THEN u.id ELSE 0)
  BY <1>1
<1>4. \A id \in Ids : ~Shows(id, <<s, u.id>>)
  BY <1>1 DEF Fate, SampleFate
<1>5. \A q \in Queries : query'[q] = AfterApply(q, u)
  OBVIOUS
<1> HIDE DEF s
<1>6. ASSUME NEW q \in Queries PROVE QueryFate(q)' /\ Told(q)
  <2>1. query[q] \in QueryRecord /\ query[q].surface \in Surfaces /\ QueryFate(q)
    BY LanesAreTyped DEF Fate, QueriesFate, QueryRecord
  <2>2. query[q].at = "ledger" => /\ query[q].scene \in Ids
                                  /\ Shows(query[q].scene, Target(q)) /\ query[q].commit # 0
    BY LayersAreCommits DEF Evidence, QueriesFollowContent
  <2>3. ASSUME query[q].at = "listed", query'[q] = Ended(query[q], "discarded")
        PROVE  QueryFate(q)' /\ Told(q)
    <3>1. Told(q)
      BY <2>3, EndsAreTrue DEF Ends
    <3>2. query'[q].at = "discarded"
      BY <2>3 DEF Ended
    <3> QED BY <3>1, <3>2 DEF QueryFate
  <2>4. CASE q \in Replaced(s, u.id)
    BY <1>5, <2>3, <2>4 DEF AfterApply, Replaced, Listed, s
  <2>5. CASE q \notin Replaced(s, u.id) /\ q \in EndsWith(s, u.id)
    <3>1. query[q].at = "listed" /\ query[q].surface = s /\ query[q].commit = u.id
      BY <2>5 DEF EndsWith, Listed
    <3>2. query'[q] = IF Publishes(u) THEN Marked(query[q], TRUE, query[q].retired)
                                      ELSE Ended(query[q], "discarded")
      BY <1>5, <2>5 DEF AfterApply, s
    <3>3. CASE Publishes(u)
      <4>1. /\ query'[q].at = "listed" /\ query'[q].bound /\ query'[q].retired = query[q].retired
            /\ query'[q].surface = query[q].surface /\ query'[q].commit = query[q].commit
        BY <3>1, <3>2, <3>3 DEF Marked
      <4>2. QueryFate(q)'
        BY <2>1, <3>1, <4>1 DEF QueryFate, Target, Shows
      <4> QED BY <3>1, <4>1, <4>2 DEF Told, Progress
    <3>4. CASE ~Publishes(u)
      BY <2>3, <3>1, <3>2, <3>4
    <3> QED BY <3>3, <3>4
  <2>6. CASE /\ q \notin Replaced(s, u.id) /\ q \notin EndsWith(s, u.id)
             /\ q \in Superseded(s, u.id)
    <3>1. query[q].at = "ledger" /\ query[q].surface = s /\ query[q].commit # u.id
      BY <2>6 DEF Superseded, InFlight
    <3>2. query'[q] = Marked(query[q], query[q].bound, TRUE)
      BY <1>5, <2>6 DEF AfterApply, s
    <3>3. /\ query'[q].at = "ledger" /\ query'[q].scene = query[q].scene
          /\ query'[q].surface = query[q].surface /\ query'[q].commit = query[q].commit
      BY <3>1, <3>2 DEF Marked
    <3>4. query[q].commit # content'[s]
      BY <1>3, <2>2, <3>1
    <3>5. QueryFate(q)'
      BY <2>1, <3>1, <3>3, <3>4 DEF QueryFate, Target, Shows
    <3> QED BY <3>1, <3>3, <3>5 DEF Told, Progress
  <2>7. CASE /\ q \notin Replaced(s, u.id) /\ q \notin EndsWith(s, u.id)
             /\ q \notin Superseded(s, u.id)
    <3>1. query'[q] = query[q]
      BY <1>5, <2>7 DEF AfterApply, s
    <3>2. query[q].at = "listed" /\ query[q].surface = s => query[q].commit # u.id
      BY <2>7 DEF EndsWith, Listed
    <3>3. query[q].at = "ledger" => query[q].surface # s
      <4> SUFFICES ASSUME query[q].at = "ledger", query[q].surface = s PROVE FALSE
        OBVIOUS
      <4>1. query[q].commit = u.id
        BY <2>7 DEF Superseded, InFlight
      <4> QED BY <1>4, <2>2, <4>1 DEF Target
    <3>4. query[q].surface # s => content'[query[q].surface] = content[query[q].surface]
      BY <1>2, <2>1
    <3>5. query[q].surface = s /\ query[q].at = "listed" /\ query[q].commit # 0
            => query[q].commit # content'[query[q].surface]
      BY <1>3, <3>2
    <3>6. QueryFate(q)'
      <4>1. query[q].at = "unused" => query[q].commit = 0
        BY <2>1 DEF QueryFate
      <4>2. query[q].at \in {"unused", "listed"} => ~query[q].retired
        BY <2>1 DEF QueryFate
      <4>3. query[q].at = "listed" =>
              /\ \A id \in Ids : Shows(id, Target(q)) => id \in GoneIds
              /\ query[q].commit # 0 /\ query[q].commit = content'[query[q].surface] => query[q].bound
        BY <2>1, <3>4, <3>5 DEF QueryFate
      <4>4. query[q].at = "ledger" =>
              /\ \A id \in Ids : Shows(id, Target(q)) => id <= query[q].scene
                                                         /\ (id = query[q].scene \/ id \in GoneIds)
              /\ query[q].retired => query[q].commit # content'[query[q].surface]
        BY <2>1, <3>3, <3>4 DEF QueryFate
      <4> QED BY <3>1, <4>1, <4>2, <4>3, <4>4 DEF QueryFate, Target, Shows
    <3> QED BY <3>1, <3>6 DEF Told
  <2> QED BY <2>4, <2>5, <2>6, <2>7
<1> QED BY <1>6

LEMMA ApplyUpdateKeepsFate ==
  ASSUME Evidence, Fate, InGuest(ApplyUpdate)
  PROVE  Fate' /\ Concluding
<1>1. UNCHANGED <<alive, cached, blocked, ledger, packet, hostVars, displayed, display, feedback>>
  BY DEF InGuest, ApplyUpdate, laneVars
<1>2. PICK u \in applying :
          /\ applying' = applying \ {u}
          /\ content' = [content EXCEPT ![u.surface] = IF Publishes(u) THEN u.id ELSE 0]
          /\ query' = [q \in Queries |-> AfterApply(q, u)]
          /\ \/ /\ nextId <= MaxId /\ nextId' = nextId + 1
                /\ dirty' = [dirty EXCEPT ![RootOf[u.surface]] = nextId]
             \/ UNCHANGED <<nextId, dirty>>
  BY DEF InGuest, ApplyUpdate
<1>3. nextId \in Nat /\ dirty \in [Surfaces -> Nat]
  BY LaneAssumption DEF Evidence, GuestShape
<1>4. ResultFate' /\ GoneIds' = GoneIds
  BY <1>1, SurfaceStepKeepsResults DEF Fate, hostVars
<1>5. Pending' \subseteq Pending
  <2>1. applying' \subseteq Pending
    BY <1>2, PendingMembers
  <2>2. \A s \in Surfaces : cached'[s] \subseteq Pending
    BY <1>1, PendingMembers
  <2>3. \A s \in Surfaces : \A g \in blocked'[s] : g \subseteq Pending
    BY <1>1, PendingMembers
  <2> QED BY <2>1, <2>2, <2>3, PendingWithin
<1>6. SampleFate'
  <2>1. nextId' \in Nat /\ nextId' >= nextId
    BY <1>2, <1>3
  <2>2. \A s \in Surfaces : dirty'[s] \in Nat /\ (dirty'[s] # dirty[s] => dirty'[s] >= nextId)
    BY <1>2, <1>3
  <2> QED BY <1>1, <1>5, <2>1, <2>2, SamplesStayOld
<1>7. \A q \in Queries : QueryFate(q)' /\ Told(q)
  BY <1>1, <1>2, <1>4, AppliedQueries
<1> QED BY <1>1, <1>2, <1>4, <1>6, <1>7 DEF Fate, QueriesFate, Concluding

LEMMA DestroySurfaceKeepsFate ==
  ASSUME Evidence, Fate, NEW s \in Mortal, InGuest(DestroySurface(s))
  PROVE  Fate' /\ Concluding
<1>1. /\ UNCHANGED <<applying, ledger, packet, hostVars, displayed, display, feedback>>
      /\ applying = {} /\ IdsLeft(2)
      /\ content' = [content EXCEPT ![s] = 0]
      /\ cached' = [cached EXCEPT ![s] = {}]
      /\ blocked' = [blocked EXCEPT ![RootOf[s]] = {group \ Dropped(s) : group \in @} \ {{}}]
      /\ query' = [q \in Queries |->
           IF q \in Listed(s) THEN Ended(query[q], "discarded")
           ELSE IF q \in InFlight(s) THEN Marked(query[q], query[q].bound, TRUE)
           ELSE IF \E u \in Dropped(s) : q \in EndsWith(u.surface, u.id)
           THEN Ended(query[q], "discarded") ELSE query[q]]
  BY DEF InGuest, DestroySurface, Idle, laneVars
<1>2. \/ nextId' = nextId + 2 /\ dirty' = [dirty EXCEPT ![RootOf[s]] = nextId + 1]
      \/ nextId' \in {nextId, nextId + 1} /\ dirty' = [dirty EXCEPT ![s] = 0]
  BY DEF InGuest, DestroySurface
<1>3. /\ s \in Surfaces /\ nextId \in Nat
      /\ dirty \in [Surfaces -> Nat] /\ content \in [Surfaces -> Nat]
  BY LaneAssumption DEF Evidence, GuestShape
<1>4. nextId' \in Nat /\ nextId' >= nextId
  BY <1>2, <1>3
<1>5. ResultFate' /\ GoneIds' = GoneIds
  BY <1>1, SurfaceStepKeepsResults DEF Fate, hostVars
<1>6. SampleFate'
  <2>1. Pending' \subseteq Pending
    BY <1>1, <1>3, <1>4, DestroyKeepsPending
  <2>2. \A t \in Surfaces :
          dirty'[t] \in Nat /\ (dirty'[t] # 0 /\ dirty'[t] # dirty[t] => dirty'[t] >= nextId)
    BY <1>2, <1>3
  <2> QED BY <1>1, <1>4, <2>1, <2>2, SamplesStayOld
<1>7. ASSUME NEW q \in Queries PROVE QueryFate(q)' /\ Told(q)
  <2>1. query[q] \in QueryRecord /\ query[q].surface \in Surfaces /\ QueryFate(q)
    BY LanesAreTyped DEF Fate, QueriesFate, QueryRecord
  <2>2. ASSUME query[q].at = "listed", query'[q] = Ended(query[q], "discarded")
        PROVE  QueryFate(q)' /\ Told(q)
    <3>1. Told(q)
      BY <2>2, EndsAreTrue DEF Ends
    <3>2. query'[q].at = "discarded"
      BY <2>2 DEF Ended
    <3> QED BY <3>1, <3>2 DEF QueryFate
  <2>3. CASE q \in Listed(s)
    BY <1>1, <2>2, <2>3 DEF Listed
  <2>4. CASE q \notin Listed(s) /\ q \in InFlight(s)
    <3>1. /\ query[q].at = "ledger" /\ query[q].surface = s
          /\ query'[q] = Marked(query[q], query[q].bound, TRUE)
      BY <1>1, <2>4 DEF InFlight
    <3>2. /\ query'[q].at = "ledger" /\ query'[q].scene = query[q].scene
          /\ query'[q].surface = s /\ query'[q].commit = query[q].commit
      BY <3>1 DEF Marked
    <3>3. query[q].commit # content'[s]
      BY <1>1, <1>3, <3>1, LayersAreCommits DEF Evidence, QueriesFollowContent
    <3>4. QueryFate(q)'
      BY <1>1, <1>5, <2>1, <3>1, <3>2, <3>3 DEF QueryFate, Target, Shows
    <3> QED BY <3>1, <3>2, <3>4 DEF Told, Progress
  <2>5. CASE /\ q \notin Listed(s) /\ q \notin InFlight(s)
             /\ \E u \in Dropped(s) : q \in EndsWith(u.surface, u.id)
    BY <1>1, <2>2, <2>5 DEF EndsWith, Listed
  <2>6. CASE /\ q \notin Listed(s) /\ q \notin InFlight(s)
             /\ ~\E u \in Dropped(s) : q \in EndsWith(u.surface, u.id)
    <3>1. query'[q] = query[q]
      BY <1>1, <2>6
    <3>2. query[q].at \in {"listed", "ledger"} => content'[query[q].surface] = content[query[q].surface]
      BY <1>1, <1>3, <2>1, <2>6 DEF Listed, InFlight
    <3> QED BY <1>1, <1>5, <2>1, <3>1, <3>2 DEF QueryFate, Target, Shows, Told
  <2> QED BY <2>3, <2>4, <2>5, <2>6
<1> QED BY <1>1, <1>5, <1>6, <1>7 DEF Fate, QueriesFate, Concluding

-----------------------------------------------------------------------------
(* Scenes.                                                                 *)

\* An admitted scene is the only one on its way under its id, and none of its
\* queries is about a scene that can still be shown.
LEMMA AdmittedKeepsFate ==
  ASSUME Evidence, Fate, NEW root \in Roots, root \in alive, content[root] # 0, dirty[root] # 0,
         MayPrepare(root), Admitted(root, dirty[root]),
         UNCHANGED <<alive, content, cached, blocked, applying, nextId, feedback, hostVars, displayed>>
  PROVE  Fate' /\ Concluding
<1> DEFINE carried == Queried(root) \ Unreportable(root)
           m == [type |-> "scene", id |-> dirty[root], root |-> root]
<1>0. PICK id : id = dirty[root]
  OBVIOUS
<1>1. /\ query' = [q \in Queries |->
           IF q \in Unreportable(root) THEN Ended(query[q], "discarded")
           ELSE IF q \in carried THEN Placed(query[q], "ledger", id) ELSE query[q]]
      /\ ledger' = ledger \/ ledger' = [ledger EXCEPT ![id] = "open"]
      /\ packet' = [packet EXCEPT ![id] = [layers |-> LayersOf(root), epoch |-> epoch]]
      /\ display' = Written(display, <<m>>)
      /\ dirty' = [dirty EXCEPT ![root] = 0]
  BY <1>0 DEF Admitted
<1>2. /\ root \in Surfaces /\ RootOf[root] = root /\ RootOf \in [Surfaces -> Surfaces]
      /\ content \in [Surfaces -> Nat] /\ dirty \in [Surfaces -> Nat]
      /\ nextId \in 1 .. MaxId + 1 /\ MaxId \in Nat /\ Ids = 1 .. MaxId
      /\ alive \subseteq Surfaces
      /\ packet \in [Ids -> [layers : SUBSET (Surfaces \X Nat), epoch : Nat]]
      /\ ledger \in [Ids -> RecordStates]
  BY BatchesAreFinite, LaneAssumption DEF Evidence, GuestShape, Ids, Roots
<1>3. id \in Ids /\ ~Sampling(id) /\ id < nextId
  <2>1. id < nextId /\ ~Sampling(id) /\ id \in Nat /\ id # 0
    BY <1>0, <1>2 DEF Evidence, SceneIdsAreFresh
  <2> QED BY <1>2, <2>1
<1>4. \A s \in Sampled(root) : s \in Surfaces /\ RootOf[s] = root /\ content[s] # 0
  BY <1>2 DEF Sampled
<1>5. /\ packet'[id].layers = LayersOf(root)
      /\ \A i \in Ids : i # id => packet'[i] = packet[i]
  BY <1>1, <1>2, <1>3
<1>6. root \in Sampled(root) /\ LayersOf(root) # {}
  <2>1. root \in Sampled(root)
    BY <1>2 DEF Sampled
  <2>2. <<root, content[root]>> \in LayersOf(root)
    BY <2>1 DEF LayersOf
  <2> QED BY <2>1, <2>2
<1>7. \A layer : layer \in LayersOf(root) => \E s \in Sampled(root) : layer = <<s, content[s]>>
  BY DEF LayersOf
<1>8. journal' = journal /\ displayed' = displayed /\ journal[id] = "none" /\ id \notin displayed
  BY <1>3 DEF Evidence, HostHoldsEvidence, hostVars
<1>9. ~OnItsWay(id) /\ ~Carries(display, "ack", id) /\ ~Carries(feedback, "zero", id)
  <2>1. \A k \in DOMAIN display : display[k] \in SceneEvents
    BY LanesAreTyped
  <2>2. ~OnItsWay(id)
    BY <1>3, <2>1 DEF OnItsWay, Carries, SceneEvents
  <2> QED BY <1>3, <2>2 DEF Fate, ResultFate, AcksSettle, ZerosAreTrue, OverIds, GoneIds
<1>10. /\ Once(display')
       /\ \A type, i : Carries(display', type, i)
                         => Carries(display, type, i) \/ (type = "scene" /\ i = id)
  <2>1. display \in Seq(SceneEvents)
    BY LanesAreTyped
  <2>2. m.type = "scene" /\ m.id = id
    BY <1>0
  <2> HIDE DEF m
  <2>3. CASE ~up
    BY <1>1, <2>3 DEF Written, Fate, ResultFate, ScenesOnce
  <2>4. CASE up
    <3>1. display' = display \o <<m>>
      BY <1>1, <2>4 DEF Written
    <3>2. <<m>> \in Seq({m}) /\ display \in Seq(SceneEvents \cup {m})
      BY <2>1, LargerLane
    <3>3. <<m>> \in Seq(SceneEvents \cup {m})
      BY <3>2, LargerLane
    <3>4. \A type, i : Carries(display', type, i) => Carries(display, type, i) \/ Carries(<<m>>, type, i)
      BY <3>1, <3>2, <3>3, CarriesAppended
    <3>5. \A type, i : Carries(<<m>>, type, i) => type = "scene" /\ i = id
      BY <2>2, CarriesOne
    <3>6. Once(display')
      <4> SUFFICES ASSUME NEW j \in DOMAIN (display \o <<m>>), NEW k \in DOMAIN (display \o <<m>>),
                          (display \o <<m>>)[j].type = "scene", (display \o <<m>>)[k].type = "scene",
                          (display \o <<m>>)[j].id = (display \o <<m>>)[k].id
                   PROVE  j = k
        BY <3>1 DEF Once
      <4>1. \A n \in DOMAIN (display \o <<m>>) :
              \/ n \in DOMAIN display /\ (display \o <<m>>)[n] = display[n]
              \/ n = Len(display) + 1 /\ (display \o <<m>>)[n] = m
        BY <3>2, <3>3
      <4>2. \A n \in DOMAIN display : display[n].type = "scene" => display[n].id # id
        BY <1>9 DEF OnItsWay, Carries
      <4>3. Once(display)
        BY DEF Fate, ResultFate, ScenesOnce
      <4> QED BY <2>2, <4>1, <4>2, <4>3 DEF Once
    <3> QED BY <3>4, <3>5, <3>6
  <2> QED BY <2>3, <2>4
<1> HIDE DEF m
<1>11. GoneIds \subseteq GoneIds'
  <2>1. \A i \in GoneIds : i \in Ids /\ i # id /\ packet'[i] = packet[i] /\ ~OnItsWay(i)
    BY <1>3, <1>5 DEF GoneIds
  <2>2. \A i : Carries(display', "scene", i) => OnItsWay(i) \/ i = id
    BY <1>10 DEF OnItsWay
  <2> QED BY <1>8, <2>1, <2>2 DEF GoneIds, OnItsWay, Sampling
<1>12. ResultFate'
  <2>1. ScenesOnce' /\ UnshownRecords'
    <3>1. \A i \in Ids : Carries(display', "scene", i) => journal[i] = "none" /\ i \notin displayed
      BY <1>8, <1>10 DEF Fate, ResultFate, ScenesOnce, OnItsWay
    <3> QED BY <1>8, <1>10, <3>1 DEF Fate, ResultFate, ScenesOnce, UnshownRecords, OnItsWay
  <2>2. ZerosAreTrue'
    BY <1>11 DEF Fate, ResultFate, ZerosAreTrue
  <2>3. AcksSettle'
    <3>1. ASSUME NEW i \in Ids, Carries(display', "ack", i) PROVE i \in OverIds'
      <4>1. Carries(display, "ack", i)
        BY <1>10, <3>1
      <4>2. i \in OverIds /\ i # id
        BY <1>9, <4>1 DEF Fate, ResultFate, AcksSettle
      <4>3. packet'[i] = packet[i] /\ ledger'[i] = ledger[i]
        BY <1>1, <1>2, <1>5, <4>2
      <4> QED BY <4>2, <4>3 DEF OverIds, Sampling, InLedger
    <3> QED BY <3>1 DEF AcksSettle
  <2>4. RecordsSample'
    <3>1. ASSUME NEW i \in Ids, ledger'[i] \in {"open", "shown"} PROVE packet'[i].layers # {}
      <4>1. CASE i = id
        BY <1>5, <1>6, <4>1
      <4>2. CASE i # id
        <5>1. packet'[i] = packet[i] /\ ledger'[i] = ledger[i]
          BY <1>1, <1>2, <1>5, <4>2
        <5> QED BY <3>1, <5>1 DEF Fate, ResultFate, RecordsSample, Sampling, InLedger
      <4> QED BY <4>1, <4>2
    <3> QED BY <3>1 DEF RecordsSample, Sampling, InLedger
  <2> QED BY <2>1, <2>2, <2>3, <2>4 DEF ResultFate
<1>13. SampleFate'
  <2>1. \A s \in Surfaces : dirty'[s] = IF s = root THEN 0 ELSE dirty[s]
    BY <1>1, <1>2
  <2>2. ASSUME NEW i \in Ids, NEW layer \in packet'[i].layers PROVE OldLayer(i, layer)'
    <3>1. CASE i = id
      <4>1. PICK s \in Sampled(root) : layer = <<s, content[s]>>
        BY <1>5, <1>7, <2>2, <3>1
      <4>2. content[s] < nextId
        BY <1>4, <4>1 DEF Evidence, PendingIsNew
      <4> QED BY <1>2, <1>4, <2>1, <4>1, <4>2 DEF OldLayer
    <3>2. CASE i # id
      <4>1. layer \in packet[i].layers
        BY <1>5, <2>2, <3>2
      <4>2. OldLayer(i, layer) /\ layer \in Surfaces \X Ids
        BY <4>1, LayersAreCommits DEF Fate, SampleFate
      <4>3. RootOf[layer[1]] \in Surfaces
        BY <1>2, <4>2
      <4> QED BY <2>1, <4>2, <4>3 DEF OldLayer
    <3> QED BY <3>1, <3>2
  <2>3. ASSUME NEW u \in Pending, NEW i \in Ids PROVE <<u.surface, u.id>> \notin packet'[i].layers
    <3>1. CASE i = id
      BY <1>5, <1>7, <3>1 DEF Evidence, PendingIsNew
    <3>2. CASE i # id
      BY <1>5, <3>2 DEF Fate, SampleFate, Shows
    <3> QED BY <3>1, <3>2
  <2>4. Pending' = Pending
    BY DEF Pending
  <2> QED BY <2>2, <2>3, <2>4 DEF SampleFate, Shows
<1>14. ASSUME NEW q \in Queries PROVE QueryFate(q)' /\ Told(q)
  <2>1. query[q] \in QueryRecord /\ QueryFate(q)
    BY LanesAreTyped DEF Fate, QueriesFate
  <2>2. \A i \in Ids : Target(q) \in packet'[i].layers =>
          \/ i = id /\ query[q].surface \in Sampled(root)
             /\ query[q].commit = content[query[q].surface] /\ query[q].commit # 0
          \/ i # id /\ Shows(i, Target(q))
    <3> SUFFICES ASSUME NEW i \in Ids, Target(q) \in packet'[i].layers
                 PROVE  \/ i = id /\ query[q].surface \in Sampled(root)
                           /\ query[q].commit = content[query[q].surface] /\ query[q].commit # 0
                        \/ i # id /\ Shows(i, Target(q))
      OBVIOUS
    <3>1. CASE i = id
      <4>1. PICK s \in Sampled(root) : Target(q) = <<s, content[s]>>
        BY <1>5, <1>7, <3>1
      <4> QED BY <1>4, <3>1, <4>1 DEF Target
    <3>2. CASE i # id
      BY <1>5, <3>2 DEF Shows
    <3> QED BY <3>1, <3>2
  <2>3. CASE q \in Unreportable(root)
    <3>1. query[q].at = "listed" /\ query'[q] = Ended(query[q], "discarded")
      BY <1>1, <2>3 DEF Unreportable, Queried
    <3>2. Told(q)
      BY <3>1, EndsAreTrue DEF Ends
    <3>3. query'[q].at = "discarded"
      BY <3>1 DEF Ended
    <3> QED BY <3>2, <3>3 DEF QueryFate
  <2>4. CASE q \notin Unreportable(root) /\ q \in carried
    <3>1. /\ query'[q] = Placed(query[q], "ledger", id)
          /\ query[q].at = "listed" /\ query[q].surface \in Sampled(root)
      BY <1>1, <2>4 DEF Queried
    <3>2. /\ query'[q].at = "ledger" /\ query'[q].scene = id /\ query'[q].retired = query[q].retired
          /\ query'[q].surface = query[q].surface /\ query'[q].commit = query[q].commit
      BY <3>1 DEF Placed
    <3>3. ASSUME NEW i \in Ids, Target(q) \in packet'[i].layers
          PROVE  i <= id /\ (i = id \/ i \in GoneIds')
      <4>1. CASE i = id
        BY <1>2, <4>1
      <4>2. CASE i # id
        <5>1. Shows(i, Target(q))
          BY <2>2, <3>3, <4>2
        <5>2. i \in GoneIds'
          BY <1>11, <2>1, <3>1, <5>1 DEF QueryFate
        <5>3. OldLayer(i, Target(q)) /\ Target(q)[1] = query[q].surface
          BY <5>1 DEF Fate, SampleFate, Shows, Target
        <5>4. i < id
          BY <1>0, <1>4, <3>1, <5>3 DEF OldLayer
        <5> QED BY <1>2, <1>3, <5>2, <5>4
      <4> QED BY <4>1, <4>2
    <3>4. ~query[q].retired
      BY <2>1, <3>1 DEF QueryFate
    <3>5. QueryFate(q)'
      BY <3>2, <3>3, <3>4 DEF QueryFate, Target, Shows
    <3> QED BY <3>1, <3>2, <3>5 DEF Told, Progress
  <2>5. CASE q \notin Unreportable(root) /\ q \notin carried
    <3>1. query'[q] = query[q]
      BY <1>1, <2>5
    <3>2. q \notin Queried(root)
      BY <2>5
    <3>3. ASSUME query[q].at = "listed", NEW i \in Ids, Target(q) \in packet'[i].layers
          PROVE  i \in GoneIds'
      <4>1. ~(query[q].surface \in Sampled(root)
              /\ query[q].commit = content[query[q].surface] /\ query[q].commit # 0)
        BY <2>1, <3>2, <3>3 DEF QueryFate, Queried
      <4>2. Shows(i, Target(q))
        BY <2>2, <3>3, <4>1
      <4> QED BY <1>11, <2>1, <3>3, <4>2 DEF QueryFate
    <3>4. ASSUME query[q].at = "ledger", NEW i \in Ids, Target(q) \in packet'[i].layers
          PROVE  i <= query[q].scene /\ (i = query[q].scene \/ i \in GoneIds')
      <4>1. ~(query[q].surface \in Sampled(root)
              /\ query[q].commit = content[query[q].surface] /\ query[q].commit # 0)
        <5> SUFFICES ASSUME query[q].surface \in Sampled(root),
                            query[q].commit = content[query[q].surface], query[q].commit # 0
                     PROVE  FALSE
          OBVIOUS
        <5>1. query[q].retired
          BY <3>4 DEF MayPrepare, Blocked, InFlight
        <5> QED BY <2>1, <3>4, <5>1 DEF QueryFate
      <4>2. Shows(i, Target(q))
        BY <2>2, <3>4, <4>1
      <4> QED BY <1>11, <2>1, <3>4, <4>2 DEF QueryFate
    <3>5. QueryFate(q)'
      BY <2>1, <3>1, <3>3, <3>4 DEF QueryFate, Target, Shows
    <3> QED BY <3>1, <3>5 DEF Told
  <2> QED BY <2>3, <2>4, <2>5
<1>15. \A i \in displayed : packet'[i] = packet[i]
  BY <1>5, <1>8 DEF Evidence, HostHoldsEvidence
<1> QED BY <1>1, <1>8, <1>12, <1>13, <1>14, <1>15 DEF Fate, QueriesFate, Concluding

LEMMA FlushKeepsFate ==
  ASSUME Evidence, Fate, NEW root \in Roots, InGuest(Flush(root))
  PROVE  Fate' /\ Concluding
<1>1. UNCHANGED <<alive, content, cached, blocked, applying, nextId, feedback, hostVars, displayed>>
  BY DEF InGuest, Flush
<1>2. \/ UNCHANGED <<query, ledger, packet, display, dirty>>
      \/ Unpublished(root)
      \/ Rejected(root)
      \/ /\ root \in alive /\ content[root] # 0 /\ dirty[root] # 0
         /\ MayPrepare(root) /\ Admitted(root, dirty[root])
  BY DEF InGuest, Flush, FlushWindow
<1>3. CASE UNCHANGED <<query, ledger, packet, display, dirty>>
  BY <1>1, <1>3, NothingWritten, HarmlessNone, QuietStepKeepsFate DEF surfaceState
<1>4. CASE Unpublished(root)
  <2>1. UNCHANGED <<query, ledger, packet, display>> /\ dirty' = [dirty EXCEPT ![root] = 0]
    BY <1>4 DEF Unpublished
  <2>2. nextId \in Nat /\ dirty \in [Surfaces -> Nat]
    BY LaneAssumption DEF Evidence, GuestShape
  <2>3. ResultFate' /\ GoneIds' = GoneIds
    BY <1>1, <2>1, SurfaceStepKeepsResults DEF Fate, hostVars
  <2>4. Pending' = Pending
    BY <1>1 DEF Pending
  <2>5. \A s \in Surfaces :
          dirty'[s] \in Nat /\ (dirty'[s] # 0 /\ dirty'[s] # dirty[s] => dirty'[s] >= nextId)
    BY <2>1, <2>2
  <2>6. SampleFate'
    BY <1>1, <2>1, <2>2, <2>4, <2>5, SamplesStayOld
  <2> QED BY <1>1, <2>1, <2>3, <2>6, UnmovedQueries, StillConcluding DEF Fate
<1>5. CASE Rejected(root)
  <2>1. /\ query' = [q \in Queries |-> IF q \in Unreportable(root)
                                      THEN Ended(query[q], "discarded") ELSE query[q]]
        /\ UNCHANGED <<ledger, packet, display, dirty>>
    BY <1>5 DEF Rejected, WithEnded
  <2>2. query' = [q \in Queries |-> query'[q]] /\ \A q \in Queries : Ends(q)
    <3>1. \A q \in Unreportable(root) : query[q].at = "listed"
      BY DEF Unreportable, Queried
    <3>2. ASSUME NEW q \in Queries PROVE Ends(q)
      BY <2>1, <3>1 DEF Ends
    <3> QED BY <2>1, <3>2
  <2>3. \A id \in Ids : ledger'[id] \in {"open", "shown"} => InLedger(id)
    BY <2>1 DEF InLedger
  <2> QED BY <1>1, <2>1, <2>2, <2>3, NothingWritten, HarmlessNone, EndingKeepsFate DEF surfaceState
<1>6. CASE /\ root \in alive /\ content[root] # 0 /\ dirty[root] # 0
           /\ MayPrepare(root) /\ Admitted(root, dirty[root])
  BY <1>1, <1>6, AdmittedKeepsFate
<1> QED BY <1>2, <1>3, <1>4, <1>5, <1>6

LEMMA ReceiveCaptureKeepsFate ==
  ASSUME Evidence, Fate, InGuest(ReceiveCapture)
  PROVE  Fate' /\ Concluding
<1> DEFINE root == Head(control).root
<1>1. /\ UNCHANGED <<alive, content, cached, blocked, applying, query, ledger, packet,
                     display, feedback, hostVars, displayed>>
      /\ \/ UNCHANGED <<dirty, nextId>>
         \/ dirty' = [dirty EXCEPT ![root] = nextId] /\ nextId' = nextId + 1
  BY DEF InGuest, ReceiveCapture, ledgerVars
<1> HIDE DEF root
<1>2. nextId \in Nat /\ dirty \in [Surfaces -> Nat]
  BY LaneAssumption DEF Evidence, GuestShape
<1>3. ResultFate' /\ GoneIds' = GoneIds
  BY <1>1, SurfaceStepKeepsResults DEF Fate, hostVars
<1>4. Pending' = Pending
  BY <1>1 DEF Pending
<1>5. /\ nextId' \in Nat /\ nextId' >= nextId
      /\ \A s \in Surfaces :
           dirty'[s] \in Nat /\ (dirty'[s] # 0 /\ dirty'[s] # dirty[s] => dirty'[s] >= nextId)
  BY <1>1, <1>2
<1>6. SampleFate'
  BY <1>1, <1>4, <1>5, SamplesStayOld
<1> QED BY <1>1, <1>3, <1>6, UnmovedQueries, StillConcluding DEF Fate

-----------------------------------------------------------------------------
(* Connections.                                                            *)

LEMMA EmptyLaneCarriesNothing ==
  ASSUME NEW lane, lane = <<>>
  PROVE  Once(lane) /\ \A type, id : ~Carries(lane, type, id)
BY DEF Once, Carries

\* A connection begins and ends without scenes, results or acknowledgements.
LEMMA NewLanesKeepResults ==
  ASSUME ResultFate, UNCHANGED <<journal, displayed, ledger, packet>>,
         Once(display'), \A id : ~Carries(display', "scene", id),
         \A id : ~Carries(display', "ack", id),
         \A id : Carries(feedback', "zero", id) => Carries(feedback, "zero", id)
  PROVE  ResultFate' /\ GoneIds \subseteq GoneIds'
<1>1. GoneIds \subseteq GoneIds'
  BY DEF GoneIds, OnItsWay, Sampling
<1>2. ScenesOnce' /\ UnshownRecords'
  BY DEF ResultFate, ScenesOnce, UnshownRecords, OnItsWay
<1>3. ZerosAreTrue'
  BY <1>1 DEF ResultFate, ZerosAreTrue
<1>4. AcksSettle' /\ RecordsSample'
  BY DEF ResultFate, AcksSettle, RecordsSample, Sampling, InLedger
<1> QED BY <1>1, <1>2, <1>3, <1>4 DEF ResultFate

LEMMA DropKeepsFate ==
  ASSUME Evidence, Fate, Drop, UNCHANGED <<guestVars, hostVars, displayed>>
  PROVE  Fate' /\ Concluding
<1>1. /\ UNCHANGED <<surfaceState, packet, query, ledger, journal, displayed>>
      /\ display' = <<>> /\ feedback' = <<>>
  BY DEF Drop, guestVars, hostVars, surfaceState
<1>2. ResultFate' /\ GoneIds \subseteq GoneIds'
  BY <1>1, EmptyLaneCarriesNothing, NewLanesKeepResults DEF Fate
<1>3. \A q \in Queries : Ends(q)
  BY <1>1 DEF Ends
<1>4. SampleFate' /\ QueriesFate'
  BY <1>1, <1>2, <1>3, QueriesMove
<1> QED BY <1>1, <1>2, <1>4, StillConcluding DEF Fate

LEMMA ConnectKeepsFate ==
  ASSUME Evidence, Fate, Connect
  PROVE  Fate' /\ Concluding
<1> DEFINE count == Cardinality(Published)
           greeting == <<[type |-> "started"]>> \o ClockRequest
<1>1. /\ UNCHANGED <<alive, content, cached, blocked, applying, query, ledger, packet,
                     feedback, journal, displayed>>
      /\ nextId' = nextId + count
      /\ display' = greeting
  BY DEF Connect, GuestAttach, ledgerVars
<1>2. PICK order \in [Published -> 1 .. count] :
        dirty' = [s \in Surfaces |-> IF s \in Published THEN nextId + order[s] - 1 ELSE dirty[s]]
  BY DEF Connect, GuestAttach
<1>3. count \in Nat
  BY BatchesAreFinite, FS_CardinalityType DEF Published
<1> HIDE DEF count
<1>4. nextId \in Nat /\ dirty \in [Surfaces -> Nat]
  BY LaneAssumption DEF Evidence, GuestShape
<1>5. \A s \in Published : order[s] \in 1 .. count
  OBVIOUS
<1>6. \A k \in DOMAIN display' : display'[k].type \in {"started", "clock"}
  BY <1>1 DEF ClockRequest
<1>7. /\ Once(display') /\ \A id : ~Carries(display', "scene", id)
      /\ \A id : ~Carries(display', "ack", id)
  BY <1>6 DEF Once, Carries
<1> HIDE DEF greeting
<1>8. ResultFate' /\ GoneIds \subseteq GoneIds'
  BY <1>1, <1>7, NewLanesKeepResults DEF Fate
<1>9. Pending' = Pending
  BY <1>1 DEF Pending
<1>10. SampleFate'
  <2>1. nextId' \in Nat /\ nextId' >= nextId
    BY <1>1, <1>3, <1>4
  <2>2. \A s \in Surfaces : dirty'[s] \in Nat /\ (dirty'[s] # dirty[s] => dirty'[s] >= nextId)
    BY <1>2, <1>3, <1>4, <1>5
  <2> QED BY <1>1, <1>9, <2>1, <2>2, SamplesStayOld
<1>11. QueriesFate'
  BY <1>1, <1>8 DEF Fate, QueriesFate, QueryFate, Target, Shows
<1> QED BY <1>1, <1>8, <1>10, <1>11, StillConcluding DEF Fate
-----------------------------------------------------------------------------
(* The host.                                                               *)

\* What may become of a record while no drawable appears.
RecordMoves(id) ==
  \/ journal'[id] = journal[id]
  \/ journal[id] = "queued" /\ journal'[id] \in {"submitted", "zero"}
  \/ journal[id] = "submitted" /\ journal'[id] = "zero"
  \/ journal[id] \in Terminal /\ journal'[id] = "none"
  \/ /\ journal[id] = "none" /\ journal'[id] \in {"queued", "zero"}
     /\ Carries(display, "scene", id) /\ ~Carries(display', "scene", id)

\* The host reads what the guest sent.
Reads == Once(display') /\ \A type, id : Carries(display', type, id) => Carries(display, type, id)

LEMMA HostStepKeepsFate ==
  ASSUME Evidence, Fate, UNCHANGED <<guestVars, displayed>>,
         \A id \in Ids : RecordMoves(id), Reads,
         \A id \in Ids : Carries(feedback', "zero", id)
                           => Carries(feedback, "zero", id) \/ journal[id] = "zero"
  PROVE  Fate' /\ Concluding
<1>1. UNCHANGED <<surfaceState, query, ledger, packet, displayed>>
  BY DEF guestVars, surfaceState
<1>2. ResultFate
  BY DEF Fate
<1>3. GoneIds \subseteq GoneIds'
  BY <1>1 DEF GoneIds, OnItsWay, Sampling, RecordMoves, Reads, Terminal
<1>4. \A id \in Ids : journal[id] = "zero" => id \in GoneIds
  BY <1>2 DEF ResultFate, ScenesOnce, UnshownRecords, GoneIds, Evidence, HostHoldsEvidence
<1>5. ScenesOnce'
  BY <1>1, <1>2 DEF ResultFate, ScenesOnce, OnItsWay, RecordMoves, Reads, Terminal
<1>6. UnshownRecords'
  BY <1>1, <1>2 DEF ResultFate, ScenesOnce, UnshownRecords, OnItsWay, RecordMoves, Terminal
<1>7. ZerosAreTrue'
  BY <1>2, <1>3, <1>4 DEF ResultFate, ZerosAreTrue
<1>8. AcksSettle' /\ RecordsSample'
  BY <1>1, <1>2 DEF ResultFate, AcksSettle, RecordsSample, OverIds, Sampling, InLedger, Reads
<1>9. \A q \in Queries : Ends(q)
  BY <1>1 DEF Ends
<1>10. SampleFate' /\ QueriesFate'
  BY <1>1, <1>3, <1>9, QueriesMove
<1> QED BY <1>1, <1>5, <1>6, <1>7, <1>8, <1>10, StillConcluding DEF Fate, ResultFate

LEMMA NothingRead ==
  ASSUME Fate, display' = display
  PROVE  Reads
BY DEF Reads, Fate, ResultFate, ScenesOnce

LEMMA HeadIsRead ==
  ASSUME Evidence, Fate, display # <<>>, display' = Tail(display)
  PROVE  Reads
BY LanesAreTyped, TailOfLane DEF Reads, Fate, ResultFate, ScenesOnce

LEMMA DiscardedRecordsMove ==
  ASSUME Evidence, NEW ids, journal' = Discard(journal, ids)
  PROVE  \A id \in Ids : RecordMoves(id)
BY DEF Discard, RecordMoves

LEMMA UnmovedRecords ==
  ASSUME journal' = journal
  PROVE  \A id \in Ids : RecordMoves(id)
BY DEF RecordMoves

\* What the host sends of its journal.
LEMMA SentResults ==
  ASSUME Evidence, NEW ids \in SUBSET InState(Terminal), feedback' = Written(feedback, Results(ids))
  PROVE  \A id \in Ids : Carries(feedback', "zero", id)
                           => Carries(feedback, "zero", id) \/ journal[id] = "zero"
<1>1. feedback \in Seq(ResultCommands) /\ Results(ids) \in Seq(ResultCommands)
  BY LanesAreTyped, ResultsAreCommands DEF Evidence
<1>2. \A id : Carries(feedback', "zero", id)
        => Carries(feedback, "zero", id) \/ Carries(Results(ids), "zero", id)
  BY <1>1, CarriesAppended DEF Written
<1> QED BY <1>2, ResultsCarryResults

LEMMA UnsentIsTerminal == Unsent \in SUBSET InState(Terminal)
BY DEF Unsent

LEMMA RecordStepKeepsFate ==
  ASSUME Evidence, Fate, NEW id \in Ids,
         InHost(Submit(id) \/ DiscardQueued(id) \/ Drawable(id, "zero"))
  PROVE  Fate' /\ Concluding
<1>1. UNCHANGED <<guestVars, displayed, display, feedback>>
  BY DEF InHost, Submit, DiscardQueued, Drawable, laneVars
<1>2. \/ journal' = Discard(journal, {id})
      \/ journal[id] = "queued" /\ journal' = [journal EXCEPT ![id] = "submitted"]
      \/ journal[id] = "submitted" /\ journal' = [journal EXCEPT ![id] = "zero"]
  BY DEF InHost, Submit, DiscardQueued, Drawable
<1>3. \A i \in Ids : RecordMoves(i)
  BY <1>2, HostIsTyped, DiscardedRecordsMove DEF RecordMoves
<1> QED BY <1>1, <1>3, NothingRead, HostStepKeepsFate

\* Steps that only read and write control messages.
LEMMA BridgeStepKeepsFate ==
  ASSUME Evidence, Fate, UNCHANGED <<guestVars, displayed, journal, feedback>>, Reads
  PROVE  Fate' /\ Concluding
BY UnmovedRecords, HostStepKeepsFate

LEMMA FlushResultsKeepsFate ==
  ASSUME Evidence, Fate, InHost(FlushResults)
  PROVE  Fate' /\ Concluding
<1>1. UNCHANGED <<guestVars, displayed, display, journal>>
      /\ feedback' = Written(feedback, Results(Unsent))
  BY DEF InHost, FlushResults, SendUnsent
<1> QED BY <1>1, UnsentIsTerminal, SentResults, UnmovedRecords, NothingRead, HostStepKeepsFate

LEMMA RemovedEntries ==
  ASSUME NEW S, NEW lane \in Seq(S), NEW i \in DOMAIN lane, NEW k \in DOMAIN RemoveAt(lane, i)
  PROVE  LET old == IF k < i THEN k ELSE k + 1
         IN  k \in Nat /\ old \in DOMAIN lane /\ RemoveAt(lane, i)[k] = lane[old]
<1> DEFINE before == SubSeq(lane, 1, i - 1)
           after  == SubSeq(lane, i + 1, Len(lane))
           rest   == before \o after
           old    == IF k < i THEN k ELSE k + 1
<1>1. lane \in Seq(S) /\ i \in 1 .. Len(lane) /\ Len(lane) \in Nat
  OBVIOUS
<1>2. before \in Seq(S) /\ Len(before) = i - 1 /\ \A l \in DOMAIN before : l \in 1 .. i - 1 /\ before[l] = lane[l]
  BY <1>1
<1>3. after \in Seq(S) /\ \A l \in DOMAIN after : l \in 1 .. Len(lane) - i /\ after[l] = lane[i + l]
  BY <1>1
<1>4. RemoveAt(lane, i) = rest
  BY DEF RemoveAt
<1> HIDE DEF before, after
<1>5. k \in Nat
  BY <1>2, <1>3, <1>4
<1>6. \/ k \in DOMAIN before /\ rest[k] = before[k]
      \/ k - Len(before) \in DOMAIN after /\ rest[k] = after[k - Len(before)]
  BY SMTT(60), <1>2, <1>3, <1>4, Appended
<1>7. CASE k \in DOMAIN before /\ rest[k] = before[k]
  BY <1>1, <1>2, <1>4, <1>5, <1>7
<1>8. CASE k - Len(before) \in DOMAIN after /\ rest[k] = after[k - Len(before)]
  <2>1. k - (i - 1) \in 1 .. Len(lane) - i /\ rest[k] = lane[i + (k - (i - 1))]
    BY <1>2, <1>3, <1>8
  <2>2. i + (k - (i - 1)) = k + 1 /\ old = k + 1
    BY <1>1, <1>5, <2>1
  <2>3. k + 1 \in DOMAIN lane
    BY <1>1, <1>5, <2>1
  <2> QED BY <1>4, <1>5, <2>1, <2>2, <2>3
<1> QED BY <1>6, <1>7, <1>8

LEMMA RemovedFromLane ==
  ASSUME NEW S, NEW lane \in Seq(S), NEW i \in DOMAIN lane
  PROVE  /\ \A type, id : Carries(RemoveAt(lane, i), type, id) => Carries(lane, type, id)
         /\ Once(lane) => Once(RemoveAt(lane, i))
<1> DEFINE rest == RemoveAt(lane, i)
           Old(k) == IF k < i THEN k ELSE k + 1
<1>1. \A k \in DOMAIN rest : k \in Nat /\ Old(k) \in DOMAIN lane /\ rest[k] = lane[Old(k)]
  BY RemovedEntries
<1>2. i \in Nat
  OBVIOUS
<1> HIDE DEF rest
<1>3. \A j, k \in Nat : Old(j) = Old(k) => j = k
  BY <1>2
<1>4. \A type, id : Carries(rest, type, id) => Carries(lane, type, id)
  BY <1>1 DEF Carries
<1>5. ASSUME Once(lane) PROVE Once(rest)
  <2> HIDE DEF Old
  <2> QED BY <1>1, <1>3, <1>5 DEF Once
<1>6. /\ \A type, id : Carries(rest, type, id) => Carries(lane, type, id)
      /\ Once(lane) => Once(rest)
  BY <1>4, <1>5
<1> QED BY <1>6 DEF rest

LEMMA CarriesBoth ==
  ASSUME NEW S, NEW lane \in Seq(S), NEW a \in Seq(S), NEW b \in Seq(S)
  PROVE  \A type, id : Carries(lane \o (a \o b), type, id)
                         => Carries(lane, type, id) \/ Carries(a, type, id) \/ Carries(b, type, id)
<1> DEFINE more == a \o b
<1>1. more \in Seq(S)
  OBVIOUS
<1>2. \A type, id : Carries(more, type, id) <=> Carries(a, type, id) \/ Carries(b, type, id)
  BY CarriesAppended
<1> HIDE DEF more
<1>3. \A type, id : Carries(lane \o more, type, id) <=> Carries(lane, type, id) \/ Carries(more, type, id)
  BY <1>1, CarriesAppended
<1> QED BY <1>2, <1>3 DEF more

LEMMA AnswerClockKeepsFate ==
  ASSUME Evidence, Fate, InHost(AnswerClock)
  PROVE  Fate' /\ Concluding
<1>1. PICK i \in DOMAIN display :
        /\ display[i].type = "clock"
        /\ display' = RemoveAt(display, i)
        /\ feedback' = Written(feedback, <<[type |-> "sample", epoch |-> display[i].epoch]>>
                                            \o Results(Unsent))
  BY DEF InHost, AnswerClock
<1>2. UNCHANGED <<guestVars, displayed, journal>>
  BY DEF InHost, AnswerClock
<1>3. Reads
  BY <1>1, LanesAreTyped, RemovedFromLane DEF Reads, Fate, ResultFate, ScenesOnce
<1> DEFINE sample == [type |-> "sample", epoch |-> display[i].epoch]
<1>4. sample \in ResultCommands /\ sample.type = "sample"
  <2>1. display[i] \in SceneEvents
    BY LanesAreTyped
  <2>2. display[i].epoch \in Nat
    BY <1>1, <2>1 DEF SceneEvents
  <2> QED BY <2>2 DEF ResultCommands
<1>5. feedback' = Written(feedback, <<sample>> \o Results(Unsent))
  BY <1>1
<1> HIDE DEF sample
<1>6. Results(Unsent) \in Seq(ResultCommands) /\ feedback \in Seq(ResultCommands)
      /\ <<sample>> \in Seq(ResultCommands)
  BY <1>4, UnsentIsTerminal, LanesAreTyped, ResultsAreCommands DEF Evidence
<1>7. \A id : Carries(feedback', "zero", id)
        => \/ Carries(feedback, "zero", id)
           \/ Carries(<<sample>>, "zero", id) \/ Carries(Results(Unsent), "zero", id)
  <2>1. CASE up
    BY <1>5, <1>6, <2>1, CarriesBoth DEF Written
  <2>2. CASE ~up
    BY <1>5, <2>2 DEF Written
  <2> QED BY <2>1, <2>2
<1>8. \A id : ~Carries(<<sample>>, "zero", id)
  BY <1>4, CarriesOne
<1>9. \A id \in Ids : Carries(Results(Unsent), "zero", id) => journal[id] = "zero"
  BY UnsentIsTerminal, ResultsCarryResults
<1>10. \A id \in Ids : Carries(feedback', "zero", id)
                         => Carries(feedback, "zero", id) \/ journal[id] = "zero"
  BY <1>7, <1>8, <1>9
<1> QED BY <1>2, <1>3, <1>10, UnmovedRecords, HostStepKeepsFate

LEMMA ReceiveSceneKeepsFate ==
  ASSUME Evidence, Fate, InHost(ReceiveScene)
  PROVE  Fate' /\ Concluding
<1> DEFINE id == Head(display).id
           registered == IF journal[id] = "none" THEN [journal EXCEPT ![id] = "queued"]
                                                 ELSE journal
<1>1. /\ UNCHANGED <<guestVars, displayed>>
      /\ Heard(display, "scene") /\ display # <<>> /\ display' = Tail(display)
      /\ feedback' = Written(feedback, Results(Unsent))
      /\ \E ids : journal' = Discard(registered, ids)
  BY DEF InHost, ReceiveScene, SendUnsent, Heard
<1>2. Head(display) \in SceneEvents /\ Head(display).type = "scene"
  BY <1>1, HeardOnDisplay
<1>3. id \in Ids
  BY <1>2 DEF SceneEvents
<1>4. Reads
  BY <1>1, HeadIsRead
<1>5. Carries(display, "scene", id) /\ ~Carries(display', "scene", id)
  BY <1>1, <1>2, LanesAreTyped, TailOfLane DEF Fate, ResultFate, ScenesOnce
<1>6. PICK ids : journal' = Discard(registered, ids)
  BY <1>1
<1>7. ASSUME NEW i \in Ids PROVE RecordMoves(i)
  <2>1. journal'[i] = IF i \in ids /\ registered[i] = "queued" THEN "zero" ELSE registered[i]
    BY <1>6 DEF Discard
  <2>2. registered[i] = IF i = id /\ journal[i] = "none" THEN "queued" ELSE journal[i]
    BY <1>3, HostIsTyped
  <2> HIDE DEF registered, id
  <2> QED BY <1>5, <2>1, <2>2 DEF RecordMoves
<1> HIDE DEF registered, id
<1>8. \A i \in Ids : Carries(feedback', "zero", i) => Carries(feedback, "zero", i) \/ journal[i] = "zero"
  BY <1>1, UnsentIsTerminal, SentResults
<1> QED BY <1>1, <1>4, <1>7, <1>8, HostStepKeepsFate

LEMMA ReceiveAckKeepsFate ==
  ASSUME Evidence, Fate, InHost(ReceiveAck)
  PROVE  Fate' /\ Concluding
<1> DEFINE id == Head(display).id
<1>1. /\ UNCHANGED <<guestVars, displayed, feedback>>
      /\ display # <<>> /\ display' = Tail(display)
      /\ LET gone == {id} \cap InState(Terminal)
         IN  journal' = [i \in Ids |-> IF i \in gone THEN "none" ELSE journal[i]]
  BY DEF InHost, ReceiveAck, Heard
<1>2. \A i \in Ids : RecordMoves(i)
  BY <1>1 DEF RecordMoves, InState
<1> HIDE DEF id
<1> QED BY <1>1, <1>2, HeadIsRead, HostStepKeepsFate

LEMMA ReceiveReplyKeepsFate ==
  ASSUME Evidence, Fate, InHost(ReceiveReply)
  PROVE  Fate' /\ Concluding
<1> DEFINE drain == [type |-> "drain", token |-> token]
<1>1. /\ UNCHANGED <<guestVars, displayed, journal>>
      /\ \E type : Heard(display, type)
      /\ display' = Tail(display)
  BY DEF InHost, ReceiveReply
<1>2. \/ UNCHANGED feedback
      \/ feedback' = Written(feedback, Append(Results(InState(Terminal)), drain))
  BY Zenon DEF InHost, ReceiveReply
<1>3. drain \in ResultCommands /\ drain.type = "drain"
  BY HostIsTyped DEF ResultCommands
<1> HIDE DEF drain
<1>4. Reads
  BY <1>1, HeadIsRead DEF Heard
<1>5. CASE UNCHANGED feedback
  BY <1>1, <1>4, <1>5, BridgeStepKeepsFate
<1>6. CASE feedback' = Written(feedback, Append(Results(InState(Terminal)), drain))
  <2>1. /\ Results(InState(Terminal)) \in Seq(ResultCommands) /\ feedback \in Seq(ResultCommands)
        /\ <<drain>> \in Seq(ResultCommands)
    BY <1>3, LanesAreTyped, ResultsAreCommands DEF Evidence
  <2>2. Append(Results(InState(Terminal)), drain) = Results(InState(Terminal)) \o <<drain>>
    BY <1>3, <2>1
  <2>3. feedback' = Written(feedback, Results(InState(Terminal)) \o <<drain>>)
    BY <1>6, <2>2
  <2>4. \A id : Carries(feedback', "zero", id)
          => \/ Carries(feedback, "zero", id)
             \/ Carries(Results(InState(Terminal)), "zero", id) \/ Carries(<<drain>>, "zero", id)
    <3>1. CASE up
      BY <2>1, <2>3, <3>1, CarriesBoth DEF Written
    <3>2. CASE ~up
      BY <2>3, <3>2 DEF Written
    <3> QED BY <3>1, <3>2
  <2>5. \A id : ~Carries(<<drain>>, "zero", id)
    BY <1>3, CarriesOne
  <2>6. \A id \in Ids : Carries(feedback', "zero", id)
                          => Carries(feedback, "zero", id) \/ journal[id] = "zero"
    BY <2>4, <2>5, ResultsCarryResults
  <2> QED BY <1>1, <1>4, <2>6, UnmovedRecords, HostStepKeepsFate
<1> QED BY <1>2, <1>5, <1>6

\* Steps of the barrier, of the display clock and of the connection.
LEMMA BarrierStepKeepsFate ==
  ASSUME Evidence, Fate,
         \/ \E root \in Roots : InHost(AskReplay(root)) \/ InHost(DisplayTick(root))
         \/ InHost(Settle) \/ InHost(PauseFails \/ StartResume \/ BlindResume \/ ResumeFails)
  PROVE  Fate' /\ Concluding
<1>1. UNCHANGED <<guestVars, displayed, display, journal, feedback>>
  BY DEF InHost, AskReplay, DisplayTick, Settle, PauseFails, StartResume, BlindResume, ResumeFails,
         BeginResume, laneVars
<1> QED BY <1>1, NothingRead, BridgeStepKeepsFate

LEMMA DiscardingStepKeepsFate ==
  ASSUME Evidence, Fate, InHost(StartPause \/ HostDetach)
  PROVE  Fate' /\ Concluding
<1>1. /\ UNCHANGED <<guestVars, displayed, display, feedback>>
      /\ \E ids : journal' = Discard(journal, ids)
  BY DEF InHost, StartPause, HostDetach, laneVars
<1> QED BY <1>1, DiscardedRecordsMove, NothingRead, HostStepKeepsFate

LEMMA ReceiveStartedKeepsFate ==
  ASSUME Evidence, Fate, InHost(ReceiveStarted)
  PROVE  Fate' /\ Concluding
BY HeadIsRead, BridgeStepKeepsFate DEF InHost, ReceiveStarted, Heard

LEMMA DisplaysKeepsFate ==
  ASSUME Evidence, Fate, NEW id \in Ids, Displays(id), UNCHANGED guestVars
  PROVE  Fate'
<1>1. /\ UNCHANGED <<surfaceState, query, ledger, packet, display, feedback>>
      /\ journal[id] = "submitted" /\ journal' = [journal EXCEPT ![id] = "shown"]
      /\ displayed' = displayed \cup {id}
  BY DEF Displays, Drawable, laneVars, guestVars, surfaceState
<1>2. \A i \in Ids : i # id => journal'[i] = journal[i]
  BY <1>1, HostIsTyped
<1>3. journal'[id] = "shown"
  BY <1>1, HostIsTyped
<1>4. GoneIds' = GoneIds
  BY <1>1, <1>2, <1>3 DEF GoneIds, OnItsWay, Sampling
<1>5. ResultFate'
  <2>1. ScenesOnce' /\ UnshownRecords'
    BY <1>1, <1>2, <1>3 DEF Fate, ResultFate, ScenesOnce, UnshownRecords, OnItsWay
  <2>2. ZerosAreTrue' /\ AcksSettle' /\ RecordsSample'
    BY <1>1, <1>4 DEF Fate, ResultFate, ZerosAreTrue, AcksSettle, RecordsSample, OverIds,
                      Sampling, InLedger
  <2> QED BY <2>1, <2>2 DEF ResultFate
<1>6. \A q \in Queries : Ends(q)
  BY <1>1 DEF Ends
<1> QED BY <1>1, <1>4, <1>5, <1>6, QueriesMove DEF Fate

-----------------------------------------------------------------------------
(* The fates of results, samples and queries are an inductive invariant.   *)

LEMMA InitHasFate ==
  Init => Fate
<1> SUFFICES ASSUME Init PROVE Fate
  OBVIOUS
<1> USE LaneAssumption DEF Init, LanesInit, GuestInit, HostInit
<1>1. \A id \in Ids : packet[id].layers = {}
  BY DEF NoPacket
<1>2. Once(display) /\ \A type, id : ~Carries(display, type, id) /\ ~Carries(feedback, type, id)
  BY EmptyLaneCarriesNothing
<1>3. ResultFate
  <2>1. ScenesOnce /\ UnshownRecords
    BY <1>2 DEF ScenesOnce, UnshownRecords, OnItsWay
  <2>2. ZerosAreTrue /\ AcksSettle /\ RecordsSample
    BY <1>2 DEF ZerosAreTrue, AcksSettle, RecordsSample, InLedger
  <2> QED BY <2>1, <2>2 DEF ResultFate
<1>4. SampleFate
  <2>1. Pending = {}
    BY DEF Pending
  <2> QED BY <1>1, <2>1 DEF SampleFate
<1>5. \A q \in Queries : query[q].at = "unused" /\ query[q].commit = 0 /\ ~query[q].retired
  <2> DEFINE Unused == {[at |-> "unused", surface |-> s, commit |-> 0, bound |-> FALSE,
                         retired |-> FALSE, scene |-> 0] : s \in Surfaces}
  <2>1. ASSUME NEW record \in Unused
        PROVE  record.at = "unused" /\ record.commit = 0 /\ ~record.retired
    <3>1. PICK s \in Surfaces :
            record = [at |-> "unused", surface |-> s, commit |-> 0, bound |-> FALSE,
                      retired |-> FALSE, scene |-> 0]
      OBVIOUS
    <3>2. record.at = "unused" /\ record.commit = 0
      BY <3>1
    <3>3. ~record.retired
      BY <3>1
    <3> QED BY <3>2, <3>3
  <2>2. query \in [Queries -> Unused]
    OBVIOUS
  <2> HIDE DEF Unused
  <2> QED BY <2>1, <2>2
<1>6. QueriesFate
  BY <1>5 DEF QueriesFate, QueryFate
<1> QED BY <1>3, <1>4, <1>6 DEF Fate

\* What a step is to clients: a request, a commit, a display, or conclusions.
ClientSees ==
  \/ Concluding
  \/ \E q \in Queries : InGuest(RequestFeedback(q))
  \/ \E s \in Surfaces, kind \in Kinds : InGuest(Commit(s, kind))
  \/ \E id \in Ids : Displays(id) /\ UNCHANGED guestVars

LEMMA NextKeepsFate ==
  ASSUME Evidence, Fate, [Next]_vars
  PROVE  Fate' /\ ClientSees
<1> USE DEF ClientSees
<1>1. CASE InGuest(ClientStep)
  <2>1. \/ \E q \in Queries : InGuest(RequestFeedback(q))
        \/ \E s \in Surfaces, kind \in Kinds : InGuest(Commit(s, kind))
        \/ \E s \in Mortal : InGuest(DestroySurface(s))
    BY <1>1 DEF InGuest, ClientStep
  <2> QED BY <2>1, RequestFeedbackKeepsFate, CommitKeepsFate, DestroySurfaceKeepsFate
<1>2. CASE InGuest(CompositorStep)
  <2>1. \/ InGuest(ApplyUpdate)
        \/ \E root \in Roots : InGuest(ApplyUnblocked(root)) \/ InGuest(Flush(root))
        \/ InGuest(ReceiveCapture) \/ InGuest(ReceiveResult)
        \/ InGuest(ReceivePause) \/ InGuest(ReceiveDrain) \/ InGuest(ReceiveResume)
        \/ \E expired \in SUBSET Outstanding, late, ask \in BOOLEAN :
             InGuest(Tick(expired, late, ask))
        \/ InGuest(SampleRejected \/ SampleFaults) \/ InGuest(SampleAccepted)
        \/ \E id \in Ids : InGuest(SceneSample(id))
        \/ InGuest(GuestDetach)
    BY <1>2 DEF InGuest, CompositorStep
  <2>2. CASE \E root \in Roots : InGuest(ApplyUnblocked(root)) \/ InGuest(Flush(root))
    BY <2>2, ApplyUnblockedKeepsFate, FlushKeepsFate
  <2>3. CASE \E expired \in SUBSET Outstanding, late, ask \in BOOLEAN :
               InGuest(Tick(expired, late, ask))
    BY <2>3, TickKeepsFate
  <2>4. CASE \/ InGuest(SampleRejected \/ SampleFaults) \/ InGuest(SampleAccepted)
             \/ \E id \in Ids : InGuest(SceneSample(id))
    BY <2>4, SampleKeepsFate, SampleAcceptedKeepsFate, SceneSampleKeepsFate
  <2>5. CASE InGuest(ReceivePause) \/ InGuest(ReceiveDrain) \/ InGuest(ReceiveResume)
    BY <2>5, ReceivePauseKeepsFate, ReceiveDrainKeepsFate, ReceiveResumeKeepsFate
  <2> QED BY <2>1, <2>2, <2>3, <2>4, <2>5, ApplyUpdateKeepsFate,
             ReceiveCaptureKeepsFate, ReceiveResultKeepsFate, GuestDetachKeepsFate
<1>3. CASE InHost(HostStep)
  <2>1. \/ \E id \in Ids : InHost(Submit(id) \/ DiscardQueued(id) \/ Drawable(id, "zero"))
        \/ InHost(FlushResults) \/ InHost(AnswerClock)
        \/ \E root \in Recaptured : InHost(AskReplay(root))
        \/ \E root \in Roots : InHost(DisplayTick(root))
        \/ InHost(ReceiveStarted) \/ InHost(ReceiveScene)
        \/ InHost(ReceiveAck) \/ InHost(ReceiveReply)
        \/ InHost(StartPause \/ HostDetach) \/ InHost(Settle)
        \/ InHost(PauseFails \/ StartResume \/ BlindResume \/ ResumeFails)
    BY <1>3 DEF InHost, HostStep
  <2>2. Recaptured \subseteq Roots
    BY LaneAssumption DEF Roots
  <2>3. CASE \/ \E root \in Recaptured : InHost(AskReplay(root))
             \/ \E root \in Roots : InHost(DisplayTick(root))
             \/ InHost(Settle) \/ InHost(PauseFails \/ StartResume \/ BlindResume \/ ResumeFails)
    BY <2>2, <2>3, BarrierStepKeepsFate
  <2>4. CASE \/ InHost(ReceiveStarted) \/ InHost(ReceiveScene)
             \/ InHost(ReceiveAck) \/ InHost(ReceiveReply)
    BY <2>4, ReceiveStartedKeepsFate, ReceiveSceneKeepsFate, ReceiveAckKeepsFate,
       ReceiveReplyKeepsFate
  <2> QED BY <2>1, <2>3, <2>4, RecordStepKeepsFate, FlushResultsKeepsFate, AnswerClockKeepsFate,
             DiscardingStepKeepsFate
<1>4. CASE \E id \in Ids : Displays(id) /\ UNCHANGED guestVars
  BY <1>4, DisplaysKeepsFate
<1>5. CASE Drop /\ UNCHANGED <<guestVars, hostVars, displayed>>
  BY <1>5, DropKeepsFate
<1>6. CASE Connect
  BY <1>6, ConnectKeepsFate
<1>7. CASE UNCHANGED vars
  BY <1>7, NothingRead, BridgeStepKeepsFate DEF vars, laneVars, hostVars
<1> QED BY <1>1, <1>2, <1>3, <1>4, <1>5, <1>6, <1>7 DEF Next

LEMMA FateIsInvariant == Spec => [](Evidence /\ Fate)
<1>1. Init => Fate
  BY InitHasFate
<1>2. Evidence /\ Fate /\ [Next]_vars => Fate'
  BY NextKeepsFate
<1> QED BY <1>1, <1>2, InitHasEvidence, NextKeepsEvidence, PTL DEF Spec

-----------------------------------------------------------------------------
(* What clients, the ledger and the journal are promised.                  *)

LEMMA OnlyConcludingDiscards ==
  ASSUME Evidence, ClientSees, NEW q \in Queries,
         query[q].at # "discarded", query'[q].at = "discarded"
  PROVE  Concluding
<1>1. query \in [Queries -> QueryRecord]
  BY LanesAreTyped
<1>2. ASSUME NEW p \in Queries, InGuest(RequestFeedback(p)) PROVE FALSE
  BY <1>1, <1>2 DEF InGuest, RequestFeedback, Placed
<1>3. ASSUME NEW s \in Surfaces, NEW kind \in Kinds, InGuest(Commit(s, kind)) PROVE FALSE
  BY <1>1, <1>3 DEF InGuest, Commit, Committed
<1>4. ASSUME NEW id \in Ids, Displays(id), UNCHANGED guestVars PROVE FALSE
  BY <1>4 DEF guestVars, ledgerVars
<1> QED BY <1>2, <1>3, <1>4 DEF ClientSees

LEMMA DiscardedIsTrue ==
  ASSUME Evidence, Fate, [Next]_vars, NEW q \in Queries,
         query[q].at # "discarded", query'[q].at = "discarded"
  PROVE  ~WasDisplayed(q)
<1>1. Told(q)
  BY NextKeepsFate, OnlyConcludingDiscards DEF Concluding
<1>2. query[q].at \in {"unused", "listed", "ledger"} \cup Final
  BY LanesAreTyped DEF QueryRecord
<1>3. Progress(query'[q]) = "discarded" /\ Progress(query[q]) # "discarded"
  BY <1>2 DEF Progress
<1> QED BY <1>1, <1>3 DEF Told, Truth

\* The host forgets a record only when it reads the acknowledgement of its end.
LEMMA ForgottenIsAcknowledged ==
  ASSUME Evidence, Fate, Next, NEW id \in Ids, journal[id] # "none", journal'[id] = "none"
  PROVE  Carries(display, "ack", id)
<1>1. journal \in [Ids -> {"none", "queued", "submitted"} \cup Terminal]
  BY DEF Evidence, HostHoldsEvidence
<1>2. CASE InHost(ReceiveAck)
  <2> DEFINE acked == Head(display).id
  <2>1. /\ display # <<>> /\ Head(display).type = "ack"
        /\ LET gone == {acked} \cap InState(Terminal)
           IN  journal' = [i \in Ids |-> IF i \in gone THEN "none" ELSE journal[i]]
    BY <1>2, HeardOnDisplay DEF InHost, ReceiveAck, Heard
  <2>2. id = acked
    BY <1>1, <2>1
  <2> QED BY <2>1, <2>2, LanesAreTyped, TailOfLane
<1>3. \A ids : journal' # Discard(journal, ids)
  BY <1>1 DEF Discard
<1>4. ASSUME InHost(ReceiveScene) PROVE FALSE
  BY <1>1, <1>4 DEF InHost, ReceiveScene, Discard
<1>5. journal' # journal
  OBVIOUS
<1>6. ASSUME NEW i \in Ids, InHost(Submit(i) \/ DiscardQueued(i) \/ Drawable(i, "zero")) \/ Displays(i)
      PROVE  FALSE
  BY <1>1, <1>3, <1>6 DEF InHost, Submit, DiscardQueued, Drawable, Displays
<1>7. ASSUME \/ InHost(StartPause \/ HostDetach \/ Settle \/ PauseFails)
             \/ InHost(StartResume \/ BlindResume \/ ResumeFails)
      PROVE  FALSE
  BY <1>3, <1>5, <1>7
  DEF InHost, StartPause, HostDetach, Settle, PauseFails, StartResume, BlindResume, ResumeFails, BeginResume
<1>8. ASSUME \/ InHost(FlushResults) \/ InHost(AnswerClock) \/ InHost(ReceiveStarted)
             \/ InHost(ReceiveReply)
             \/ \E root \in Roots : InHost(AskReplay(root)) \/ InHost(DisplayTick(root))
      PROVE  FALSE
  BY <1>5, <1>8
  DEF InHost, FlushResults, AnswerClock, ReceiveStarted, ReceiveReply, AskReplay, DisplayTick
<1>9. ASSUME \/ InGuest(ClientStep) \/ InGuest(CompositorStep) \/ Connect
             \/ Drop /\ UNCHANGED <<guestVars, hostVars, displayed>>
      PROVE  FALSE
  BY <1>5, <1>9 DEF InGuest, Connect, hostVars
<1>10. \/ InHost(HostStep) \/ \E i \in Ids : Displays(i)
  BY <1>9 DEF Next
<1>11. Recaptured \subseteq Roots
  BY LaneAssumption DEF Roots
<1> QED BY <1>2, <1>4, <1>6, <1>7, <1>8, <1>10, <1>11 DEF InHost, HostStep

(***************************************************************************)
(* A client whose query is discarded can trust it: when it is told, no     *)
(* drawable that sampled its commit has appeared, after any replacement,   *)
(* destruction, expiry, zero result or reconnection.                       *)
(***************************************************************************)
THEOREM DiscardedIsNotShown == Spec => DiscardedWasNotDisplayed
<1>1. Evidence /\ Fate /\ [Next]_vars
        => [\A q \in Queries : query[q].at # "discarded" /\ query'[q].at = "discarded"
                                 => ~WasDisplayed(q)]_vars
  BY DiscardedIsTrue
<1> QED BY <1>1, FateIsInvariant, PTL DEF Spec, DiscardedWasNotDisplayed

(***************************************************************************)
(* A commit whose outcome is in flight is sampled by no later scene: two   *)
(* results never compete for one query.                                    *)
(***************************************************************************)
THEOREM OneSceneAtATime == Spec => []NoRedisplayInFlight
<1>1. Fate => NoRedisplayInFlight
  BY DEF Fate, QueriesFate, QueryFate, NoRedisplayInFlight
<1> QED BY <1>1, FateIsInvariant, PTL

(***************************************************************************)
(* The host never forgets a result whose record the guest still holds: an  *)
(* acknowledgement exists only of records that are over.                   *)
(***************************************************************************)
THEOREM ResultsAreKept == Spec => ForgottenOnlyWhenSettled
<1>1. ASSUME Evidence, Fate, [Next]_vars, NEW id \in Ids, journal[id] # "none", journal'[id] = "none"
      PROVE  ~InLedger(id)
  <2>1. CASE Next
    BY <1>1, <2>1, ForgottenIsAcknowledged DEF Fate, ResultFate, AcksSettle, OverIds
  <2>2. CASE UNCHANGED vars
    BY <1>1, <2>2 DEF vars, hostVars
  <2> QED BY <1>1, <2>1, <2>2
<1>2. Evidence /\ Fate /\ [Next]_vars
        => [\A id \in Ids : journal[id] # "none" /\ journal'[id] = "none" => ~InLedger(id)]_vars
  BY <1>1
<1> QED BY <1>2, FateIsInvariant, PTL DEF Spec, ForgottenOnlyWhenSettled

-----------------------------------------------------------------------------
(* Guest, host and connection implement FeedbackOutcome.                   *)

\* The mapped state: what clients know, what they ask about, what was shown.
Outcomes == [q \in Queries |-> Outcome(q)]
Contents == [q \in Queries |-> IF query[q].commit = 0 THEN <<>> ELSE Target(q)]
Shown    == UNION {packet[id].layers : id \in displayed}

LEMMA InitIsClientInit == Init => Client!Init
<1> SUFFICES ASSUME Init PROVE Client!Init
  OBVIOUS
<1>1. displayed = {} /\ \A q \in Queries : query[q].at = "unused" /\ query[q].commit = 0
  <2> DEFINE Unused == {[at |-> "unused", surface |-> s, commit |-> 0, bound |-> FALSE,
                         retired |-> FALSE, scene |-> 0] : s \in Surfaces}
  <2>1. \A record \in Unused : record.at = "unused" /\ record.commit = 0
    OBVIOUS
  <2>2. query \in [Queries -> Unused] /\ displayed = {}
    BY DEF Init, GuestInit
  <2> HIDE DEF Unused
  <2> QED BY <2>1, <2>2
<1> QED BY <1>1 DEF Client!Init, Client!Nothing, Outcome

LEMMA CommitsAreNotNothing ==
  ASSUME NEW q
  PROVE  Target(q) # <<>> /\ Len(Target(q)) = 2
BY DEF Target

LEMMA ShownAreLayers ==
  ASSUME Evidence, Fate
  PROVE  /\ Shown \subseteq Surfaces \X Ids
         /\ \A q \in Queries : WasDisplayed(q) <=> Contents[q] \in Shown
<1>1. displayed \subseteq Ids
  BY DEF Evidence, HostHoldsEvidence
<1>2. Shown \subseteq Surfaces \X Ids
  BY <1>1, LayersAreCommits DEF Shown
<1>3. <<>> \notin Surfaces \X Ids
  OBVIOUS
<1>4. ASSUME NEW q \in Queries PROVE WasDisplayed(q) <=> Contents[q] \in Shown
  <2>1. CASE query[q].commit = 0
    BY <1>1, <1>2, <1>3, <2>1, LayersAreCommits DEF WasDisplayed, Contents
  <2>2. CASE query[q].commit # 0
    BY <2>2 DEF WasDisplayed, Contents, Shown, Shows
  <2> QED BY <2>1, <2>2
<1> QED BY <1>2, <1>4

LEMMA ConcludingIsConclude ==
  ASSUME Evidence, Fate, Concluding
  PROVE  \E Q \in SUBSET Queries : \E end \in [Q -> Client!Ended] : Client!Conclude(Q, end)
<1> DEFINE Q   == {q \in Queries : Progress(query'[q]) # Progress(query[q])}
           end == [q \in Q |-> query'[q].at]
<1>1. \A q \in Queries : Outcome(q) = Progress(query[q]) /\ Outcome(q)' = Progress(query'[q])
  BY DEF Outcome, Progress
<1>2. ASSUME NEW q \in Q
      PROVE  /\ Outcome(q) = "pending" /\ Outcome(q)' = end[q]
             /\ end[q] \in {"presented", "discarded", "failed"} /\ Truth(q, end[q])
  <2>1. Progress(query[q]) = "pending" /\ Truth(q, query'[q].at)
    BY DEF Concluding, Told
  <2>2. query'[q].at \in {"presented", "discarded", "failed"}
    BY <2>1 DEF Truth
  <2> QED BY <1>1, <2>1, <2>2 DEF Progress
<1>3. \A q \in Queries \ Q : Outcome(q)' = Outcome(q)
  BY <1>1
<1>4. Shown' = Shown
  BY DEF Concluding, Shown
<1>5. Contents' = Contents
  BY DEF Concluding, Told, Contents, Target
<1> HIDE DEF Q, end
<1>6. Q \in SUBSET Queries /\ end \in [Q -> {"presented", "discarded", "failed"}]
  BY <1>2 DEF Q, end
<1>7. \A q \in Q : Outcomes[q] = "pending" /\ Client!Truthful(q, end[q])
  BY <1>2, <1>6, ShownAreLayers DEF Truth, Outcomes, Contents, Shown, Client!Truthful
<1>8. Outcomes' = [q \in Queries |-> IF q \in Q THEN end[q] ELSE Outcomes[q]]
  BY <1>2, <1>3, <1>6 DEF Outcomes
<1> QED BY <1>4, <1>5, <1>6, <1>7, <1>8
  DEF Client!Conclude, Client!Ended, Outcomes, Contents, Shown

LEMMA RequestIsRequest ==
  ASSUME Evidence, Fate, NEW q \in Queries, InGuest(RequestFeedback(q))
  PROVE  Client!Request(q)
<1>1. /\ query \in [Queries -> QueryRecord]
      /\ query' = [query EXCEPT ![q] = Placed(query[q], "listed", 0)] /\ query[q].at = "unused"
      /\ packet' = packet /\ displayed' = displayed
  BY LanesAreTyped DEF InGuest, RequestFeedback
<1>2. \A p \in Queries : /\ query'[p].surface = query[p].surface
                         /\ query'[p].commit = query[p].commit
                         /\ p # q => query'[p].at = query[p].at
  BY <1>1 DEF Placed
<1>3. query'[q].at = "listed"
  BY <1>1 DEF Placed
<1>4. Contents' = Contents /\ Shown' = Shown
  BY <1>1, <1>2 DEF Contents, Target, Shown
<1>5. Outcomes[q] = "unused" /\ Outcomes' = [Outcomes EXCEPT ![q] = "pending"]
  BY <1>1, <1>2, <1>3 DEF Outcomes, Outcome
<1> QED BY <1>4, <1>5 DEF Client!Request, Outcomes, Contents, Shown

LEMMA CommitIsBind ==
  ASSUME Evidence, Fate, NEW s \in Surfaces, NEW kind \in Kinds, InGuest(Commit(s, kind))
  PROVE  \E Q \in SUBSET Queries, layer \in Layer : Client!Bind(Q, layer)
<1> DEFINE Q == {q \in Listed(s) : query[q].commit = 0}
           layer == <<s, nextId>>
<1>1. /\ IdsLeft(2) /\ packet' = packet /\ displayed' = displayed
      /\ query' = [q \in Queries |-> IF q \in Q THEN Committed(query[q], nextId) ELSE query[q]]
  BY DEF InGuest, Commit
<1>2. nextId \in Ids
  <2>1. nextId \in 1 .. MaxId + 1 /\ nextId + 2 <= MaxId + 1
    BY <1>1, IdsLeftBounds
  <2> QED BY <2>1, LaneAssumption DEF Ids
<1>3. Q \in SUBSET Queries /\ \A q \in Q : query[q].at = "listed" /\ query[q].surface = s
                                            /\ query[q].commit = 0
  BY DEF Listed
<1> HIDE DEF Q
<1>4. \A q \in Q : /\ query'[q].at = query[q].at /\ query'[q].surface = s
                   /\ query'[q].commit = nextId
  BY <1>1, <1>3 DEF Committed
<1>5. \A q \in Queries \ Q : query'[q] = query[q]
  BY <1>1
<1>6. Outcomes' = Outcomes /\ Shown' = Shown
  BY <1>1, <1>4, <1>5 DEF Outcomes, Outcome, Shown
<1>7. Contents' = [q \in Queries |-> IF q \in Q THEN layer ELSE Contents[q]]
  BY <1>2, <1>3, <1>4, <1>5 DEF Contents, Target, Ids
<1>8. \A q \in Q : Outcomes[q] = "pending" /\ Contents[q] = <<>>
  BY <1>3 DEF Outcomes, Outcome, Contents
<1>9. layer \in Layer
  BY <1>2 DEF Layer
<1> HIDE DEF layer
<1> QED BY <1>3, <1>6, <1>7, <1>8, <1>9
  DEF Client!Bind, Client!Nothing, Outcomes, Contents, Shown

LEMMA DisplaysIsShow ==
  ASSUME Evidence, Fate, NEW id \in Ids, Displays(id), UNCHANGED guestVars
  PROVE  \E layers \in SUBSET Layer : Client!Show(layers)
<1>1. query' = query /\ packet' = packet /\ displayed' = displayed \cup {id}
  BY DEF Displays, guestVars, ledgerVars
<1>2. packet[id].layers \in SUBSET Layer
  BY LayersAreCommits DEF Layer
<1>3. Outcomes' = Outcomes /\ Contents' = Contents
  BY <1>1 DEF Outcomes, Outcome, Contents, Target
<1>4. Shown' = Shown \cup packet[id].layers
  BY <1>1 DEF Shown
<1> QED BY <1>2, <1>3, <1>4 DEF Client!Show, Outcomes, Contents, Shown

(***************************************************************************)
(* Guest, host and lossy connection together implement FeedbackOutcome:    *)
(* whatever happens between a commit and its drawable, each client sees    *)
(* its query end at most once, and truthfully.                             *)
(***************************************************************************)
THEOREM ClientsAreServed == Spec => ClientSpec
<1>1. Init => Client!Init
  BY InitIsClientInit
<1>2. Evidence /\ Fate /\ [Next]_vars => [Client!Next]_(Client!outcomeVars)
  <2> SUFFICES ASSUME Evidence, Fate, [Next]_vars PROVE Client!Next
    OBVIOUS
  <2>1. ClientSees
    BY NextKeepsFate
  <2> QED BY <2>1, ConcludingIsConclude, RequestIsRequest, CommitIsBind, DisplaysIsShow
    DEF ClientSees, Client!Next
<1> QED BY <1>1, <1>2, FateIsInvariant, PTL DEF Spec, ClientSpec, Client!Spec

(***************************************************************************)
(* The pause barrier.  What host and guest believe of each other is tied   *)
(* by the tokens: they only grow, a reply never names a barrier the guest  *)
(* has not heard of, and the host's current token is the last one handed   *)
(* out, so that nothing but its own answer can end its wait.               *)
(***************************************************************************)

BarrierTypes == {"pause", "resume"}
ReplyTypes   == {"reached", "drained", "resumed"}
Unasked == \A i \in DOMAIN control : control[i].type \notin BarrierTypes
Drained == \E i \in DOMAIN display : display[i].type = "drained" /\ display[i].token = token
Resumed == \E i \in DOMAIN display : display[i].type = "resumed" /\ display[i].token = token

\* One connection at a time: the host knows its session only after the start event.
Linked ==
  /\ ~up => display = <<>> /\ control = <<>>
  /\ session => attached
  /\ \A i \in DOMAIN display : display[i].type = "started" => i = 1 /\ ~session

\* Tokens grow: in the lanes and in the guest there are only those handed out, and
\* replies name barriers the guest has heard.
Tokens ==
  /\ pause.lastBarrier < nextToken
  /\ pause.pauseToken <= pause.lastBarrier /\ pause.drainToken <= pause.lastBarrier
  /\ pause.resumeToken <= pause.lastBarrier /\ pause.completedResume <= pause.lastBarrier
  /\ \A i \in DOMAIN display : display[i].type \in ReplyTypes => display[i].token <= pause.lastBarrier
  /\ \A i \in DOMAIN control : control[i].type \in BarrierTypes => control[i].token < nextToken

\* A barrier is of this connection, and drawing is closed while it lasts.
Gated ==
  /\ phase \in {"pausing", "settling", "fencing", "draining", "sealed", "resuming"} /\ ~stale => session
  /\ phase \in {"pausing", "settling", "fencing", "draining", "sealed"} /\ ~stale => gated

\* Nobody has asked the guest of this connection for anything.
Untouched == pause.lastBarrier = 0 /\ ~pause.paused /\ Unasked
Unheard   == ~session \/ (phase \in {"blindSettling", "blindSealed", "blindResuming"} /\ ~stale)
Blind     == up /\ Unheard => Untouched

\* The fence: scenes go ahead of its reply, records before its drain.
FenceHeard ==
  /\ \A i \in DOMAIN control : control[i].type = "resume" => control[i].token # token
  /\ pause.lastBarrier = token => pause.pauseToken = token
  /\ phase # "fencing" => pause.lastBarrier = token
FenceHolds ==
  /\ \A i, j \in DOMAIN display :
       i < j /\ display[i].type = "reached" /\ display[i].token = token => display[j].type # "scene"
  /\ phase # "fencing" => \A i \in DOMAIN display : display[i].type # "scene"
  /\ Drained \/ phase = "sealed" => Outstanding = {}
Fenced ==
  phase \in {"fencing", "draining", "sealed"} /\ ~stale =>
    /\ token + 1 = nextToken /\ token # 0 /\ Settled
    /\ up => FenceHeard /\ (pause.lastBarrier = token /\ pause.paused => FenceHolds)

\* The resume: nothing follows it, and its reply means that the guest is open.
ResumeHeard ==
  /\ \A i \in DOMAIN control : control[i].type = "pause" => control[i].token # token
  /\ \A i, j \in DOMAIN control :
       i < j /\ control[i].type = "resume" /\ control[i].token = token => control[j].type \notin BarrierTypes
  /\ pause.lastBarrier = token => Unasked
  /\ Resumed \/ pause.completedResume = token => ~pause.paused
Lifted ==
  phase = "resuming" /\ ~stale => token + 1 = nextToken /\ token # 0 /\ (up => ResumeHeard)

Open == phase = "open" /\ up => ~pause.paused /\ Unasked

Barriers == Linked /\ Tokens /\ Gated /\ Blind /\ Fenced /\ Lifted /\ Open

-----------------------------------------------------------------------------
(* Lanes keep their order.                                                 *)

\* What is left of a lane after some of it was read.
Sublane(new, old) ==
  /\ \A i \in DOMAIN new : \E k \in DOMAIN old : new[i] = old[k]
  /\ \A i, j \in DOMAIN new : i < j => \E k, l \in DOMAIN old : k < l /\ new[i] = old[k] /\ new[j] = old[l]

LEMMA SameLane == ASSUME NEW lane PROVE Sublane(lane, lane)
BY DEF Sublane

LEMMA TailInOrder ==
  ASSUME NEW S, NEW lane \in Seq(S), lane # <<>>
  PROVE  Sublane(Tail(lane), lane)
<1>1. \A i \in DOMAIN Tail(lane) : i \in Nat /\ i + 1 \in DOMAIN lane /\ Tail(lane)[i] = lane[i + 1]
  OBVIOUS
<1>2. \A i, j \in DOMAIN Tail(lane) : i < j => i + 1 < j + 1
  BY <1>1
<1> QED BY <1>1, <1>2 DEF Sublane

LEMMA RemovedInOrder ==
  ASSUME NEW S, NEW lane \in Seq(S), NEW i \in DOMAIN lane
  PROVE  Sublane(RemoveAt(lane, i), lane)
<1> DEFINE rest == RemoveAt(lane, i)
           Old(k) == IF k < i THEN k ELSE k + 1
<1>1. \A k \in DOMAIN rest : k \in Nat /\ Old(k) \in DOMAIN lane /\ rest[k] = lane[Old(k)]
  BY RemovedEntries
<1>2. i \in Nat
  OBVIOUS
<1> HIDE DEF rest
<1>3. \A k, l \in DOMAIN rest : k < l => Old(k) < Old(l)
  BY <1>1, <1>2
<1> HIDE DEF Old
<1>4. Sublane(rest, lane)
  BY <1>1, <1>3 DEF Sublane
<1> QED BY <1>4 DEF rest

LEMMA StartsFirst ==
  ASSUME NEW S, NEW old, NEW new \in Seq(S), Sublane(new, old),
         \A i \in DOMAIN old : i \in Nat \ {0} /\ (old[i].type = "started" => i = 1)
  PROVE  \A i \in DOMAIN new : new[i].type = "started" => i = 1
<1> SUFFICES ASSUME NEW i \in DOMAIN new, new[i].type = "started", i # 1
             PROVE  FALSE
  OBVIOUS
<1>1. 1 \in DOMAIN new /\ 1 < i
  OBVIOUS
<1>2. PICK k \in DOMAIN old, l \in DOMAIN old : k < l /\ new[i] = old[l]
  BY <1>1 DEF Sublane
<1> QED BY <1>2

\* The entries of a lane that was written.
LEMMA WrittenEntries ==
  ASSUME NEW S, NEW lane \in Seq(S), NEW more \in Seq(S), NEW new, new = Written(lane, more)
  PROVE  /\ new \in Seq(S)
         /\ \A i \in DOMAIN new :
              /\ i \in Nat \ {0}
              /\ \/ i \in DOMAIN lane /\ new[i] = lane[i]
                 \/ i \notin DOMAIN lane /\ up /\ \E k \in DOMAIN more : new[i] = more[k]
         /\ \A i, j \in DOMAIN new : i < j /\ j \in DOMAIN lane => i \in DOMAIN lane
<1>1. CASE up
  <2>1. new = lane \o more
    BY <1>1 DEF Written
  <2>2. \A i \in DOMAIN new :
          \/ i \in DOMAIN lane /\ new[i] = lane[i]
          \/ i - Len(lane) \in DOMAIN more /\ new[i] = more[i - Len(lane)]
    BY <2>1, Appended
  <2>3. \A i \in DOMAIN new : i \in Nat \ {0}
    BY <2>1
  <2>4. \A i \in Nat : i - Len(lane) \in DOMAIN more => i \notin DOMAIN lane
    OBVIOUS
  <2> QED BY <1>1, <2>1, <2>2, <2>3, <2>4
<1>2. CASE ~up
  BY <1>2 DEF Written
<1> QED BY <1>1, <1>2

-----------------------------------------------------------------------------
(* The guest.                                                              *)

LEMMA EventsAreMessages == SceneEvents \subseteq DisplayMessage
BY DEF SceneEvents, DisplayMessage

LEMMA BarrierTypesHold ==
  ASSUME Evidence
  PROVE  /\ display \in Seq(SceneEvents) /\ control \in Seq(BarrierCommands)
         /\ pause \in PauseRecord /\ token \in Nat /\ nextToken \in Nat
         /\ \A i \in DOMAIN display : display[i] \in SceneEvents
                                        /\ (display[i].type \in ReplyTypes => display[i].token \in Nat)
         /\ \A i \in DOMAIN control : control[i] \in BarrierCommands
                                        /\ (control[i].type \in BarrierTypes => control[i].token \in Nat)
<1>1. display \in Seq(SceneEvents) /\ control \in Seq(BarrierCommands)
  BY LanesAreTyped
<1>2. \A m \in SceneEvents : m.type \in ReplyTypes => m.token \in Nat
  BY DEF SceneEvents, ReplyTypes
<1>3. \A m \in BarrierCommands : m.type \in BarrierTypes => m.token \in Nat
  BY DEF BarrierCommands, BarrierTypes
<1> QED BY <1>1, <1>2, <1>3, LanesAreTyped DEF Evidence, HostHoldsEvidence

\* What is left of control asks for nothing that was not asked before.
LEMMA ControlIsRead ==
  ASSUME Evidence, control' = control \/ (control # <<>> /\ control' = Tail(control))
  PROVE  Sublane(control', control) /\ control' \in Seq(BarrierCommands)
<1>1. control \in Seq(BarrierCommands)
  BY LanesAreTyped
<1>2. CASE control' = control
  BY <1>1, <1>2, SameLane
<1>3. CASE control # <<>> /\ control' = Tail(control)
  <2>1. Tail(control) \in Seq(BarrierCommands)
    BY <1>1, <1>3
  <2> QED BY <1>1, <1>3, <2>1, TailInOrder
<1> QED BY <1>2, <1>3

\* Whatever the guest does but hear of a new barrier: it reads control, opens its gate
\* perhaps, and says what is true of its gate and of its records.
Says(more) ==
  /\ more \in Seq(DisplayMessage)
  /\ \A k \in DOMAIN more :
       /\ more[k].type # "started"
       /\ more[k].type = "scene" => ~pause'.paused
       /\ more[k].type \in ReplyTypes => more[k].token <= pause.lastBarrier
       /\ more[k].type = "drained" => (pause'.paused => Outstanding' = {})
       /\ more[k].type = "resumed" => ~pause'.paused \/ more[k].token = pause.completedResume

GuestMoves ==
  /\ pause'.lastBarrier = pause.lastBarrier /\ pause'.pauseToken = pause.pauseToken
  /\ pause'.drainToken <= pause.lastBarrier /\ pause'.resumeToken <= pause.lastBarrier
  /\ \/ pause'.completedResume = pause.completedResume
     \/ pause'.completedResume <= pause.lastBarrier /\ ~pause'.paused
  /\ pause'.paused => pause.paused
  /\ pause'.paused => Outstanding' \subseteq Outstanding

LEMMA GuestKeepsBarriers ==
  ASSUME Evidence, Barriers, UNCHANGED <<up, hostVars>>,
         control' = control \/ (control # <<>> /\ control' = Tail(control)),
         GuestMoves, NEW more, Says(more), display' = Written(display, more)
  PROVE  Barriers'
<1>1. UNCHANGED <<up, attached, session, gated, phase, token, stale, nextToken>> /\ Settled' = Settled
  BY DEF hostVars, Settled, InState
<1>2. Sublane(control', control) /\ control' \in Seq(BarrierCommands)
  BY ControlIsRead
<1>3. /\ display' \in Seq(DisplayMessage)
      /\ \A i \in DOMAIN display' :
           /\ i \in Nat \ {0}
           /\ \/ i \in DOMAIN display /\ display'[i] = display[i]
              \/ i \notin DOMAIN display /\ up /\ \E k \in DOMAIN more : display'[i] = more[k]
      /\ \A i, j \in DOMAIN display' : i < j /\ j \in DOMAIN display => i \in DOMAIN display
  BY BarrierTypesHold, EventsAreMessages, LargerLane, WrittenEntries DEF Says
<1>4. Unasked => Unasked'
  BY <1>2 DEF Unasked, Sublane
<1>5. Linked'
  <2>1. ~up => display' = <<>> /\ control' = <<>>
    BY DEF Barriers, Linked, Says, Written
  <2>2. \A i \in DOMAIN display' : display'[i].type = "started" => i = 1 /\ ~session
    BY <1>3 DEF Barriers, Linked, Says
  <2> QED BY <1>1, <2>1, <2>2 DEF Barriers, Linked
<1>6. Tokens'
  <2>1. \A i \in DOMAIN display' : display'[i].type \in ReplyTypes => display'[i].token <= pause.lastBarrier
    BY <1>3 DEF Barriers, Tokens, Says
  <2>2. \A i \in DOMAIN control' : control'[i].type \in BarrierTypes => control'[i].token < nextToken
    BY <1>2 DEF Barriers, Tokens, Sublane
  <2> QED BY <1>1, <2>1, <2>2 DEF Barriers, Tokens, GuestMoves
<1>7. Gated'
  BY <1>1 DEF Barriers, Gated
<1>8. Blind' /\ Open'
  BY <1>1, <1>4 DEF Barriers, Blind, Open, Untouched, Unheard, GuestMoves
<1>9. Fenced'
  <2> SUFFICES ASSUME phase \in {"fencing", "draining", "sealed"}, ~stale, up
               PROVE  FenceHeard' /\ (pause'.lastBarrier = token /\ pause'.paused => FenceHolds')
    BY <1>1 DEF Barriers, Fenced
  <2>1. FenceHeard /\ (pause.lastBarrier = token /\ pause.paused => FenceHolds)
    BY DEF Barriers, Fenced
  <2>2. FenceHeard'
    BY <1>1, <1>2, <2>1 DEF FenceHeard, Sublane, GuestMoves
  <2>3. ASSUME pause'.lastBarrier = token, pause'.paused PROVE FenceHolds'
    <3>1. FenceHolds /\ Outstanding' \subseteq Outstanding
      BY <2>1, <2>3 DEF GuestMoves
    <3>2. \A k \in DOMAIN more : more[k].type # "scene"
      BY <2>3 DEF Says
    <3>3. \A i, j \in DOMAIN display' :
            i < j /\ display'[i].type = "reached" /\ display'[i].token = token => display'[j].type # "scene"
      BY <1>3, <3>1, <3>2 DEF FenceHolds
    <3>4. phase # "fencing" => \A i \in DOMAIN display' : display'[i].type # "scene"
      BY <1>3, <3>1, <3>2 DEF FenceHolds
    <3>5. ASSUME Drained' \/ phase = "sealed" PROVE Outstanding' = {}
      <4>1. CASE Drained \/ phase = "sealed"
        BY <3>1, <4>1 DEF FenceHolds
      <4>2. CASE Drained' /\ ~Drained
        <5>1. \E k \in DOMAIN more : more[k].type = "drained"
          BY <1>1, <1>3, <4>2 DEF Drained
        <5> QED BY <2>3, <5>1 DEF Says
      <4> QED BY <3>5, <4>1, <4>2
    <3> QED BY <1>1, <3>3, <3>4, <3>5 DEF FenceHolds
  <2> QED BY <2>2, <2>3
<1>10. Lifted'
  <2> SUFFICES ASSUME phase = "resuming", ~stale, up
               PROVE  ResumeHeard'
    BY <1>1 DEF Barriers, Lifted
  <2>1. ResumeHeard
    BY DEF Barriers, Lifted
  <2>2. \A i \in DOMAIN control' : control'[i].type = "pause" => control'[i].token # token
    BY <1>2, <2>1 DEF ResumeHeard, Sublane
  <2>3. ASSUME NEW i \in DOMAIN control', NEW j \in DOMAIN control', i < j,
               control'[i].type = "resume", control'[i].token = token
        PROVE  control'[j].type \notin BarrierTypes
    <3>1. PICK k \in DOMAIN control, l \in DOMAIN control :
            k < l /\ control'[i] = control[k] /\ control'[j] = control[l]
      BY <1>2, <2>3 DEF Sublane
    <3> QED BY <2>1, <2>3, <3>1 DEF ResumeHeard
  <2>4. pause'.lastBarrier = token => Unasked'
    BY <1>4, <2>1 DEF ResumeHeard, GuestMoves
  <2>5. ASSUME Resumed' \/ pause'.completedResume = token PROVE ~pause'.paused
    <3>1. CASE Resumed \/ pause.completedResume = token
      BY <2>1, <3>1 DEF ResumeHeard, GuestMoves
    <3>2. CASE Resumed' /\ ~Resumed
      <4>1. \E k \in DOMAIN more : more[k].type = "resumed" /\ more[k].token = token
        BY <1>1, <1>3, <3>2 DEF Resumed
      <4> QED BY <3>1, <4>1 DEF Says
    <3>3. CASE pause'.completedResume = token /\ pause.completedResume # token
      BY <3>3 DEF GuestMoves
    <3> QED BY <2>5, <3>1, <3>2, <3>3
  <2> QED BY <1>1, <2>2, <2>3, <2>4, <2>5 DEF ResumeHeard
<1> QED BY <1>5, <1>6, <1>7, <1>8, <1>9, <1>10 DEF Barriers

\* A step of the guest that leaves its barrier alone.
LEMMA SilentStep ==
  ASSUME Evidence, Barriers, UNCHANGED <<up, hostVars, pause>>,
         control' = control \/ (control # <<>> /\ control' = Tail(control)),
         display' = display \/ display' = Written(display, ClockRequest),
         pause.paused => Outstanding' \subseteq Outstanding
  PROVE  Barriers'
<1>1. GuestMoves
  BY BarrierTypesHold DEF GuestMoves, Barriers, Tokens
<1>2. PICK more \in {<<>>, ClockRequest} : display' = Written(display, more)
  BY BarrierTypesHold DEF Written
<1>3. ClockRequest \in Seq(DisplayMessage) /\ \A k \in DOMAIN ClockRequest : ClockRequest[k].type = "clock"
  <2> DEFINE m == [type |-> "clock", epoch |-> epoch]
  <2>1. m \in DisplayMessage /\ m.type = "clock"
    BY LanesAreTyped DEF DisplayMessage
  <2> HIDE DEF m
  <2>2. <<m>> \in Seq(DisplayMessage) /\ \A k \in DOMAIN <<m>> : <<m>>[k].type = "clock"
    BY <2>1
  <2> QED BY <2>2 DEF m, ClockRequest
<1>4. more \in Seq(DisplayMessage) /\ \A k \in DOMAIN more : more[k].type = "clock"
  <2>1. <<>> \in Seq(DisplayMessage) /\ DOMAIN <<>> = {}
    OBVIOUS
  <2> HIDE DEF ClockRequest
  <2> QED BY <1>2, <1>3, <2>1
<1>5. Says(more)
  BY <1>2, <1>4 DEF Says, ReplyTypes
<1> QED BY <1>1, <1>2, <1>5, GuestKeepsBarriers

LEMMA SurfaceStepKeepsBarriers ==
  ASSUME Evidence, Barriers,
         \/ \E q \in Queries : InGuest(RequestFeedback(q))
         \/ \E s \in Surfaces, kind \in Kinds : InGuest(Commit(s, kind))
         \/ \E s \in Mortal : InGuest(DestroySurface(s))
         \/ InGuest(ApplyUpdate) \/ \E root \in Roots : InGuest(ApplyUnblocked(root))
         \/ InGuest(ReceiveCapture) \/ InGuest(SampleRejected)
  PROVE  Barriers'
<1>1. UNCHANGED <<up, hostVars, pause, ledger>>
      /\ (control' = control \/ (control # <<>> /\ control' = Tail(control)))
      /\ (display' = display \/ display' = Written(display, ClockRequest))
  BY DEF InGuest, RequestFeedback, Commit, DestroySurface, ApplyUpdate, ApplyUnblocked, ReceiveCapture,
         SampleRejected, SampleArrives, Heard, laneVars, ledgerVars
<1>2. Outstanding' = Outstanding
  BY <1>1 DEF Outstanding, InLedger
<1> QED BY <1>1, <1>2, SilentStep

\* What the guest says on one lane in one step.
LEMMA SaysBoth ==
  ASSUME NEW a, NEW b, Says(a), Says(b)
  PROVE  Says(a \o b)
<1>1. a \in Seq(DisplayMessage) /\ b \in Seq(DisplayMessage) /\ a \o b \in Seq(DisplayMessage)
  BY DEF Says
<1>2. \A k \in DOMAIN (a \o b) :
        \/ k \in DOMAIN a /\ (a \o b)[k] = a[k]
        \/ k - Len(a) \in DOMAIN b /\ (a \o b)[k] = b[k - Len(a)]
  BY <1>1, Appended
<1> DEFINE both == a \o b
<1>3. both \in Seq(DisplayMessage)
  BY <1>1
<1>4. \A k \in DOMAIN both : (\E l \in DOMAIN a : both[k] = a[l]) \/ (\E l \in DOMAIN b : both[k] = b[l])
  BY <1>2
<1> HIDE DEF both
<1>5. Says(both)
  BY <1>3, <1>4 DEF Says
<1> QED BY <1>5 DEF both

LEMMA SaysNothing == Says(<<>>)
BY DEF Says

LEMMA SaysOne ==
  ASSUME NEW m \in DisplayMessage, m.type # "started",
         m.type = "scene" => ~pause'.paused,
         m.type \in ReplyTypes => m.token <= pause.lastBarrier,
         m.type = "drained" => (pause'.paused => Outstanding' = {}),
         m.type = "resumed" => ~pause'.paused \/ m.token = pause.completedResume
  PROVE  Says(<<m>>)
<1>1. <<m>> \in Seq(DisplayMessage) /\ \A k \in DOMAIN <<m>> : <<m>>[k] = m
  OBVIOUS
<1> QED BY <1>1 DEF Says

LEMMA SaysReply ==
  ASSUME Evidence, NEW type \in ReplyTypes, NEW t \in Nat, t <= pause.lastBarrier,
         type = "drained" => (pause'.paused => Outstanding' = {}),
         type = "resumed" => ~pause'.paused \/ t = pause.completedResume
  PROVE  Says(<<[type |-> type, token |-> t]>>)
<1> DEFINE m == [type |-> type, token |-> t]
<1>1. m \in DisplayMessage /\ m.type = type /\ m.token = t /\ type # "started" /\ type # "scene"
  BY DEF DisplayMessage, ReplyTypes
<1> HIDE DEF m
<1>2. Says(<<m>>)
  BY <1>1, SaysOne
<1> QED BY <1>2 DEF m

LEMMA SaysClock ==
  ASSUME Evidence, NEW e \in Nat
  PROVE  Says(<<[type |-> "clock", epoch |-> e]>>)
<1> DEFINE m == [type |-> "clock", epoch |-> e]
<1>1. m \in DisplayMessage /\ m.type = "clock"
  BY DEF DisplayMessage
<1> HIDE DEF m
<1>2. Says(<<m>>)
  BY <1>1, SaysOne DEF ReplyTypes
<1> QED BY <1>2 DEF m

LEMMA SaysAcks ==
  ASSUME NEW ids \in SUBSET Ids
  PROVE  Says(Acks(ids))
<1>1. Acks(ids) \in Seq(DisplayMessage)
  BY AcksAreEvents, EventsAreMessages, LargerLane
<1>2. \A k \in DOMAIN Acks(ids) : Acks(ids)[k].type = "ack"
  BY AcksCarryAcks
<1> QED BY <1>1, <1>2 DEF Says, ReplyTypes

LEMMA SaysDrained ==
  ASSUME Evidence, Barriers, NEW left, Outstanding' = left
  PROVE  Says(DrainReply(left))
<1>1. pause.drainToken \in Nat /\ pause.drainToken <= pause.lastBarrier
  BY LanesAreTyped DEF Barriers, Tokens, PauseRecord
<1>2. CASE DrainDone(left)
  <2>1. Says(<<[type |-> "drained", token |-> pause.drainToken]>>)
    BY <1>1, <1>2, SaysReply DEF ReplyTypes, DrainDone
  <2> QED BY <1>2, <2>1 DEF DrainReply
<1>3. CASE ~DrainDone(left)
  BY <1>3, SaysNothing DEF DrainReply
<1> QED BY <1>2, <1>3

LEMMA AcknowledgeKeepsBarriers ==
  ASSUME Evidence, Barriers, UNCHANGED <<up, hostVars, control>>, NEW ids \in SUBSET Ids, Acknowledge(ids)
  PROVE  Barriers'
<1>1. Outstanding' = Outstanding \ ids
  BY DEF Acknowledge, Without, Outstanding, InLedger
<1>2. GuestMoves
  BY <1>1, BarrierTypesHold DEF Acknowledge, AfterDrain, GuestMoves, PauseRecord, Barriers, Tokens
<1>3. Says(Acks(ids) \o DrainReply(Outstanding \ ids))
  BY <1>1, SaysAcks, SaysDrained, SaysBoth
<1> QED BY <1>2, <1>3, GuestKeepsBarriers DEF Acknowledge

LEMMA FlushShownKeepsBarriers ==
  ASSUME Evidence, Barriers, UNCHANGED <<up, hostVars, control>>, NEW ids \in SUBSET Ids,
         NEW limited, FlushShown(ids, limited)
  PROVE  Barriers'
<1>1. PICK done \in Presentable(ids) : Acknowledge(done)
  BY DEF FlushShown
<1>2. done \in SUBSET Ids
  BY <1>1 DEF Presentable
<1> QED BY <1>1, <1>2, AcknowledgeKeepsBarriers

LEMMA ReceiveResultKeepsBarriers ==
  ASSUME Evidence, Barriers, InGuest(ReceiveResult)
  PROVE  Barriers'
<1> DEFINE id == Head(feedback).id
<1>1. UNCHANGED <<up, hostVars, control>>
  BY DEF InGuest, ReceiveResult
<1>2. /\ Head(feedback) \in ResultCommands
      /\ Head(feedback).type \in {"zero", "shown"}
  BY LanesAreTyped, HeardIsMember DEF InGuest, ReceiveResult
<1>3. id \in Ids
  BY <1>2 DEF ResultCommands, Evidence, HostHoldsEvidence
<1>4. \/ ~InLedger(id) /\ display' = Written(display, <<[type |-> "ack", id |-> id]>>)
                       /\ UNCHANGED <<pause, ledger>>
      \/ Acknowledge({id}) \/ FlushShown({id}, ceiling)
      \/ InLedger(id) /\ ledger' = [ledger EXCEPT ![id] = "shown"] /\ UNCHANGED <<pause, display>>
  <2>1. CASE ~InLedger(id)
    BY <2>1 DEF InGuest, ReceiveResult, RepeatAck, ledgerVars
  <2>2. CASE InLedger(id)
    <3> DEFINE value == IF ledger[id] = "open" THEN Head(feedback).type ELSE "shown"
    <3>1. value = "zero" \/ value = "shown"
      BY <1>2
    <3>2. CASE value = "zero"
      BY <2>2, <3>2 DEF InGuest, ReceiveResult
    <3>3. CASE value = "shown"
      BY <2>2, <3>3 DEF InGuest, ReceiveResult
    <3> QED BY <3>1, <3>2, <3>3
  <2> QED BY <2>1, <2>2
<1> HIDE DEF id
<1>5. CASE UNCHANGED <<pause, ledger>> /\ display' = Written(display, <<[type |-> "ack", id |-> id]>>)
  <2> DEFINE m == [type |-> "ack", id |-> id]
  <2>1. m \in DisplayMessage /\ m.type = "ack"
    BY <1>3 DEF DisplayMessage
  <2>2. display' = Written(display, <<m>>)
    BY <1>5
  <2> HIDE DEF m
  <2>3. Says(<<m>>)
    BY <2>1, SaysOne DEF ReplyTypes
  <2>4. GuestMoves
    BY <1>5, BarrierTypesHold DEF GuestMoves, Barriers, Tokens, Outstanding, InLedger
  <2> QED BY <1>1, <2>2, <2>3, <2>4, GuestKeepsBarriers
<1>6. CASE Acknowledge({id}) \/ FlushShown({id}, ceiling)
  BY <1>1, <1>3, <1>6, AcknowledgeKeepsBarriers, FlushShownKeepsBarriers
<1>7. CASE InLedger(id) /\ ledger' = [ledger EXCEPT ![id] = "shown"] /\ UNCHANGED <<pause, display>>
  <2>1. Outstanding' \subseteq Outstanding
    BY <1>7, LanesAreTyped DEF Outstanding, InLedger
  <2> QED BY <1>1, <1>7, <2>1, SilentStep
<1> QED BY <1>4, <1>5, <1>6, <1>7

LEMMA TickKeepsBarriers ==
  ASSUME Evidence, Barriers, NEW expired \in SUBSET Outstanding, NEW late \in BOOLEAN,
         NEW ask \in BOOLEAN, InGuest(Tick(expired, late, ask))
  PROVE  Barriers'
<1>1. UNCHANGED <<up, hostVars, control>>
  BY DEF InGuest, Tick
<1>2. PICK done \in Presentable(Waiting \ expired) :
        LET left == Outstanding \ (done \cup expired)
        IN  /\ ledger' = Expired(done, expired)
            /\ \/ pause' = [AfterDrain(left) EXCEPT !.paused = FALSE]
               \/ pause' = AfterDrain(left)
            /\ display' = Written(display, Acks(done) \o DrainReply(left)
                                             \o IF ask THEN ClockRequest ELSE <<>>)
  BY DEF InGuest, Tick
<1> DEFINE left == Outstanding \ (done \cup expired)
<1>3. Outstanding' = left /\ left \subseteq Outstanding
  BY <1>2 DEF Expired, Outstanding, InLedger
<1>4. done \in SUBSET Ids
  BY <1>2 DEF Presentable, Waiting
<1> HIDE DEF left
<1>5. \/ pause' = [AfterDrain(left) EXCEPT !.paused = FALSE]
      \/ pause' = AfterDrain(left)
  BY <1>2 DEF left
<1>6. GuestMoves
  BY <1>3, <1>5, BarrierTypesHold DEF AfterDrain, GuestMoves, PauseRecord, Barriers, Tokens
<1>7. Says(IF ask THEN ClockRequest ELSE <<>>)
  BY LanesAreTyped, SaysNothing, SaysClock DEF ClockRequest
<1>8. Says(Acks(done) \o DrainReply(left))
  BY <1>3, <1>4, SaysAcks, SaysDrained, SaysBoth
<1>9. Says(Acks(done) \o DrainReply(left) \o IF ask THEN ClockRequest ELSE <<>>)
  BY <1>7, <1>8, SaysBoth
<1>10. display' = Written(display, Acks(done) \o DrainReply(left) \o IF ask THEN ClockRequest ELSE <<>>)
  BY <1>2 DEF left
<1> QED BY <1>1, <1>6, <1>9, <1>10, GuestKeepsBarriers

LEMMA SampleAcceptedKeepsBarriers ==
  ASSUME Evidence, Barriers, InGuest(SampleAccepted)
  PROVE  Barriers'
<1>1. UNCHANGED <<up, hostVars, control>>
  BY DEF InGuest, SampleAccepted, SampleArrives
<1>2. PICK done \in SUBSET Waiting :
        /\ ledger' = Without(done)
        /\ pause' = [Reopened EXCEPT !.drainToken = AfterDrain(Outstanding \ done).drainToken]
        /\ display' = Written(display, ResumedReply \o Acks(done) \o DrainReply(Outstanding \ done))
  BY DEF InGuest, SampleAccepted
<1> DEFINE left == Outstanding \ done
<1>3. Outstanding' = left /\ left \subseteq Outstanding
  BY <1>2 DEF Without, Outstanding, InLedger
<1>4. done \in SUBSET Ids
  BY DEF Waiting
<1> HIDE DEF left
<1>5. pause \in PauseRecord /\ AfterDrain(left).drainToken \in {0, pause.drainToken}
  BY LanesAreTyped DEF AfterDrain, PauseRecord
<1>6. pause' = [Reopened EXCEPT !.drainToken = AfterDrain(left).drainToken]
  BY <1>2 DEF left
<1>7. GuestMoves /\ (pause.resumeToken # 0 => ~pause'.paused)
  <2> DEFINE drain == AfterDrain(left).drainToken
  <2>1. pause' = [Reopened EXCEPT !.drainToken = drain] /\ drain \in {0, pause.drainToken}
    BY <1>5, <1>6
  <2> HIDE DEF drain
  <2> QED BY <1>3, <1>5, <2>1, BarrierTypesHold DEF Reopened, GuestMoves, PauseRecord, Barriers, Tokens
<1>8. Says(ResumedReply)
  <2>1. pause.resumeToken \in Nat /\ pause.resumeToken <= pause.lastBarrier
    BY <1>5 DEF Barriers, Tokens, PauseRecord
  <2>2. CASE pause.resumeToken # 0
    BY <1>7, <2>1, <2>2, SaysReply DEF ResumedReply, ReplyTypes
  <2>3. CASE pause.resumeToken = 0
    BY <2>3, SaysNothing DEF ResumedReply
  <2> QED BY <2>2, <2>3
<1>9. Says(ResumedReply \o Acks(done) \o DrainReply(left))
  BY <1>3, <1>4, <1>8, SaysAcks, SaysDrained, SaysBoth
<1>10. display' = Written(display, ResumedReply \o Acks(done) \o DrainReply(left))
  BY <1>2 DEF left
<1> QED BY <1>1, <1>7, <1>9, <1>10, GuestKeepsBarriers

LEMMA FaultKeepsBarriers ==
  ASSUME Evidence, Barriers, InGuest(SampleFaults) \/ \E id \in Ids : InGuest(SceneSample(id))
  PROVE  Barriers'
<1>1. UNCHANGED <<up, hostVars, control>>
  BY DEF InGuest, SampleFaults, SampleArrives, SceneSample
<1>2. \E ids \in SUBSET Ids : \E limited : FlushShown(ids, limited)
  BY DEF InGuest, SampleFaults, SceneSample, ClockFault, Waiting
<1> QED BY <1>1, <1>2, FlushShownKeepsBarriers

LEMMA FlushKeepsBarriers ==
  ASSUME Evidence, Barriers, NEW root \in Roots, InGuest(Flush(root))
  PROVE  Barriers'
<1>1. UNCHANGED <<up, hostVars, control, pause>>
  BY DEF InGuest, Flush
<1>2. \/ UNCHANGED <<ledger, display>>
      \/ MayPrepare(root) /\ Admitted(root, dirty[root]) /\ dirty[root] # 0 /\ root \in alive
  BY DEF InGuest, Flush, FlushWindow, Unpublished, Rejected
<1>3. CASE UNCHANGED <<ledger, display>>
  BY <1>1, <1>3, SilentStep DEF Outstanding, InLedger
<1>4. CASE MayPrepare(root) /\ Admitted(root, dirty[root]) /\ dirty[root] # 0 /\ root \in alive
  <2> DEFINE m == [type |-> "scene", id |-> dirty[root], root |-> root]
  <2>1. ~pause'.paused
    BY <1>1, <1>4 DEF MayPrepare, EmissionAllowed
  <2>2. display' = Written(display, <<m>>) /\ m.type = "scene"
    BY <1>4 DEF Admitted
  <2>3. m \in DisplayMessage
    <3>1. dirty[root] \in Ids
      BY <1>4, LaneAssumption DEF Evidence, GuestShape, SceneIdsAreFresh, Roots, Ids
    <3> QED BY <3>1 DEF DisplayMessage
  <2> HIDE DEF m
  <2>4. GuestMoves
    BY <1>1, <2>1, BarrierTypesHold DEF GuestMoves, Barriers, Tokens
  <2>5. Says(<<m>>)
    BY <2>1, <2>2, <2>3, SaysOne DEF ReplyTypes
  <2> QED BY <1>1, <2>2, <2>4, <2>5, GuestKeepsBarriers
<1> QED BY <1>2, <1>3, <1>4

-----------------------------------------------------------------------------
(* The guest hears of a barrier.                                           *)

LEMMA UnreadMeansUp ==
  ASSUME Barriers, control # <<>> \/ display # <<>>
  PROVE  up
BY DEF Barriers, Linked

LEMMA LaneWithOneMore ==
  ASSUME NEW S, NEW lane \in Seq(S), NEW m \in S, NEW new, new = Append(lane, m)
  PROVE  /\ new \in Seq(S)
         /\ \A i \in DOMAIN new :
              /\ i \in Nat \ {0}
              /\ (i \in DOMAIN lane /\ new[i] = lane[i]) \/ (i \notin DOMAIN lane /\ new[i] = m)
         /\ \A i, j \in DOMAIN new : i < j => i \in DOMAIN lane
<1>1. Len(lane) \in Nat /\ DOMAIN lane = 1 .. Len(lane) /\ DOMAIN new = 1 .. Len(lane) + 1
      /\ new \in Seq(S)
  OBVIOUS
<1>2. \A i \in DOMAIN new : i = Len(lane) + 1 => new[i] = m
  OBVIOUS
<1>3. \A i \in DOMAIN new : i # Len(lane) + 1 => new[i] = lane[i]
  BY <1>1
<1> QED BY <1>1, <1>2, <1>3

\* A new barrier: it is the guest's last one, and it is answered last.
LEMMA NewBarrierIsHeard ==
  ASSUME Evidence, Barriers, UNCHANGED <<up, hostVars, ledger>>,
         control # <<>>, control' = Tail(control),
         Head(control).type \in BarrierTypes, ~Stale(Head(control).token),
         NEW said \in DisplayMessage, display' = Written(display, <<said>>),
         said.type \in {"reached", "clock"}, said.type = "reached" => said.token = Head(control).token,
         pause'.lastBarrier = Head(control).token,
         pause'.pauseToken = IF Head(control).type = "pause" THEN Head(control).token
                                                             ELSE pause.pauseToken,
         pause'.drainToken \in {0, pause.drainToken},
         pause'.resumeToken \in {Head(control).token, pause.resumeToken},
         pause'.completedResume = pause.completedResume
  PROVE  Barriers'
<1> DEFINE m == Head(control)
<1>1. UNCHANGED <<up, attached, session, gated, phase, token, stale, nextToken>>
      /\ Settled' = Settled /\ Outstanding' = Outstanding
  BY DEF hostVars, Settled, InState, Outstanding, InLedger
<1>2. /\ 1 \in DOMAIN control /\ control[1] = m
      /\ \A i \in DOMAIN control' : i \in Nat /\ 1 < i + 1 /\ i + 1 \in DOMAIN control
                                      /\ control'[i] = control[i + 1]
  BY BarrierTypesHold
<1>3. Sublane(control', control) /\ control' \in Seq(BarrierCommands)
  BY ControlIsRead
<1>4. /\ m.type \in BarrierTypes /\ m.token \in Nat /\ m.token < nextToken
      /\ pause.lastBarrier <= m.token
      /\ pause.lastBarrier # 0 => pause.lastBarrier < m.token
      /\ pause'.lastBarrier = m.token /\ up
  BY <1>2, BarrierTypesHold, UnreadMeansUp DEF Stale, Barriers, Tokens, PauseRecord
<1>5. pause \in PauseRecord /\ token \in Nat /\ nextToken \in Nat
  BY BarrierTypesHold
<1>6. <<said>> \in Seq(DisplayMessage) /\ \A k \in DOMAIN <<said>> : <<said>>[k] = said
  OBVIOUS
<1>7. /\ display' \in Seq(DisplayMessage)
      /\ \A i \in DOMAIN display' :
           /\ i \in Nat \ {0}
           /\ (i \in DOMAIN display /\ display'[i] = display[i]) \/ (i \notin DOMAIN display /\ display'[i] = said)
      /\ \A i, j \in DOMAIN display' : i < j => i \in DOMAIN display
  <2>1. display \in Seq(DisplayMessage)
    BY BarrierTypesHold, EventsAreMessages, LargerLane
  <2>2. display' = Append(display, said)
    BY <1>4, <2>1 DEF Written
  <2> DEFINE next == display'
  <2>3. next = Append(display, said)
    BY <2>2
  <2> HIDE DEF next
  <2>4. /\ next \in Seq(DisplayMessage)
        /\ \A i \in DOMAIN next :
             /\ i \in Nat \ {0}
             /\ (i \in DOMAIN display /\ next[i] = display[i]) \/ (i \notin DOMAIN display /\ next[i] = said)
        /\ \A i, j \in DOMAIN next : i < j => i \in DOMAIN display
    BY <2>1, <2>3, LaneWithOneMore
  <2> QED BY <2>4 DEF next
<1>8. ~Unasked
  BY <1>2, <1>4 DEF Unasked
<1> HIDE DEF m
<1>9. Linked'
  <2>1. \A i \in DOMAIN display' : display'[i].type = "started" => i = 1 /\ ~session
    BY <1>7 DEF Barriers, Linked
  <2> QED BY <1>1, <1>4, <2>1 DEF Barriers, Linked
<1>10. Tokens'
  <2>1. \A i \in DOMAIN display' : display'[i].type \in ReplyTypes => display'[i].token <= m.token
    <3>1. \A i \in DOMAIN display : display[i].type \in ReplyTypes
            => display[i].token \in Nat /\ display[i].token <= pause.lastBarrier
      BY BarrierTypesHold DEF Barriers, Tokens
    <3>2. said.type \in ReplyTypes => said.token = m.token
      BY DEF ReplyTypes, m
    <3> QED BY <1>4, <1>5, <1>7, <3>1, <3>2 DEF PauseRecord
  <2>2. \A i \in DOMAIN control' : control'[i].type \in BarrierTypes => control'[i].token < nextToken
    BY <1>3 DEF Barriers, Tokens, Sublane
  <2>3. /\ pause'.pauseToken <= m.token /\ pause'.drainToken <= m.token
        /\ pause'.resumeToken <= m.token /\ pause'.completedResume <= m.token
    BY <1>4, <1>5 DEF Barriers, Tokens, PauseRecord, m
  <2> QED BY <1>1, <1>4, <2>1, <2>2, <2>3 DEF Tokens
<1>11. Gated'
  BY <1>1 DEF Barriers, Gated
<1>12. Blind' /\ Open'
  BY <1>1, <1>4, <1>8 DEF Barriers, Blind, Open, Untouched, Unheard
<1>13. ASSUME token + 1 = nextToken, token # 0 PROVE pause.lastBarrier < token
  BY <1>4, <1>5, <1>13 DEF PauseRecord
<1>14. Fenced'
  <2> SUFFICES ASSUME phase \in {"fencing", "draining", "sealed"}, ~stale, up
               PROVE  FenceHeard' /\ (pause'.lastBarrier = token /\ pause'.paused => FenceHolds')
    BY <1>1 DEF Barriers, Fenced
  <2>1. FenceHeard /\ pause.lastBarrier < token /\ phase = "fencing"
    BY <1>5, <1>13 DEF Barriers, Fenced, FenceHeard, PauseRecord
  <2>2. m.type = "resume" => m.token # token
    BY <1>2, <2>1 DEF FenceHeard
  <2>3. FenceHeard'
    <3>1. \A i \in DOMAIN control' : control'[i].type = "resume" => control'[i].token # token
      BY <1>3, <2>1 DEF FenceHeard, Sublane
    <3>2. pause'.lastBarrier = token => pause'.pauseToken = token
      BY <1>4, <2>2 DEF BarrierTypes, m
    <3> QED BY <1>1, <2>1, <3>1, <3>2 DEF FenceHeard
  <2>4. \A i \in DOMAIN display : display[i].type \in ReplyTypes => display[i].token # token
    BY <1>5, <2>1, BarrierTypesHold DEF Barriers, Tokens, PauseRecord
  <2>5. ~Drained'
    BY <1>1, <1>7, <2>4 DEF Drained, ReplyTypes
  <2>6. \A i, j \in DOMAIN display' :
          i < j /\ display'[i].type = "reached" /\ display'[i].token = token => display'[j].type # "scene"
    BY <1>7, <2>4 DEF ReplyTypes
  <2> QED BY <1>1, <2>1, <2>3, <2>5, <2>6 DEF FenceHolds
<1>15. Lifted'
  <2> SUFFICES ASSUME phase = "resuming", ~stale, up
               PROVE  ResumeHeard'
    BY <1>1 DEF Barriers, Lifted
  <2>1. ResumeHeard /\ pause.lastBarrier < token
    BY <1>13 DEF Barriers, Lifted
  <2>2. \A i \in DOMAIN control' : control'[i].type = "pause" => control'[i].token # token
    BY <1>3, <2>1 DEF ResumeHeard, Sublane
  <2>3. ASSUME NEW i \in DOMAIN control', NEW j \in DOMAIN control', i < j,
               control'[i].type = "resume", control'[i].token = token
        PROVE  control'[j].type \notin BarrierTypes
    <3>1. PICK k \in DOMAIN control, l \in DOMAIN control :
            k < l /\ control'[i] = control[k] /\ control'[j] = control[l]
      BY <1>3, <2>3 DEF Sublane
    <3> QED BY <2>1, <2>3, <3>1 DEF ResumeHeard
  <2>4. m.token = token => Unasked'
    <3>1. m.token = token => m.type = "resume"
      BY <1>2, <1>4, <2>1 DEF ResumeHeard, BarrierTypes
    <3> QED BY <1>2, <2>1, <3>1 DEF ResumeHeard, Unasked
  <2>5. ~Resumed' /\ pause'.completedResume # token
    <3>1. \A i \in DOMAIN display : display[i].type = "resumed" => display[i].token # token
      BY <1>5, <2>1, BarrierTypesHold DEF Barriers, Tokens, PauseRecord, ReplyTypes
    <3>2. ~Resumed'
      BY <1>1, <1>7, <3>1 DEF Resumed
    <3>3. pause'.completedResume # token
      BY <1>5, <2>1 DEF Barriers, Tokens, PauseRecord
    <3> QED BY <3>2, <3>3
  <2> QED BY <1>1, <1>4, <2>2, <2>3, <2>4, <2>5 DEF ResumeHeard
<1> QED BY <1>9, <1>10, <1>11, <1>12, <1>14, <1>15 DEF Barriers

LEMMA ReceivePauseKeepsBarriers ==
  ASSUME Evidence, Barriers, InGuest(ReceivePause)
  PROVE  Barriers'
<1> DEFINE t     == Head(control).token
           again == t = pause.pauseToken /\ pause.paused /\ pause.resumeToken = 0
           said  == [type |-> "reached", token |-> t]
<1>1. UNCHANGED <<up, hostVars, ledger>> /\ control # <<>> /\ control' = Tail(control)
      /\ Head(control).type = "pause" /\ Head(control).type \in BarrierTypes
  BY DEF InGuest, ReceivePause, Heard, ledgerVars, BarrierTypes
<1>2. t \in Nat /\ pause \in PauseRecord
  <2>1. 1 \in DOMAIN control /\ control[1] = Head(control)
    BY <1>1, BarrierTypesHold
  <2> QED BY <1>1, <2>1, BarrierTypesHold
<1>3. CASE Stale(t) /\ ~again
  <2>1. UNCHANGED <<pause, display>>
    BY <1>3 DEF InGuest, ReceivePause
  <2>2. Outstanding' = Outstanding
    BY <1>1 DEF Outstanding, InLedger
  <2> QED BY <1>1, <2>1, <2>2, SilentStep
<1>4. CASE again
  <2>1. pause' = pause /\ display' = Written(display, <<said>>)
    BY <1>4 DEF InGuest, ReceivePause, Reply
  <2>2. t <= pause.lastBarrier
    BY <1>4 DEF Barriers, Tokens
  <2>3. Says(<<said>>)
    BY <1>2, <2>2, SaysReply DEF ReplyTypes
  <2>4. Outstanding' = Outstanding
    BY <1>1 DEF Outstanding, InLedger
  <2>5. GuestMoves
    BY <2>1, <2>4 DEF GuestMoves, Barriers, Tokens
  <2> HIDE DEF said
  <2> QED BY <1>1, <2>1, <2>3, <2>5, GuestKeepsBarriers
<1>5. CASE ~Stale(t) /\ ~again
  <2>1. /\ pause' = [pause EXCEPT !.lastBarrier = t, !.paused = TRUE, !.pauseToken = t, !.reached = TRUE]
        /\ display' = Written(display, <<said>>)
    BY <1>5 DEF InGuest, ReceivePause, Reply
  <2>2. /\ pause'.lastBarrier = t /\ pause'.pauseToken = t /\ pause'.drainToken = pause.drainToken
        /\ pause'.resumeToken = pause.resumeToken /\ pause'.completedResume = pause.completedResume
    BY <1>2, <2>1 DEF PauseRecord
  <2>3. said \in DisplayMessage /\ said.type = "reached" /\ said.token = t
    BY <1>2 DEF DisplayMessage
  <2> HIDE DEF said
  <2> QED BY <1>1, <1>5, <2>1, <2>2, <2>3, NewBarrierIsHeard
<1> QED BY <1>3, <1>4, <1>5

LEMMA ReceiveDrainKeepsBarriers ==
  ASSUME Evidence, Barriers, InGuest(ReceiveDrain)
  PROVE  Barriers'
<1> DEFINE t    == Head(feedback).token
           said == [type |-> "drained", token |-> t]
<1>1. UNCHANGED <<up, hostVars, ledger, control>>
  BY DEF InGuest, ReceiveDrain, ledgerVars
<1>2. Outstanding' = Outstanding /\ pause \in PauseRecord
  BY <1>1, BarrierTypesHold DEF Outstanding, InLedger
<1>3. CASE ~MayDrain(t)
  <2>1. UNCHANGED <<pause, display>>
    BY <1>3 DEF InGuest, ReceiveDrain
  <2> QED BY <1>1, <1>2, <2>1, SilentStep
<1>4. MayDrain(t) => t \in Nat /\ t <= pause.lastBarrier
  BY <1>2 DEF MayDrain, Barriers, Tokens, PauseRecord
<1>5. CASE MayDrain(t) /\ Outstanding = {}
  <2>1. pause' = [pause EXCEPT !.drainToken = 0] /\ display' = Written(display, <<said>>)
    BY <1>5 DEF InGuest, ReceiveDrain, Reply
  <2>2. Says(<<said>>)
    BY <1>2, <1>4, <1>5, SaysReply DEF ReplyTypes
  <2>3. GuestMoves
    BY <1>2, <2>1 DEF GuestMoves, Barriers, Tokens, PauseRecord
  <2> HIDE DEF said
  <2> QED BY <1>1, <2>1, <2>2, <2>3, GuestKeepsBarriers
<1>6. CASE MayDrain(t) /\ Outstanding # {}
  <2>1. pause' = [pause EXCEPT !.drainToken = t] /\ display' = display
    BY <1>6 DEF InGuest, ReceiveDrain
  <2> HIDE DEF t
  <2>2. display' = Written(display, <<>>)
    BY <2>1, BarrierTypesHold DEF Written
  <2>3. GuestMoves
    BY <1>2, <1>4, <1>6, <2>1 DEF GuestMoves, Barriers, Tokens, PauseRecord
  <2> QED BY <1>1, <2>2, <2>3, SaysNothing, GuestKeepsBarriers
<1> QED BY <1>3, <1>5, <1>6

LEMMA ReceiveResumeKeepsBarriers ==
  ASSUME Evidence, Barriers, InGuest(ReceiveResume)
  PROVE  Barriers'
<1> DEFINE t    == Head(control).token
           done == t = pause.completedResume /\ t = pause.lastBarrier
           said == [type |-> "resumed", token |-> t]
           asks == [type |-> "clock", epoch |-> epoch + 1]
<1>1. UNCHANGED <<up, hostVars, ledger>> /\ control # <<>> /\ control' = Tail(control)
      /\ Head(control).type = "resume" /\ Head(control).type \in BarrierTypes
  BY DEF InGuest, ReceiveResume, Heard, ledgerVars, BarrierTypes
<1>2. t \in Nat /\ pause \in PauseRecord /\ Outstanding' = Outstanding
  <2>1. 1 \in DOMAIN control /\ control[1] = Head(control)
    BY <1>1, BarrierTypesHold
  <2> QED BY <1>1, <2>1, BarrierTypesHold DEF Outstanding, InLedger
<1>3. CASE done
  <2>1. pause' = pause /\ display' = Written(display, <<said>>)
    BY <1>3 DEF InGuest, ReceiveResume, Reply
  <2>2. Says(<<said>>)
    BY <1>2, <1>3, SaysReply DEF ReplyTypes
  <2>3. GuestMoves
    BY <1>2, <2>1 DEF GuestMoves, Barriers, Tokens
  <2> HIDE DEF said
  <2> QED BY <1>1, <2>1, <2>2, <2>3, GuestKeepsBarriers
<1>4. CASE Stale(t) /\ ~done
  <2>1. UNCHANGED <<pause, display>>
    BY <1>4 DEF InGuest, ReceiveResume
  <2> QED BY <1>1, <1>2, <2>1, SilentStep
<1>5. CASE ~Stale(t) /\ ~done
  <2>1. /\ pause' = [pause EXCEPT !.lastBarrier = t, !.paused = TRUE, !.drainToken = 0, !.resumeToken = t]
        /\ display' = Written(display, <<asks>>)
    BY <1>5 DEF InGuest, ReceiveResume
  <2>2. /\ pause'.lastBarrier = t /\ pause'.pauseToken = pause.pauseToken /\ pause'.drainToken = 0
        /\ pause'.resumeToken = t /\ pause'.completedResume = pause.completedResume
    BY <1>2, <2>1 DEF PauseRecord
  <2>3. asks \in DisplayMessage /\ asks.type = "clock"
    BY LanesAreTyped DEF DisplayMessage, Evidence, GuestShape
  <2> HIDE DEF asks
  <2> QED BY <1>1, <1>5, <2>1, <2>2, <2>3, NewBarrierIsHeard
<1> QED BY <1>3, <1>4, <1>5

LEMMA GuestDetachKeepsBarriers ==
  ASSUME Evidence, Barriers, InGuest(GuestDetach)
  PROVE  Barriers'
<1>1. UNCHANGED <<up, hostVars, control, display, ledger>> /\ ~up /\ pause' = ResetPause
  BY DEF InGuest, GuestDetach, ledgerVars
<1>2. pause \in PauseRecord /\ nextToken \in Nat /\ display = <<>> /\ control = <<>>
  BY <1>1, BarrierTypesHold DEF Barriers, Linked
<1>3. UNCHANGED <<attached, session, gated, phase, token, stale, nextToken>> /\ Settled' = Settled
  BY <1>1 DEF hostVars, Settled, InState
<1>4. Tokens'
  BY <1>1, <1>2, <1>3 DEF Barriers, Tokens, ResetPause, PauseRecord
<1>5. Linked' /\ Gated' /\ Blind' /\ Open'
  BY <1>1, <1>2, <1>3 DEF Barriers, Linked, Gated, Blind, Open
<1>6. Fenced' /\ Lifted'
  BY <1>1, <1>2, <1>3 DEF Barriers, Fenced, Lifted
<1> QED BY <1>4, <1>5, <1>6 DEF Barriers

-----------------------------------------------------------------------------
(* The host's ordinary steps.                                              *)

AsksNothing(more) ==
  more \in Seq(BarrierCommands) /\ \A k \in DOMAIN more : more[k].type \notin BarrierTypes

\* It reads what the guest says, perhaps learns its session, asks for scenes, and
\* while drawing is closed nothing becomes unsettled.
HostMoves ==
  /\ UNCHANGED <<pause, ledger, up, attached, gated, barrierVars>>
  /\ display' \in Seq(DisplayMessage) /\ Sublane(display', display)
  /\ \/ session' = session
     \/ session' = TRUE /\ attached /\ \A i \in DOMAIN display' : display'[i].type # "started"
  /\ gated /\ Settled => Settled'

LEMMA HostKeepsBarriers ==
  ASSUME Evidence, Barriers, HostMoves,
         NEW more, AsksNothing(more), control' = Written(control, more)
  PROVE  Barriers'
<1>1. UNCHANGED <<up, attached, gated, phase, token, stale, nextToken, pause>>
      /\ Outstanding' = Outstanding
  BY DEF HostMoves, barrierVars, Outstanding, InLedger
<1>2. /\ control' \in Seq(BarrierCommands)
      /\ \A i \in DOMAIN control' :
           /\ i \in Nat \ {0}
           /\ \/ i \in DOMAIN control /\ control'[i] = control[i]
              \/ i \notin DOMAIN control /\ up /\ \E k \in DOMAIN more : control'[i] = more[k]
      /\ \A i, j \in DOMAIN control' : i < j /\ j \in DOMAIN control => i \in DOMAIN control
  BY BarrierTypesHold, WrittenEntries DEF AsksNothing
<1>3. \A i \in DOMAIN control' : control'[i].type \in BarrierTypes
        => i \in DOMAIN control /\ control'[i] = control[i]
  BY <1>2 DEF AsksNothing
<1>4. Unasked => Unasked'
  BY <1>3 DEF Unasked
<1>5. \A i \in DOMAIN display' : \E k \in DOMAIN display : display'[i] = display[k]
  BY DEF HostMoves, Sublane
<1>6. Linked'
  <2>1. ASSUME ~up PROVE display' = <<>> /\ control' = <<>>
    <3>1. display = <<>> /\ control = <<>>
      BY <2>1 DEF Barriers, Linked
    <3>2. DOMAIN display' = {} /\ display' \in Seq(DisplayMessage)
      BY <1>5, <3>1 DEF HostMoves
    <3> QED BY <2>1, <3>1, <3>2 DEF Written
  <2>2. session' => attached
    BY DEF HostMoves, Barriers, Linked
  <2>3. \A i \in DOMAIN display' : display'[i].type = "started" => i = 1
    <3>1. \A i \in DOMAIN display : i \in Nat \ {0} /\ (display[i].type = "started" => i = 1)
      BY BarrierTypesHold DEF Barriers, Linked
    <3> DEFINE next == display'
    <3>2. next \in Seq(DisplayMessage) /\ Sublane(next, display)
      BY DEF HostMoves
    <3> HIDE DEF next
    <3>3. \A i \in DOMAIN next : next[i].type = "started" => i = 1
      BY <3>1, <3>2, StartsFirst
    <3> QED BY <3>3 DEF next
  <2>4. \A i \in DOMAIN display' : display'[i].type = "started" => ~session'
    BY <1>5 DEF HostMoves, Barriers, Linked
  <2> QED BY <1>1, <2>1, <2>2, <2>3, <2>4 DEF Linked
<1>7. Tokens'
  <2>1. \A i \in DOMAIN display' : display'[i].type \in ReplyTypes => display'[i].token <= pause.lastBarrier
    BY <1>5 DEF Barriers, Tokens
  <2>2. \A i \in DOMAIN control' : control'[i].type \in BarrierTypes => control'[i].token < nextToken
    BY <1>3 DEF Barriers, Tokens
  <2> QED BY <1>1, <2>1, <2>2 DEF Barriers, Tokens
<1>8. Gated' /\ (Unheard' => Unheard)
  BY <1>1 DEF HostMoves, Barriers, Gated, Unheard
<1>9. Blind' /\ Open'
  BY <1>1, <1>4, <1>8 DEF Barriers, Blind, Open, Untouched
<1>10. Fenced'
  <2> SUFFICES ASSUME phase \in {"fencing", "draining", "sealed"}, ~stale
               PROVE  token + 1 = nextToken /\ token # 0 /\ Settled'
                      /\ (up => FenceHeard' /\ (pause.lastBarrier = token /\ pause.paused => FenceHolds'))
    BY <1>1 DEF Fenced
  <2>1. token + 1 = nextToken /\ token # 0 /\ Settled /\ gated
    BY DEF Barriers, Fenced, Gated
  <2>2. Settled'
    BY <2>1 DEF HostMoves
  <2>3. ASSUME up PROVE FenceHeard'
    BY <1>1, <1>3, <2>3 DEF Barriers, Fenced, FenceHeard, BarrierTypes
  <2>4. ASSUME up, pause.lastBarrier = token, pause.paused PROVE FenceHolds'
    <3>1. FenceHolds
      BY <2>4 DEF Barriers, Fenced
    <3>2. ASSUME NEW i \in DOMAIN display', NEW j \in DOMAIN display', i < j,
                 display'[i].type = "reached", display'[i].token = token
          PROVE  display'[j].type # "scene"
      <4>1. PICK k \in DOMAIN display, l \in DOMAIN display :
              k < l /\ display'[i] = display[k] /\ display'[j] = display[l]
        BY <3>2 DEF HostMoves, Sublane
      <4> QED BY <3>1, <3>2, <4>1 DEF FenceHolds
    <3>3. phase # "fencing" => \A i \in DOMAIN display' : display'[i].type # "scene"
      BY <1>5, <3>1 DEF FenceHolds
    <3>4. Drained' => Drained
      BY <1>1, <1>5 DEF Drained
    <3> QED BY <1>1, <3>1, <3>2, <3>3, <3>4 DEF FenceHolds
  <2> QED BY <2>1, <2>2, <2>3, <2>4
<1>11. Lifted'
  <2> SUFFICES ASSUME phase = "resuming", ~stale, up
               PROVE  ResumeHeard'
    BY <1>1 DEF Barriers, Lifted
  <2>1. ResumeHeard
    BY DEF Barriers, Lifted
  <2>2. \A i \in DOMAIN control' : control'[i].type = "pause" => control'[i].token # token
    BY <1>3, <2>1 DEF ResumeHeard, BarrierTypes
  <2>3. ASSUME NEW i \in DOMAIN control', NEW j \in DOMAIN control', i < j,
               control'[i].type = "resume", control'[i].token = token
        PROVE  control'[j].type \notin BarrierTypes
    <3>1. i \in DOMAIN control /\ control'[i] = control[i]
      BY <1>3, <2>3 DEF BarrierTypes
    <3> QED BY <1>3, <2>1, <2>3, <3>1 DEF ResumeHeard
  <2>4. Resumed' => Resumed
    BY <1>1, <1>5 DEF Resumed
  <2> QED BY <1>1, <1>4, <2>1, <2>2, <2>3, <2>4 DEF ResumeHeard
<1> QED BY <1>6, <1>7, <1>8, <1>9, <1>10, <1>11 DEF Barriers

LEMMA CapturesAskNothing ==
  ASSUME NEW roots \in SUBSET Roots
  PROVE  AsksNothing(Captures(roots))
<1>1. Captures(roots) \in Seq(BarrierCommands)
  BY CapturesAreCommands
<1>2. \A k \in DOMAIN Captures(roots) : Captures(roots)[k].type = "capture"
  BY DEF Captures
<1> QED BY <1>1, <1>2 DEF AsksNothing, BarrierTypes

LEMMA NothingAsksNothing ==
  ASSUME Evidence
  PROVE  AsksNothing(<<>>) /\ control = Written(control, <<>>)
BY BarrierTypesHold DEF AsksNothing, Written

LEMMA FlushDeferredAsksNothing ==
  ASSUME Evidence, NEW roots, NEW ids, FlushDeferred(roots, ids)
  PROVE  \E more : AsksNothing(more) /\ control' = Written(control, more)
<1> DEFINE ask == {r \in roots \cap refresh : ~AwaitsAck(r, ids)}
<1>1. ask \in SUBSET Roots
  BY DEF Evidence, HostHoldsEvidence
<1>2. control' = Written(control, Captures(ask))
  BY DEF FlushDeferred
<1> HIDE DEF ask
<1> QED BY <1>1, <1>2, CapturesAskNothing

LEMMA HeadOfDisplay ==
  ASSUME Evidence, display # <<>>, display' = Tail(display)
  PROVE  /\ display' \in Seq(DisplayMessage) /\ Sublane(display', display)
         /\ \A i \in DOMAIN display' : i + 1 \in DOMAIN display /\ i + 1 # 1 /\ display'[i] = display[i + 1]
<1>1. display \in Seq(DisplayMessage)
  BY BarrierTypesHold, EventsAreMessages, LargerLane
<1>2. display' \in Seq(DisplayMessage)
  BY <1>1
<1>3. Sublane(display', display)
  BY <1>1, TailInOrder
<1>4. \A i \in DOMAIN display' : i + 1 \in DOMAIN display /\ i + 1 # 1 /\ display'[i] = display[i + 1]
  BY <1>1
<1> QED BY <1>2, <1>3, <1>4

LEMMA SameDisplay ==
  ASSUME Evidence
  PROVE  display \in Seq(DisplayMessage) /\ Sublane(display, display)
BY BarrierTypesHold, EventsAreMessages, LargerLane, SameLane

LEMMA RecordStepKeepsBarriers ==
  ASSUME Evidence, Barriers, NEW id \in Ids,
         InHost(Submit(id) \/ DiscardQueued(id) \/ Drawable(id, "zero"))
         \/ (Displays(id) /\ UNCHANGED guestVars)
  PROVE  Barriers'
<1>1. /\ UNCHANGED <<pause, ledger, up, attached, session, gated, barrierVars, display, control>>
      /\ journal[id] \in {"queued", "submitted"} /\ (gated => InState({"queued", "submitted"}) # {})
  BY DEF InHost, Submit, DiscardQueued, Drawable, Displays, guestVars, laneVars, ledgerVars, InState
<1>2. HostMoves
  BY <1>1, SameDisplay DEF HostMoves, Settled
<1> QED BY <1>1, <1>2, NothingAsksNothing, HostKeepsBarriers

LEMMA FlushResultsKeepsBarriers ==
  ASSUME Evidence, Barriers, InHost(FlushResults) \/ UNCHANGED vars
  PROVE  Barriers'
<1>1. UNCHANGED <<pause, ledger, up, attached, session, gated, barrierVars, display, control, journal>>
  BY DEF InHost, FlushResults, vars, guestVars, hostVars, laneVars, barrierVars
<1>2. HostMoves
  BY <1>1, SameDisplay DEF HostMoves, Settled, InState
<1> QED BY <1>1, <1>2, NothingAsksNothing, HostKeepsBarriers

LEMMA AnswerClockKeepsBarriers ==
  ASSUME Evidence, Barriers, InHost(AnswerClock)
  PROVE  Barriers'
<1>1. PICK i \in DOMAIN display : display' = RemoveAt(display, i)
  BY DEF InHost, AnswerClock
<1>2. display \in Seq(DisplayMessage)
  BY SameDisplay
<1>3. display' \in Seq(DisplayMessage) /\ Sublane(display', display)
  BY <1>1, <1>2, RemoveAtIsSeq, RemovedInOrder
<1>4. \A k \in DOMAIN display : display[k].type # "started"
  BY <1>1, <1>2 DEF InHost, AnswerClock, Heard, Barriers, Linked
<1>5. \A k \in DOMAIN display' : display'[k].type # "started"
  BY <1>3, <1>4 DEF Sublane
<1>6. UNCHANGED <<pause, ledger, up, attached, gated, barrierVars, control, journal>>
      /\ session' = TRUE /\ attached
  BY DEF InHost, AnswerClock, guestVars
<1>7. HostMoves
  BY <1>3, <1>5, <1>6 DEF HostMoves, Settled, InState
<1> QED BY <1>6, <1>7, NothingAsksNothing, HostKeepsBarriers

LEMMA ReplayStepKeepsBarriers ==
  ASSUME Evidence, Barriers, NEW root \in Roots, InHost(AskReplay(root)) \/ InHost(DisplayTick(root))
  PROVE  Barriers'
<1>1. UNCHANGED <<pause, ledger, up, attached, session, gated, barrierVars, display, journal>>
  BY DEF InHost, AskReplay, DisplayTick, guestVars
<1>2. HostMoves
  BY <1>1, SameDisplay DEF HostMoves, Settled, InState
<1>3. \/ UNCHANGED control \/ control' = Written(control, Captures({root}))
      \/ \E ids : FlushDeferred({root}, ids)
  BY DEF InHost, AskReplay, DisplayTick
<1>4. \E more : AsksNothing(more) /\ control' = Written(control, more)
  BY <1>3, CapturesAskNothing, NothingAsksNothing, FlushDeferredAsksNothing
<1> QED BY <1>2, <1>4, HostKeepsBarriers

LEMMA ReceiveSceneKeepsBarriers ==
  ASSUME Evidence, Barriers, InHost(ReceiveScene)
  PROVE  Barriers'
<1> DEFINE id == Head(display).id
           registered == IF journal[id] = "none" THEN [journal EXCEPT ![id] = "queued"] ELSE journal
<1>1. /\ UNCHANGED <<pause, ledger, up, attached, gated, barrierVars, control>>
      /\ session' = TRUE /\ attached /\ display # <<>> /\ display' = Tail(display)
      /\ gated => journal' = Discard(registered, {id})
  BY DEF InHost, ReceiveScene, Heard, guestVars
<1>2. \A i \in DOMAIN display' : display'[i].type # "started"
  BY <1>1, HeadOfDisplay DEF Barriers, Linked
<1>3. ASSUME gated, Settled PROVE Settled'
  <2>1. \A i \in Ids : journal[i] \notin {"queued", "submitted"}
    BY <1>3 DEF Settled, InState
  <2>2. \A i \in Ids : registered[i] = journal[i] \/ (i = id /\ registered[i] = "queued")
    BY HostIsTyped
  <2> HIDE DEF registered, id
  <2>3. \A i \in Ids : journal'[i] \notin {"queued", "submitted"}
    BY <1>1, <1>3, <2>1, <2>2 DEF Discard
  <2> QED BY <2>3 DEF Settled, InState
<1>4. HostMoves
  BY <1>1, <1>2, <1>3, HeadOfDisplay DEF HostMoves
<1> QED BY <1>1, <1>4, NothingAsksNothing, HostKeepsBarriers

LEMMA ReceiveAckKeepsBarriers ==
  ASSUME Evidence, Barriers, InHost(ReceiveAck)
  PROVE  Barriers'
<1>1. /\ UNCHANGED <<pause, ledger, up, attached, session, gated, barrierVars>>
      /\ display # <<>> /\ display' = Tail(display)
      /\ \E gone : journal' = [i \in Ids |-> IF i \in gone THEN "none" ELSE journal[i]]
      /\ UNCHANGED control \/ \E roots, ids : FlushDeferred(roots, ids)
  BY DEF InHost, ReceiveAck, Heard, guestVars
<1>2. Settled => Settled'
  BY <1>1 DEF Settled, InState
<1>3. HostMoves
  BY <1>1, <1>2, HeadOfDisplay DEF HostMoves
<1>4. \E more : AsksNothing(more) /\ control' = Written(control, more)
  BY <1>1, NothingAsksNothing, FlushDeferredAsksNothing
<1> QED BY <1>3, <1>4, HostKeepsBarriers

-----------------------------------------------------------------------------
(* The host's barrier.                                                     *)

LEMMA NewBarrierIsFresh ==
  ASSUME Evidence, Barriers, NEW p, NEW type \in BarrierTypes, NewBarrier(p, type)
  PROVE  /\ phase' = p /\ token' = nextToken /\ nextToken' = nextToken + 1
         /\ token' # 0 /\ token' \in Nat /\ pause.lastBarrier < token'
         /\ pause.completedResume # token'
         /\ \A i \in DOMAIN display : display[i].type \in ReplyTypes => display[i].token # token'
         /\ ~up => control' = control
         /\ \A i \in DOMAIN control' :
              control'[i].type \in BarrierTypes =>
                \/ /\ i \in DOMAIN control /\ control'[i] = control[i]
                   /\ control'[i].token # token' /\ control'[i].token < nextToken'
                \/ control'[i].type = type /\ control'[i].token = token' /\ token' < nextToken'
         /\ \A i, j \in DOMAIN control' : i < j => i \in DOMAIN control /\ control'[i] = control[i]
<1> DEFINE m    == [type |-> type, token |-> nextToken]
           next == control'
<1>1. /\ phase' = p /\ token' = nextToken /\ nextToken' = nextToken + 1
      /\ next = Written(control, <<m>>)
  BY DEF NewBarrier
<1>2. m.type = type /\ m.token = nextToken /\ m \in BarrierCommands
  BY BarrierTypesHold DEF BarrierCommands, BarrierTypes
<1> HIDE DEF m, next
<1>3. token' # 0 /\ token' \in Nat /\ pause.lastBarrier < token' /\ pause.completedResume # token'
  BY <1>1, BarrierTypesHold DEF Barriers, Tokens, PauseRecord
<1>4. \A i \in DOMAIN display : display[i].type \in ReplyTypes => display[i].token # token'
  BY <1>1, BarrierTypesHold DEF Barriers, Tokens, PauseRecord
<1>5. \A i \in DOMAIN control : control[i].type \in BarrierTypes
        => control[i].token # token' /\ control[i].token < nextToken'
  BY <1>1, BarrierTypesHold DEF Barriers, Tokens
<1>6. CASE ~up
  <2>1. next = control
    BY <1>1, <1>6 DEF Written
  <2>2. \A i, j \in DOMAIN next : i < j => i \in DOMAIN control /\ next[i] = control[i]
    BY <2>1
  <2> QED BY <1>1, <1>3, <1>4, <1>5, <2>1, <2>2 DEF next
<1>7. CASE up
  <2>1. next = Append(control, m)
    BY <1>1, <1>7, BarrierTypesHold DEF Written
  <2>2. /\ \A i \in DOMAIN next : \/ i \in DOMAIN control /\ next[i] = control[i]
                                  \/ i \notin DOMAIN control /\ next[i] = m
        /\ \A i, j \in DOMAIN next : i < j => i \in DOMAIN control /\ next[i] = control[i]
    BY <1>2, <2>1, BarrierTypesHold, LaneWithOneMore
  <2>3. token' < nextToken'
    BY <1>1, <1>3
  <2> QED BY <1>1, <1>2, <1>3, <1>4, <1>5, <1>7, <2>2, <2>3 DEF next
<1> QED BY <1>6, <1>7

\* A step of the host that leaves guest and display alone and hands out a token.
LEMMA NewBarrierKeepsTokens ==
  ASSUME Evidence, Barriers, NEW p, NEW type \in BarrierTypes, NewBarrier(p, type),
         UNCHANGED <<up, display, pause, session, attached>>
  PROVE  Linked' /\ Tokens'
<1>1. Linked'
  BY NewBarrierIsFresh DEF Barriers, Linked
<1>2. pause.lastBarrier < nextToken'
  BY NewBarrierIsFresh, BarrierTypesHold DEF PauseRecord
<1>3. \A i \in DOMAIN control' : control'[i].type \in BarrierTypes => control'[i].token < nextToken'
  BY NewBarrierIsFresh
<1>4. Tokens'
  BY <1>2, <1>3 DEF Barriers, Tokens
<1> QED BY <1>1, <1>4

LEMMA ReceiveStartedKeepsBarriers ==
  ASSUME Evidence, Barriers, InHost(ReceiveStarted)
  PROVE  Barriers'
<1>1. /\ UNCHANGED <<pause, ledger, up, attached, gated, phase, token, nextToken, control>>
      /\ display # <<>> /\ Head(display).type = "started" /\ display' = Tail(display)
      /\ session' = FALSE /\ (phase # "open" => stale')
  BY DEF InHost, ReceiveStarted, Heard, guestVars
<1>2. 1 \in DOMAIN display /\ display[1].type = "started" /\ ~session /\ up
  BY <1>1, BarrierTypesHold, UnreadMeansUp DEF Barriers, Linked
<1>3. Untouched
  BY <1>2 DEF Barriers, Blind, Unheard
<1>4. Linked'
  <2>1. \A i \in DOMAIN display' : display'[i].type # "started"
    BY <1>1, HeadOfDisplay DEF Barriers, Linked
  <2> QED BY <1>1, <1>2, <2>1 DEF Linked
<1>5. Tokens'
  BY <1>1, HeadOfDisplay DEF Barriers, Tokens
<1>6. Gated' /\ Fenced' /\ Lifted'
  BY <1>1 DEF Gated, Fenced, Lifted
<1>7. Blind' /\ Open'
  BY <1>1, <1>3 DEF Blind, Open, Untouched, Unasked
<1> QED BY <1>4, <1>5, <1>6, <1>7 DEF Barriers

LEMMA StartPauseKeepsBarriers ==
  ASSUME Evidence, Barriers, InHost(StartPause)
  PROVE  Barriers'
<1>1. /\ UNCHANGED <<pause, up, display, session, attached>> /\ gated' = TRUE /\ phase = "open"
      /\ \/ session /\ NewBarrier("pausing", "pause")
         \/ ~session /\ NoBarrier("blindSettling")
  BY DEF InHost, StartPause, guestVars
<1>2. CASE session /\ NewBarrier("pausing", "pause")
  <2>1. Linked' /\ Tokens'
    BY <1>1, <1>2, NewBarrierKeepsTokens DEF BarrierTypes
  <2>2. phase' = "pausing"
    BY <1>2 DEF NewBarrier
  <2>3. Gated' /\ Blind' /\ Fenced' /\ Lifted' /\ Open'
    BY <1>1, <1>2, <2>2 DEF Gated, Blind, Unheard, Fenced, Lifted, Open
  <2> QED BY <2>1, <2>3 DEF Barriers
<1>3. CASE ~session /\ NoBarrier("blindSettling")
  <2>1. phase' = "blindSettling" /\ UNCHANGED <<nextToken, control>>
    BY <1>3 DEF NoBarrier
  <2>2. Linked' /\ Tokens'
    BY <1>1, <2>1 DEF Barriers, Linked, Tokens
  <2>3. Gated' /\ Fenced' /\ Lifted' /\ Open'
    BY <2>1 DEF Gated, Fenced, Lifted, Open
  <2>4. Blind'
    BY <1>1, <1>3, <2>1 DEF Barriers, Blind, Unheard, Untouched, Unasked
  <2> QED BY <2>2, <2>3, <2>4 DEF Barriers
<1> QED BY <1>1, <1>2, <1>3

LEMMA SettleKeepsBarriers ==
  ASSUME Evidence, Barriers, InHost(Settle)
  PROVE  Barriers'
<1>1. /\ UNCHANGED <<pause, ledger, up, display, session, attached, gated, stale, journal>>
      /\ ~stale /\ Settled
      /\ \/ phase = "settling" /\ NewBarrier("fencing", "pause")
         \/ phase = "blindSettling" /\ NoBarrier("blindSealed")
  BY DEF InHost, Settle, guestVars, ledgerVars
<1>2. Settled'
  BY <1>1 DEF Settled, InState
<1>3. CASE phase = "settling" /\ NewBarrier("fencing", "pause")
  <2>1. /\ Linked' /\ Tokens'
    BY <1>1, <1>3, NewBarrierKeepsTokens DEF BarrierTypes
  <2>2. phase' = "fencing" /\ session /\ gated
    BY <1>1, <1>3 DEF NewBarrier, Barriers, Gated
  <2>3. Gated' /\ Blind' /\ Lifted' /\ Open'
    BY <1>1, <2>2 DEF Gated, Blind, Unheard, Lifted, Open
  <2>4. token' + 1 = nextToken' /\ token' # 0 /\ pause'.lastBarrier # token'
    BY <1>1, <1>3, NewBarrierIsFresh, BarrierTypesHold DEF BarrierTypes, PauseRecord
  <2>5. \A i \in DOMAIN control' : control'[i].type = "resume" => control'[i].token # token'
    BY <1>3, NewBarrierIsFresh DEF BarrierTypes
  <2>6. Fenced'
    BY <1>2, <2>2, <2>4, <2>5 DEF Fenced, FenceHeard
  <2> QED BY <2>1, <2>3, <2>6 DEF Barriers
<1>4. CASE phase = "blindSettling" /\ NoBarrier("blindSealed")
  <2>1. phase' = "blindSealed" /\ UNCHANGED <<nextToken, control>>
    BY <1>4 DEF NoBarrier
  <2>2. Linked' /\ Tokens'
    BY <1>1, <2>1 DEF Barriers, Linked, Tokens
  <2>3. Gated' /\ Fenced' /\ Lifted' /\ Open'
    BY <2>1 DEF Gated, Fenced, Lifted, Open
  <2>4. Blind'
    BY <1>1, <1>4, <2>1 DEF Barriers, Blind, Unheard, Untouched, Unasked
  <2> QED BY <2>2, <2>3, <2>4 DEF Barriers
<1> QED BY <1>1, <1>3, <1>4

LEMMA BeginResumeKeepsBarriers ==
  ASSUME Evidence, Barriers, InHost(BeginResume)
  PROVE  Barriers'
<1>1. /\ UNCHANGED <<pause, up, display, session, attached>> /\ stale' = FALSE
      /\ \/ session /\ NewBarrier("resuming", "resume")
         \/ ~session /\ NoBarrier("blindResuming")
  BY DEF InHost, BeginResume, guestVars
<1>2. CASE session /\ NewBarrier("resuming", "resume")
  <2>1. Linked' /\ Tokens'
    BY <1>1, <1>2, NewBarrierKeepsTokens DEF BarrierTypes
  <2>2. phase' = "resuming"
    BY <1>2 DEF NewBarrier
  <2>3. Gated' /\ Blind' /\ Fenced' /\ Open'
    BY <1>1, <1>2, <2>2 DEF Gated, Blind, Unheard, Fenced, Open
  <2>4. token' + 1 = nextToken' /\ token' # 0 /\ pause'.lastBarrier # token'
        /\ pause'.completedResume # token'
    BY <1>1, <1>2, NewBarrierIsFresh, BarrierTypesHold DEF BarrierTypes, PauseRecord
  <2>5. \A i \in DOMAIN control' : control'[i].type = "pause" => control'[i].token # token'
    BY <1>2, NewBarrierIsFresh DEF BarrierTypes
  <2>6. \A i, j \in DOMAIN control' :
          i < j /\ control'[i].type = "resume" /\ control'[i].token = token'
            => control'[j].type \notin BarrierTypes
    <3> SUFFICES ASSUME NEW i \in DOMAIN control', NEW j \in DOMAIN control', i < j,
                        control'[i].type = "resume", control'[i].token = token'
                 PROVE  FALSE
      OBVIOUS
    <3>1. i \in DOMAIN control /\ control'[i] = control[i]
      BY <1>2, NewBarrierIsFresh DEF BarrierTypes
    <3>2. control[i].token < nextToken /\ control[i].token \in Nat
      BY <3>1, BarrierTypesHold DEF Barriers, Tokens, BarrierTypes
    <3>3. token' = nextToken
      BY <1>2 DEF NewBarrier
    <3> QED BY <3>1, <3>2, <3>3
  <2>7. ~Resumed'
    BY <1>1, <1>2, NewBarrierIsFresh DEF Resumed, BarrierTypes, ReplyTypes
  <2>8. Lifted'
    BY <2>4, <2>5, <2>6, <2>7 DEF Lifted, ResumeHeard
  <2> QED BY <2>1, <2>3, <2>8 DEF Barriers
<1>3. CASE ~session /\ NoBarrier("blindResuming")
  <2>1. phase' = "blindResuming" /\ UNCHANGED <<nextToken, control>>
    BY <1>3 DEF NoBarrier
  <2>2. Linked' /\ Tokens'
    BY <1>1, <2>1 DEF Barriers, Linked, Tokens
  <2>3. Gated' /\ Fenced' /\ Lifted' /\ Open'
    BY <2>1 DEF Gated, Fenced, Lifted, Open
  <2>4. Blind'
    BY <1>1, <1>3, <2>1 DEF Barriers, Blind, Unheard, Untouched, Unasked
  <2> QED BY <2>2, <2>3, <2>4 DEF Barriers
<1> QED BY <1>1, <1>2, <1>3

\* Drawing is opened again by a resume: nothing is left that could fence the guest.
LEMMA DrawingKeepsBarriers ==
  ASSUME Evidence, Barriers, UNCHANGED <<pause, up, session, attached, nextToken>>,
         phase' = "open", Drawing, up => Untouched \/ (~pause.paused /\ Unasked),
         ~session /\ up => Untouched,
         display' \in Seq(DisplayMessage) /\ Sublane(display', display), Linked'
  PROVE  Barriers'
<1>1. PICK more : AsksNothing(more) /\ control' = Written(control, more)
  BY FlushDeferredAsksNothing DEF Drawing
<1>2. \A i \in DOMAIN control' : control'[i].type \in BarrierTypes
        => i \in DOMAIN control /\ control'[i] = control[i]
  BY <1>1, BarrierTypesHold, WrittenEntries DEF AsksNothing
<1>3. Unasked => Unasked'
  BY <1>2 DEF Unasked
<1>4. Tokens'
  <2>1. \A i \in DOMAIN display' : display'[i].type \in ReplyTypes => display'[i].token <= pause.lastBarrier
    BY DEF Sublane, Barriers, Tokens
  <2>2. \A i \in DOMAIN control' : control'[i].type \in BarrierTypes => control'[i].token < nextToken
    BY <1>2 DEF Barriers, Tokens
  <2> QED BY <2>1, <2>2 DEF Barriers, Tokens
<1>5. Gated' /\ Fenced' /\ Lifted'
  BY DEF Gated, Fenced, Lifted
<1>6. Blind' /\ Open'
  BY <1>3 DEF Blind, Open, Unheard, Untouched
<1> QED BY <1>4, <1>5, <1>6 DEF Barriers

LEMMA ReceiveReplyKeepsBarriers ==
  ASSUME Evidence, Barriers, InHost(ReceiveReply)
  PROVE  Barriers'
<1> DEFINE m == Head(display)
<1>1. /\ UNCHANGED <<pause, ledger, up, attached, session, journal, stale, nextToken>>
      /\ display # <<>> /\ display' = Tail(display)
      /\ m.type \in ReplyTypes
  BY DEF InHost, ReceiveReply, Heard, guestVars, ReplyTypes
<1>2. \/ /\ Expected("reached", "pausing")
         /\ phase' = "settling" /\ token' = 0 /\ UNCHANGED <<control, gated>>
      \/ /\ Expected("reached", "fencing")
         /\ phase' = "draining" /\ UNCHANGED <<token, control, gated>>
      \/ /\ Expected("drained", "draining")
         /\ phase' = "sealed" /\ UNCHANGED <<token, control, gated>>
      \/ /\ Expected("resumed", "resuming")
         /\ phase' = "open" /\ Drawing
      \/ UNCHANGED <<phase, token, control, gated>> /\ ~Expected("reached", "fencing")
  BY Zenon DEF InHost, ReceiveReply
<1>3. UNCHANGED pauses
  BY DEF InHost, ReceiveReply
<1>4. /\ 1 \in DOMAIN display /\ display[1] = m /\ m.token \in Nat /\ m.token <= pause.lastBarrier /\ up
  BY <1>1, BarrierTypesHold, UnreadMeansUp DEF Barriers, Tokens
<1>5. /\ display' \in Seq(DisplayMessage) /\ Sublane(display', display)
      /\ \A i \in DOMAIN display' : i \in Nat /\ 1 < i + 1 /\ i + 1 \in DOMAIN display
                                      /\ display'[i] = display[i + 1] /\ display'[i].type # "started"
  <2>1. display' \in Seq(DisplayMessage)
    BY <1>1, HeadOfDisplay
  <2>2. \A i \in DOMAIN display' : i \in Nat \ {0}
    BY <2>1
  <2> QED BY <1>1, <2>1, <2>2, HeadOfDisplay DEF Barriers, Linked
<1>6. Settled' = Settled /\ Outstanding' = Outstanding
  BY <1>1 DEF Settled, InState, Outstanding, InLedger
<1> HIDE DEF m
<1>7. Linked'
  BY <1>1, <1>4, <1>5 DEF Barriers, Linked
<1>8. UNCHANGED control => Tokens'
  BY <1>1, <1>5 DEF Barriers, Tokens, Sublane
<1>9. phase \in {"fencing", "draining", "sealed", "resuming"} /\ ~stale => pause.lastBarrier <= token
  BY BarrierTypesHold DEF Barriers, Tokens, Fenced, Lifted, PauseRecord
<1>10. CASE /\ Expected("reached", "pausing")
            /\ phase' = "settling" /\ token' = 0 /\ UNCHANGED <<control, gated>>
  <2>1. session /\ gated
    BY <1>10 DEF Expected, Barriers, Gated
  <2>2. Gated' /\ Blind' /\ Fenced' /\ Lifted' /\ Open'
    BY <1>1, <1>10, <2>1 DEF Gated, Blind, Unheard, Fenced, Lifted, Open
  <2> QED BY <1>7, <1>8, <1>10, <2>2 DEF Barriers
<1>11. CASE /\ Expected("reached", "fencing")
            /\ phase' = "draining" /\ UNCHANGED <<token, control, gated>>
  <2>1. /\ phase = "fencing" /\ ~stale /\ session /\ gated
        /\ m.type = "reached" /\ m.token = token
    BY <1>11 DEF Expected, Heard, m, Barriers, Gated
  <2>2. Gated' /\ Blind' /\ Lifted' /\ Open'
    BY <1>1, <1>11, <2>1 DEF Gated, Blind, Unheard, Lifted, Open
  <2>3. token + 1 = nextToken /\ token # 0 /\ Settled /\ FenceHeard
    BY <1>4, <2>1 DEF Barriers, Fenced
  <2>4. pause.lastBarrier = token
    BY <1>4, <1>9, <2>1, BarrierTypesHold DEF PauseRecord
  <2>5. FenceHeard'
    BY <1>1, <1>11, <2>3, <2>4 DEF FenceHeard
  <2>6. ASSUME pause.paused PROVE FenceHolds'
    <3>1. FenceHolds
      BY <1>4, <2>1, <2>4, <2>6 DEF Barriers, Fenced
    <3>2. \A j \in DOMAIN display : 1 < j => display[j].type # "scene"
      BY <1>4, <2>1, <3>1 DEF FenceHolds
    <3>3. \A i \in DOMAIN display' : display'[i].type # "scene"
      BY <1>5, <3>2
    <3>4. Drained' => Drained
      BY <1>5, <1>11 DEF Drained, Sublane
    <3>5. phase' # "sealed"
      BY <1>11
    <3> QED BY <1>6, <3>1, <3>3, <3>4, <3>5 DEF FenceHolds
  <2>7. Fenced'
    BY <1>1, <1>6, <1>11, <2>3, <2>5, <2>6 DEF Fenced
  <2> QED BY <1>7, <1>8, <1>11, <2>2, <2>7 DEF Barriers
<1>12. CASE /\ Expected("drained", "draining")
            /\ phase' = "sealed" /\ UNCHANGED <<token, control, gated>>
  <2>1. /\ phase = "draining" /\ ~stale /\ session /\ gated
        /\ m.type = "drained" /\ m.token = token
    BY <1>12 DEF Expected, Heard, m, Barriers, Gated
  <2>2. Gated' /\ Blind' /\ Lifted' /\ Open'
    BY <1>1, <1>12, <2>1 DEF Gated, Blind, Unheard, Lifted, Open
  <2>3. token + 1 = nextToken /\ token # 0 /\ Settled /\ FenceHeard
    BY <1>4, <2>1 DEF Barriers, Fenced
  <2>4. FenceHeard'
    BY <1>1, <1>12, <2>1, <2>3 DEF FenceHeard
  <2>5. ASSUME pause.lastBarrier = token, pause.paused PROVE FenceHolds'
    <3>1. FenceHolds
      BY <1>4, <2>1, <2>5 DEF Barriers, Fenced
    <3>2. Outstanding = {}
      BY <1>4, <2>1, <3>1 DEF FenceHolds, Drained
    <3>3. \A i \in DOMAIN display' : display'[i].type # "scene"
      BY <1>5, <2>1, <3>1 DEF FenceHolds, Sublane
    <3> QED BY <1>6, <3>2, <3>3 DEF FenceHolds
  <2>6. Fenced'
    BY <1>1, <1>6, <1>12, <2>3, <2>4, <2>5 DEF Fenced
  <2> QED BY <1>7, <1>8, <1>12, <2>2, <2>6 DEF Barriers
<1>13. CASE Expected("resumed", "resuming") /\ phase' = "open" /\ Drawing
  <2>1. phase = "resuming" /\ ~stale /\ session /\ m.type = "resumed" /\ m.token = token
    BY <1>13 DEF Expected, Heard, m
  <2>2. ResumeHeard
    BY <1>4, <2>1 DEF Barriers, Lifted
  <2>3. pause.lastBarrier = token
    BY <1>4, <1>9, <2>1, BarrierTypesHold DEF PauseRecord
  <2>4. ~pause.paused /\ Unasked
    BY <1>4, <2>1, <2>2, <2>3 DEF ResumeHeard, Resumed
  <2> QED BY <1>1, <1>5, <1>7, <1>13, <2>1, <2>4, DrawingKeepsBarriers
<1>14. CASE UNCHANGED <<phase, token, control, gated>> /\ ~Expected("reached", "fencing")
  <2>1. HostMoves
    BY <1>1, <1>3, <1>5, <1>6, <1>14 DEF HostMoves, barrierVars
  <2> QED BY <1>14, <2>1, NothingAsksNothing, HostKeepsBarriers
<1> QED BY <1>2, <1>10, <1>11, <1>12, <1>13, <1>14

LEMMA ResumeEndsKeepBarriers ==
  ASSUME Evidence, Barriers, InHost(BlindResume) \/ InHost(ResumeFails)
  PROVE  Barriers'
<1>1. UNCHANGED <<pause, up, display, session, attached, nextToken>>
  BY DEF InHost, BlindResume, ResumeFails, guestVars, laneVars
<1>2. CASE InHost(BlindResume)
  <2>1. phase = "blindResuming" /\ ~stale /\ phase' = "open" /\ Drawing
    BY <1>2 DEF InHost, BlindResume
  <2>2. up => Untouched
    BY <2>1 DEF Barriers, Blind, Unheard
  <2>3. Linked'
    <3>1. PICK more : control' = Written(control, more)
      BY <2>1, FlushDeferredAsksNothing DEF Drawing
    <3> QED BY <1>1, <3>1 DEF Barriers, Linked, Written
  <2>4. display' \in Seq(DisplayMessage) /\ Sublane(display', display)
    BY <1>1, SameDisplay
  <2> QED BY <1>1, <2>1, <2>2, <2>3, <2>4, DrawingKeepsBarriers
<1>3. CASE InHost(ResumeFails)
  <2>1. phase' = "unsealed" /\ UNCHANGED <<control, stale>>
    BY <1>3 DEF InHost, ResumeFails, laneVars
  <2>2. Linked' /\ Tokens'
    BY <1>1, <2>1 DEF Barriers, Linked, Tokens
  <2>3. Gated' /\ Fenced' /\ Lifted' /\ Open'
    BY <2>1 DEF Gated, Fenced, Lifted, Open
  <2>4. Blind'
    BY <1>1, <2>1 DEF Barriers, Blind, Unheard, Untouched, Unasked
  <2> QED BY <2>2, <2>3, <2>4 DEF Barriers
<1> QED BY <1>2, <1>3

LEMMA HostDetachKeepsBarriers ==
  ASSUME Evidence, Barriers, InHost(HostDetach)
  PROVE  Barriers'
<1>1. /\ UNCHANGED <<pause, up, display, control, nextToken, phase>> /\ ~up
      /\ session' = FALSE /\ (phase # "open" => stale')
  BY DEF InHost, HostDetach, guestVars, laneVars
<1>2. display = <<>>
  BY <1>1 DEF Barriers, Linked
<1>3. Linked' /\ Tokens'
  BY <1>1, <1>2 DEF Barriers, Linked, Tokens
<1>4. Gated' /\ Fenced' /\ Lifted' /\ Blind' /\ Open'
  BY <1>1 DEF Gated, Fenced, Lifted, Blind, Open
<1> QED BY <1>3, <1>4 DEF Barriers

-----------------------------------------------------------------------------
(* The connection.                                                         *)

LEMMA DropKeepsBarriers ==
  ASSUME Evidence, Barriers, Drop, UNCHANGED <<guestVars, hostVars, displayed>>
  PROVE  Barriers'
<1>1. /\ UNCHANGED <<pause, session, attached, gated, phase, token, stale, nextToken>>
      /\ ~up' /\ display' = <<>> /\ control' = <<>> /\ Settled' = Settled
  BY DEF Drop, guestVars, hostVars, Settled, InState
<1>2. Linked' /\ Tokens'
  BY <1>1 DEF Barriers, Linked, Tokens
<1>3. Gated' /\ Fenced' /\ Lifted' /\ Blind' /\ Open'
  BY <1>1 DEF Barriers, Gated, Fenced, Lifted, Blind, Open
<1> QED BY <1>2, <1>3 DEF Barriers

LEMMA ConnectKeepsBarriers ==
  ASSUME Evidence, Barriers, Connect
  PROVE  Barriers'
<1> DEFINE start == [type |-> "started"]
           clk   == [type |-> "clock", epoch |-> epoch]
<1>1. /\ UNCHANGED <<session, gated, phase, token, stale, nextToken, control>>
      /\ ~up /\ ~attached /\ attached' = TRUE /\ up' = TRUE /\ pause' = ResetPause
      /\ display' = <<start>> \o ClockRequest
  BY DEF Connect, GuestAttach, barrierVars
<1>2. ClockRequest = <<clk>>
  BY DEF ClockRequest
<1>3. start.type = "started" /\ clk.type = "clock"
  OBVIOUS
<1> HIDE DEF start, clk
<1>4. \A i \in DOMAIN (<<start>> \o <<clk>>) :
        \/ i = 1 /\ (<<start>> \o <<clk>>)[i] = start
        \/ (<<start>> \o <<clk>>)[i] = clk
  <2>1. <<start>> \in Seq({start, clk}) /\ <<clk>> \in Seq({start, clk})
    OBVIOUS
  <2>2. DOMAIN <<start>> = {1} /\ <<start>>[1] = start /\ \A i \in DOMAIN <<clk>> : <<clk>>[i] = clk
    OBVIOUS
  <2> QED BY <2>1, <2>2, Appended
<1>5. \A i \in DOMAIN display' : (i = 1 /\ display'[i] = start) \/ display'[i] = clk
  BY <1>1, <1>2, <1>4
<1>6. \A i \in DOMAIN display' : i = 1 \/ display'[i].type = "clock"
  BY <1>3, <1>5
<1>7. \A i \in DOMAIN display' : display'[i].type \notin ReplyTypes
  BY <1>3, <1>5 DEF ReplyTypes
<1>8. ~session /\ control' = <<>>
  BY <1>1 DEF Barriers, Linked
<1>9. Linked'
  BY <1>1, <1>6, <1>8 DEF Linked
<1>10. Tokens'
  BY <1>1, <1>7, <1>8, BarrierTypesHold DEF Barriers, Tokens, ResetPause, PauseRecord
<1>11. Gated' /\ Fenced' /\ Lifted'
  BY <1>1, <1>8 DEF Barriers, Gated, Fenced, Lifted
<1>12. Blind' /\ Open'
  BY <1>1, <1>8 DEF Blind, Open, Untouched, Unasked, ResetPause
<1> QED BY <1>9, <1>10, <1>11, <1>12 DEF Barriers

-----------------------------------------------------------------------------
(* The barriers are an inductive invariant.                                *)

LEMMA InitHasBarriers ==
  Init => Barriers
<1> SUFFICES ASSUME Init PROVE Barriers
  OBVIOUS
<1> USE DEF Init, LanesInit, GuestInit, HostInit
<1>1. Linked
  BY DEF Linked
<1>2. Tokens
  BY DEF Tokens
<1>3. Gated /\ Fenced /\ Lifted /\ Blind /\ Open
  BY DEF Gated, Fenced, Lifted, Blind, Open
<1> QED BY <1>1, <1>2, <1>3 DEF Barriers

LEMMA NextKeepsBarriers ==
  Evidence /\ Barriers /\ [Next]_vars => Barriers'
<1> SUFFICES ASSUME Evidence, Barriers, [Next]_vars PROVE Barriers'
  OBVIOUS
<1>1. CASE InGuest(ClientStep)
  <2>1. \/ \E q \in Queries : InGuest(RequestFeedback(q))
        \/ \E s \in Surfaces, kind \in Kinds : InGuest(Commit(s, kind))
        \/ \E s \in Mortal : InGuest(DestroySurface(s))
    BY <1>1 DEF InGuest, ClientStep
  <2> QED BY <2>1, SurfaceStepKeepsBarriers
<1>2. CASE InGuest(CompositorStep)
  <2>1. \/ InGuest(ApplyUpdate)
        \/ \E root \in Roots : InGuest(ApplyUnblocked(root)) \/ InGuest(Flush(root))
        \/ InGuest(ReceiveCapture) \/ InGuest(ReceiveResult)
        \/ InGuest(ReceivePause) \/ InGuest(ReceiveDrain) \/ InGuest(ReceiveResume)
        \/ \E expired \in SUBSET Outstanding, late, ask \in BOOLEAN :
             InGuest(Tick(expired, late, ask))
        \/ InGuest(SampleRejected) \/ InGuest(SampleFaults) \/ InGuest(SampleAccepted)
        \/ \E id \in Ids : InGuest(SceneSample(id))
        \/ InGuest(GuestDetach)
    BY <1>2 DEF InGuest, CompositorStep
  <2>2. CASE \/ InGuest(ApplyUpdate) \/ InGuest(ReceiveCapture) \/ InGuest(SampleRejected)
             \/ \E root \in Roots : InGuest(ApplyUnblocked(root)) \/ InGuest(Flush(root))
    BY <2>2, SurfaceStepKeepsBarriers, FlushKeepsBarriers
  <2>3. CASE \E expired \in SUBSET Outstanding, late, ask \in BOOLEAN :
               InGuest(Tick(expired, late, ask))
    BY <2>3, TickKeepsBarriers
  <2>4. CASE \/ InGuest(SampleFaults) \/ InGuest(SampleAccepted)
             \/ \E id \in Ids : InGuest(SceneSample(id))
    BY <2>4, SampleAcceptedKeepsBarriers, FaultKeepsBarriers
  <2>5. CASE InGuest(ReceivePause) \/ InGuest(ReceiveDrain) \/ InGuest(ReceiveResume)
    BY <2>5, ReceivePauseKeepsBarriers, ReceiveDrainKeepsBarriers, ReceiveResumeKeepsBarriers
  <2> QED BY <2>1, <2>2, <2>3, <2>4, <2>5, ReceiveResultKeepsBarriers, GuestDetachKeepsBarriers
<1>3. CASE InHost(HostStep)
  <2>1. \/ \E id \in Ids : InHost(Submit(id) \/ DiscardQueued(id) \/ Drawable(id, "zero"))
        \/ InHost(FlushResults) \/ InHost(AnswerClock)
        \/ \E root \in Recaptured : InHost(AskReplay(root))
        \/ \E root \in Roots : InHost(DisplayTick(root))
        \/ InHost(ReceiveStarted) \/ InHost(ReceiveScene)
        \/ InHost(ReceiveAck) \/ InHost(ReceiveReply)
        \/ InHost(StartPause) \/ InHost(Settle) \/ InHost(BeginResume)
        \/ InHost(BlindResume) \/ InHost(ResumeFails) \/ InHost(HostDetach)
    BY <1>3 DEF InHost, HostStep, PauseFails, StartResume
  <2>2. Recaptured \subseteq Roots
    BY LaneAssumption DEF Roots
  <2>3. CASE \/ \E root \in Recaptured : InHost(AskReplay(root))
             \/ \E root \in Roots : InHost(DisplayTick(root))
    BY <2>2, <2>3, ReplayStepKeepsBarriers
  <2>4. CASE \/ InHost(ReceiveStarted) \/ InHost(ReceiveScene)
             \/ InHost(ReceiveAck) \/ InHost(ReceiveReply)
    BY <2>4, ReceiveStartedKeepsBarriers, ReceiveSceneKeepsBarriers,
       ReceiveAckKeepsBarriers, ReceiveReplyKeepsBarriers
  <2>5. CASE \/ InHost(StartPause) \/ InHost(Settle) \/ InHost(BeginResume)
             \/ InHost(BlindResume) \/ InHost(ResumeFails) \/ InHost(HostDetach)
    BY <2>5, StartPauseKeepsBarriers, SettleKeepsBarriers, BeginResumeKeepsBarriers,
       ResumeEndsKeepBarriers, HostDetachKeepsBarriers
  <2> QED BY <2>1, <2>3, <2>4, <2>5, RecordStepKeepsBarriers, FlushResultsKeepsBarriers,
             AnswerClockKeepsBarriers
<1>4. CASE \E id \in Ids : Displays(id) /\ UNCHANGED guestVars
  BY <1>4, RecordStepKeepsBarriers
<1>5. CASE Drop /\ UNCHANGED <<guestVars, hostVars, displayed>>
  BY <1>5, DropKeepsBarriers
<1>6. CASE Connect
  BY <1>6, ConnectKeepsBarriers
<1>7. CASE UNCHANGED vars
  BY <1>7, FlushResultsKeepsBarriers
<1> QED BY <1>1, <1>2, <1>3, <1>4, <1>5, <1>6, <1>7 DEF Next

LEMMA BarriersAreInvariant == Spec => [](Evidence /\ Barriers)
<1>1. Init => Evidence /\ Barriers
  BY InitHasEvidence, InitHasBarriers
<1>2. Evidence /\ Barriers /\ [Next]_vars => (Evidence /\ Barriers)'
  BY NextKeepsEvidence, NextKeepsBarriers
<1> QED BY <1>1, <1>2, PTL DEF Spec

(***************************************************************************)
(* When the host believes the guest is drained, it has heard the answer to *)
(* this barrier on this connection, and while the guest is still in it no  *)
(* record awaits a result on either side and no scene is on its way.       *)
(***************************************************************************)
THEOREM SealIsQuiet == Spec => []SealedIsQuiet
<1>1. Evidence /\ Barriers => SealedIsQuiet
  <2> SUFFICES ASSUME Evidence, Barriers, phase = "sealed", ~stale, up
               PROVE  /\ pause.pauseToken = token
                      /\ pause.paused => /\ Outstanding = {}
                                         /\ InState({"submitted"}) = {}
                                         /\ \A i \in DOMAIN display : display[i].type # "scene"
    BY DEF SealedIsQuiet
  <2>1. Settled /\ FenceHeard /\ (pause.lastBarrier = token /\ pause.paused => FenceHolds)
    BY DEF Barriers, Fenced
  <2>2. pause.lastBarrier = token /\ pause.pauseToken = token
    BY <2>1 DEF FenceHeard
  <2>3. InState({"submitted"}) = {}
    BY <2>1 DEF Settled, InState
  <2> QED BY <2>1, <2>2, <2>3 DEF FenceHolds
<1> QED BY <1>1, BarriersAreInvariant, PTL

(***************************************************************************)
(* Once the host draws again, whether its barrier was lifted, failed or    *)
(* never reached the guest, no pause of this connection is in force or on  *)
(* its way.                                                                *)
(***************************************************************************)
THEOREM OpenIsUnfenced == Spec => []OpenMeansUnfenced
<1>1. Barriers => OpenMeansUnfenced
  BY DEF Barriers, Open, Unasked, BarrierTypes, OpenMeansUnfenced
<1> QED BY <1>1, BarriersAreInvariant, PTL
=============================================================================
