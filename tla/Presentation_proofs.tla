------------------------- MODULE Presentation_proofs -------------------------
(***************************************************************************)
(* Proofs about Presentation.                                              *)
(***************************************************************************)
EXTENDS Presentation, FiniteSetTheorems, SequenceTheorems, TLAPS

\* A batch lists members of the set it is made of.
LEMMA BatchIsSeq ==
  ASSUME NEW S, IsFiniteSet(S)
  PROVE  SetToSeq(S) \in Seq(S)
<1>1. Cardinality(S) \in Nat /\ ExistsBijection(1 .. Cardinality(S), S)
  BY FS_CardinalityType
<1>2. PICK f \in [1 .. Cardinality(S) -> S] : IsInjective(f)
  BY <1>1 DEF ExistsBijection, Bijection, Injection
<1>3. SetToSeq(S) \in [1 .. Cardinality(S) -> S]
  BY <1>2 DEF SetToSeq
<1> QED BY <1>1, <1>3

-----------------------------------------------------------------------------
(* Lanes.                                                                  *)

LEMMA BatchesAreFinite ==
  /\ \A ids \in SUBSET Ids : IsFiniteSet(ids)
  /\ Roots \subseteq Surfaces
  /\ \A roots \in SUBSET Roots : IsFiniteSet(roots)
<1>1. IsFiniteSet(Ids) /\ IsFiniteSet(Surfaces)
  BY LaneAssumption, FS_Interval DEF Ids, Surfaces
<1>2. Roots \subseteq Surfaces
  BY LaneAssumption DEF Roots
<1> QED BY <1>1, <1>2, FS_Subset

LEMMA WrittenIsSeq ==
  ASSUME NEW S, NEW lane \in Seq(S), NEW messages \in Seq(S)
  PROVE  Written(lane, messages) \in Seq(S)
BY DEF Written

LEMMA HeardIsMember ==
  ASSUME NEW S, NEW lane \in Seq(S), NEW type, Heard(lane, type)
  PROVE  /\ Head(lane) \in S /\ Head(lane).type = type
         /\ Tail(lane) \in Seq(S)
BY DEF Heard

LEMMA LargerLane ==
  ASSUME NEW S, NEW T, S \subseteq T, NEW lane \in Seq(S)
  PROVE  lane \in Seq(T)
<1>1. lane \in [1 .. Len(lane) -> S] /\ Len(lane) \in Nat
  OBVIOUS
<1> QED BY <1>1

LEMMA AcksAreEvents ==
  ASSUME NEW ids \in SUBSET Ids
  PROVE  Acks(ids) \in Seq(SceneEvents)
<1> DEFINE order == SetToSeq(ids)
<1>1. order \in Seq(ids)
  BY BatchesAreFinite, BatchIsSeq
<1> HIDE DEF order
<1>2. DOMAIN order = 1 .. Len(order) /\ Len(order) \in Nat
  BY <1>1
<1>3. \A k \in DOMAIN order : [type |-> "ack", id |-> order[k]] \in SceneEvents
  BY <1>1 DEF SceneEvents
<1>4. [k \in DOMAIN order |-> [type |-> "ack", id |-> order[k]]] \in [1 .. Len(order) -> SceneEvents]
  BY <1>2, <1>3
<1>5. [k \in DOMAIN order |-> [type |-> "ack", id |-> order[k]]] \in Seq(SceneEvents)
  BY <1>2, <1>4
<1> QED BY <1>5 DEF Acks, order

LEMMA ResultsAreCommands ==
  ASSUME HostHoldsEvidence, NEW ids \in SUBSET InState(Terminal)
  PROVE  Results(ids) \in Seq(ResultCommands)
<1> DEFINE order == SetToSeq(ids)
<1>1. order \in Seq(ids) /\ ids \subseteq Ids
  BY BatchesAreFinite, BatchIsSeq DEF InState
<1> HIDE DEF order
<1>2. DOMAIN order = 1 .. Len(order) /\ Len(order) \in Nat
  BY <1>1
<1>3. \A k \in DOMAIN order : [type |-> journal[order[k]], id |-> order[k]] \in ResultCommands
  <2> TAKE k \in DOMAIN order
  <2>1. order[k] \in Ids /\ journal[order[k]] \in Terminal
    BY <1>1 DEF InState
  <2> QED BY <2>1 DEF ResultCommands, HostHoldsEvidence, Terminal
<1>4. [k \in DOMAIN order |-> [type |-> journal[order[k]], id |-> order[k]]]
         \in [1 .. Len(order) -> ResultCommands]
  BY <1>2, <1>3
<1>5. [k \in DOMAIN order |-> [type |-> journal[order[k]], id |-> order[k]]] \in Seq(ResultCommands)
  BY <1>2, <1>4
<1> QED BY <1>5 DEF Results, order

LEMMA CapturesAreCommands ==
  ASSUME NEW roots \in SUBSET Roots
  PROVE  Captures(roots) \in Seq(BarrierCommands)
<1> DEFINE order == SetToSeq(roots)
<1>1. order \in Seq(roots)
  BY BatchesAreFinite, BatchIsSeq
<1> HIDE DEF order
<1>2. DOMAIN order = 1 .. Len(order) /\ Len(order) \in Nat
  BY <1>1
<1>3. \A k \in DOMAIN order : [type |-> "capture", root |-> order[k]] \in BarrierCommands
  BY <1>1 DEF BarrierCommands
<1>4. [k \in DOMAIN order |-> [type |-> "capture", root |-> order[k]]]
         \in [1 .. Len(order) -> BarrierCommands]
  BY <1>2, <1>3
<1>5. [k \in DOMAIN order |-> [type |-> "capture", root |-> order[k]]] \in Seq(BarrierCommands)
  BY <1>2, <1>4
<1> QED BY <1>5 DEF Captures, order

LEMMA DrainReplyIsEvent ==
  ASSUME pause.drainToken \in Nat, NEW left
  PROVE  DrainReply(left) \in Seq(SceneEvents)
<1>1. <<>> \in Seq(SceneEvents)
  OBVIOUS
<1>2. [type |-> "drained", token |-> pause.drainToken] \in SceneEvents
  BY DEF SceneEvents
<1> QED BY <1>1, <1>2 DEF DrainReply

-----------------------------------------------------------------------------
(* What stays true because nothing it speaks of changes.                   *)

\* What surfaces show, wait for and are to send.
surfaceState == <<alive, content, cached, blocked, applying, dirty, nextId>>

LEMMA SurfaceFrame ==
  ASSUME Evidence, UNCHANGED <<surfaceState, packet>>
  PROVE  PendingIsNew' /\ PendingOnce' /\ SceneIdsAreFresh'
BY DEF Evidence, PendingIsNew, PendingOnce, SceneIdsAreFresh, surfaceState, Pending, Sampling

\* What the host's part of the evidence speaks of.
hostState == <<journal, sceneRoot, refresh, token, nextToken, displayed>>

LEMMA HostStateFrame ==
  ASSUME Evidence, UNCHANGED hostState,
         \A id \in Ids : Sampling(id) => Sampling(id)'
  PROVE  HostHoldsEvidence'
BY DEF Evidence, HostHoldsEvidence, hostState

LEMMA HostFrame ==
  ASSUME Evidence, UNCHANGED <<hostVars, displayed>>,
         \A id \in Ids : Sampling(id) => Sampling(id)'
  PROVE  HostHoldsEvidence'
BY HostStateFrame DEF hostState, hostVars, barrierVars

LEMMA SceneEventsFrame ==
  ASSUME UNCHANGED packet
  PROVE  SceneEvents' = SceneEvents
BY DEF SceneEvents, Sampling

LEMMA ResultCommandsFrame ==
  ASSUME UNCHANGED displayed
  PROVE  ResultCommands' = ResultCommands
BY DEF ResultCommands

LEMMA GuestFrame ==
  ASSUME Evidence, UNCHANGED <<guestVars, connections, displayed>>
  PROVE  /\ GuestShape' /\ PendingIsNew' /\ SceneIdsAreFresh'
         /\ PendingOnce' /\ QueriesFollowContent' /\ LedgerHoldsEvidence'
         /\ PresentedWasDisplayed'
<1> USE DEF Evidence, guestVars
<1>1. GuestShape'
  BY DEF GuestShape
<1>2. PendingIsNew' /\ PendingOnce' /\ SceneIdsAreFresh'
  BY SurfaceFrame DEF surfaceState
<1>3. QueriesFollowContent'
  BY DEF QueriesFollowContent, BoundToContent, Shows, Target
<1>4. LedgerHoldsEvidence'
  BY DEF LedgerHoldsEvidence
<1>5. PresentedWasDisplayed'
  BY DEF PresentedWasDisplayed, WasDisplayed, Shows, Target
<1> QED BY <1>1, <1>2, <1>3, <1>4, <1>5

-----------------------------------------------------------------------------
(* Queries leave the ledger only to an end or back to their surface.       *)

\* The ways in which a query may move without its surface showing anything new.
Settles(q) ==
  \/ query'[q] = query[q]
  \/ query'[q] = Ended(query[q], "discarded")
  \/ query'[q] = Ended(query[q], "failed")
  \/ /\ query[q].at = "ledger" /\ query[q].scene \in displayed
     /\ query'[q] = Ended(query[q], "presented")
  \/ /\ query[q].at = "ledger" /\ ~query[q].retired /\ query[q].surface \in alive
     /\ query'[q] = Placed(query[q], "listed", 0)
  \/ query[q].at = "unused" /\ query'[q] = Placed(query[q], "listed", 0)

LEMMA SettlingKeepsQueries ==
  ASSUME Evidence, UNCHANGED <<content, alive, packet, displayed>>,
         query' = [q \in Queries |-> query'[q]], \A q \in Queries : Settles(q)
  PROVE  /\ query' \in [Queries -> QueryRecord]
         /\ QueriesFollowContent' /\ PresentedWasDisplayed'
<1> USE DEF Evidence
<1>1. query \in [Queries -> QueryRecord]
  BY DEF GuestShape, QueryRecord
<1>2. ASSUME NEW q \in Queries
      PROVE  /\ query'[q] \in QueryRecord
             /\ query'[q].at = "unused" => ~query'[q].bound
             /\ query'[q].at = "listed" /\ query'[q].bound => BoundToContent(q)'
             /\ query'[q].at = "ledger" => query'[q] = query[q]
             /\ query'[q].at = "presented" =>
                  \/ query[q].at = "presented"
                  \/ query[q].at = "ledger" /\ query[q].scene \in displayed
             /\ query'[q].surface = query[q].surface /\ query'[q].commit = query[q].commit
  <2>1. query[q] \in QueryRecord
    BY <1>1
  <2>2. CASE query'[q] = query[q]
    <3>1. /\ query[q].at = "unused" => ~query[q].bound
          /\ query[q].at = "listed" /\ query[q].bound => BoundToContent(q)
      BY DEF QueriesFollowContent
    <3>2. BoundToContent(q) => BoundToContent(q)'
      BY <2>2 DEF BoundToContent
    <3> QED BY <2>1, <2>2, <3>1, <3>2
  <2>3. ASSUME NEW outcome \in {"discarded", "failed"}, query'[q] = Ended(query[q], outcome)
        PROVE  /\ query'[q] \in QueryRecord
               /\ query'[q].at = outcome /\ ~query'[q].bound
               /\ query'[q].surface = query[q].surface /\ query'[q].commit = query[q].commit
    BY <2>1, <2>3 DEF QueryRecord, Ended, Final
  <2>4. CASE /\ query[q].at = "ledger" /\ query[q].scene \in displayed
             /\ query'[q] = Ended(query[q], "presented")
    BY <2>1, <2>4 DEF QueryRecord, Ended, Final
  <2>5. CASE /\ query[q].at = "ledger" /\ ~query[q].retired /\ query[q].surface \in alive
             /\ query'[q] = Placed(query[q], "listed", 0)
    <3>1. BoundToContent(q)
      BY <2>5 DEF QueriesFollowContent
    <3> QED BY <2>1, <2>5, <3>1 DEF QueryRecord, Placed, BoundToContent
  <2>6. CASE query[q].at = "unused" /\ query'[q] = Placed(query[q], "listed", 0)
    <3>1. ~query[q].bound
      BY <2>6 DEF QueriesFollowContent
    <3> QED BY <2>1, <2>6, <3>1 DEF QueryRecord, Placed
  <2>7. Settles(q)
    OBVIOUS
  <2> QED BY <2>2, <2>3, <2>4, <2>5, <2>6, <2>7 DEF Settles
<1>3. query' \in [Queries -> QueryRecord]
  BY <1>2
<1>4. QueriesFollowContent'
  BY <1>2 DEF QueriesFollowContent, BoundToContent, Shows, Target
<1>5. PresentedWasDisplayed'
  <2> SUFFICES ASSUME NEW q \in Queries, query'[q].at = "presented"
               PROVE  WasDisplayed(q)'
    BY DEF PresentedWasDisplayed
  <2>1. CASE query[q].at = "presented"
    BY <2>1, <1>2 DEF PresentedWasDisplayed, WasDisplayed, Shows, Target
  <2>2. CASE query[q].at = "ledger" /\ query[q].scene \in displayed
    BY <2>2, <1>2 DEF QueriesFollowContent, WasDisplayed, Shows, Target
  <2> QED BY <1>2, <2>1, <2>2
<1> QED BY <1>3, <1>4, <1>5

-----------------------------------------------------------------------------
(* Settling records.                                                       *)

LEMMA LedgerStep ==
  ASSUME Evidence, UNCHANGED <<surfaceState, packet, connections, hostVars, displayed>>,
         query' = [q \in Queries |-> query'[q]], \A q \in Queries : Settles(q),
         ledger' \in [Ids -> RecordStates],
         \A id \in Ids : ledger'[id] = "shown" => ledger[id] = "shown" \/ id \in displayed,
         epoch' \in Nat, pause' \in PauseRecord,
         display' \in Seq(SceneEvents), feedback' \in Seq(ResultCommands),
         control' \in Seq(BarrierCommands)
  PROVE  Evidence'
<1> USE DEF Evidence
<1>1. /\ query' \in [Queries -> QueryRecord]
      /\ QueriesFollowContent' /\ PresentedWasDisplayed'
  BY SettlingKeepsQueries DEF surfaceState
<1>2. PendingIsNew' /\ PendingOnce' /\ SceneIdsAreFresh'
  BY SurfaceFrame
<1>3. GuestShape'
  BY <1>1 DEF GuestShape, surfaceState
<1>4. LedgerHoldsEvidence'
  BY DEF LedgerHoldsEvidence
<1>5. LanesCarryEvidence'
  BY SceneEventsFrame, ResultCommandsFrame DEF LanesCarryEvidence, BarrierCommands
<1>6. HostHoldsEvidence'
  BY HostFrame DEF Sampling
<1> QED BY <1>1, <1>2, <1>3, <1>4, <1>5, <1>6

LEMMA LanesAreTyped ==
  ASSUME Evidence
  PROVE  /\ display \in Seq(SceneEvents) /\ feedback \in Seq(ResultCommands)
         /\ control \in Seq(BarrierCommands)
         /\ pause \in PauseRecord /\ epoch \in Nat
         /\ ledger \in [Ids -> RecordStates]
         /\ query \in [Queries -> QueryRecord]
BY DEF Evidence, LanesCarryEvidence, GuestShape

LEMMA AfterDrainIsPause ==
  ASSUME pause \in PauseRecord, NEW left
  PROVE  AfterDrain(left) \in PauseRecord
BY DEF AfterDrain, PauseRecord

LEMMA AcknowledgeKeepsShape ==
  ASSUME Evidence, NEW ids \in SUBSET Ids, Acknowledge(ids)
  PROVE  /\ ledger' \in [Ids -> RecordStates]
         /\ \A id \in Ids : ledger'[id] = "shown" => ledger[id] = "shown"
         /\ display' \in Seq(SceneEvents)
         /\ pause' \in PauseRecord
<1>1. pause \in PauseRecord /\ pause.drainToken \in Nat /\ display \in Seq(SceneEvents)
  BY LanesAreTyped DEF PauseRecord
<1>2. pause' \in PauseRecord
  BY <1>1, AfterDrainIsPause DEF Acknowledge
<1>3. display' \in Seq(SceneEvents)
  <2> DEFINE left == Outstanding \ ids
  <2>1. Acks(ids) \in Seq(SceneEvents) /\ DrainReply(left) \in Seq(SceneEvents)
    BY <1>1, AcksAreEvents, DrainReplyIsEvent
  <2>2. display' = Written(display, Acks(ids) \o DrainReply(left))
    BY DEF Acknowledge
  <2> HIDE DEF left
  <2>3. Acks(ids) \o DrainReply(left) \in Seq(SceneEvents)
    BY <2>1
  <2> QED BY <1>1, <2>2, <2>3, WrittenIsSeq
<1>4. ledger \in [Ids -> RecordStates]
  BY LanesAreTyped
<1>5. \A id \in Ids : ledger'[id] = "shown" => ledger[id] = "shown"
  BY DEF Acknowledge, Without
<1> QED BY <1>2, <1>3, <1>4, <1>5 DEF Acknowledge, Without, RecordStates

LEMMA ReportedSettles ==
  ASSUME Evidence, NEW done \in SUBSET displayed, NEW over, query' = Reported(done, over)
  PROVE  query' = [q \in Queries |-> query'[q]] /\ \A q \in Queries : Settles(q)
<1>1. ASSUME NEW q \in Queries
      PROVE  Settles(q)
  <2>1. query'[q] = IF query[q].at # "ledger" \/ query[q].scene \notin done THEN query[q]
                    ELSE Ended(query[q], IF query[q].scene \in over THEN "failed"
                                                                     ELSE "presented")
    BY DEF Reported
  <2> QED BY <2>1 DEF Settles
<1> QED BY <1>1 DEF Reported

LEMMA FlushShownKeepsEvidence ==
  ASSUME Evidence, NEW ids \in SUBSET displayed, NEW limited, FlushShown(ids, limited),
         UNCHANGED <<surfaceState, packet, connections, hostVars, displayed, epoch, control>>,
         feedback' \in Seq(ResultCommands)
  PROVE  Evidence'
<1>1. ids \in SUBSET Ids
  BY DEF Evidence, HostHoldsEvidence
<1>2. PICK done \in Presentable(ids) :
        /\ \E over \in SUBSET (done \cap limited) : query' = Reported(done, over)
        /\ Acknowledge(done)
  BY DEF FlushShown
<1>3. done \in SUBSET displayed /\ done \in SUBSET Ids
  BY <1>1, <1>2 DEF Presentable
<1>4. query' = [q \in Queries |-> query'[q]] /\ \A q \in Queries : Settles(q)
  BY <1>2, <1>3, ReportedSettles
<1>5. /\ ledger' \in [Ids -> RecordStates]
      /\ \A id \in Ids : ledger'[id] = "shown" => ledger[id] = "shown"
      /\ display' \in Seq(SceneEvents)
      /\ pause' \in PauseRecord
  BY <1>2, <1>3, AcknowledgeKeepsShape
<1> QED BY <1>4, <1>5, LedgerStep, LanesAreTyped

-----------------------------------------------------------------------------
(* The compositor's handlers that leave surfaces alone.                    *)

\* Nothing leaves the ledger and no query moves.
LEMMA QuietStep ==
  ASSUME Evidence, UNCHANGED <<surfaceState, query, ledger, packet, connections, hostVars, displayed>>,
         epoch' \in Nat, pause' \in PauseRecord,
         display' \in Seq(SceneEvents), feedback' \in Seq(ResultCommands),
         control' \in Seq(BarrierCommands)
  PROVE  Evidence'
<1>1. query' = [q \in Queries |-> query'[q]] /\ \A q \in Queries : Settles(q)
  BY LanesAreTyped DEF Settles
<1> QED BY <1>1, LanesAreTyped, LedgerStep

LEMMA RequestFeedbackKeepsEvidence ==
  ASSUME Evidence, NEW q \in Queries, InGuest(RequestFeedback(q))
  PROVE  Evidence'
<1>1. query' = [query EXCEPT ![q] = Placed(query[q], "listed", 0)] /\ query[q].at = "unused"
  BY DEF InGuest, RequestFeedback
<1>2. query' = [p \in Queries |-> query'[p]] /\ \A p \in Queries : Settles(p)
  BY <1>1, LanesAreTyped DEF Settles
<1>3. display' \in Seq(SceneEvents)
  <2>1. ClockRequest \in Seq(SceneEvents)
    BY LanesAreTyped DEF ClockRequest, SceneEvents
  <2> QED BY <2>1, LanesAreTyped, WrittenIsSeq DEF InGuest, RequestFeedback
<1> QED BY <1>2, <1>3, LanesAreTyped, LedgerStep
     DEF InGuest, RequestFeedback, surfaceVars, surfaceState

LEMMA ReceiveResultKeepsEvidence ==
  ASSUME Evidence, InGuest(ReceiveResult)
  PROVE  Evidence'
<1> DEFINE id == Head(feedback).id
<1>1. /\ UNCHANGED <<surfaceState, packet, connections, hostVars, displayed, epoch, control>>
      /\ feedback' = Tail(feedback)
      /\ Heard(feedback, "zero") \/ Heard(feedback, "shown")
  BY DEF InGuest, ReceiveResult, surfaceVars, surfaceState
<1>2. /\ Head(feedback) \in ResultCommands
      /\ feedback' \in Seq(ResultCommands)
      /\ Head(feedback).type \in {"zero", "shown"}
  BY <1>1, LanesAreTyped, HeardIsMember
<1>3. id \in Ids /\ (Head(feedback).type = "shown" => id \in displayed)
  BY <1>2 DEF ResultCommands, Evidence, HostHoldsEvidence
<1> HIDE DEF id
<1>4. CASE ~InLedger(id)
  <2>1. UNCHANGED <<query, ledger, pause>>
        /\ display' = Written(display, <<[type |-> "ack", id |-> id]>>)
    BY <1>4 DEF InGuest, ReceiveResult, RepeatAck, id
  <2>2. <<[type |-> "ack", id |-> id]>> \in Seq(SceneEvents)
    BY <1>3 DEF SceneEvents
  <2>3. display' \in Seq(SceneEvents)
    BY <2>1, <2>2, LanesAreTyped, WrittenIsSeq
  <2> QED BY <1>1, <1>2, <2>1, <2>3, LanesAreTyped, QuietStep
<1>5. CASE InLedger(id) /\ ledger[id] = "open" /\ Head(feedback).type = "zero"
  <2>1. query' = Deferred(id) /\ Acknowledge({id})
    BY <1>5 DEF InGuest, ReceiveResult, id
  <2>2. query' = [q \in Queries |-> query'[q]] /\ \A q \in Queries : Settles(q)
    <3>1. ASSUME NEW q \in Queries PROVE Settles(q)
      BY <2>1 DEF Deferred, Settles, Feedbacks
    <3> QED BY <2>1, <3>1 DEF Deferred
  <2> QED BY <1>1, <1>2, <1>3, <2>1, <2>2, LanesAreTyped, AcknowledgeKeepsShape, LedgerStep
<1>6. CASE InLedger(id) /\ ~(ledger[id] = "open" /\ Head(feedback).type = "zero")
  <2>1. id \in displayed
    BY <1>2, <1>3, <1>6 DEF InLedger, Evidence, LedgerHoldsEvidence
  <2>2. \/ ledger' = [ledger EXCEPT ![id] = "shown"] /\ UNCHANGED <<query, display, pause>>
        \/ FlushShown({id}, ceiling)
    BY <1>2, <1>6 DEF InGuest, ReceiveResult, id
  <2>3. CASE ledger' = [ledger EXCEPT ![id] = "shown"] /\ UNCHANGED <<query, display, pause>>
    <3>1. query' = [q \in Queries |-> query'[q]] /\ \A q \in Queries : Settles(q)
      BY <2>3, LanesAreTyped DEF Settles
    <3>2. ledger' \in [Ids -> RecordStates]
          /\ \A i \in Ids : ledger'[i] = "shown" => ledger[i] = "shown" \/ i \in displayed
      BY <2>1, <2>3, LanesAreTyped DEF RecordStates
    <3> QED BY <1>1, <1>2, <2>3, <3>1, <3>2, LanesAreTyped, LedgerStep
  <2>4. CASE FlushShown({id}, ceiling)
    BY <1>1, <1>2, <2>1, <2>4, FlushShownKeepsEvidence
  <2> QED BY <2>2, <2>3, <2>4
<1> QED BY <1>4, <1>5, <1>6

LEMMA TickKeepsEvidence ==
  ASSUME Evidence, NEW expired \in SUBSET Outstanding, NEW late \in BOOLEAN, NEW ask \in BOOLEAN,
         InGuest(Tick(expired, late, ask))
  PROVE  Evidence'
<1>1. UNCHANGED <<surfaceState, packet, connections, hostVars, displayed, epoch, control, feedback>>
  BY DEF InGuest, Tick, surfaceVars, surfaceState
<1>2. PICK done \in Presentable(Waiting \ expired) :
        /\ \E over \in SUBSET (done \cap ceiling) :
             query' = [q \in Queries |-> IF q \in UNION {Feedbacks(id) : id \in expired}
                                         THEN Ended(query[q], "failed")
                                         ELSE Reported(done, over)[q]]
        /\ ledger' = Expired(done, expired)
        /\ LET left == Outstanding \ (done \cup expired)
           IN  /\ \/ pause' = AfterDrain(left)
                  \/ pause' = [AfterDrain(left) EXCEPT !.paused = FALSE]
               /\ display' = Written(display, Acks(done) \o DrainReply(left)
                                               \o IF ask THEN ClockRequest ELSE <<>>)
  BY DEF InGuest, Tick
<1>3. done \in SUBSET Ids /\ done \in SUBSET displayed
  BY <1>2 DEF Presentable, Waiting, Evidence, LedgerHoldsEvidence
<1>4. query' = [q \in Queries |-> query'[q]] /\ \A q \in Queries : Settles(q)
  <2>1. PICK over \in SUBSET (done \cap ceiling) :
          query' = [q \in Queries |-> IF q \in UNION {Feedbacks(id) : id \in expired}
                                      THEN Ended(query[q], "failed")
                                      ELSE Reported(done, over)[q]]
    BY <1>2
  <2>2. ASSUME NEW q \in Queries PROVE Settles(q)
    <3>1. query'[q] = Ended(query[q], "failed") \/ query'[q] = Reported(done, over)[q]
      BY <2>1
    <3>2. Reported(done, over)[q] =
            IF query[q].at # "ledger" \/ query[q].scene \notin done THEN query[q]
            ELSE Ended(query[q], IF query[q].scene \in over THEN "failed" ELSE "presented")
      BY DEF Reported
    <3> QED BY <1>3, <3>1, <3>2 DEF Settles
  <2> QED BY <2>1, <2>2
<1>5. /\ ledger' \in [Ids -> RecordStates]
      /\ \A id \in Ids : ledger'[id] = "shown" => ledger[id] = "shown"
  BY <1>2, LanesAreTyped DEF Expired, RecordStates
<1> DEFINE left == Outstanding \ (done \cup expired)
<1> HIDE DEF left
<1>6. pause' \in PauseRecord
  <2>1. pause' = AfterDrain(left) \/ pause' = [AfterDrain(left) EXCEPT !.paused = FALSE]
    BY <1>2 DEF left
  <2>2. AfterDrain(left) \in PauseRecord
    BY LanesAreTyped, AfterDrainIsPause
  <2> HIDE DEF left
  <2> QED BY <2>1, <2>2 DEF PauseRecord
<1>7. display' \in Seq(SceneEvents)
  <2>1. Acks(done) \in Seq(SceneEvents)
    BY <1>3, AcksAreEvents
  <2>2. DrainReply(left) \in Seq(SceneEvents)
    BY LanesAreTyped, DrainReplyIsEvent DEF PauseRecord
  <2>3. (IF ask THEN ClockRequest ELSE <<>>) \in Seq(SceneEvents)
    <3>1. <<>> \in Seq(SceneEvents)
      OBVIOUS
    <3>2. ClockRequest \in Seq(SceneEvents)
      BY LanesAreTyped DEF ClockRequest, SceneEvents
    <3> QED BY <3>1, <3>2
  <2>4. Acks(done) \o DrainReply(left) \o (IF ask THEN ClockRequest ELSE <<>>) \in Seq(SceneEvents)
    BY <2>1, <2>2, <2>3
  <2> QED BY <1>2, <2>4, LanesAreTyped, WrittenIsSeq DEF left
<1> QED BY <1>1, <1>4, <1>5, <1>6, <1>7, LanesAreTyped, LedgerStep

LEMMA SampleArrivesIsTyped ==
  ASSUME Evidence, SampleArrives
  PROVE  feedback' \in Seq(ResultCommands)
BY LanesAreTyped, HeardIsMember DEF SampleArrives

LEMMA SampleKeepsEvidence ==
  ASSUME Evidence, InGuest(SampleRejected \/ SampleFaults)
  PROVE  Evidence'
<1>1. CASE InGuest(SampleRejected)
  BY <1>1, LanesAreTyped, SampleArrivesIsTyped, QuietStep
     DEF InGuest, SampleRejected, ledgerVars, surfaceVars, surfaceState
<1>2. CASE InGuest(SampleFaults)
  <2>1. Waiting \in SUBSET displayed
    BY DEF Waiting, Evidence, LedgerHoldsEvidence
  <2> QED BY <1>2, <2>1, SampleArrivesIsTyped, FlushShownKeepsEvidence
          DEF InGuest, SampleFaults, ClockFault, surfaceVars, surfaceState
<1> QED BY <1>1, <1>2 DEF InGuest

LEMMA SampleAcceptedKeepsEvidence ==
  ASSUME Evidence, InGuest(SampleAccepted)
  PROVE  Evidence'
<1>1. UNCHANGED <<surfaceState, packet, connections, hostVars, displayed, epoch, control>>
  BY DEF InGuest, SampleAccepted, surfaceVars, surfaceState
<1>2. feedback' \in Seq(ResultCommands)
  BY SampleArrivesIsTyped DEF InGuest, SampleAccepted
<1>3. PICK done \in SUBSET Waiting :
        /\ \E over : query' = Reported(done, over)
        /\ ledger' = Without(done)
        /\ LET left == Outstanding \ done
           IN  /\ pause' = [Reopened EXCEPT !.drainToken = AfterDrain(left).drainToken]
               /\ display' = Written(display, ResumedReply \o Acks(done) \o DrainReply(left))
  BY DEF InGuest, SampleAccepted
<1>4. done \in SUBSET Ids /\ done \in SUBSET displayed
  BY DEF Waiting, Evidence, LedgerHoldsEvidence
<1>5. query' = [q \in Queries |-> query'[q]] /\ \A q \in Queries : Settles(q)
  BY <1>3, <1>4, ReportedSettles
<1>6. /\ ledger' \in [Ids -> RecordStates]
      /\ \A id \in Ids : ledger'[id] = "shown" => ledger[id] = "shown"
  BY <1>3, LanesAreTyped DEF Without, RecordStates
<1> DEFINE left == Outstanding \ done
<1>7. pause' \in PauseRecord
  <2>1. Reopened \in PauseRecord
    BY LanesAreTyped DEF Reopened, PauseRecord
  <2>2. AfterDrain(left) \in PauseRecord
    BY LanesAreTyped, AfterDrainIsPause
  <2> HIDE DEF left
  <2>3. AfterDrain(left).drainToken \in Nat
    BY <2>2 DEF PauseRecord
  <2>4. pause' = [Reopened EXCEPT !.drainToken = AfterDrain(left).drainToken]
    BY <1>3 DEF left
  <2> QED BY <2>1, <2>3, <2>4 DEF PauseRecord
<1>8. display' \in Seq(SceneEvents)
  <2>1. Acks(done) \in Seq(SceneEvents)
    BY <1>4, AcksAreEvents
  <2>2. DrainReply(left) \in Seq(SceneEvents)
    BY LanesAreTyped, DrainReplyIsEvent DEF PauseRecord
  <2>3. ResumedReply \in Seq(SceneEvents)
    <3>1. <<>> \in Seq(SceneEvents)
      OBVIOUS
    <3>2. [type |-> "resumed", token |-> pause.resumeToken] \in SceneEvents
      BY LanesAreTyped DEF SceneEvents, PauseRecord
    <3> QED BY <3>1, <3>2 DEF ResumedReply
  <2> HIDE DEF left
  <2>4. ResumedReply \o Acks(done) \o DrainReply(left) \in Seq(SceneEvents)
    BY <2>1, <2>2, <2>3
  <2> QED BY <1>3, <2>4, LanesAreTyped, WrittenIsSeq DEF left
<1> QED BY <1>1, <1>2, <1>5, <1>6, <1>7, <1>8, LanesAreTyped, LedgerStep

LEMMA SceneSampleKeepsEvidence ==
  ASSUME Evidence, NEW id \in Ids, InGuest(SceneSample(id))
  PROVE  Evidence'
<1>1. /\ UNCHANGED <<surfaceState, packet, connections, hostVars, displayed, epoch, control, feedback>>
      /\ FlushShown(Waiting, Outstanding) \/ (ledger[id] = "shown" /\ FlushShown({id}, ceiling))
  BY DEF InGuest, SceneSample, ClockFault, surfaceVars, surfaceState
<1>2. Waiting \in SUBSET displayed /\ (ledger[id] = "shown" => {id} \in SUBSET displayed)
  BY DEF Waiting, Evidence, LedgerHoldsEvidence
<1> QED BY <1>1, <1>2, LanesAreTyped, FlushShownKeepsEvidence

-----------------------------------------------------------------------------
(* The barrier.                                                            *)

LEMMA ReplyIsTyped ==
  ASSUME Evidence, NEW type \in {"reached", "drained", "resumed"}, NEW answered \in Nat,
         Reply(type, answered)
  PROVE  display' \in Seq(SceneEvents)
<1>1. <<[type |-> type, token |-> answered]>> \in Seq(SceneEvents)
  BY DEF SceneEvents
<1> QED BY <1>1, LanesAreTyped, WrittenIsSeq DEF Reply

LEMMA BarrierCommandIsTyped ==
  ASSUME Evidence, NEW type \in {"pause", "resume"}, Heard(control, type)
  PROVE  Head(control).token \in Nat /\ Tail(control) \in Seq(BarrierCommands)
<1>1. Head(control) \in BarrierCommands /\ Head(control).type = type
  BY LanesAreTyped, HeardIsMember
<1>2. Head(control).token \in Nat
  BY <1>1 DEF BarrierCommands
<1> QED BY <1>2, LanesAreTyped, HeardIsMember

LEMMA BarrierStatesArePause ==
  ASSUME pause \in PauseRecord, NEW asked \in Nat
  PROVE  /\ [pause EXCEPT !.lastBarrier = asked, !.paused = TRUE,
                          !.pauseToken = asked, !.reached = TRUE] \in PauseRecord
         /\ [pause EXCEPT !.drainToken = asked] \in PauseRecord
         /\ [pause EXCEPT !.lastBarrier = asked, !.paused = TRUE,
                          !.drainToken = 0, !.resumeToken = asked] \in PauseRecord
BY DEF PauseRecord

LEMMA ReceivePauseKeepsEvidence ==
  ASSUME Evidence, InGuest(ReceivePause)
  PROVE  Evidence'
<1> DEFINE asked == Head(control).token
<1>1. /\ UNCHANGED <<surfaceState, ledgerVars, connections, hostVars, displayed, epoch, feedback>>
      /\ Heard(control, "pause") /\ control' = Tail(control)
      /\ \/ UNCHANGED <<pause, display>>
         \/ pause' = pause /\ Reply("reached", asked)
         \/ /\ pause' = [pause EXCEPT !.lastBarrier = asked, !.paused = TRUE,
                                      !.pauseToken = asked, !.reached = TRUE]
            /\ Reply("reached", asked)
  BY DEF InGuest, ReceivePause, surfaceVars, surfaceState
<1>2. asked \in Nat /\ control' \in Seq(BarrierCommands)
  BY <1>1, BarrierCommandIsTyped
<1> HIDE DEF asked
<1>3. pause' \in PauseRecord
  BY <1>1, <1>2, LanesAreTyped, BarrierStatesArePause
<1>4. display' \in Seq(SceneEvents)
  BY <1>1, <1>2, LanesAreTyped, ReplyIsTyped
<1> QED BY <1>1, <1>2, <1>3, <1>4, LanesAreTyped, QuietStep DEF ledgerVars

LEMMA ReceiveDrainKeepsEvidence ==
  ASSUME Evidence, InGuest(ReceiveDrain)
  PROVE  Evidence'
<1> DEFINE asked == Head(feedback).token
<1>1. /\ UNCHANGED <<surfaceState, ledgerVars, connections, hostVars, displayed, epoch, control>>
      /\ Heard(feedback, "drain") /\ feedback' = Tail(feedback)
      /\ \/ UNCHANGED <<pause, display>>
         \/ pause' = [pause EXCEPT !.drainToken = 0] /\ Reply("drained", asked)
         \/ pause' = [pause EXCEPT !.drainToken = asked] /\ UNCHANGED display
  BY DEF InGuest, ReceiveDrain, surfaceVars, surfaceState
<1>2. Head(feedback) \in ResultCommands /\ Head(feedback).type = "drain"
      /\ feedback' \in Seq(ResultCommands)
  BY <1>1, LanesAreTyped, HeardIsMember
<1>3. asked \in Nat
  BY <1>2 DEF ResultCommands
<1> HIDE DEF asked
<1>4. pause' \in PauseRecord
  <2>1. /\ [pause EXCEPT !.drainToken = asked] \in PauseRecord
        /\ [pause EXCEPT !.drainToken = 0] \in PauseRecord
    BY <1>3, LanesAreTyped, BarrierStatesArePause
  <2>2. \/ pause' = pause
        \/ pause' = [pause EXCEPT !.drainToken = asked]
        \/ pause' = [pause EXCEPT !.drainToken = 0]
    BY <1>1
  <2> QED BY <2>1, <2>2, LanesAreTyped
<1>5. display' \in Seq(SceneEvents)
  BY <1>1, <1>3, LanesAreTyped, ReplyIsTyped
<1> QED BY <1>1, <1>2, <1>4, <1>5, LanesAreTyped, QuietStep DEF ledgerVars

LEMMA ReceiveResumeKeepsEvidence ==
  ASSUME Evidence, InGuest(ReceiveResume)
  PROVE  Evidence'
<1> DEFINE asked == Head(control).token
<1>1. /\ UNCHANGED <<surfaceState, ledgerVars, connections, hostVars, displayed, feedback>>
      /\ Heard(control, "resume") /\ control' = Tail(control)
      /\ \/ UNCHANGED <<pause, epoch>> /\ Reply("resumed", asked)
         \/ UNCHANGED <<pause, epoch, display>>
         \/ /\ epoch' = epoch + 1
            /\ pause' = [pause EXCEPT !.lastBarrier = asked, !.paused = TRUE,
                                      !.drainToken = 0, !.resumeToken = asked]
            /\ display' = Written(display, <<[type |-> "clock", epoch |-> epoch + 1]>>)
  BY DEF InGuest, ReceiveResume, surfaceVars, surfaceState
<1>2. asked \in Nat /\ control' \in Seq(BarrierCommands)
  BY <1>1, BarrierCommandIsTyped
<1> HIDE DEF asked
<1>3. pause' \in PauseRecord
  BY <1>1, <1>2, LanesAreTyped, BarrierStatesArePause
<1>4. epoch' \in Nat /\ epoch + 1 \in Nat
  BY <1>1, LanesAreTyped
<1>5. <<[type |-> "clock", epoch |-> epoch + 1]>> \in Seq(SceneEvents)
  BY <1>4 DEF SceneEvents
<1>6. display' \in Seq(SceneEvents)
  <2>1. \/ Reply("resumed", asked)
        \/ display' = display
        \/ display' = Written(display, <<[type |-> "clock", epoch |-> epoch + 1]>>)
    BY <1>1
  <2>2. display \in Seq(SceneEvents)
    BY LanesAreTyped
  <2> QED BY <1>2, <1>5, <2>1, <2>2, ReplyIsTyped, WrittenIsSeq
<1> QED BY <1>1, <1>2, <1>3, <1>4, <1>6, LanesAreTyped, QuietStep DEF ledgerVars

LEMMA ResetPauseIsPause == ResetPause \in PauseRecord
BY DEF ResetPause, PauseRecord

LEMMA GuestDetachKeepsEvidence ==
  ASSUME Evidence, InGuest(GuestDetach)
  PROVE  Evidence'
BY LanesAreTyped, ResetPauseIsPause, QuietStep
     DEF InGuest, GuestDetach, ledgerVars, surfaceVars, surfaceState

-----------------------------------------------------------------------------
(* Commits and what surfaces show.                                         *)

\* Steps that move no record and nothing between guest and host.
LEMMA SurfaceStep ==
  ASSUME Evidence, UNCHANGED <<ledger, packet, epoch, pause, connections, hostVars, displayed,
                               display, control, feedback>>,
         alive' \subseteq Surfaces, content' \in [Surfaces -> Nat], dirty' \in [Surfaces -> Nat],
         nextId' \in 1 .. MaxId + 1, query' \in [Queries -> QueryRecord],
         PendingIsNew', PendingOnce', SceneIdsAreFresh', QueriesFollowContent',
         PresentedWasDisplayed'
  PROVE  Evidence'
<1> USE DEF Evidence
<1>1. GuestShape'
  BY DEF GuestShape
<1>2. LedgerHoldsEvidence'
  BY DEF LedgerHoldsEvidence
<1>3. LanesCarryEvidence'
  BY SceneEventsFrame, ResultCommandsFrame DEF LanesCarryEvidence, BarrierCommands
<1>4. HostHoldsEvidence'
  BY HostFrame DEF Sampling
<1> QED BY <1>1, <1>2, <1>3, <1>4

LEMMA IdsLeftBounds ==
  ASSUME Evidence, NEW n \in Nat, IdsLeft(n)
  PROVE  nextId \in 1 .. MaxId + 1 /\ nextId + n <= MaxId + 1
<1>1. nextId \in 1 .. MaxId + 1 /\ connections \in 0 .. MaxConnections /\ MaxId \in Nat
      /\ MaxConnections \in Nat
  BY LaneAssumption DEF Evidence, GuestShape
<1>2. Cardinality(Roots) \in Nat
  BY BatchesAreFinite, FS_CardinalityType
<1> DEFINE reserve == (MaxConnections - connections) * Cardinality(Roots)
<1>3. MaxConnections - connections \in Nat
  BY <1>1
<1>4. reserve \in Nat
  BY <1>2, <1>3
<1>5. nextId + n + reserve <= MaxId + 1
  BY DEF IdsLeft
<1> HIDE DEF reserve
<1> QED BY <1>1, <1>4, <1>5

\* The queries of a commit are bound when it is applied, not before.
LEMMA CommitKeepsQueries ==
  ASSUME Evidence, NEW s \in Surfaces, UNCHANGED <<content, alive, packet, displayed>>,
         nextId \in Nat,
         query' = [q \in Queries |->
                     IF q \in Listed(s) /\ query[q].commit = 0
                     THEN Committed(query[q], nextId) ELSE query[q]]
  PROVE  /\ query' \in [Queries -> QueryRecord]
         /\ QueriesFollowContent' /\ PresentedWasDisplayed'
<1>1. ASSUME NEW q \in Queries
      PROVE  /\ query'[q] \in QueryRecord
             /\ \/ query'[q] = query[q]
                \/ query'[q].at = "listed" /\ ~query'[q].bound
  <2>1. query[q] \in QueryRecord
    BY LanesAreTyped
  <2>2. CASE q \in Listed(s) /\ query[q].commit = 0
    <3>1. query'[q] = Committed(query[q], nextId)
      BY <2>2
    <3>2. ~query[q].bound /\ query[q].at = "listed"
      BY <2>2 DEF Evidence, QueriesFollowContent, BoundToContent, Listed
    <3> QED BY <2>1, <3>1, <3>2 DEF QueryRecord, Committed
  <2>3. CASE ~(q \in Listed(s) /\ query[q].commit = 0)
    BY <2>1, <2>3
  <2> QED BY <2>2, <2>3
<1>2. query' \in [Queries -> QueryRecord]
  BY <1>1
<1>3. QueriesFollowContent'
  <2>1. ASSUME NEW q \in Queries
        PROVE  /\ query'[q].at = "unused" => ~query'[q].bound
               /\ query'[q].at = "listed" /\ query'[q].bound => BoundToContent(q)'
               /\ query'[q].at = "ledger" =>
                    /\ query'[q].scene \in Ids
                    /\ Shows(query[q].scene, Target(q))'
                    /\ query'[q].surface \in alive' /\ ~query'[q].retired => BoundToContent(q)'
    <3>1. CASE query'[q] = query[q]
      BY <3>1 DEF Evidence, QueriesFollowContent, BoundToContent, Shows, Target
    <3>2. CASE query'[q].at = "listed" /\ ~query'[q].bound
      BY <3>2
    <3> QED BY <1>1, <3>1, <3>2
  <2> QED BY <2>1 DEF QueriesFollowContent
<1>4. PresentedWasDisplayed'
  <2>1. \A q \in Queries : query'[q].at = "presented" => query'[q] = query[q]
    BY <1>1
  <2> QED BY <2>1 DEF Evidence, PresentedWasDisplayed, WasDisplayed, Shows, Target
<1> QED BY <1>2, <1>3, <1>4

LEMMA FreshIdsStayFresh ==
  ASSUME Evidence, UNCHANGED <<dirty, packet>>, nextId' \in Nat, nextId' >= nextId
  PROVE  SceneIdsAreFresh'
<1>1. nextId \in Nat /\ dirty \in [Surfaces -> Nat] /\ Ids \subseteq Nat
  BY LaneAssumption DEF Evidence, GuestShape, Ids
<1>2. \A id : Sampling(id)' <=> Sampling(id)
  BY DEF Sampling
<1>3. \A t \in Surfaces : dirty[t] # 0 => dirty[t] < nextId' /\ ~Sampling(dirty[t])
  BY <1>1 DEF Evidence, SceneIdsAreFresh
<1>4. \A id \in Ids : id >= nextId' => ~Sampling(id)
  BY <1>1 DEF Evidence, SceneIdsAreFresh
<1> QED BY <1>2, <1>3, <1>4 DEF Evidence, SceneIdsAreFresh

LEMMA PendingMembers ==
  \A u : u \in Pending <=> \/ u \in applying
                           \/ \E s \in Surfaces : u \in cached[s]
                           \/ \E s \in Surfaces : \E group \in blocked[s] : u \in group
<1> TAKE u
<1>1. u \in UNION {cached[s] : s \in Surfaces} <=> \E s \in Surfaces : u \in cached[s]
  OBVIOUS
<1>2. u \in UNION {UNION blocked[s] : s \in Surfaces}
        <=> \E s \in Surfaces : u \in UNION blocked[s]
  OBVIOUS
<1>3. \A s : u \in UNION blocked[s] <=> \E group \in blocked[s] : u \in group
  OBVIOUS
<1>4. u \in Pending <=> \/ u \in applying
                        \/ u \in UNION {cached[s] : s \in Surfaces}
                        \/ u \in UNION {UNION blocked[s] : s \in Surfaces}
  BY Zenon DEF Pending
<1>5. (\E s \in Surfaces : u \in UNION blocked[s])
        <=> \E s \in Surfaces : \E group \in blocked[s] : u \in group
  BY <1>3, Zenon
<1> QED BY <1>1, <1>2, <1>4, <1>5, Zenon

LEMMA PendingWithin ==
  ASSUME NEW P, applying' \subseteq P,
         \A s \in Surfaces : cached'[s] \subseteq P,
         \A s \in Surfaces : \A group \in blocked'[s] : group \subseteq P
  PROVE  Pending' \subseteq P
<1>1. \A u : u \in UNION {cached'[s] : s \in Surfaces} => u \in P
  OBVIOUS
<1>2. \A s \in Surfaces : \A u : u \in UNION blocked'[s] => u \in P
  OBVIOUS
<1>3. \A u : u \in UNION {UNION blocked'[s] : s \in Surfaces} => u \in P
  BY <1>2
<1> QED BY <1>1, <1>3 DEF Pending

LEMMA PendingAreUpdates ==
  ASSUME Evidence
  PROVE  Pending \subseteq UpdateRecord
<1> USE DEF Evidence, PendingIsNew
<1> SUFFICES ASSUME NEW u \in Pending PROVE u \in UpdateRecord
  OBVIOUS
<1>1. CASE u \in applying
  BY <1>1
<1>2. ASSUME NEW s \in Surfaces, u \in cached[s] PROVE u \in UpdateRecord
  BY <1>2
<1>3. ASSUME NEW s \in Surfaces, NEW group \in blocked[s], u \in group PROVE u \in UpdateRecord
  <2>1. blocked[s] \in SUBSET SUBSET UpdateRecord
    OBVIOUS
  <2> QED BY <1>3, <2>1
<1> QED BY <1>1, <1>2, <1>3, PendingMembers

LEMMA CommitKeepsPending ==
  ASSUME Evidence, NEW s \in Surfaces, NEW kind \in Kinds, InGuest(Commit(s, kind))
  PROVE  /\ PendingIsNew'
         /\ Pending' \subseteq Pending \cup {[surface |-> s, id |-> nextId, kind |-> kind]}
<1> DEFINE update == [surface |-> s, id |-> nextId, kind |-> kind]
           group  == (UNION {cached[c] : c \in Children(s)}) \cup {update}
<1>1. /\ applying = {} /\ nextId' = nextId + 1 /\ content' = content
      /\ Enqueue(s, update)
  BY DEF InGuest, Commit, Idle
<1>2. nextId \in Nat \ {0} /\ content \in [Surfaces -> Nat]
  BY DEF Evidence, GuestShape
<1>3. /\ cached \in [Surfaces -> SUBSET UpdateRecord]
      /\ blocked \in [Surfaces -> SUBSET SUBSET UpdateRecord]
      /\ update \in UpdateRecord
      /\ Children(s) \subseteq Surfaces
  BY <1>2 DEF Evidence, PendingIsNew, UpdateRecord, Children
<1>4. update \notin Pending
  BY <1>2 DEF Evidence, PendingIsNew
<1>5. /\ cached' \in [Surfaces -> SUBSET UpdateRecord]
      /\ blocked' \in [Surfaces -> SUBSET SUBSET UpdateRecord]
      /\ applying' \subseteq UpdateRecord
      /\ Pending' \subseteq Pending \cup {update}
  <2> HIDE DEF update
  <2>1. CASE Synchronized(s)
    <3>1. cached' = [cached EXCEPT ![s] = @ \cup {update}] /\ UNCHANGED <<blocked, applying>>
      BY <1>1, <2>1 DEF Enqueue, update
    <3>2. \A t \in Surfaces : cached'[t] \subseteq cached[t] \cup {update}
      BY <1>3, <3>1
    <3>3. Pending' \subseteq Pending \cup {update}
      <4>1. \A t \in Surfaces : cached[t] \subseteq Pending
        BY PendingMembers
      <4>2. applying \subseteq Pending
            /\ \A t \in Surfaces : \A g \in blocked[t] : g \subseteq Pending
        BY PendingMembers
      <4> DEFINE P == Pending \cup {update}
      <4>3. \A t \in Surfaces : cached'[t] \subseteq P
        BY <3>2, <4>1
      <4>4. applying' \subseteq P /\ \A t \in Surfaces : \A g \in blocked'[t] : g \subseteq P
        BY <3>1, <4>2
      <4> QED BY <4>3, <4>4, PendingWithin
    <3>4. cached' \in [Surfaces -> SUBSET UpdateRecord]
      BY <1>3, <3>1
    <3> QED BY <1>1, <1>3, <3>1, <3>3, <3>4
  <2>2. CASE ~Synchronized(s)
    <3>1. group \subseteq UpdateRecord /\ group \subseteq Pending \cup {update}
      <4>1. \A u \in group : u \in Pending \/ u = update
        <5> TAKE u \in group
        <5>1. CASE u = update
          BY <5>1
        <5>2. ASSUME NEW c \in Children(s), u \in cached[c] PROVE u \in Pending
          BY <1>3, <5>2, PendingMembers
        <5> QED BY <5>1, <5>2
      <4> QED BY <1>3, <4>1, PendingAreUpdates
    <3>2. /\ cached' = [c \in Surfaces |-> IF c \in Children(s) THEN {} ELSE cached[c]]
          /\ \/ applying' = group /\ UNCHANGED blocked
             \/ blocked' = [blocked EXCEPT ![s] = @ \cup {group}] /\ UNCHANGED applying
      BY <1>1, <2>2 DEF Enqueue, update
    <3> HIDE DEF group
    <3>3. /\ cached' \in [Surfaces -> SUBSET UpdateRecord]
          /\ \A t \in Surfaces : cached'[t] \subseteq cached[t]
      BY <1>3, <3>2
    <3>4. /\ blocked' \in [Surfaces -> SUBSET SUBSET UpdateRecord]
          /\ \A t \in Surfaces : blocked'[t] \subseteq blocked[t] \cup {group}
      BY <1>3, <3>1, <3>2
    <3>5. applying' \subseteq applying \cup group /\ applying' \subseteq UpdateRecord
      BY <1>1, <3>1, <3>2
    <3>6. Pending' \subseteq Pending \cup group
      <4> DEFINE P == Pending \cup group
      <4>1. applying \subseteq P
        BY PendingMembers
      <4>2. \A t \in Surfaces : cached'[t] \subseteq P
        BY <3>3, PendingMembers
      <4>3. \A t \in Surfaces : \A g \in blocked'[t] : g \subseteq P
        BY <3>4, PendingMembers
      <4> QED BY <3>5, <4>1, <4>2, <4>3, PendingWithin
    <3> QED BY <3>1, <3>3, <3>4, <3>5, <3>6
  <2> QED BY <2>1, <2>2
<1>6. PendingIsNew'
  <2> HIDE DEF update
  <2>1. update.id = nextId
    BY DEF update
  <2>2. \A u \in Pending : u \in UpdateRecord
    BY PendingAreUpdates
  <2>3. \A u \in Pending' : u \in Pending \/ u = update
    BY <1>5
  <2>4. /\ \A u \in Pending : u.id \in Nat /\ u.surface \in Surfaces
        /\ update.surface \in Surfaces
    BY <1>3, <2>2 DEF UpdateRecord
  <2>5. /\ \A u \in Pending : u.id < nextId /\ u.id # content[u.surface]
        /\ \A u, v \in Pending : u.id = v.id => u = v
        /\ \A t \in Surfaces : content[t] < nextId
    BY DEF Evidence, PendingIsNew
  <2>6. \A u \in Pending' : u.id < nextId + 1 /\ u.id # content[u.surface]
    BY <1>2, <2>1, <2>3, <2>4, <2>5
  <2>7. \A u, v \in Pending' : u.id = v.id => u = v
    BY <1>2, <2>1, <2>3, <2>4, <2>5
  <2>8. \A t \in Surfaces : content[t] < nextId + 1
    BY <1>2, <2>5
  <2> QED BY <1>1, <1>5, <2>6, <2>7, <2>8 DEF PendingIsNew
<1> QED BY <1>5, <1>6

LEMMA CommitKeepsOnce ==
  ASSUME Evidence, NEW s \in Surfaces, NEW kind \in Kinds, InGuest(Commit(s, kind))
  PROVE  PendingOnce'
<1> DEFINE update == [surface |-> s, id |-> nextId, kind |-> kind]
           group  == (UNION {cached[c] : c \in Children(s)}) \cup {update}
<1>1. applying = {} /\ Enqueue(s, update)
  BY DEF InGuest, Commit, Idle
<1>2. /\ cached \in [Surfaces -> SUBSET UpdateRecord]
      /\ blocked \in [Surfaces -> SUBSET SUBSET UpdateRecord]
      /\ Children(s) \subseteq Surfaces
  BY DEF Evidence, PendingIsNew, Children
<1>3. update \notin Pending /\ update.surface = s
  BY DEF Evidence, PendingIsNew, GuestShape
<1>4. /\ \A t \in Surfaces : update \notin cached[t]
      /\ \A t \in Surfaces : \A g \in blocked[t] : update \notin g
  BY <1>3, PendingMembers
<1>5. /\ \A t \in Surfaces : \A u \in cached[t] : u.surface = t
      /\ \A t, r \in Surfaces : \A g \in blocked[r] : cached[t] \cap g = {}
      /\ \A t, r \in Surfaces : \A g \in blocked[t], h \in blocked[r] :
           g \cap h # {} => t = r /\ g = h
  BY DEF Evidence, PendingOnce
<1> HIDE DEF update
<1>6. CASE Synchronized(s)
  <2>1. cached' = [cached EXCEPT ![s] = @ \cup {update}] /\ UNCHANGED <<blocked, applying>>
    BY <1>1, <1>6 DEF Enqueue, update
  <2>2. \A t \in Surfaces : \A u \in cached'[t] : u.surface = t /\ (u \in cached[t] \/ u = update)
    BY <1>2, <1>3, <1>5, <2>1
  <2>3. \A t, r \in Surfaces : \A g \in blocked[r] : cached'[t] \cap g = {}
    BY <1>4, <1>5, <2>2
  <2> QED BY <1>1, <1>5, <2>1, <2>2, <2>3 DEF PendingOnce
<1>7. CASE ~Synchronized(s)
  <2>1. /\ cached' = [c \in Surfaces |-> IF c \in Children(s) THEN {} ELSE cached[c]]
        /\ \/ applying' = group /\ UNCHANGED blocked
           \/ blocked' = [blocked EXCEPT ![s] = @ \cup {group}] /\ UNCHANGED applying
    BY <1>1, <1>7 DEF Enqueue, update
  <2>2. \A u \in group : u = update \/ \E c \in Children(s) : u \in cached[c]
    OBVIOUS
  <2> HIDE DEF group
  <2>3. \A t \in Surfaces : cached'[t] \subseteq cached[t] /\ (t \in Children(s) => cached'[t] = {})
    BY <2>1
  <2>4. \A t \in Surfaces : cached'[t] \cap group = {}
    <3> SUFFICES ASSUME NEW t \in Surfaces, NEW u \in cached'[t], u \in group PROVE FALSE
      OBVIOUS
    <3>1. u \in cached[t] /\ u.surface = t /\ t \notin Children(s)
      BY <1>5, <2>3
    <3>2. u # update
      BY <1>4, <3>1
    <3>3. PICK c \in Children(s) : u \in cached[c]
      BY <2>2, <3>2
    <3> QED BY <1>2, <1>5, <3>1, <3>3
  <2>5. \A t \in Surfaces : \A g \in blocked[t] : g \cap group = {}
    <3> SUFFICES ASSUME NEW t \in Surfaces, NEW g \in blocked[t], NEW u \in g, u \in group
                 PROVE  FALSE
      OBVIOUS
    <3>1. PICK c \in Children(s) : u \in cached[c]
      BY <1>4, <2>2
    <3> QED BY <1>2, <1>5, <3>1
  <2>6. \A t \in Surfaces : \A u \in cached'[t] : u.surface = t
    BY <1>5, <2>3
  <2>7. \A t, r \in Surfaces : \A g \in blocked[r] : cached'[t] \cap g = {}
    BY <1>5, <2>3
  <2>8. CASE applying' = group /\ UNCHANGED blocked
    BY <1>5, <2>4, <2>5, <2>6, <2>7, <2>8 DEF PendingOnce
  <2>9. CASE blocked' = [blocked EXCEPT ![s] = @ \cup {group}] /\ UNCHANGED applying
    <3>1. \A t \in Surfaces : \A g \in blocked'[t] : g \in blocked[t] \/ (t = s /\ g = group)
      BY <1>2, <2>9
    <3>2. \A t, r \in Surfaces : \A g \in blocked'[t], h \in blocked'[r] :
             g \cap h # {} => t = r /\ g = h
      <4> SUFFICES ASSUME NEW t \in Surfaces, NEW r \in Surfaces, NEW g \in blocked'[t],
                          NEW h \in blocked'[r], g \cap h # {}
                   PROVE  t = r /\ g = h
        OBVIOUS
      <4>1. CASE g \in blocked[t] /\ h \in blocked[r]
        BY <1>5, <4>1
      <4>2. CASE t = s /\ g = group /\ h \in blocked[r]
        BY <2>5, <4>2
      <4>3. CASE g \in blocked[t] /\ r = s /\ h = group
        BY <2>5, <4>3
      <4> QED BY <3>1, <4>1, <4>2, <4>3
    <3> QED BY <1>1, <2>4, <2>6, <2>7, <2>9, <3>1, <3>2 DEF PendingOnce
  <2> QED BY <2>1, <2>8, <2>9
<1> QED BY <1>6, <1>7

LEMMA CommitKeepsEvidence ==
  ASSUME Evidence, NEW s \in Surfaces, NEW kind \in Kinds, InGuest(Commit(s, kind))
  PROVE  Evidence'
<1>1. /\ UNCHANGED <<alive, content, dirty, ledger, packet, epoch, pause, connections,
                     hostVars, displayed, display, control, feedback>>
      /\ nextId' = nextId + 1 /\ IdsLeft(2)
      /\ query' = [q \in Queries |->
                     IF q \in Listed(s) /\ query[q].commit = 0
                     THEN Committed(query[q], nextId) ELSE query[q]]
  BY DEF InGuest, Commit, ledgerVars, laneVars
<1>2. nextId \in 1 .. MaxId + 1 /\ nextId + 2 <= MaxId + 1 /\ MaxId \in Nat
  BY <1>1, IdsLeftBounds, LaneAssumption
<1>3. nextId' \in 1 .. MaxId + 1 /\ nextId' \in Nat /\ nextId' >= nextId /\ nextId \in Nat
  BY <1>1, <1>2
<1>4. /\ query' \in [Queries -> QueryRecord]
      /\ QueriesFollowContent' /\ PresentedWasDisplayed'
  BY <1>1, <1>3, CommitKeepsQueries
<1>5. SceneIdsAreFresh'
  BY <1>1, <1>3, FreshIdsStayFresh
<1>6. alive' \subseteq Surfaces /\ content' \in [Surfaces -> Nat] /\ dirty' \in [Surfaces -> Nat]
  BY <1>1 DEF Evidence, GuestShape
<1> QED BY <1>1, <1>3, <1>4, <1>5, <1>6, CommitKeepsPending, CommitKeepsOnce, SurfaceStep

LEMMA SurfaceStepWithQueries ==
  ASSUME Evidence, UNCHANGED <<alive, content, query, ledger, packet, epoch, pause, connections,
                               hostVars, displayed>>,
         UNCHANGED <<display, control, feedback>>,
         dirty' \in [Surfaces -> Nat], nextId' \in 1 .. MaxId + 1,
         PendingIsNew', PendingOnce', SceneIdsAreFresh'
  PROVE  Evidence'
<1>1. QueriesFollowContent' /\ PresentedWasDisplayed'
  BY DEF Evidence, QueriesFollowContent, BoundToContent, PresentedWasDisplayed, WasDisplayed,
         Shows, Target
<1>2. /\ alive' \subseteq Surfaces /\ content' \in [Surfaces -> Nat]
      /\ query' \in [Queries -> QueryRecord]
  BY DEF Evidence, GuestShape
<1> QED BY <1>1, <1>2, SurfaceStep

LEMMA ApplyUnblockedKeepsEvidence ==
  ASSUME Evidence, NEW root \in Roots, InGuest(ApplyUnblocked(root))
  PROVE  Evidence'
<1>1. /\ applying = {}
      /\ UNCHANGED <<alive, content, cached, dirty, nextId, query, ledger, packet, epoch,
                     pause, connections, hostVars, displayed, display, control, feedback>>
  BY DEF InGuest, ApplyUnblocked, Idle, ledgerVars, laneVars
<1>2. PICK group \in blocked[root] :
        applying' = group /\ blocked' = [blocked EXCEPT ![root] = @ \ {group}]
  BY DEF InGuest, ApplyUnblocked
<1>3. /\ cached \in [Surfaces -> SUBSET UpdateRecord]
      /\ blocked \in [Surfaces -> SUBSET SUBSET UpdateRecord]
      /\ root \in Surfaces
  BY BatchesAreFinite DEF Evidence, PendingIsNew
<1>4. \A s \in Surfaces : \A g \in blocked'[s] : g \in blocked[s] /\ (s # root \/ g # group)
  BY <1>2, <1>3
<1>5. Pending' \subseteq Pending
  <2>1. applying' \subseteq Pending /\ \A s \in Surfaces : cached'[s] \subseteq Pending
    BY <1>1, <1>2, <1>3, PendingMembers
  <2>2. \A s \in Surfaces : \A g \in blocked'[s] : g \subseteq Pending
    BY <1>4, PendingMembers
  <2> QED BY <2>1, <2>2, PendingWithin
<1>6. PendingIsNew'
  <2>1. group \subseteq UpdateRecord
    BY <1>3
  <2>2. blocked' \in [Surfaces -> SUBSET SUBSET UpdateRecord]
    BY <1>2, <1>3
  <2> QED BY <1>1, <1>2, <1>3, <1>5, <2>1, <2>2 DEF Evidence, PendingIsNew
<1>7. PendingOnce'
  <2>1. /\ \A s \in Surfaces : \A u \in cached[s] : u.surface = s
        /\ \A s, t \in Surfaces : \A g \in blocked[t] : cached[s] \cap g = {}
        /\ \A s, t \in Surfaces : \A g \in blocked[s], h \in blocked[t] :
             g \cap h # {} => s = t /\ g = h
    BY DEF Evidence, PendingOnce
  <2>2. \A s \in Surfaces : cached[s] \cap group = {}
    BY <1>3, <2>1
  <2>3. \A s \in Surfaces : \A g \in blocked'[s] : g \cap group = {}
    BY <1>3, <1>4, <2>1
  <2>4. \A s, t \in Surfaces : \A g \in blocked'[s], h \in blocked'[t] :
          g \cap h # {} => s = t /\ g = h
    BY <1>4, <2>1
  <2>5. \A s, t \in Surfaces : \A g \in blocked'[t] : cached[s] \cap g = {}
    BY <1>4, <2>1
  <2> QED BY <1>1, <1>2, <2>1, <2>2, <2>3, <2>4, <2>5 DEF PendingOnce
<1>8. nextId' \in 1 .. MaxId + 1 /\ nextId' \in Nat /\ nextId' >= nextId
      /\ dirty' \in [Surfaces -> Nat]
  BY <1>1, LaneAssumption DEF Evidence, GuestShape
<1>9. SceneIdsAreFresh'
  BY <1>1, <1>8, FreshIdsStayFresh
<1> QED BY <1>1, <1>6, <1>7, <1>8, <1>9, SurfaceStepWithQueries

\* The id of a scene that becomes necessary is new.
LEMMA NewSceneIsFresh ==
  ASSUME Evidence, NEW root \in Surfaces, NEW id \in Ids, id >= nextId, nextId' = id + 1,
         UNCHANGED packet, dirty' = [dirty EXCEPT ![root] = id]
  PROVE  SceneIdsAreFresh' /\ dirty' \in [Surfaces -> Nat] /\ nextId' \in 1 .. MaxId + 1
<1>1. nextId \in Nat /\ dirty \in [Surfaces -> Nat] /\ Ids = 1 .. MaxId /\ MaxId \in Nat
  BY LaneAssumption DEF Evidence, GuestShape, Ids
<1>2. \A i : Sampling(i)' <=> Sampling(i)
  BY DEF Sampling
<1>3. /\ \A s \in Surfaces : dirty[s] # 0 => dirty[s] < nextId /\ ~Sampling(dirty[s])
      /\ \A s, t \in Surfaces : dirty[s] # 0 /\ dirty[s] = dirty[t] => s = t
      /\ \A i \in Ids : i >= nextId => ~Sampling(i)
  BY DEF Evidence, SceneIdsAreFresh
<1>4. id \in Nat /\ \A s \in Surfaces : dirty[s] # 0 => dirty[s] < id
  BY <1>1, <1>3
<1>5. \A s \in Surfaces : dirty'[s] = IF s = root THEN id ELSE dirty[s]
  BY <1>1
<1>6. \A s \in Surfaces : dirty'[s] # 0 => dirty'[s] < nextId' /\ ~Sampling(dirty'[s])
  BY <1>1, <1>3, <1>4, <1>5
<1>7. \A s, t \in Surfaces : dirty'[s] # 0 /\ dirty'[s] = dirty'[t] => s = t
  BY <1>1, <1>3, <1>4, <1>5
<1>8. \A i \in Ids : i >= nextId' => ~Sampling(i)
  BY <1>1, <1>3
<1>9. SceneIdsAreFresh'
  BY <1>2, <1>6, <1>7, <1>8 DEF SceneIdsAreFresh
<1> QED BY <1>1, <1>9

LEMMA ClearedStaysFresh ==
  ASSUME Evidence, NEW s \in Surfaces, UNCHANGED packet, dirty' = [dirty EXCEPT ![s] = 0],
         nextId' >= nextId, nextId' \in 1 .. MaxId + 1
  PROVE  SceneIdsAreFresh' /\ dirty' \in [Surfaces -> Nat]
<1>1. nextId \in Nat /\ dirty \in [Surfaces -> Nat] /\ Ids \subseteq Nat /\ nextId' \in Nat
  BY LaneAssumption DEF Evidence, GuestShape, Ids
<1>2. \A i : Sampling(i)' <=> Sampling(i)
  BY DEF Sampling
<1>3. \A t \in Surfaces : dirty'[t] # 0 => dirty'[t] = dirty[t]
  BY <1>1
<1>4. \A t \in Surfaces : dirty'[t] # 0 => dirty'[t] < nextId' /\ ~Sampling(dirty'[t])
  BY <1>1, <1>3 DEF Evidence, SceneIdsAreFresh
<1>5. \A t, r \in Surfaces : dirty'[t] # 0 /\ dirty'[t] = dirty'[r] => t = r
  BY <1>1, <1>3 DEF Evidence, SceneIdsAreFresh
<1>6. \A i \in Ids : i >= nextId' => ~Sampling(i)
  BY <1>1 DEF Evidence, SceneIdsAreFresh
<1> QED BY <1>1, <1>2, <1>4, <1>5, <1>6 DEF SceneIdsAreFresh

\* An applied update leaves every queue, and shows what no surface has shown.
LEMMA AppliedUpdateIsGone ==
  ASSUME Evidence, NEW u \in applying, NEW new \in {0, u.id},
         applying' = applying \ {u}, UNCHANGED <<cached, blocked>>,
         content' = [content EXCEPT ![u.surface] = new],
         nextId' \in Nat, nextId' >= nextId
  PROVE  PendingIsNew' /\ PendingOnce'
<1>1. /\ cached \in [Surfaces -> SUBSET UpdateRecord]
      /\ blocked \in [Surfaces -> SUBSET SUBSET UpdateRecord]
      /\ applying \subseteq UpdateRecord
      /\ content \in [Surfaces -> Nat] /\ nextId \in Nat
  BY DEF Evidence, PendingIsNew, GuestShape
<1>2. u \in Pending /\ u \in UpdateRecord /\ u.surface \in Surfaces /\ u.id \in Nat \ {0}
  BY <1>1, PendingMembers DEF UpdateRecord
<1>3. Pending' \subseteq Pending \ {u}
  <2> DEFINE P == Pending \ {u}
  <2>1. applying' \subseteq P
    BY PendingMembers
  <2>2. \A s \in Surfaces : cached'[s] \subseteq P
    BY PendingMembers DEF Evidence, PendingOnce
  <2>3. \A s \in Surfaces : \A g \in blocked'[s] : g \subseteq P
    BY PendingMembers DEF Evidence, PendingOnce
  <2> QED BY <2>1, <2>2, <2>3, PendingWithin
<1>4. /\ \A v \in Pending : v.id \in Nat /\ v.id # 0 /\ v.surface \in Surfaces
      /\ \A v \in Pending : v.id < nextId /\ v.id # content[v.surface]
      /\ \A v, w \in Pending : v.id = w.id => v = w
      /\ \A s \in Surfaces : content[s] < nextId
  <2>1. \A v \in Pending : v.id \in Nat /\ v.id # 0 /\ v.surface \in Surfaces
    BY PendingAreUpdates DEF UpdateRecord
  <2> QED BY <2>1 DEF Evidence, PendingIsNew
<1>5. \A v \in Pending' : v \in Pending /\ v.id # u.id
  BY <1>2, <1>3, <1>4
<1>6. \A s \in Surfaces : content'[s] = IF s = u.surface THEN new ELSE content[s]
  BY <1>1, <1>2
<1>7. \A v \in Pending' : v.id < nextId' /\ v.id # content'[v.surface]
  BY <1>1, <1>4, <1>5, <1>6
<1>8. \A s \in Surfaces : content'[s] < nextId'
  BY <1>1, <1>2, <1>4, <1>6
<1>9. PendingIsNew'
  BY <1>1, <1>4, <1>5, <1>7, <1>8 DEF PendingIsNew
<1>10. PendingOnce'
  BY DEF Evidence, PendingOnce
<1> QED BY <1>9, <1>10

\* What applying a commit, or the end of a surface, does to queries: those of
\* other commits end or are retired, and those of the commit are bound to it.
FollowsContent(q, s, new) ==
  \/ query'[q] = Ended(query[q], "discarded")
  \/ /\ query[q].at = "listed" /\ query[q].surface = s
     /\ query[q].commit = new /\ new # 0
     /\ query'[q] = Marked(query[q], TRUE, query[q].retired)
  \/ query[q].at = "ledger" /\ query'[q] = Marked(query[q], query[q].bound, TRUE)
  \/ /\ query'[q] = query[q]
     /\ query[q].surface = s => \/ query[q].at = "listed" /\ ~query[q].bound
                                \/ /\ query[q].at = "ledger"
                                   /\ s \notin alive' \/ query[q].retired
                                \/ query[q].at \notin {"listed", "ledger"}

LEMMA ShownContentKeepsQueries ==
  ASSUME Evidence, NEW s \in Surfaces, NEW new \in Nat, UNCHANGED <<packet, displayed>>,
         alive' \subseteq alive, content' = [content EXCEPT ![s] = new],
         query' = [q \in Queries |-> query'[q]],
         \A q \in Queries : FollowsContent(q, s, new)
  PROVE  /\ query' \in [Queries -> QueryRecord]
         /\ QueriesFollowContent' /\ PresentedWasDisplayed'
<1>1. content \in [Surfaces -> Nat]
  BY DEF Evidence, GuestShape
<1>2. ASSUME NEW q \in Queries
      PROVE  /\ query'[q] \in QueryRecord
             /\ query'[q].at = "unused" => ~query'[q].bound
             /\ query'[q].at = "listed" /\ query'[q].bound => BoundToContent(q)'
             /\ query'[q].at = "ledger" =>
                  /\ query[q].at = "ledger"
                  /\ query'[q].scene = query[q].scene
                  /\ query'[q].surface \in alive' /\ ~query'[q].retired => BoundToContent(q)'
             /\ query'[q].at = "presented" => query[q].at = "presented"
             /\ query'[q].surface = query[q].surface /\ query'[q].commit = query[q].commit
  <2>1. query[q] \in QueryRecord
    BY LanesAreTyped
  <2>2. CASE query'[q] = Ended(query[q], "discarded")
    BY <2>1, <2>2 DEF QueryRecord, Ended, Final
  <2>3. CASE /\ query[q].at = "listed" /\ query[q].surface = s
             /\ query[q].commit = new /\ new # 0
             /\ query'[q] = Marked(query[q], TRUE, query[q].retired)
    <3>1. content'[s] = new
      BY <1>1
    <3> QED BY <2>1, <2>3, <3>1 DEF QueryRecord, Marked, BoundToContent
  <2>4. CASE query[q].at = "ledger" /\ query'[q] = Marked(query[q], query[q].bound, TRUE)
    BY <2>1, <2>4 DEF QueryRecord, Marked
  <2>5. CASE /\ query'[q] = query[q]
             /\ query[q].surface = s => \/ query[q].at = "listed" /\ ~query[q].bound
                                        \/ /\ query[q].at = "ledger"
                                           /\ s \notin alive' \/ query[q].retired
                                        \/ query[q].at \notin {"listed", "ledger"}
    <3>1. query[q].surface \in Surfaces /\ query'[q].surface = query[q].surface
      BY <2>1, <2>5 DEF QueryRecord
    <3>2. query[q].surface # s /\ BoundToContent(q) => BoundToContent(q)'
      BY <1>1, <2>5, <3>1 DEF BoundToContent
    <3>3. /\ query[q].at = "unused" => ~query[q].bound
          /\ query[q].at = "listed" /\ query[q].bound => BoundToContent(q)
          /\ query[q].at = "ledger" /\ query[q].surface \in alive /\ ~query[q].retired
               => BoundToContent(q)
      BY DEF Evidence, QueriesFollowContent
    <3> QED BY <2>1, <2>5, <3>1, <3>2, <3>3
  <2>6. FollowsContent(q, s, new)
    OBVIOUS
  <2> QED BY <2>2, <2>3, <2>4, <2>5, <2>6 DEF FollowsContent
<1>3. query' \in [Queries -> QueryRecord]
  BY <1>2
<1>4. QueriesFollowContent'
  BY <1>2 DEF Evidence, QueriesFollowContent, Shows, Target
<1>5. PresentedWasDisplayed'
  BY <1>2 DEF Evidence, PresentedWasDisplayed, WasDisplayed, Shows, Target
<1> QED BY <1>3, <1>4, <1>5

LEMMA ApplyUpdateKeepsQueries ==
  ASSUME Evidence, NEW u \in applying, UNCHANGED <<alive, packet, displayed>>,
         content' = [content EXCEPT ![u.surface] = IF Publishes(u) THEN u.id ELSE 0],
         query' = [q \in Queries |-> AfterApply(q, u)]
  PROVE  /\ query' \in [Queries -> QueryRecord]
         /\ QueriesFollowContent' /\ PresentedWasDisplayed'
<1> DEFINE s   == u.surface
           new == IF Publishes(u) THEN u.id ELSE 0
<1>1. u \in Pending /\ s \in Surfaces /\ u.id \in Nat /\ u.id # 0 /\ u.id # content[s]
  BY PendingMembers, PendingAreUpdates DEF UpdateRecord, Evidence, PendingIsNew
<1>2. alive' \subseteq alive /\ new \in Nat
  BY <1>1
<1>3. ASSUME NEW q \in Queries
      PROVE  FollowsContent(q, s, new)
  <2>0. query'[q] = AfterApply(q, u)
    OBVIOUS
  <2>1. CASE q \in Replaced(s, u.id)
    BY <2>0, <2>1 DEF AfterApply, FollowsContent
  <2>2. CASE q \notin Replaced(s, u.id) /\ q \in EndsWith(s, u.id)
    <3>1. query[q].at = "listed" /\ query[q].surface = s /\ query[q].commit = u.id
      BY <2>2 DEF EndsWith, Listed
    <3>2. query'[q] = IF Publishes(u) THEN Marked(query[q], TRUE, query[q].retired)
                                      ELSE Ended(query[q], "discarded")
      BY <2>0, <2>2 DEF AfterApply
    <3> QED BY <1>1, <3>1, <3>2 DEF FollowsContent
  <2>3. CASE /\ q \notin Replaced(s, u.id) /\ q \notin EndsWith(s, u.id)
             /\ q \in Superseded(s, u.id)
    <3>1. query[q].at = "ledger"
      BY <2>3 DEF Superseded, InFlight
    <3>2. query'[q] = Marked(query[q], query[q].bound, TRUE)
      BY <2>0, <2>3 DEF AfterApply
    <3> QED BY <3>1, <3>2 DEF FollowsContent
  <2>4. CASE /\ q \notin Replaced(s, u.id) /\ q \notin EndsWith(s, u.id)
             /\ q \notin Superseded(s, u.id)
    <3>1. query'[q] = query[q]
      BY <2>0, <2>4 DEF AfterApply
    <3>2. ASSUME query[q].surface = s, query[q].at = "listed" PROVE ~query[q].bound
      BY <2>4, <3>2 DEF Replaced, EndsWith, Listed
    <3>3. ASSUME query[q].surface = s, query[q].at = "ledger", s \in alive, ~query[q].retired
          PROVE  FALSE
      <4>1. query[q].commit = u.id
        BY <2>4, <3>3 DEF Superseded, InFlight
      <4>2. query[q].commit = content[s]
        BY <3>3 DEF Evidence, QueriesFollowContent, BoundToContent
      <4> QED BY <1>1, <4>1, <4>2
    <3>4. s \notin alive' <=> s \notin alive
      OBVIOUS
    <3> HIDE DEF s, new
    <3> QED BY <3>1, <3>2, <3>3, <3>4 DEF FollowsContent
  <2> QED BY <2>1, <2>2, <2>3, <2>4
<1>4. query' = [q \in Queries |-> query'[q]]
  OBVIOUS
<1>5. content' = [content EXCEPT ![s] = new] /\ UNCHANGED <<packet, displayed>>
  OBVIOUS
<1> HIDE DEF s, new
<1> QED BY <1>1, <1>2, <1>3, <1>4, <1>5, ShownContentKeepsQueries

LEMMA ApplyUpdateKeepsEvidence ==
  ASSUME Evidence, InGuest(ApplyUpdate)
  PROVE  Evidence'
<1>1. UNCHANGED <<alive, cached, blocked, ledger, packet, epoch, pause, connections,
                  hostVars, displayed, display, control, feedback>>
  BY DEF InGuest, ApplyUpdate, laneVars
<1>2. PICK u \in applying :
          /\ applying' = applying \ {u}
          /\ content' = [content EXCEPT ![u.surface] = IF Publishes(u) THEN u.id ELSE 0]
          /\ query' = [q \in Queries |-> AfterApply(q, u)]
          /\ \/ /\ nextId <= MaxId /\ nextId' = nextId + 1
                /\ dirty' = [dirty EXCEPT ![RootOf[u.surface]] = nextId]
             \/ UNCHANGED <<nextId, dirty>>
  BY DEF InGuest, ApplyUpdate
<1>3. /\ u.surface \in Surfaces /\ u.id \in Nat /\ RootOf[u.surface] \in Surfaces
      /\ nextId \in 1 .. MaxId + 1 /\ MaxId \in Nat /\ dirty \in [Surfaces -> Nat]
  BY PendingMembers, PendingAreUpdates, LaneAssumption DEF UpdateRecord, Evidence, GuestShape
<1>4. /\ query' \in [Queries -> QueryRecord]
      /\ QueriesFollowContent' /\ PresentedWasDisplayed'
  BY <1>1, <1>2, ApplyUpdateKeepsQueries
<1>5. SceneIdsAreFresh' /\ dirty' \in [Surfaces -> Nat] /\ nextId' \in 1 .. MaxId + 1
  <2>1. CASE /\ nextId <= MaxId /\ nextId' = nextId + 1
             /\ dirty' = [dirty EXCEPT ![RootOf[u.surface]] = nextId]
    <3>1. nextId \in Ids /\ nextId >= nextId
      BY <1>3, <2>1 DEF Ids
    <3> QED BY <1>1, <1>3, <2>1, <3>1, NewSceneIsFresh
  <2>2. CASE UNCHANGED <<nextId, dirty>>
    <3>1. nextId' \in Nat /\ nextId' >= nextId
      BY <1>3, <2>2
    <3> QED BY <1>1, <1>3, <2>2, <3>1, FreshIdsStayFresh
  <2> QED BY <1>2, <2>1, <2>2
<1>6. PendingIsNew' /\ PendingOnce'
  <2> DEFINE new == IF Publishes(u) THEN u.id ELSE 0
  <2>1. new \in {0, u.id} /\ content' = [content EXCEPT ![u.surface] = new]
    BY <1>2
  <2>2. nextId' \in Nat /\ nextId' >= nextId
    BY <1>2, <1>3
  <2> HIDE DEF new
  <2> QED BY <1>1, <1>2, <2>1, <2>2, AppliedUpdateIsGone
<1>7. alive' \subseteq Surfaces /\ content' \in [Surfaces -> Nat]
  BY <1>1, <1>2, <1>3 DEF Evidence, GuestShape
<1> QED BY <1>1, <1>4, <1>5, <1>6, <1>7, SurfaceStep

\* A destroyed surface leaves its updates behind.
LEMMA DestroyKeepsPending ==
  ASSUME Evidence, NEW s \in Surfaces, NEW D,
         applying = {}, UNCHANGED applying,
         content' = [content EXCEPT ![s] = 0],
         cached' = [cached EXCEPT ![s] = {}],
         blocked' = [blocked EXCEPT ![RootOf[s]] = {group \ D : group \in @} \ {{}}],
         nextId' \in Nat, nextId' >= nextId
  PROVE  PendingIsNew' /\ PendingOnce' /\ Pending' \subseteq Pending
<1>1. /\ cached \in [Surfaces -> SUBSET UpdateRecord]
      /\ blocked \in [Surfaces -> SUBSET SUBSET UpdateRecord]
      /\ content \in [Surfaces -> Nat] /\ nextId \in 1 .. MaxId + 1
      /\ RootOf[s] \in Surfaces /\ MaxId \in Nat
  BY LaneAssumption DEF Evidence, PendingIsNew, GuestShape
<1>2. \A t \in Surfaces : cached'[t] = IF t = s THEN {} ELSE cached[t]
  BY <1>1
<1>3. \A t \in Surfaces : t # RootOf[s] => blocked'[t] = blocked[t]
  BY <1>1
<1>4. ASSUME NEW t \in Surfaces, NEW g \in blocked'[t]
      PROVE  \E whole \in blocked[t] : /\ g \subseteq whole
                                       /\ t = RootOf[s] => g = whole \ D
                                       /\ t # RootOf[s] => g = whole
  <2>1. CASE t = RootOf[s]
    <3> DEFINE rest == {group \ D : group \in blocked[t]}
    <3>1. blocked'[t] = rest \ {{}}
      BY <1>1, <2>1
    <3>2. PICK whole \in blocked[t] : g = whole \ D
      <4>1. \A x \in rest : \E whole \in blocked[t] : x = whole \ D
        OBVIOUS
      <4> HIDE DEF rest
      <4> QED BY <3>1, <4>1
    <3> QED BY <2>1, <3>2
  <2>2. CASE t # RootOf[s]
    BY <1>3, <2>2
  <2> QED BY <2>1, <2>2
<1>5. /\ cached' \in [Surfaces -> SUBSET UpdateRecord]
      /\ blocked' \in [Surfaces -> SUBSET SUBSET UpdateRecord]
      /\ content' \in [Surfaces -> Nat]
  <2>1. cached' \in [Surfaces -> SUBSET UpdateRecord] /\ content' \in [Surfaces -> Nat]
    BY <1>1
  <2>2. \A t \in Surfaces : blocked'[t] \subseteq SUBSET UpdateRecord
    BY <1>1, <1>4
  <2> QED BY <1>1, <2>1, <2>2
<1>6. Pending' \subseteq Pending
  <2>1. applying' \subseteq Pending
    OBVIOUS
  <2>2. \A t \in Surfaces : cached'[t] \subseteq Pending
    BY <1>2, PendingMembers
  <2>3. \A t \in Surfaces : \A g \in blocked'[t] : g \subseteq Pending
    BY <1>4, PendingMembers
  <2> QED BY <2>1, <2>2, <2>3, PendingWithin
<1>7. PendingIsNew'
  <2>1. /\ \A v \in Pending : v.id \in Nat /\ v.id # 0 /\ v.surface \in Surfaces
        /\ \A v \in Pending : v.id < nextId /\ v.id # content[v.surface]
        /\ \A v, w \in Pending : v.id = w.id => v = w
        /\ \A t \in Surfaces : content[t] < nextId
    <3>1. \A v \in Pending : v.id \in Nat /\ v.id # 0 /\ v.surface \in Surfaces
      BY PendingAreUpdates DEF UpdateRecord
    <3> QED BY <3>1 DEF Evidence, PendingIsNew
  <2>2. \A t \in Surfaces : content'[t] = IF t = s THEN 0 ELSE content[t]
    BY <1>1
  <2>3. \A v \in Pending' : v.id < nextId' /\ v.id # content'[v.surface]
    BY <1>1, <1>6, <2>1, <2>2
  <2>4. \A t \in Surfaces : content'[t] < nextId'
    BY <1>1, <2>1, <2>2
  <2>5. \A v, w \in Pending' : v.id = w.id => v = w
    BY <1>6, <2>1
  <2> QED BY <1>5, <2>3, <2>4, <2>5 DEF PendingIsNew
<1>8. PendingOnce'
  <2>1. /\ \A t \in Surfaces : \A u \in cached[t] : u.surface = t
        /\ \A t, r \in Surfaces : \A g \in blocked[r] : cached[t] \cap g = {}
        /\ \A t, r \in Surfaces : \A g \in blocked[t], h \in blocked[r] :
             g \cap h # {} => t = r /\ g = h
    BY DEF Evidence, PendingOnce
  <2>2. \A t \in Surfaces : cached'[t] \subseteq cached[t]
    BY <1>2
  <2>3. \A t, r \in Surfaces : \A g \in blocked'[r] : cached'[t] \cap g = {}
    BY <1>4, <2>1, <2>2
  <2>4. \A t, r \in Surfaces : \A g \in blocked'[t], h \in blocked'[r] :
          g \cap h # {} => t = r /\ g = h
    <3> SUFFICES ASSUME NEW t \in Surfaces, NEW r \in Surfaces, NEW g \in blocked'[t],
                        NEW h \in blocked'[r], g \cap h # {}
                 PROVE  t = r /\ g = h
      OBVIOUS
    <3>1. PICK G \in blocked[t] : /\ g \subseteq G /\ (t = RootOf[s] => g = G \ D)
                                  /\ (t # RootOf[s] => g = G)
      BY <1>4
    <3>2. PICK H \in blocked[r] : /\ h \subseteq H /\ (r = RootOf[s] => h = H \ D)
                                  /\ (r # RootOf[s] => h = H)
      BY <1>4
    <3>3. G \cap H # {}
      BY <3>1, <3>2
    <3>4. t = r /\ G = H
      BY <2>1, <3>3
    <3> QED BY <3>1, <3>2, <3>4
  <2>5. \A t \in Surfaces : \A u \in cached'[t] : u.surface = t
    BY <2>1, <2>2
  <2> QED BY <2>3, <2>4, <2>5 DEF PendingOnce
<1> QED BY <1>6, <1>7, <1>8

LEMMA DestroySurfaceKeepsQueries ==
  ASSUME Evidence, NEW s \in Surfaces, NEW D, UNCHANGED <<packet, displayed>>,
         alive' = alive \ {s}, content' = [content EXCEPT ![s] = 0],
         query' = [q \in Queries |->
           IF q \in Listed(s) THEN Ended(query[q], "discarded")
           ELSE IF q \in InFlight(s) THEN Marked(query[q], query[q].bound, TRUE)
           ELSE IF \E u \in D : q \in EndsWith(u.surface, u.id)
           THEN Ended(query[q], "discarded") ELSE query[q]]
  PROVE  /\ query' \in [Queries -> QueryRecord]
         /\ QueriesFollowContent' /\ PresentedWasDisplayed'
<1>1. ASSUME NEW q \in Queries
      PROVE  FollowsContent(q, s, 0)
  <2>1. \/ query'[q] = Ended(query[q], "discarded")
        \/ query[q].at = "ledger" /\ query'[q] = Marked(query[q], query[q].bound, TRUE)
        \/ /\ query'[q] = query[q]
           /\ query[q].surface = s => query[q].at \notin {"listed", "ledger"}
    BY DEF Listed, InFlight
  <2> QED BY <2>1 DEF FollowsContent
<1>2. query' = [q \in Queries |-> query'[q]]
  OBVIOUS
<1>3. alive' \subseteq alive /\ 0 \in Nat
  OBVIOUS
<1> QED BY <1>1, <1>2, <1>3, ShownContentKeepsQueries

LEMMA DestroySurfaceKeepsEvidence ==
  ASSUME Evidence, NEW s \in Mortal, InGuest(DestroySurface(s))
  PROVE  Evidence'
<1>1. /\ UNCHANGED <<applying, ledger, packet, epoch, pause, connections,
                     hostVars, displayed, display, control, feedback>>
      /\ applying = {} /\ IdsLeft(2)
      /\ alive' = alive \ {s} /\ content' = [content EXCEPT ![s] = 0]
      /\ cached' = [cached EXCEPT ![s] = {}]
      /\ blocked' = [blocked EXCEPT ![RootOf[s]] = {group \ Dropped(s) : group \in @} \ {{}}]
      /\ query' = [q \in Queries |->
           IF q \in Listed(s) THEN Ended(query[q], "discarded")
           ELSE IF q \in InFlight(s) THEN Marked(query[q], query[q].bound, TRUE)
           ELSE IF \E u \in Dropped(s) : q \in EndsWith(u.surface, u.id)
           THEN Ended(query[q], "discarded") ELSE query[q]]
  BY DEF InGuest, DestroySurface, Idle, laneVars
<1>2. \/ nextId' = nextId + 2 /\ dirty' = [dirty EXCEPT ![RootOf[s]] = nextId + 1]
      \/ nextId' \in {nextId, nextId + 1} /\ dirty' = [dirty EXCEPT ![s] = 0]
  BY DEF InGuest, DestroySurface
<1>3. /\ s \in Surfaces /\ RootOf[s] \in Surfaces
      /\ nextId \in 1 .. MaxId + 1 /\ nextId + 2 <= MaxId + 1
      /\ MaxId \in Nat /\ dirty \in [Surfaces -> Nat] /\ content \in [Surfaces -> Nat]
      /\ alive \subseteq Surfaces
  BY <1>1, IdsLeftBounds, LaneAssumption DEF Evidence, GuestShape
<1>4. nextId' \in Nat /\ nextId' >= nextId
  BY <1>2, <1>3
<1>5. PendingIsNew' /\ PendingOnce'
  BY <1>1, <1>3, <1>4, DestroyKeepsPending
<1>6. /\ query' \in [Queries -> QueryRecord]
      /\ QueriesFollowContent' /\ PresentedWasDisplayed'
  BY <1>1, <1>3, DestroySurfaceKeepsQueries
<1>7. SceneIdsAreFresh' /\ dirty' \in [Surfaces -> Nat] /\ nextId' \in 1 .. MaxId + 1
  <2>1. CASE nextId' = nextId + 2 /\ dirty' = [dirty EXCEPT ![RootOf[s]] = nextId + 1]
    <3>1. nextId + 1 \in Ids /\ nextId + 1 >= nextId /\ nextId' = (nextId + 1) + 1
      BY <1>3, <2>1 DEF Ids
    <3> HIDE <1>2
    <3> QED BY <1>1, <1>3, <2>1, <3>1, NewSceneIsFresh
  <2>2. CASE nextId' \in {nextId, nextId + 1} /\ dirty' = [dirty EXCEPT ![s] = 0]
    <3>1. nextId' \in 1 .. MaxId + 1
      BY <1>3, <2>2
    <3> QED BY <1>1, <1>3, <1>4, <2>2, <3>1, ClearedStaysFresh
  <2> QED BY <1>2, <2>1, <2>2
<1>8. alive' \subseteq Surfaces /\ content' \in [Surfaces -> Nat]
  BY <1>1, <1>3
<1> QED BY <1>1, <1>5, <1>6, <1>7, <1>8, SurfaceStep

-----------------------------------------------------------------------------
(* Scenes.                                                                 *)

\* An admitted scene is new, is not empty, and samples what its queries are
\* bound to.
LEMMA AdmittedKeepsEvidence ==
  ASSUME Evidence, NEW root \in Roots, root \in alive, content[root] # 0, dirty[root] # 0,
         Admitted(root, dirty[root]),
         UNCHANGED <<alive, content, cached, blocked, applying, nextId, epoch, pause,
                     connections, control, feedback, hostVars, displayed>>
  PROVE  Evidence'
<1> DEFINE carried == Queried(root) \ Unreportable(root)
<1>0. PICK id : id = dirty[root]
  OBVIOUS
<1>1. /\ query' = [q \in Queries |->
           IF q \in Unreportable(root) THEN Ended(query[q], "discarded")
           ELSE IF q \in carried THEN Placed(query[q], "ledger", id) ELSE query[q]]
      /\ ledger' = ledger \/ ledger' = [ledger EXCEPT ![id] = "open"]
      /\ packet' = [packet EXCEPT ![id] = [layers |-> LayersOf(root), epoch |-> epoch]]
      /\ display' = Written(display, <<[type |-> "scene", id |-> id, root |-> root]>>)
      /\ dirty' = [dirty EXCEPT ![root] = 0]
  BY <1>0 DEF Admitted
<1>2. /\ root \in Surfaces /\ RootOf[root] = root
      /\ content \in [Surfaces -> Nat] /\ dirty \in [Surfaces -> Nat]
      /\ nextId \in 1 .. MaxId + 1 /\ MaxId \in Nat /\ Ids = 1 .. MaxId
      /\ alive \subseteq Surfaces /\ epoch \in Nat
      /\ packet \in [Ids -> [layers : SUBSET (Surfaces \X Nat), epoch : Nat]]
  BY BatchesAreFinite, LaneAssumption DEF Evidence, GuestShape, Ids, Roots
<1>3. id \in Ids /\ ~Sampling(id)
  <2>1. id < nextId /\ ~Sampling(id) /\ id \in Nat /\ id # 0
    BY <1>0, <1>2 DEF Evidence, SceneIdsAreFresh
  <2> QED BY <1>2, <2>1
<1>4. LayersOf(root) \in SUBSET (Surfaces \X Nat) /\ LayersOf(root) # {}
  <2>1. root \in Sampled(root)
    BY <1>2 DEF Sampled
  <2>2. \A s \in Sampled(root) : s \in Surfaces /\ content[s] \in Nat
    BY <1>2 DEF Sampled
  <2>3. <<root, content[root]>> \in LayersOf(root)
    BY <2>1 DEF LayersOf
  <2>4. \A layer \in LayersOf(root) : layer \in Surfaces \X Nat
    BY <2>2 DEF LayersOf
  <2> QED BY <2>3, <2>4
<1>5. /\ Sampling(id)'
      /\ \A i \in Ids : i # id => packet'[i] = packet[i] /\ (Sampling(i)' <=> Sampling(i))
  <2>1. packet'[id].layers = LayersOf(root)
    BY <1>1, <1>2, <1>3
  <2>2. \A i \in Ids : i # id => packet'[i] = packet[i]
    BY <1>1, <1>2
  <2> QED BY <1>3, <1>4, <2>1, <2>2 DEF Sampling
<1>6. \A i \in Ids : Sampling(i) => i # id /\ packet'[i] = packet[i] /\ Sampling(i)'
  BY <1>3, <1>5
<1>7. \A i \in displayed : i \in Ids /\ packet'[i] = packet[i]
  BY <1>6 DEF Evidence, HostHoldsEvidence
<1>8. ASSUME NEW q \in Queries
      PROVE  /\ query'[q] \in QueryRecord
             /\ query'[q].at = "unused" => ~query'[q].bound
             /\ query'[q].at = "listed" /\ query'[q].bound => BoundToContent(q)'
             /\ query'[q].at = "ledger" =>
                  /\ query'[q].scene \in Ids
                  /\ Shows(query[q].scene, Target(q))'
                  /\ query'[q].surface \in alive' /\ ~query'[q].retired => BoundToContent(q)'
             /\ query'[q].at = "presented" => query'[q] = query[q]
  <2>1. query[q] \in QueryRecord
    BY LanesAreTyped
  <2>2. CASE q \in Unreportable(root)
    <3>1. query'[q] = Ended(query[q], "discarded")
      BY <1>1, <2>2
    <3> QED BY <2>1, <3>1 DEF QueryRecord, Ended, Final
  <2>3. CASE q \notin Unreportable(root) /\ q \in carried
    <3>1. query'[q] = Placed(query[q], "ledger", id)
      BY <1>1, <2>3
    <3>2. BoundToContent(q) /\ query[q].surface \in Sampled(root)
      BY <2>3 DEF Queried, Evidence, QueriesFollowContent
    <3>3. Target(q) \in LayersOf(root)
      BY <3>2 DEF Target, BoundToContent, LayersOf
    <3>4. packet'[id].layers = LayersOf(root)
      BY <1>1, <1>2, <1>3
    <3>5. /\ query'[q].at = "ledger" /\ query'[q].scene = id /\ query'[q].surface = query[q].surface
          /\ query'[q].commit = query[q].commit /\ query'[q].bound = query[q].bound
          /\ query'[q] \in QueryRecord
      BY <1>2, <1>3, <2>1, <3>1 DEF Placed, QueryRecord
    <3>6. Shows(query[q].scene, Target(q))'
      BY <3>3, <3>4, <3>5 DEF Shows, Target
    <3>7. BoundToContent(q)'
      BY <3>2, <3>5 DEF BoundToContent
    <3> QED BY <1>3, <3>5, <3>6, <3>7
  <2>4. CASE q \notin Unreportable(root) /\ q \notin carried
    <3>1. query'[q] = query[q]
      BY <1>1, <2>4
    <3>2. BoundToContent(q) => BoundToContent(q)'
      BY <3>1 DEF BoundToContent
    <3>3. query[q].at = "ledger" => query[q].scene \in Ids /\ Shows(query[q].scene, Target(q))'
      <4> SUFFICES ASSUME query[q].at = "ledger"
                   PROVE  query[q].scene \in Ids /\ Shows(query[q].scene, Target(q))'
        OBVIOUS
      <4>1. query[q].scene \in Ids /\ Shows(query[q].scene, Target(q))
        BY DEF Evidence, QueriesFollowContent
      <4>2. Sampling(query[q].scene)
        BY <4>1 DEF Shows, Sampling
      <4> QED BY <1>6, <3>1, <4>1, <4>2 DEF Shows, Target
    <3> QED BY <2>1, <3>1, <3>2, <3>3 DEF Evidence, QueriesFollowContent
  <2> QED BY <2>2, <2>3, <2>4
<1>9. query' \in [Queries -> QueryRecord]
  BY <1>1, <1>8
<1>10. QueriesFollowContent'
  BY <1>8 DEF QueriesFollowContent
<1>11. PresentedWasDisplayed'
  <2> SUFFICES ASSUME NEW q \in Queries, query'[q].at = "presented"
               PROVE  WasDisplayed(q)'
    BY DEF PresentedWasDisplayed
  <2>1. query'[q] = query[q]
    BY <1>8
  <2>2. PICK i \in displayed : Shows(i, Target(q))
    BY <2>1 DEF Evidence, PresentedWasDisplayed, WasDisplayed
  <2> QED BY <1>7, <2>1, <2>2 DEF WasDisplayed, Shows, Target
<1>12. GuestShape'
  <2>1. packet' \in [Ids -> [layers : SUBSET (Surfaces \X Nat), epoch : Nat]]
    BY <1>1, <1>2, <1>4
  <2>2. ledger' \in [Ids -> RecordStates]
    BY <1>1, LanesAreTyped DEF RecordStates
  <2>3. dirty' \in [Surfaces -> Nat]
    BY <1>1, <1>2
  <2> QED BY <1>9, <2>1, <2>2, <2>3 DEF Evidence, GuestShape
<1>13. PendingIsNew' /\ PendingOnce'
  BY DEF Evidence, PendingIsNew, PendingOnce, Pending
<1>14. SceneIdsAreFresh'
  <2>1. \A s \in Surfaces : dirty'[s] # 0 => s # root /\ dirty'[s] = dirty[s]
    BY <1>1, <1>2
  <2>2. ASSUME NEW s \in Surfaces, dirty'[s] # 0
        PROVE  dirty'[s] < nextId /\ ~Sampling(dirty[s])'
    <3>1. dirty'[s] = dirty[s] /\ dirty[s] < nextId /\ ~Sampling(dirty[s]) /\ dirty[s] # id
      BY <1>0, <1>2, <2>1, <2>2 DEF Evidence, SceneIdsAreFresh
    <3>2. dirty[s] \in Ids
      BY <1>2, <2>2, <3>1
    <3> QED BY <1>5, <3>1, <3>2 DEF Sampling
  <2>3. \A s, t \in Surfaces : dirty'[s] # 0 /\ dirty'[s] = dirty'[t] => s = t
    BY <2>1 DEF Evidence, SceneIdsAreFresh
  <2>4. \A i \in Ids : i >= nextId => ~Sampling(i)'
    <3>1. id < nextId
      BY <1>0, <1>2 DEF Evidence, SceneIdsAreFresh
    <3> QED BY <1>2, <1>3, <1>5, <3>1 DEF Evidence, SceneIdsAreFresh
  <2> QED BY <2>1, <2>2, <2>3, <2>4 DEF SceneIdsAreFresh
<1>15. LedgerHoldsEvidence'
  BY <1>1, LanesAreTyped DEF Evidence, LedgerHoldsEvidence
<1>16. LanesCarryEvidence'
  <2>1. SceneEvents \subseteq SceneEvents'
    BY <1>6 DEF SceneEvents
  <2>2. display \in Seq(SceneEvents')
    BY <2>1, LanesAreTyped, LargerLane
  <2>3. <<[type |-> "scene", id |-> id, root |-> root]>> \in Seq(SceneEvents')
    BY <1>3, <1>5 DEF SceneEvents
  <2>4. display' \in Seq(SceneEvents')
    BY <1>1, <2>2, <2>3, WrittenIsSeq
  <2> QED BY <2>4, ResultCommandsFrame, LanesAreTyped DEF LanesCarryEvidence, BarrierCommands
<1>17. HostHoldsEvidence'
  BY <1>6, HostFrame
<1> QED BY <1>10, <1>11, <1>12, <1>13, <1>14, <1>15, <1>16, <1>17 DEF Evidence

LEMMA FlushKeepsEvidence ==
  ASSUME Evidence, NEW root \in Roots, InGuest(Flush(root))
  PROVE  Evidence'
<1>1. UNCHANGED <<alive, content, cached, blocked, applying, nextId, epoch, pause,
                  connections, control, feedback, hostVars, displayed>>
  BY DEF InGuest, Flush
<1>2. \/ UNCHANGED <<query, ledger, packet, display, dirty>>
      \/ Unpublished(root)
      \/ Rejected(root)
      \/ /\ root \in alive /\ content[root] # 0 /\ dirty[root] # 0
         /\ Admitted(root, dirty[root])
  BY DEF InGuest, Flush, FlushWindow
<1>3. root \in Surfaces
  BY BatchesAreFinite
<1>4. CASE UNCHANGED <<query, ledger, packet, display, dirty>>
  BY <1>1, <1>4, LanesAreTyped, QuietStep DEF surfaceState
<1>5. CASE Unpublished(root)
  <2>1. UNCHANGED <<query, ledger, packet, display>> /\ dirty' = [dirty EXCEPT ![root] = 0]
    BY <1>5 DEF Unpublished
  <2>2. nextId' >= nextId /\ nextId' \in 1 .. MaxId + 1
    BY <1>1, LaneAssumption DEF Evidence, GuestShape
  <2>3. SceneIdsAreFresh' /\ dirty' \in [Surfaces -> Nat]
    BY <1>3, <2>1, <2>2, ClearedStaysFresh
  <2>4. PendingIsNew' /\ PendingOnce'
    BY <1>1 DEF Evidence, PendingIsNew, PendingOnce, Pending
  <2> QED BY <1>1, <2>1, <2>2, <2>3, <2>4, SurfaceStepWithQueries
<1>6. CASE Rejected(root)
  <2>1. /\ query' = [q \in Queries |-> IF q \in Unreportable(root)
                                      THEN Ended(query[q], "discarded") ELSE query[q]]
        /\ UNCHANGED <<ledger, packet, display, dirty>>
    BY <1>6 DEF Rejected, WithEnded
  <2>2. query' = [q \in Queries |-> query'[q]] /\ \A q \in Queries : Settles(q)
    <3>1. ASSUME NEW q \in Queries PROVE Settles(q)
      BY <2>1 DEF Settles
    <3> QED BY <2>1, <3>1
  <2> QED BY <1>1, <2>1, <2>2, LanesAreTyped, LedgerStep DEF surfaceState
<1>7. CASE /\ root \in alive /\ content[root] # 0 /\ dirty[root] # 0
           /\ Admitted(root, dirty[root])
  BY <1>1, <1>7, AdmittedKeepsEvidence
<1> QED BY <1>2, <1>4, <1>5, <1>6, <1>7

\* The lanes lose or pass on messages, and surfaces change no content.
LEMMA LaneStep ==
  ASSUME Evidence, UNCHANGED <<alive, content, cached, blocked, applying, query, ledger, packet>>,
         UNCHANGED hostState,
         connections' \in 0 .. MaxConnections, epoch' \in Nat, pause' \in PauseRecord,
         dirty' \in [Surfaces -> Nat], nextId' \in 1 .. MaxId + 1, nextId' >= nextId,
         SceneIdsAreFresh',
         display' \in Seq(SceneEvents), feedback' \in Seq(ResultCommands),
         control' \in Seq(BarrierCommands)
  PROVE  Evidence'
<1>0. UNCHANGED displayed
  BY DEF hostState
<1>1. GuestShape'
  BY DEF Evidence, GuestShape
<1>2. PendingIsNew' /\ PendingOnce'
  <2>1. nextId \in Nat /\ nextId' \in Nat /\ content \in [Surfaces -> Nat]
    BY LaneAssumption DEF Evidence, GuestShape
  <2>2. \A u \in Pending : u.id \in Nat
    BY PendingAreUpdates DEF UpdateRecord
  <2>3. Pending' = Pending
    BY DEF Pending
  <2>4. PendingOnce'
    BY DEF Evidence, PendingOnce
  <2> QED BY <2>1, <2>2, <2>3, <2>4 DEF Evidence, PendingIsNew
<1>3. QueriesFollowContent' /\ PresentedWasDisplayed'
  BY <1>0 DEF Evidence, QueriesFollowContent, BoundToContent, PresentedWasDisplayed, WasDisplayed,
         Shows, Target
<1>4. LedgerHoldsEvidence'
  BY <1>0 DEF Evidence, LedgerHoldsEvidence
<1>5. LanesCarryEvidence'
  BY <1>0, SceneEventsFrame, ResultCommandsFrame DEF LanesCarryEvidence, BarrierCommands
<1>6. HostHoldsEvidence'
  BY HostStateFrame DEF Sampling
<1> QED BY <1>1, <1>2, <1>3, <1>4, <1>5, <1>6 DEF Evidence

LEMMA ReceiveCaptureKeepsEvidence ==
  ASSUME Evidence, InGuest(ReceiveCapture)
  PROVE  Evidence'
<1> DEFINE root == Head(control).root
<1>1. /\ UNCHANGED <<alive, content, cached, blocked, applying, query, ledger, packet, epoch,
                     pause, connections, display, feedback, hostVars, displayed>>
      /\ Heard(control, "capture") /\ control' = Tail(control)
      /\ \/ UNCHANGED <<dirty, nextId>>
         \/ /\ dirty[root] = 0 /\ IdsLeft(1)
            /\ dirty' = [dirty EXCEPT ![root] = nextId] /\ nextId' = nextId + 1
  BY DEF InGuest, ReceiveCapture, ledgerVars
<1>2. /\ Head(control) \in BarrierCommands /\ Head(control).type = "capture"
      /\ control' \in Seq(BarrierCommands)
  BY <1>1, LanesAreTyped, HeardIsMember
<1>3. root \in Surfaces
  BY <1>2, BatchesAreFinite DEF BarrierCommands
<1> HIDE DEF root
<1>4. /\ nextId \in 1 .. MaxId + 1 /\ MaxId \in Nat /\ dirty \in [Surfaces -> Nat]
      /\ connections \in 0 .. MaxConnections
  BY LaneAssumption DEF Evidence, GuestShape
<1>5. /\ SceneIdsAreFresh' /\ dirty' \in [Surfaces -> Nat]
      /\ nextId' \in 1 .. MaxId + 1 /\ nextId' >= nextId
  <2>1. CASE UNCHANGED <<dirty, nextId>>
    <3>1. nextId' \in Nat /\ nextId' >= nextId
      BY <1>4, <2>1
    <3> QED BY <1>1, <1>4, <2>1, <3>1, FreshIdsStayFresh
  <2>2. CASE /\ IdsLeft(1)
             /\ dirty' = [dirty EXCEPT ![root] = nextId] /\ nextId' = nextId + 1
    <3>1. nextId + 1 <= MaxId + 1
      BY <2>2, IdsLeftBounds
    <3>2. nextId \in Ids /\ nextId >= nextId /\ nextId' >= nextId
      BY <1>4, <2>2, <3>1 DEF Ids
    <3> QED BY <1>1, <1>3, <2>2, <3>2, NewSceneIsFresh
  <2> QED BY <1>1, <2>1, <2>2
<1>6. UNCHANGED hostState
  BY <1>1 DEF hostState, hostVars, barrierVars
<1> QED BY <1>1, <1>2, <1>4, <1>5, <1>6, LanesAreTyped, LaneStep

LEMMA DropKeepsEvidence ==
  ASSUME Evidence, Drop, UNCHANGED <<guestVars, hostVars, displayed>>
  PROVE  Evidence'
<1>1. /\ UNCHANGED <<connections, guestVars, hostVars, displayed>>
      /\ display' = <<>> /\ control' = <<>> /\ feedback' = <<>>
  BY DEF Drop
<1>2. /\ display' \in Seq(SceneEvents) /\ feedback' \in Seq(ResultCommands)
      /\ control' \in Seq(BarrierCommands)
  BY <1>1
<1> QED BY <1>1, <1>2, LanesAreTyped, QuietStep DEF guestVars, surfaceState

LEMMA ConnectKeepsEvidence ==
  ASSUME Evidence, Connect
  PROVE  Evidence'
<1> DEFINE count == Cardinality(Published)
<1>1. /\ UNCHANGED <<alive, content, cached, blocked, applying, query, ledger, packet, epoch,
                     control, feedback, displayed>>
      /\ UNCHANGED <<session, journal, sceneRoot, sent, refresh, gated, barrierVars>>
      /\ connections < MaxConnections /\ connections' = connections + 1
      /\ pause' = ResetPause
      /\ nextId + count <= MaxId + 1 /\ nextId' = nextId + count
      /\ display' = <<[type |-> "started"]>> \o ClockRequest
  BY DEF Connect, GuestAttach, ledgerVars
<1>2. PICK order \in [Published -> 1 .. count] :
        /\ \A r, s \in Published : order[r] = order[s] => r = s
        /\ dirty' = [s \in Surfaces |-> IF s \in Published THEN nextId + order[s] - 1
                                                           ELSE dirty[s]]
  BY DEF Connect, GuestAttach
<1>3. count \in Nat
  BY BatchesAreFinite, FS_CardinalityType DEF Published
<1> HIDE DEF count
<1>4. /\ nextId \in 1 .. MaxId + 1 /\ MaxId \in Nat /\ dirty \in [Surfaces -> Nat]
      /\ connections \in 0 .. MaxConnections /\ MaxConnections \in Nat /\ Ids = 1 .. MaxId
  BY LaneAssumption DEF Evidence, GuestShape, Ids
<1>5. /\ connections' \in 0 .. MaxConnections
      /\ nextId' \in 1 .. MaxId + 1 /\ nextId' >= nextId
  BY <1>1, <1>3, <1>4
<1>6. \A s \in Published : order[s] \in 1 .. count
  OBVIOUS
<1>7. dirty' \in [Surfaces -> Nat]
  BY <1>2, <1>3, <1>4, <1>6
<1>8. SceneIdsAreFresh'
  <2>1. \A i : Sampling(i)' <=> Sampling(i)
    BY <1>1 DEF Sampling
  <2>2. \A s \in Surfaces : /\ s \in Published => dirty'[s] = nextId + order[s] - 1
                            /\ s \notin Published => dirty'[s] = dirty[s]
    BY <1>2
  <2>3. \A s \in Surfaces : dirty[s] # 0 => dirty[s] < nextId /\ ~Sampling(dirty[s])
    BY DEF Evidence, SceneIdsAreFresh
  <2>4. ASSUME NEW s \in Surfaces, dirty'[s] # 0
        PROVE  dirty'[s] < nextId' /\ ~Sampling(dirty'[s])
    <3>1. CASE s \in Published
      <4>1. dirty'[s] >= nextId /\ dirty'[s] \in Ids /\ dirty'[s] < nextId'
        BY <1>1, <1>3, <1>4, <1>6, <2>2, <3>1
      <4> QED BY <4>1 DEF Evidence, SceneIdsAreFresh
    <3>2. CASE s \notin Published
      BY <1>1, <1>3, <1>4, <2>2, <2>3, <2>4, <3>2
    <3> QED BY <3>1, <3>2
  <2>5. ASSUME NEW s \in Surfaces, NEW t \in Surfaces, dirty'[s] # 0, dirty'[s] = dirty'[t]
        PROVE  s = t
    <3>1. CASE s \in Published /\ t \in Published
      <4>1. order[s] = order[t]
        BY <1>3, <1>4, <1>6, <2>2, <2>5, <3>1
      <4> QED BY <1>2, <3>1, <4>1
    <3>2. CASE s \notin Published /\ t \notin Published
      BY <2>2, <2>5, <3>2 DEF Evidence, SceneIdsAreFresh
    <3>3. CASE s \in Published /\ t \notin Published
      BY <1>3, <1>4, <1>6, <2>2, <2>3, <2>5, <3>3
    <3>4. CASE s \notin Published /\ t \in Published
      BY <1>3, <1>4, <1>6, <2>2, <2>3, <2>5, <3>4
    <3> QED BY <3>1, <3>2, <3>3, <3>4
  <2>6. \A i \in Ids : i >= nextId' => ~Sampling(i)
    BY <1>4, <1>5 DEF Evidence, SceneIdsAreFresh
  <2> QED BY <2>1, <2>4, <2>5, <2>6 DEF SceneIdsAreFresh
<1>9. /\ display' \in Seq(SceneEvents) /\ feedback' \in Seq(ResultCommands)
      /\ control' \in Seq(BarrierCommands)
  BY <1>1, LanesAreTyped DEF ClockRequest, SceneEvents
<1>10. UNCHANGED hostState
  BY <1>1 DEF hostState, barrierVars
<1>11. pause' \in PauseRecord /\ epoch' \in Nat
  BY <1>1, LanesAreTyped, ResetPauseIsPause
<1> QED BY <1>1, <1>5, <1>7, <1>8, <1>9, <1>10, <1>11, LaneStep

-----------------------------------------------------------------------------
(* The host.                                                               *)

LEMMA HostStepKeepsEvidence ==
  ASSUME Evidence, UNCHANGED <<guestVars, connections>>,
         displayed \subseteq displayed', displayed' \subseteq {id \in Ids : Sampling(id)},
         journal' \in [Ids -> {"none", "queued", "submitted"} \cup Terminal],
         \A id \in Ids : journal'[id] # "none" => Sampling(id),
         \A id \in Ids : journal'[id] = "shown" => id \in displayed',
         sceneRoot' \in [Ids -> Roots], refresh' \subseteq Roots,
         token' \in Nat, nextToken' \in Nat,
         display' \in Seq(SceneEvents), feedback' \in Seq(ResultCommands'),
         control' \in Seq(BarrierCommands)
  PROVE  Evidence'
<1> USE DEF guestVars
<1>1. GuestShape'
  BY DEF Evidence, GuestShape
<1>2. PendingIsNew' /\ PendingOnce' /\ SceneIdsAreFresh'
  BY SurfaceFrame DEF surfaceState
<1>3. QueriesFollowContent'
  BY DEF Evidence, QueriesFollowContent, BoundToContent, Shows, Target
<1>4. LedgerHoldsEvidence'
  BY DEF Evidence, LedgerHoldsEvidence
<1>5. PresentedWasDisplayed'
  BY DEF Evidence, PresentedWasDisplayed, WasDisplayed, Shows, Target
<1>6. LanesCarryEvidence'
  BY SceneEventsFrame DEF LanesCarryEvidence, BarrierCommands
<1>7. HostHoldsEvidence'
  BY DEF HostHoldsEvidence, Sampling, Terminal
<1> QED BY <1>1, <1>2, <1>3, <1>4, <1>5, <1>6, <1>7 DEF Evidence

LEMMA HostIsTyped ==
  ASSUME Evidence
  PROVE  /\ journal \in [Ids -> {"none", "queued", "submitted"} \cup Terminal]
         /\ sceneRoot \in [Ids -> Roots] /\ refresh \subseteq Roots
         /\ token \in Nat /\ nextToken \in Nat
         /\ displayed \subseteq {id \in Ids : Sampling(id)}
         /\ \A id \in Ids : journal[id] # "none" => Sampling(id)
         /\ \A id \in Ids : journal[id] = "shown" => id \in displayed
BY DEF Evidence, HostHoldsEvidence

\* Steps that end no record with a display.
LEMMA JournalStepKeepsEvidence ==
  ASSUME Evidence, UNCHANGED <<guestVars, connections, displayed>>,
         journal' \in [Ids -> {"none", "queued", "submitted"} \cup Terminal],
         \A id \in Ids : journal'[id] # "none" => Sampling(id),
         \A id \in Ids : journal'[id] = "shown" => journal[id] = "shown",
         sceneRoot' \in [Ids -> Roots], refresh' \subseteq Roots,
         token' \in Nat, nextToken' \in Nat,
         display' \in Seq(SceneEvents), feedback' \in Seq(ResultCommands),
         control' \in Seq(BarrierCommands)
  PROVE  Evidence'
BY HostIsTyped, ResultCommandsFrame, HostStepKeepsEvidence

\* Steps that leave the journal alone.
LEMMA BridgeStepKeepsEvidence ==
  ASSUME Evidence, UNCHANGED <<guestVars, connections, displayed, journal, sceneRoot>>,
         refresh' \subseteq Roots, token' \in Nat, nextToken' \in Nat,
         display' \in Seq(SceneEvents), feedback' \in Seq(ResultCommands),
         control' \in Seq(BarrierCommands)
  PROVE  Evidence'
BY HostIsTyped, JournalStepKeepsEvidence

LEMMA DiscardKeepsJournal ==
  ASSUME NEW records \in [Ids -> {"none", "queued", "submitted"} \cup Terminal], NEW ids
  PROVE  /\ Discard(records, ids) \in [Ids -> {"none", "queued", "submitted"} \cup Terminal]
         /\ \A id \in Ids : Discard(records, ids)[id] # "none" => records[id] # "none"
         /\ \A id \in Ids : Discard(records, ids)[id] = "shown" => records[id] = "shown"
BY DEF Discard, Terminal

LEMMA SendUnsentIsTyped ==
  ASSUME Evidence, SendUnsent
  PROVE  feedback' \in Seq(ResultCommands)
<1>1. Unsent \in SUBSET InState(Terminal)
  BY DEF Unsent
<1>2. Results(Unsent) \in Seq(ResultCommands)
  BY <1>1, ResultsAreCommands DEF Evidence
<1> QED BY <1>2, LanesAreTyped, WrittenIsSeq DEF SendUnsent

LEMMA FlushDeferredIsTyped ==
  ASSUME Evidence, NEW roots \in SUBSET Roots, NEW ids, FlushDeferred(roots, ids)
  PROVE  control' \in Seq(BarrierCommands) /\ refresh' \subseteq Roots
<1> DEFINE ask == {r \in roots \cap refresh : ~AwaitsAck(r, ids)}
<1>1. ask \in SUBSET Roots
  OBVIOUS
<1>2. control' = Written(control, Captures(ask)) /\ refresh' = refresh \ ask
  BY DEF FlushDeferred
<1> HIDE DEF ask
<1>3. Captures(ask) \in Seq(BarrierCommands)
  BY <1>1, CapturesAreCommands
<1> QED BY <1>2, <1>3, LanesAreTyped, HostIsTyped, WrittenIsSeq

LEMMA NewBarrierIsTyped ==
  ASSUME Evidence, NEW p, NEW type \in {"pause", "resume"}, NewBarrier(p, type) \/ NoBarrier(p)
  PROVE  token' \in Nat /\ nextToken' \in Nat /\ control' \in Seq(BarrierCommands)
<1>1. nextToken \in Nat /\ control \in Seq(BarrierCommands)
  BY HostIsTyped, LanesAreTyped
<1>2. <<[type |-> type, token |-> nextToken]>> \in Seq(BarrierCommands)
  BY <1>1 DEF BarrierCommands
<1>3. CASE NewBarrier(p, type)
  <2>1. Written(control, <<[type |-> type, token |-> nextToken]>>) \in Seq(BarrierCommands)
    BY <1>1, <1>2, WrittenIsSeq
  <2>2. token' \in Nat /\ nextToken' \in Nat
    BY <1>1, <1>3 DEF NewBarrier
  <2>3. control' = Written(control, <<[type |-> type, token |-> nextToken]>>)
    BY <1>3 DEF NewBarrier
  <2> QED BY <2>1, <2>2, <2>3
<1>4. CASE NoBarrier(p)
  BY <1>1, <1>4 DEF NoBarrier
<1> QED BY <1>3, <1>4

LEMMA HeardOnDisplay ==
  ASSUME Evidence, NEW type, Heard(display, type)
  PROVE  /\ Head(display) \in SceneEvents /\ Head(display).type = type
         /\ Tail(display) \in Seq(SceneEvents)
BY LanesAreTyped, HeardIsMember

LEMMA DiscardedRecordsKeepEvidence ==
  ASSUME Evidence, NEW ids, journal' = Discard(journal, ids)
  PROVE  /\ journal' \in [Ids -> {"none", "queued", "submitted"} \cup Terminal]
         /\ \A id \in Ids : journal'[id] # "none" => Sampling(id)
         /\ \A id \in Ids : journal'[id] = "shown" => journal[id] = "shown"
BY HostIsTyped, DiscardKeepsJournal

LEMMA RecordStepKeepsEvidence ==
  ASSUME Evidence, NEW id \in Ids,
         InHost(Submit(id) \/ DiscardQueued(id) \/ Drawable(id, "zero"))
  PROVE  Evidence'
<1>1. UNCHANGED <<guestVars, connections, displayed, display, feedback, control, sceneRoot,
                  refresh, token, nextToken>>
  BY DEF InHost, Submit, DiscardQueued, Drawable, laneVars, barrierVars
<1>2. CASE journal' = Discard(journal, {id})
  BY <1>1, <1>2, DiscardedRecordsKeepEvidence, HostIsTyped, LanesAreTyped, JournalStepKeepsEvidence
<1>3. CASE /\ journal[id] \in {"queued", "submitted"}
           /\ \E state \in {"submitted", "zero"} : journal' = [journal EXCEPT ![id] = state]
  BY <1>1, <1>3, HostIsTyped, LanesAreTyped, JournalStepKeepsEvidence DEF Terminal
<1> QED BY <1>2, <1>3 DEF InHost, Submit, DiscardQueued, Drawable

LEMMA DisplaysKeepsEvidence ==
  ASSUME Evidence, NEW id \in Ids, Displays(id), UNCHANGED guestVars
  PROVE  Evidence'
<1>1. /\ UNCHANGED <<guestVars, connections, display, feedback, control, sceneRoot,
                     refresh, token, nextToken>>
      /\ journal[id] = "submitted" /\ journal' = [journal EXCEPT ![id] = "shown"]
      /\ displayed' = displayed \cup {id}
  BY DEF Displays, Drawable, laneVars, barrierVars
<1>2. ResultCommands \subseteq ResultCommands'
  BY <1>1 DEF ResultCommands
<1>3. feedback' \in Seq(ResultCommands')
  <2>1. feedback \in Seq(ResultCommands)
    BY LanesAreTyped
  <2> QED BY <1>1, <1>2, <2>1, LargerLane
<1>4. /\ journal' \in [Ids -> {"none", "queued", "submitted"} \cup Terminal]
      /\ \A i \in Ids : journal'[i] # "none" => Sampling(i)
      /\ \A i \in Ids : journal'[i] = "shown" => i \in displayed'
      /\ displayed' \subseteq {i \in Ids : Sampling(i)}
  BY <1>1, HostIsTyped DEF Terminal
<1> QED BY <1>1, <1>3, <1>4, HostIsTyped, LanesAreTyped, HostStepKeepsEvidence

LEMMA FlushResultsKeepsEvidence ==
  ASSUME Evidence, InHost(FlushResults)
  PROVE  Evidence'
BY HostIsTyped, LanesAreTyped, SendUnsentIsTyped, BridgeStepKeepsEvidence
   DEF InHost, FlushResults, barrierVars

\* Taking one message out of a lane.
LEMMA RemoveAtIsSeq ==
  ASSUME NEW S, NEW lane \in Seq(S), NEW i \in DOMAIN lane
  PROVE  RemoveAt(lane, i) \in Seq(S)
<1>1. lane \in Seq(S) /\ i \in 1 .. Len(lane) /\ Len(lane) \in Nat
  OBVIOUS
<1>2. SubSeq(lane, 1, i - 1) \in Seq(S) /\ SubSeq(lane, i + 1, Len(lane)) \in Seq(S)
  BY <1>1
<1> QED BY <1>2 DEF RemoveAt

LEMMA AnswerClockKeepsEvidence ==
  ASSUME Evidence, InHost(AnswerClock)
  PROVE  Evidence'
<1>1. PICK i \in DOMAIN display :
        /\ display[i].type = "clock"
        /\ display' = RemoveAt(display, i)
        /\ feedback' = Written(feedback, <<[type |-> "sample", epoch |-> display[i].epoch]>>
                                            \o Results(Unsent))
  BY DEF InHost, AnswerClock
<1>2. display' \in Seq(SceneEvents)
  BY <1>1, LanesAreTyped, RemoveAtIsSeq
<1>3. display[i] \in SceneEvents
  BY LanesAreTyped
<1>4. display[i].epoch \in Nat
  BY <1>1, <1>3 DEF SceneEvents
<1>5. <<[type |-> "sample", epoch |-> display[i].epoch]>> \in Seq(ResultCommands)
  BY <1>4 DEF ResultCommands
<1>6. Unsent \in SUBSET InState(Terminal)
  BY DEF Unsent
<1>7. Results(Unsent) \in Seq(ResultCommands)
  BY <1>6, ResultsAreCommands DEF Evidence
<1>8. <<[type |-> "sample", epoch |-> display[i].epoch]>> \o Results(Unsent) \in Seq(ResultCommands)
  BY <1>5, <1>7
<1>9. feedback' \in Seq(ResultCommands)
  BY <1>1, <1>8, LanesAreTyped, WrittenIsSeq
<1> QED BY <1>2, <1>9, HostIsTyped, LanesAreTyped, BridgeStepKeepsEvidence
        DEF InHost, AnswerClock, barrierVars

LEMMA AskReplayKeepsEvidence ==
  ASSUME Evidence, NEW root \in Roots, InHost(AskReplay(root))
  PROVE  Evidence'
<1>1. Captures({root}) \in Seq(BarrierCommands)
  BY CapturesAreCommands
<1>2. control' \in Seq(BarrierCommands)
  BY <1>1, LanesAreTyped, WrittenIsSeq DEF InHost, AskReplay
<1>3. refresh' \subseteq Roots
  BY HostIsTyped DEF InHost, AskReplay
<1> QED BY <1>2, <1>3, HostIsTyped, LanesAreTyped, BridgeStepKeepsEvidence
        DEF InHost, AskReplay, barrierVars

LEMMA DisplayTickKeepsEvidence ==
  ASSUME Evidence, NEW root \in Roots, InHost(DisplayTick(root))
  PROVE  Evidence'
<1>1. PICK ids : FlushDeferred({root}, ids)
  BY DEF InHost, DisplayTick
<1>2. control' \in Seq(BarrierCommands) /\ refresh' \subseteq Roots
  BY <1>1, FlushDeferredIsTyped
<1> QED BY <1>2, HostIsTyped, LanesAreTyped, BridgeStepKeepsEvidence
        DEF InHost, DisplayTick, barrierVars

LEMMA ReceiveStartedKeepsEvidence ==
  ASSUME Evidence, InHost(ReceiveStarted)
  PROVE  Evidence'
BY HostIsTyped, LanesAreTyped, HeardOnDisplay, BridgeStepKeepsEvidence
   DEF InHost, ReceiveStarted

LEMMA ReceiveSceneKeepsEvidence ==
  ASSUME Evidence, InHost(ReceiveScene)
  PROVE  Evidence'
<1> DEFINE id == Head(display).id
           root == Head(display).root
           registered == IF journal[id] = "none" THEN [journal EXCEPT ![id] = "queued"]
                                                 ELSE journal
<1>1. /\ UNCHANGED <<guestVars, connections, displayed, control, refresh, token, nextToken>>
      /\ Heard(display, "scene") /\ display' = Tail(display) /\ SendUnsent
      /\ \E ids : journal' = Discard(registered, ids)
      /\ sceneRoot' = [sceneRoot EXCEPT ![id] = root]
  BY DEF InHost, ReceiveScene, barrierVars
<1>2. /\ Head(display) \in SceneEvents /\ Head(display).type = "scene"
      /\ display' \in Seq(SceneEvents)
  BY <1>1, HeardOnDisplay
<1>3. id \in Ids /\ Sampling(id) /\ root \in Roots
  BY <1>2 DEF SceneEvents
<1>4. PICK ids : journal' = Discard(registered, ids)
  BY <1>1
<1>5. /\ registered \in [Ids -> {"none", "queued", "submitted"} \cup Terminal]
      /\ \A i \in Ids : registered[i] # "none" => Sampling(i)
      /\ \A i \in Ids : registered[i] = "shown" => journal[i] = "shown"
  BY <1>3, HostIsTyped
<1>6. sceneRoot' \in [Ids -> Roots]
  BY <1>1, <1>3, HostIsTyped
<1> HIDE DEF registered, id, root
<1>7. /\ journal' \in [Ids -> {"none", "queued", "submitted"} \cup Terminal]
      /\ \A i \in Ids : journal'[i] # "none" => Sampling(i)
      /\ \A i \in Ids : journal'[i] = "shown" => journal[i] = "shown"
  BY <1>4, <1>5, DiscardKeepsJournal
<1> QED BY <1>1, <1>2, <1>6, <1>7, HostIsTyped, LanesAreTyped, SendUnsentIsTyped,
           JournalStepKeepsEvidence

LEMMA ReceiveAckKeepsEvidence ==
  ASSUME Evidence, InHost(ReceiveAck)
  PROVE  Evidence'
<1> DEFINE id == Head(display).id
<1>1. /\ UNCHANGED <<guestVars, connections, displayed, feedback, sceneRoot, token, nextToken>>
      /\ Heard(display, "ack") /\ display' = Tail(display)
      /\ \E gone : journal' = [i \in Ids |-> IF i \in gone THEN "none" ELSE journal[i]]
      /\ \/ UNCHANGED <<control, refresh>>
         \/ \E ids : FlushDeferred({sceneRoot[id]}, ids)
  BY DEF InHost, ReceiveAck, barrierVars
<1>2. /\ Head(display) \in SceneEvents /\ Head(display).type = "ack"
      /\ display' \in Seq(SceneEvents)
  BY <1>1, HeardOnDisplay
<1>3. id \in Ids
  BY <1>2 DEF SceneEvents
<1>4. {sceneRoot[id]} \in SUBSET Roots
  BY <1>3, HostIsTyped
<1> HIDE DEF id
<1>5. control' \in Seq(BarrierCommands) /\ refresh' \subseteq Roots
  BY <1>1, <1>4, HostIsTyped, LanesAreTyped, FlushDeferredIsTyped
<1>6. /\ journal' \in [Ids -> {"none", "queued", "submitted"} \cup Terminal]
      /\ \A i \in Ids : journal'[i] # "none" => Sampling(i)
      /\ \A i \in Ids : journal'[i] = "shown" => journal[i] = "shown"
  BY <1>1, HostIsTyped
<1> QED BY <1>1, <1>2, <1>5, <1>6, HostIsTyped, LanesAreTyped, JournalStepKeepsEvidence

LEMMA DrawingIsTyped ==
  ASSUME Evidence, Drawing
  PROVE  control' \in Seq(BarrierCommands) /\ refresh' \subseteq Roots
BY FlushDeferredIsTyped DEF Drawing

LEMMA ReceiveReplyKeepsEvidence ==
  ASSUME Evidence, InHost(ReceiveReply)
  PROVE  Evidence'
<1> DEFINE drain == [type |-> "drain", token |-> token]
<1>1. /\ UNCHANGED <<guestVars, connections, displayed, journal, sceneRoot, nextToken>>
      /\ \E type : Heard(display, type)
      /\ display' = Tail(display)
  BY DEF InHost, ReceiveReply
<1>2. \/ UNCHANGED <<control, feedback, refresh>> /\ (token' = 0 \/ UNCHANGED token)
      \/ /\ UNCHANGED <<control, refresh, token>>
         /\ feedback' = Written(feedback, Append(Results(InState(Terminal)), drain))
      \/ token' = 0 /\ Drawing /\ UNCHANGED feedback
  BY Zenon DEF InHost, ReceiveReply
<1>3. display' \in Seq(SceneEvents)
  BY <1>1, HeardOnDisplay
<1>4. drain \in ResultCommands
  BY HostIsTyped DEF ResultCommands
<1> HIDE DEF drain
<1>5. Append(Results(InState(Terminal)), drain) \in Seq(ResultCommands)
  <2>1. Results(InState(Terminal)) \in Seq(ResultCommands)
    BY ResultsAreCommands DEF Evidence
  <2> QED BY <1>4, <2>1
<1>6. Written(feedback, Append(Results(InState(Terminal)), drain)) \in Seq(ResultCommands)
  BY <1>5, LanesAreTyped, WrittenIsSeq
<1>7. /\ token' \in Nat
      /\ feedback' \in Seq(ResultCommands)
      /\ control' \in Seq(BarrierCommands) /\ refresh' \subseteq Roots
  BY <1>2, <1>6, HostIsTyped, LanesAreTyped, DrawingIsTyped
<1> QED BY <1>1, <1>3, <1>7, HostIsTyped, BridgeStepKeepsEvidence

LEMMA StartPauseKeepsEvidence ==
  ASSUME Evidence, InHost(StartPause)
  PROVE  Evidence'
<1>1. /\ UNCHANGED <<guestVars, connections, displayed, display, feedback, sceneRoot, refresh>>
      /\ \E ids : journal' = Discard(journal, ids)
      /\ NewBarrier("pausing", "pause") \/ NoBarrier("blindSettling")
  BY DEF InHost, StartPause
<1>2. token' \in Nat /\ nextToken' \in Nat /\ control' \in Seq(BarrierCommands)
  <2>1. CASE NewBarrier("pausing", "pause")
    BY <2>1, NewBarrierIsTyped
  <2>2. CASE NoBarrier("blindSettling")
    BY <2>2, HostIsTyped, LanesAreTyped DEF NoBarrier
  <2> QED BY <1>1, <2>1, <2>2
<1>3. PICK ids : journal' = Discard(journal, ids)
  BY <1>1
<1> QED BY <1>1, <1>2, <1>3, HostIsTyped, LanesAreTyped, DiscardedRecordsKeepEvidence,
           JournalStepKeepsEvidence

LEMMA SettleKeepsEvidence ==
  ASSUME Evidence, InHost(Settle)
  PROVE  Evidence'
<1>1. /\ UNCHANGED <<guestVars, connections, displayed, display, feedback, journal, sceneRoot,
                     refresh>>
      /\ NewBarrier("fencing", "pause") \/ NoBarrier("blindSealed")
  BY DEF InHost, Settle
<1>2. token' \in Nat /\ nextToken' \in Nat /\ control' \in Seq(BarrierCommands)
  <2>1. CASE NewBarrier("fencing", "pause")
    BY <2>1, NewBarrierIsTyped
  <2>2. CASE NoBarrier("blindSealed")
    BY <2>2, HostIsTyped, LanesAreTyped DEF NoBarrier
  <2> QED BY <1>1, <2>1, <2>2
<1> QED BY <1>1, <1>2, HostIsTyped, LanesAreTyped, BridgeStepKeepsEvidence

LEMMA ResumeKeepsEvidence ==
  ASSUME Evidence, InHost(PauseFails \/ StartResume \/ BlindResume \/ ResumeFails)
  PROVE  Evidence'
<1>1. CASE InHost(BeginResume)
  <2>1. /\ UNCHANGED <<guestVars, connections, displayed, display, feedback, journal, sceneRoot,
                       refresh>>
        /\ NewBarrier("resuming", "resume") \/ NoBarrier("blindResuming")
    BY <1>1 DEF InHost, BeginResume
  <2>2. token' \in Nat /\ nextToken' \in Nat /\ control' \in Seq(BarrierCommands)
    <3>1. CASE NewBarrier("resuming", "resume")
      BY <3>1, NewBarrierIsTyped
    <3>2. CASE NoBarrier("blindResuming")
      BY <3>2, HostIsTyped, LanesAreTyped DEF NoBarrier
    <3> QED BY <2>1, <3>1, <3>2
  <2> QED BY <2>1, <2>2, HostIsTyped, LanesAreTyped, BridgeStepKeepsEvidence
<1>2. CASE InHost(BlindResume)
  <2>1. /\ UNCHANGED <<guestVars, connections, displayed, display, feedback, journal, sceneRoot,
                       nextToken>>
        /\ token' = 0 /\ Drawing
    BY <1>2 DEF InHost, BlindResume
  <2> QED BY <2>1, HostIsTyped, LanesAreTyped, DrawingIsTyped, BridgeStepKeepsEvidence
<1>3. CASE InHost(ResumeFails)
  BY <1>3, HostIsTyped, LanesAreTyped, BridgeStepKeepsEvidence
     DEF InHost, ResumeFails, laneVars
<1> QED BY <1>1, <1>2, <1>3 DEF InHost, PauseFails, StartResume

LEMMA HostDetachKeepsEvidence ==
  ASSUME Evidence, InHost(HostDetach)
  PROVE  Evidence'
<1>1. /\ UNCHANGED <<guestVars, connections, displayed, display, feedback, control, sceneRoot,
                     nextToken>>
      /\ journal' = Discard(journal, Ids) /\ token' = 0 /\ refresh' = {}
  BY DEF InHost, HostDetach, laneVars
<1> QED BY <1>1, HostIsTyped, LanesAreTyped, DiscardedRecordsKeepEvidence,
           JournalStepKeepsEvidence

-----------------------------------------------------------------------------
(* The evidence is an inductive invariant.                                 *)

LEMMA InitHasEvidence ==
  Init => Evidence
<1> SUFFICES ASSUME Init PROVE Evidence
  OBVIOUS
<1> USE LaneAssumption DEF Init, LanesInit, GuestInit, HostInit
<1>1. \A id \in Ids : ~Sampling(id)
  BY DEF Sampling, NoPacket
<1>2. /\ query \in [Queries -> QueryRecord]
      /\ \A q \in Queries : query[q].at = "unused" /\ ~query[q].bound
  <2> DEFINE Unused == {[at |-> "unused", surface |-> s, commit |-> 0, bound |-> FALSE,
                         retired |-> FALSE, scene |-> 0] : s \in Surfaces}
  <2>1. ASSUME NEW record \in Unused
        PROVE  record \in QueryRecord /\ record.at = "unused" /\ ~record.bound
    <3>1. PICK s \in Surfaces :
            record = [at |-> "unused", surface |-> s, commit |-> 0, bound |-> FALSE,
                      retired |-> FALSE, scene |-> 0]
      OBVIOUS
    <3>2. record \in QueryRecord
      BY <3>1 DEF QueryRecord
    <3>3. record.at = "unused"
      BY <3>1
    <3>4. ~record.bound
      BY <3>1
    <3> QED BY <3>2, <3>3, <3>4
  <2>2. query \in [Queries -> Unused]
    OBVIOUS
  <2> HIDE DEF Unused
  <2> QED BY <2>1, <2>2
<1>3. GuestShape
  <2>1. query \in [Queries -> QueryRecord]
    BY <1>2
  <2>2. ledger \in [Ids -> RecordStates]
    BY DEF RecordStates
  <2>3. packet \in [Ids -> [layers : SUBSET (Surfaces \X Nat), epoch : Nat]]
    BY DEF NoPacket
  <2>4. pause \in PauseRecord
    BY DEF PauseRecord
  <2> QED BY <2>1, <2>2, <2>3, <2>4 DEF GuestShape
<1>4. PendingIsNew
  <2>1. Pending = {}
    BY DEF Pending
  <2> QED BY <2>1 DEF PendingIsNew
<1>5. PendingOnce
  BY DEF PendingOnce
<1>6. SceneIdsAreFresh
  BY <1>1 DEF SceneIdsAreFresh
<1>7. QueriesFollowContent
  BY <1>2 DEF QueriesFollowContent
<1>8. LedgerHoldsEvidence
  BY DEF LedgerHoldsEvidence
<1>9. PresentedWasDisplayed
  BY <1>2 DEF PresentedWasDisplayed
<1>10. LanesCarryEvidence
  BY DEF LanesCarryEvidence
<1>11. HostHoldsEvidence
  <2>1. (CHOOSE r \in Roots : TRUE) \in Roots
    BY DEF Roots, Surfaces
  <2> QED BY <1>1, <2>1 DEF HostHoldsEvidence, Terminal
<1> QED BY <1>3, <1>4, <1>5, <1>6, <1>7, <1>8, <1>9, <1>10, <1>11 DEF Evidence

LEMMA NextKeepsEvidence ==
  Evidence /\ [Next]_vars => Evidence'
<1> SUFFICES ASSUME Evidence, [Next]_vars PROVE Evidence'
  OBVIOUS
<1>1. CASE InGuest(ClientStep)
  <2>1. \/ \E q \in Queries : InGuest(RequestFeedback(q))
        \/ \E s \in Surfaces, kind \in Kinds : InGuest(Commit(s, kind))
        \/ \E s \in Mortal : InGuest(DestroySurface(s))
    BY <1>1 DEF InGuest, ClientStep
  <2> QED BY <2>1, RequestFeedbackKeepsEvidence, CommitKeepsEvidence, DestroySurfaceKeepsEvidence
<1>2. CASE InGuest(CompositorStep)
  <2>1. \/ InGuest(ApplyUpdate)
        \/ \E root \in Roots : InGuest(ApplyUnblocked(root)) \/ InGuest(Flush(root))
        \/ InGuest(ReceiveCapture) \/ InGuest(ReceiveResult)
        \/ InGuest(ReceivePause) \/ InGuest(ReceiveDrain) \/ InGuest(ReceiveResume)
        \/ \E expired \in SUBSET Outstanding, late, ask \in BOOLEAN :
             InGuest(Tick(expired, late, ask))
        \/ InGuest(SampleRejected \/ SampleFaults) \/ InGuest(SampleAccepted)
        \/ \E id \in Ids : InGuest(SceneSample(id))
        \/ InGuest(GuestDetach)
    BY <1>2 DEF InGuest, CompositorStep
  <2>2. CASE \E root \in Roots : InGuest(ApplyUnblocked(root)) \/ InGuest(Flush(root))
    BY <2>2, ApplyUnblockedKeepsEvidence, FlushKeepsEvidence
  <2>3. CASE \E expired \in SUBSET Outstanding, late, ask \in BOOLEAN :
               InGuest(Tick(expired, late, ask))
    BY <2>3, TickKeepsEvidence
  <2>4. CASE \/ InGuest(SampleRejected \/ SampleFaults) \/ InGuest(SampleAccepted)
             \/ \E id \in Ids : InGuest(SceneSample(id))
    BY <2>4, SampleKeepsEvidence, SampleAcceptedKeepsEvidence, SceneSampleKeepsEvidence
  <2>5. CASE InGuest(ReceivePause) \/ InGuest(ReceiveDrain) \/ InGuest(ReceiveResume)
    BY <2>5, ReceivePauseKeepsEvidence, ReceiveDrainKeepsEvidence, ReceiveResumeKeepsEvidence
  <2> QED BY <2>1, <2>2, <2>3, <2>4, <2>5, ApplyUpdateKeepsEvidence,
             ReceiveCaptureKeepsEvidence, ReceiveResultKeepsEvidence, GuestDetachKeepsEvidence
<1>3. CASE InHost(HostStep)
  <2>1. \/ \E id \in Ids : InHost(Submit(id) \/ DiscardQueued(id) \/ Drawable(id, "zero"))
        \/ InHost(FlushResults) \/ InHost(AnswerClock)
        \/ \E root \in Recaptured : InHost(AskReplay(root))
        \/ \E root \in Roots : InHost(DisplayTick(root))
        \/ InHost(ReceiveStarted) \/ InHost(ReceiveScene)
        \/ InHost(ReceiveAck) \/ InHost(ReceiveReply)
        \/ InHost(StartPause) \/ InHost(Settle)
        \/ InHost(PauseFails \/ StartResume \/ BlindResume \/ ResumeFails)
        \/ InHost(HostDetach)
    BY <1>3 DEF InHost, HostStep
  <2>2. Recaptured \subseteq Roots
    BY LaneAssumption DEF Roots
  <2>3. CASE \/ \E root \in Recaptured : InHost(AskReplay(root))
             \/ \E root \in Roots : InHost(DisplayTick(root))
    BY <2>2, <2>3, AskReplayKeepsEvidence, DisplayTickKeepsEvidence
  <2>4. CASE \/ InHost(ReceiveStarted) \/ InHost(ReceiveScene)
             \/ InHost(ReceiveAck) \/ InHost(ReceiveReply)
    BY <2>4, ReceiveStartedKeepsEvidence, ReceiveSceneKeepsEvidence,
       ReceiveAckKeepsEvidence, ReceiveReplyKeepsEvidence
  <2>5. CASE \/ InHost(StartPause) \/ InHost(Settle)
             \/ InHost(PauseFails \/ StartResume \/ BlindResume \/ ResumeFails)
             \/ InHost(HostDetach)
    BY <2>5, StartPauseKeepsEvidence, SettleKeepsEvidence, ResumeKeepsEvidence,
       HostDetachKeepsEvidence
  <2> QED BY <2>1, <2>3, <2>4, <2>5, RecordStepKeepsEvidence, FlushResultsKeepsEvidence,
             AnswerClockKeepsEvidence
<1>4. CASE \E id \in Ids : Displays(id) /\ UNCHANGED guestVars
  BY <1>4, DisplaysKeepsEvidence
<1>5. CASE Drop /\ UNCHANGED <<guestVars, hostVars, displayed>>
  BY <1>5, DropKeepsEvidence
<1>6. CASE Connect
  BY <1>6, ConnectKeepsEvidence
<1>7. CASE UNCHANGED vars
  BY <1>7, HostIsTyped, LanesAreTyped, BridgeStepKeepsEvidence
     DEF vars, laneVars, hostVars
<1> QED BY <1>1, <1>2, <1>3, <1>4, <1>5, <1>6, <1>7 DEF Next

(***************************************************************************)
(* In every run of guest, host and connection, for any number of surfaces, *)
(* queries, ids, connections and barriers: each record, lane and query     *)
(* holds the evidence for what it says, and no scene id is used twice.     *)
(***************************************************************************)
THEOREM EvidenceIsInvariant == Spec => []Evidence
BY InitHasEvidence, NextKeepsEvidence, PTL DEF Spec

(***************************************************************************)
(* No client is ever told that its commit was presented unless a drawable  *)
(* that sampled exactly this commit of its surface appeared.               *)
(***************************************************************************)
THEOREM PresentedIsTrue == Spec => []PresentedWasDisplayed
<1>1. Evidence => PresentedWasDisplayed
  BY DEF Evidence
<1> QED BY <1>1, EvidenceIsInvariant, PTL

(***************************************************************************)
(* Type correctness and the drain.  Evidence gives the types of records,   *)
(* lanes and scenes; what is left is the control state.  That a drain      *)
(* request is never forgotten is inductive by itself; only those types are *)
(* needed.                                                                 *)
(***************************************************************************)

GuestControl ==
  /\ ready \in BOOLEAN
  /\ flushing \in {0} \cup Roots
  /\ ceiling \subseteq Ids
  /\ clock \in ClockRecord
HostControl ==
  /\ attached \in BOOLEAN /\ session \in BOOLEAN
  /\ sent \subseteq Ids
  /\ gated \in BOOLEAN
  /\ phase \in Phases
  /\ stale \in BOOLEAN
  /\ pauses \in 0 .. Pauses
ControlTypeOK == up \in BOOLEAN /\ GuestControl /\ HostControl

LEMMA SameGuestControl ==
  ASSUME GuestControl, UNCHANGED <<ready, flushing, ceiling, clock>>
  PROVE  GuestControl'
BY DEF GuestControl

LEMMA SameHostControl ==
  ASSUME HostControl, UNCHANGED hostVars
  PROVE  HostControl'
BY DEF HostControl, hostVars

LEMMA FlushShownKeepsCeiling ==
  ASSUME NEW ids, NEW limited \in SUBSET Ids, FlushShown(ids, limited)
  PROVE  ceiling' \subseteq Ids
BY DEF FlushShown

LEMMA RecordsAreIds == Outstanding \in SUBSET Ids
BY DEF Outstanding

\* The clock's verdicts: each step leaves a clock record.
LEMMA ClockIsTyped ==
  ASSUME clock \in ClockRecord, NEW faulted \in BOOLEAN, NEW reconnecting \in BOOLEAN,
         NEW asked \in BOOLEAN
  PROVE  /\ [clock EXCEPT !.asked = asked] \in ClockRecord
         /\ [clock EXCEPT !.valid = FALSE, !.faulted = TRUE, !.asked = asked] \in ClockRecord
         /\ [clock EXCEPT !.faulted = faulted, !.reconnecting = reconnecting, !.asked = asked]
              \in ClockRecord
         /\ clock.faulted \in BOOLEAN /\ clock.reconnecting \in BOOLEAN /\ clock.asked \in BOOLEAN
         /\ clock.old \in BOOLEAN /\ clock.valid \in BOOLEAN /\ clock.unverified \in BOOLEAN
BY DEF ClockRecord

LEMMA ClockFaultIsTyped ==
  ASSUME GuestControl, NEW asked \in BOOLEAN, ClockFault(asked)
  PROVE  clock' \in ClockRecord /\ ceiling' \subseteq Ids
BY ClockIsTyped, RecordsAreIds, FlushShownKeepsCeiling DEF ClockFault, GuestControl

LEMMA ClientStepKeepsControl ==
  ASSUME GuestControl, ClientStep
  PROVE  GuestControl'
<1>1. UNCHANGED <<ready, flushing, ceiling>>
  BY DEF ClientStep, RequestFeedback, Commit, DestroySurface, surfaceVars
<1>2. UNCHANGED clock \/ clock' = [clock EXCEPT !.asked = TRUE]
  BY DEF ClientStep, RequestFeedback, Commit, DestroySurface
<1> QED BY <1>1, <1>2, ClockIsTyped DEF GuestControl

LEMMA SurfaceStepKeepsControl ==
  ASSUME Evidence, GuestControl,
         ApplyUpdate \/ (\E root \in Roots : ApplyUnblocked(root) \/ Flush(root)) \/ ReceiveCapture
  PROVE  GuestControl'
<1>1. UNCHANGED <<ready, ceiling, clock>>
  BY DEF ApplyUpdate, ApplyUnblocked, Flush, ReceiveCapture, ledgerVars
<1>2. CASE ApplyUpdate \/ \E root \in Roots : ApplyUnblocked(root)
  <2>1. UNCHANGED flushing
    BY <1>2 DEF ApplyUpdate, ApplyUnblocked
  <2> QED BY <1>1, <2>1 DEF GuestControl
<1>3. CASE \E root \in Roots : Flush(root)
  <2>1. flushing' = 0
    BY <1>3 DEF Flush
  <2> QED BY <1>1, <2>1 DEF GuestControl
<1>4. CASE ReceiveCapture
  <2>1. Head(control) \in BarrierCommands /\ Head(control).type = "capture"
    BY <1>4, LanesAreTyped, HeardIsMember DEF ReceiveCapture
  <2>2. Head(control).root \in Roots
    BY <2>1 DEF BarrierCommands
  <2>3. flushing' \in {flushing, Head(control).root}
    BY <1>4 DEF ReceiveCapture
  <2> QED BY <1>1, <2>2, <2>3 DEF GuestControl
<1> QED BY <1>2, <1>3, <1>4

LEMMA ReceiveResultKeepsControl ==
  ASSUME GuestControl, ReceiveResult
  PROVE  GuestControl'
<1> DEFINE id == Head(feedback).id
<1>1. UNCHANGED <<ready, flushing, clock>>
  BY DEF ReceiveResult, surfaceVars
<1>2. UNCHANGED ceiling \/ ceiling' = ceiling \ {id} \/ FlushShown({id}, ceiling)
  <2>1. CASE ~InLedger(id)
    BY <2>1 DEF ReceiveResult
  <2>2. CASE InLedger(id)
    <3> DEFINE value == IF ledger[id] = "open" THEN Head(feedback).type ELSE "shown"
    <3>1. value \in {"zero", "shown"}
      BY DEF ReceiveResult, Heard
    <3>2. CASE value = "zero"
      BY <2>2, <3>2 DEF ReceiveResult
    <3>3. CASE value = "shown"
      BY <2>2, <3>3 DEF ReceiveResult
    <3> QED BY <3>1, <3>2, <3>3
  <2> QED BY <2>1, <2>2
<1>3. ceiling' \subseteq Ids
  BY <1>2, FlushShownKeepsCeiling DEF GuestControl
<1> QED BY <1>1, <1>3 DEF GuestControl

LEMMA TickKeepsControl ==
  ASSUME GuestControl, NEW expired, NEW late \in BOOLEAN, NEW ask \in BOOLEAN,
         Tick(expired, late, ask)
  PROVE  GuestControl'
<1>1. PICK done : ceiling' = ceiling \ (done \cup expired)
  BY DEF Tick
<1>2. PICK open \in BOOLEAN :
        clock' = [clock EXCEPT !.faulted = @ \/ late, !.reconnecting = @ /\ ~open,
                               !.asked = @ \/ ask]
  <2> DEFINE open == late /\ clock.reconnecting /\ pause.resumeToken = 0
  <2>1. open \in BOOLEAN
    OBVIOUS
  <2>2. clock' = [clock EXCEPT !.faulted = @ \/ late, !.reconnecting = @ /\ ~open,
                               !.asked = @ \/ ask]
    BY DEF Tick
  <2> QED BY <2>1, <2>2
<1>3. clock' \in ClockRecord
  <2>1. /\ clock.faulted \in BOOLEAN /\ clock.reconnecting \in BOOLEAN /\ clock.asked \in BOOLEAN
    BY ClockIsTyped DEF GuestControl
  <2>2. /\ (clock.faulted \/ late) \in BOOLEAN /\ (clock.reconnecting /\ ~open) \in BOOLEAN
        /\ (clock.asked \/ ask) \in BOOLEAN
    OBVIOUS
  <2>3. clock' = [clock EXCEPT !.faulted = clock.faulted \/ late,
                               !.reconnecting = clock.reconnecting /\ ~open,
                               !.asked = clock.asked \/ ask]
    BY <1>2
  <2> QED BY <2>2, <2>3, ClockIsTyped DEF GuestControl
<1>4. UNCHANGED <<ready, flushing>>
  BY DEF Tick, surfaceVars
<1> QED BY <1>1, <1>3, <1>4 DEF GuestControl

LEMMA SampleKeepsControl ==
  ASSUME GuestControl, SampleRejected \/ SampleFaults \/ SampleAccepted
  PROVE  GuestControl'
<1>1. UNCHANGED <<ready, flushing>>
  BY DEF SampleRejected, SampleFaults, SampleAccepted, surfaceVars
<1>2. CASE SampleRejected
  <2>1. (clock.asked /\ ~Current) \in BOOLEAN
    OBVIOUS
  <2>2. clock' = [clock EXCEPT !.asked = clock.asked /\ ~Current] /\ UNCHANGED ceiling
    BY <1>2 DEF SampleRejected, ledgerVars
  <2> QED BY <1>1, <2>1, <2>2, ClockIsTyped DEF GuestControl
<1>3. CASE SampleFaults
  BY <1>1, <1>3, ClockFaultIsTyped DEF SampleFaults, GuestControl
<1>4. CASE SampleAccepted
  <2>1. PICK limited \in {ceiling, Outstanding} : \E done : ceiling' = limited \ done
    BY <1>4 DEF SampleAccepted
  <2>2. clock' \in ClockRecord
    BY <1>4 DEF SampleAccepted, Calibrated, ClockRecord
  <2> QED BY <1>1, <2>1, <2>2, RecordsAreIds DEF GuestControl
<1> QED BY <1>2, <1>3, <1>4

LEMMA SceneSampleKeepsControl ==
  ASSUME GuestControl, NEW id \in Ids, SceneSample(id)
  PROVE  GuestControl'
<1>1. UNCHANGED <<ready, flushing>> /\ clock.asked \in BOOLEAN
  BY ClockIsTyped DEF SceneSample, surfaceVars, GuestControl
<1>2. CASE ClockFault(clock.asked)
  BY <1>1, <1>2, ClockFaultIsTyped DEF GuestControl
<1>3. CASE FlushShown({id}, ceiling) /\ UNCHANGED clock
  BY <1>1, <1>3, FlushShownKeepsCeiling DEF GuestControl
<1> QED BY <1>2, <1>3 DEF SceneSample

LEMMA BarrierKeepsControl ==
  ASSUME GuestControl,
         ReceivePause \/ ReceiveDrain \/ ReceiveResume \/ GuestDetach \/ GuestAttach
  PROVE  GuestControl'
<1>1. UNCHANGED <<flushing, ceiling>> /\ ready' \in BOOLEAN
  BY DEF ReceivePause, ReceiveDrain, ReceiveResume, GuestDetach, GuestAttach, surfaceVars,
         ledgerVars, GuestControl
<1>2. clock.valid \in BOOLEAN /\ clock.unverified \in BOOLEAN /\ clock.old \in BOOLEAN
      /\ clock.reconnecting \in BOOLEAN
  BY ClockIsTyped DEF GuestControl
<1>3. ResetClock \in ClockRecord /\ [ResetClock EXCEPT !.asked = TRUE] \in ClockRecord
  BY <1>2 DEF ResetClock, ClockRecord
<1>4. [valid |-> FALSE, faulted |-> FALSE, unverified |-> clock.unverified \/ Outstanding # {},
       old |-> clock.old \/ clock.valid, reconnecting |-> clock.reconnecting, asked |-> TRUE]
        \in ClockRecord
  BY <1>2 DEF ClockRecord
<1>5. clock' \in ClockRecord
  <2>1. CASE ReceivePause \/ ReceiveDrain
    BY <2>1 DEF ReceivePause, ReceiveDrain, GuestControl
  <2>2. CASE ReceiveResume
    <3>1. \/ UNCHANGED clock
          \/ clock' = [valid |-> FALSE, faulted |-> FALSE,
                       unverified |-> clock.unverified \/ Outstanding # {},
                       old |-> clock.old \/ clock.valid,
                       reconnecting |-> clock.reconnecting, asked |-> TRUE]
      BY <2>2 DEF ReceiveResume
    <3> QED BY <1>4, <3>1 DEF GuestControl
  <2>3. CASE GuestDetach \/ GuestAttach
    BY <1>3, <2>3 DEF GuestDetach, GuestAttach
  <2> QED BY <2>1, <2>2, <2>3
<1> QED BY <1>1, <1>5 DEF GuestControl

LEMMA CompositorStepKeepsControl ==
  ASSUME Evidence, GuestControl, CompositorStep
  PROVE  GuestControl'
BY SurfaceStepKeepsControl, ReceiveResultKeepsControl, TickKeepsControl, SampleKeepsControl,
   SceneSampleKeepsControl, BarrierKeepsControl DEF CompositorStep

LEMMA RecordStepsKeepControl ==
  ASSUME HostControl,
         \/ \E id \in Ids, result \in Terminal :
              Submit(id) \/ DiscardQueued(id) \/ Drawable(id, result)
         \/ FlushResults \/ AnswerClock
         \/ \E root \in Roots : AskReplay(root) \/ DisplayTick(root)
  PROVE  HostControl'
<1>1. UNCHANGED <<attached, gated, phase, stale, pauses>>
  BY DEF Submit, DiscardQueued, Drawable, FlushResults, AnswerClock, AskReplay, DisplayTick,
         barrierVars
<1>2. session' \in BOOLEAN /\ sent' \subseteq Ids
  BY DEF Submit, DiscardQueued, Drawable, FlushResults, AnswerClock, AskReplay, DisplayTick,
         SendUnsent, Unsent, InState, HostControl
<1> QED BY <1>1, <1>2 DEF HostControl

LEMMA ReceiveStepsKeepControl ==
  ASSUME HostControl, ReceiveStarted \/ ReceiveScene \/ ReceiveAck \/ ReceiveReply
  PROVE  HostControl'
<1>1. CASE ReceiveStarted \/ ReceiveScene \/ ReceiveAck
  BY <1>1 DEF ReceiveStarted, ReceiveScene, ReceiveAck, SendUnsent, Unsent, InState,
              barrierVars, HostControl
<1>2. CASE ReceiveReply
  <2>1. UNCHANGED <<attached, session, stale, pauses>>
    BY <1>2 DEF ReceiveReply
  <2>2. sent' \in {sent, sent \cup InState(Terminal)}
    BY <1>2, Zenon DEF ReceiveReply
  <2>3. /\ phase' \in {phase, "settling", "draining", "sealed", "open"}
        /\ gated' \in {gated, FALSE}
    BY <1>2, Zenon DEF ReceiveReply, Drawing
  <2> QED BY <2>1, <2>2, <2>3 DEF HostControl, Phases, InState
<1> QED BY <1>1, <1>2

LEMMA BarrierStepsKeepControl ==
  ASSUME HostControl, \/ StartPause \/ Settle \/ PauseFails \/ StartResume
                      \/ BlindResume \/ ResumeFails \/ HostDetach
  PROVE  HostControl'
<1>1. phase' \in Phases
  BY DEF StartPause, Settle, PauseFails, StartResume, BlindResume, ResumeFails, HostDetach,
         BeginResume, NewBarrier, NoBarrier, Phases, HostControl
<1>2. attached' \in BOOLEAN /\ session' \in BOOLEAN /\ sent' \subseteq Ids
  BY DEF StartPause, Settle, PauseFails, StartResume, BlindResume, ResumeFails, HostDetach,
         BeginResume, HostControl
<1>3. gated' \in BOOLEAN /\ stale' \in BOOLEAN
  BY DEF StartPause, Settle, PauseFails, StartResume, BlindResume, ResumeFails, HostDetach,
         BeginResume, Drawing, HostControl
<1>4. pauses' \in 0 .. Pauses
  BY PauseAssumption
     DEF StartPause, Settle, PauseFails, StartResume, BlindResume, ResumeFails, HostDetach,
         BeginResume, HostControl
<1> QED BY <1>1, <1>2, <1>3, <1>4 DEF HostControl

LEMMA HostStepKeepsControl ==
  ASSUME HostControl, HostStep
  PROVE  HostControl'
<1>1. Recaptured \subseteq Roots
  BY LaneAssumption DEF Roots
<1>2. CASE \/ \E id \in Ids : Submit(id) \/ DiscardQueued(id) \/ Drawable(id, "zero")
           \/ FlushResults \/ AnswerClock
           \/ \E root \in Recaptured : AskReplay(root)
           \/ \E root \in Roots : DisplayTick(root)
  <2>1. "zero" \in Terminal
    BY DEF Terminal
  <2> QED BY <1>1, <1>2, <2>1, RecordStepsKeepControl
<1> QED BY <1>2, ReceiveStepsKeepControl, BarrierStepsKeepControl DEF HostStep

LEMMA UpIsTyped ==
  ASSUME up \in BOOLEAN, [Next]_vars
  PROVE  up' \in BOOLEAN
<1>1. CASE ClientStep
  BY <1>1 DEF ClientStep, RequestFeedback, Commit, DestroySurface, laneVars
<1>2. CASE CompositorStep
  BY <1>2 DEF CompositorStep, ApplyUpdate, ApplyUnblocked, Flush, ReceiveCapture, ReceiveResult,
     ReceivePause, ReceiveDrain, ReceiveResume, Tick, SampleRejected, SampleFaults,
     SampleAccepted, SceneSample, GuestDetach, laneVars
<1>3. CASE HostStep
  BY <1>3 DEF HostStep, Submit, DiscardQueued, Drawable, FlushResults, AnswerClock, AskReplay,
     DisplayTick, ReceiveStarted, ReceiveScene, ReceiveAck, ReceiveReply, StartPause, Settle,
     PauseFails, StartResume, BeginResume, BlindResume, ResumeFails, HostDetach, laneVars
<1>4. CASE (\E id \in Ids : Displays(id)) \/ Drop \/ Connect \/ UNCHANGED vars
  BY <1>4 DEF Displays, Drawable, Drop, Connect, vars, laneVars
<1> QED BY <1>1, <1>2, <1>3, <1>4 DEF Next, InGuest, InHost

LEMMA NextKeepsControl ==
  Evidence /\ ControlTypeOK /\ [Next]_vars => ControlTypeOK'
<1> SUFFICES ASSUME Evidence, ControlTypeOK, [Next]_vars
             PROVE  ControlTypeOK'
  OBVIOUS
<1>1. GuestControl /\ HostControl /\ up' \in BOOLEAN
  BY UpIsTyped DEF ControlTypeOK
<1>2. CASE InGuest(ClientStep) \/ InGuest(CompositorStep)
  BY <1>1, <1>2, ClientStepKeepsControl, CompositorStepKeepsControl, SameHostControl
     DEF InGuest, ControlTypeOK
<1>3. CASE InHost(HostStep)
  BY <1>1, <1>3, HostStepKeepsControl, SameGuestControl DEF InHost, guestVars, ControlTypeOK
<1>4. CASE \E id \in Ids : Displays(id) /\ UNCHANGED guestVars
  <2>1. "shown" \in Terminal
    BY DEF Terminal
  <2> QED BY <1>1, <1>4, <2>1, RecordStepsKeepControl, SameGuestControl
          DEF Displays, guestVars, ControlTypeOK
<1>5. CASE (Drop /\ UNCHANGED <<guestVars, hostVars, displayed>>) \/ UNCHANGED vars
  BY <1>1, <1>5, SameGuestControl, SameHostControl DEF vars, guestVars, ControlTypeOK
<1>6. CASE Connect
  <2>1. GuestControl'
    BY <1>1, <1>6, BarrierKeepsControl DEF Connect
  <2>2. HostControl'
    BY <1>1, <1>6 DEF Connect, HostControl, barrierVars
  <2> QED BY <1>1, <2>1, <2>2 DEF ControlTypeOK
<1> QED BY <1>2, <1>3, <1>4, <1>5, <1>6 DEF Next

\* What the evidence says of lanes, records and the host is their type.
LEMMA EvidenceIsTyped ==
  Evidence /\ ControlTypeOK => TypeOK
<1> SUFFICES ASSUME Evidence, ControlTypeOK PROVE TypeOK
  OBVIOUS
<1>1. displayed \subseteq Ids
  BY HostIsTyped
<1>2. SceneEvents \subseteq DisplayMessage
  BY DEF SceneEvents, DisplayMessage
<1>3. ResultCommands \subseteq FeedbackMessage
  BY <1>1 DEF ResultCommands, FeedbackMessage
<1>4. BarrierCommands \subseteq ControlMessage
  BY DEF BarrierCommands, ControlMessage
<1>5. display \in Seq(DisplayMessage)
  BY <1>2, LanesAreTyped, LargerLane
<1>6. feedback \in Seq(FeedbackMessage)
  BY <1>3, LanesAreTyped, LargerLane
<1>7. control \in Seq(ControlMessage)
  BY <1>4, LanesAreTyped, LargerLane
<1>8. LanesTypeOK
  BY <1>5, <1>6, <1>7 DEF LanesTypeOK, Evidence, GuestShape, ControlTypeOK
<1>9. GuestTypeOK
  BY DEF GuestTypeOK, Evidence, GuestShape, PendingIsNew, ControlTypeOK, GuestControl
<1>10. HostTypeOK
  BY HostIsTyped DEF HostTypeOK, ControlTypeOK, HostControl
<1> QED BY <1>1, <1>8, <1>9, <1>10 DEF TypeOK

(***************************************************************************)
(* Guest, host and lanes keep to their types: every message that is ever   *)
(* in a lane is one that its reader knows, and every record, clock and     *)
(* barrier state is well formed.                                           *)
(***************************************************************************)
THEOREM TypeIsInvariant == Spec => []TypeOK
<1>1. Init => ControlTypeOK
  <2> SUFFICES ASSUME Init PROVE ControlTypeOK
    OBVIOUS
  <2>1. /\ up = FALSE /\ ready = FALSE /\ flushing = 0 /\ ceiling = {}
        /\ clock = [valid |-> FALSE, faulted |-> FALSE, unverified |-> FALSE,
                    old |-> FALSE, reconnecting |-> FALSE, asked |-> FALSE]
    BY Zenon DEF Init, LanesInit, GuestInit
  <2>2. GuestControl
    BY <2>1 DEF GuestControl, ClockRecord
  <2>3. HostControl
    <3>1. /\ attached = FALSE /\ session = FALSE /\ sent = {} /\ gated = FALSE
          /\ phase = "open" /\ stale = FALSE /\ pauses = 0
      BY Zenon DEF Init, HostInit
    <3>2. 0 \in 0 .. Pauses
      BY PauseAssumption
    <3> QED BY <3>1, <3>2 DEF HostControl, Phases
  <2> QED BY <2>1, <2>2, <2>3 DEF ControlTypeOK
<1>2. Spec => [](Evidence /\ ControlTypeOK)
  BY <1>1, InitHasEvidence, NextKeepsEvidence, NextKeepsControl, PTL DEF Spec
<1> QED BY <1>2, EvidenceIsTyped, PTL

---------------------------------------------------------------------------
\* A drain request is never forgotten.

\* Records may be added, and none leaves, while the drain waits.
LEMMA RecordsStay ==
  ASSUME DrainNotForgotten, pause'.drainToken = pause.drainToken, Outstanding \subseteq Outstanding'
  PROVE  DrainNotForgotten'
BY DEF DrainNotForgotten

LEMMA SameRecords ==
  ASSUME DrainNotForgotten, UNCHANGED <<pause, ledger>>
  PROVE  DrainNotForgotten'
BY DEF DrainNotForgotten, Outstanding, InLedger

\* Records leave, and the drain is looked at behind them.
LEMMA DrainLooksBehind ==
  ASSUME Evidence, DrainNotForgotten, NEW left, Outstanding' = left,
         pause'.drainToken = AfterDrain(left).drainToken
  PROVE  DrainNotForgotten'
BY LanesAreTyped DEF DrainNotForgotten, AfterDrain, DrainDone, PauseRecord

LEMMA AcknowledgeAnswersDrain ==
  ASSUME Evidence, DrainNotForgotten, NEW ids \in SUBSET Ids, Acknowledge(ids)
  PROVE  DrainNotForgotten'
<1>1. Outstanding' = Outstanding \ ids
  BY DEF Acknowledge, Without, Outstanding, InLedger
<1>2. pause' = AfterDrain(Outstanding \ ids)
  BY DEF Acknowledge
<1> QED BY <1>1, <1>2, DrainLooksBehind

LEMMA FlushShownAnswersDrain ==
  ASSUME Evidence, DrainNotForgotten, NEW ids \in SUBSET Ids, NEW limited, FlushShown(ids, limited)
  PROVE  DrainNotForgotten'
<1>1. PICK done \in Presentable(ids) : Acknowledge(done)
  BY DEF FlushShown
<1>2. done \in SUBSET Ids
  BY <1>1 DEF Presentable
<1> QED BY <1>1, <1>2, AcknowledgeAnswersDrain

LEMMA WaitingAreIds == Waiting \in SUBSET Ids
BY DEF Waiting

LEMMA ReceiveResultAnswersDrain ==
  ASSUME Evidence, DrainNotForgotten, ReceiveResult
  PROVE  DrainNotForgotten'
<1> DEFINE id == Head(feedback).id
<1>1. \/ UNCHANGED <<pause, ledger>>
      \/ InLedger(id) /\ Acknowledge({id})
      \/ InLedger(id) /\ ledger' = [ledger EXCEPT ![id] = "shown"] /\ UNCHANGED pause
      \/ InLedger(id) /\ FlushShown({id}, ceiling)
  <2>1. CASE ~InLedger(id)
    BY <2>1 DEF ReceiveResult
  <2>2. CASE InLedger(id)
    <3> DEFINE value == IF ledger[id] = "open" THEN Head(feedback).type ELSE "shown"
    <3>1. value \in {"zero", "shown"}
      BY LanesAreTyped, HeardIsMember DEF ReceiveResult
    <3>2. CASE value = "zero"
      BY <2>2, <3>2 DEF ReceiveResult
    <3>3. CASE value = "shown"
      BY <2>2, <3>3 DEF ReceiveResult
    <3> QED BY <3>1, <3>2, <3>3
  <2> QED BY <2>1, <2>2
<1>2. id \in Ids
  <2>1. /\ Head(feedback) \in ResultCommands
        /\ Head(feedback).type \in {"zero", "shown"}
    BY LanesAreTyped, HeardIsMember DEF ReceiveResult
  <2> QED BY <2>1 DEF ResultCommands, Evidence, HostHoldsEvidence
<1> HIDE DEF id
<1>3. CASE UNCHANGED <<pause, ledger>>
  BY <1>3, SameRecords
<1>4. CASE Acknowledge({id}) \/ FlushShown({id}, ceiling)
  BY <1>2, <1>4, AcknowledgeAnswersDrain, FlushShownAnswersDrain
<1>5. CASE InLedger(id) /\ ledger' = [ledger EXCEPT ![id] = "shown"] /\ UNCHANGED pause
  <2>1. Outstanding \subseteq Outstanding'
    BY <1>5, LanesAreTyped DEF Outstanding, InLedger
  <2> QED BY <1>5, <2>1, RecordsStay
<1> QED BY <1>1, <1>3, <1>4, <1>5

LEMMA TickAnswersDrain ==
  ASSUME Evidence, DrainNotForgotten, NEW expired \in SUBSET Outstanding, NEW late \in BOOLEAN,
         NEW ask \in BOOLEAN, Tick(expired, late, ask)
  PROVE  DrainNotForgotten'
<1>1. PICK done \in Presentable(Waiting \ expired) :
        /\ ledger' = Expired(done, expired)
        /\ LET left == Outstanding \ (done \cup expired)
           IN  \/ pause' = [AfterDrain(left) EXCEPT !.paused = FALSE]
               \/ pause' = AfterDrain(left)
  BY DEF Tick
<1>2. Outstanding' = Outstanding \ (done \cup expired)
  BY <1>1 DEF Expired, Outstanding, InLedger
<1>3. AfterDrain(Outstanding \ (done \cup expired)) \in PauseRecord
  BY LanesAreTyped, AfterDrainIsPause
<1>4. pause'.drainToken = AfterDrain(Outstanding \ (done \cup expired)).drainToken
  BY <1>1, <1>3 DEF PauseRecord
<1> QED BY <1>2, <1>4, DrainLooksBehind

LEMMA SampleAcceptedAnswersDrain ==
  ASSUME Evidence, DrainNotForgotten, SampleAccepted
  PROVE  DrainNotForgotten'
<1>1. PICK done \in SUBSET Waiting :
        /\ ledger' = Without(done)
        /\ pause' = [Reopened EXCEPT !.drainToken = AfterDrain(Outstanding \ done).drainToken]
  BY DEF SampleAccepted
<1>2. Outstanding' = Outstanding \ done
  BY <1>1 DEF Without, Outstanding, InLedger
<1>3. Reopened \in PauseRecord
  BY LanesAreTyped DEF Reopened, PauseRecord
<1>4. pause'.drainToken = AfterDrain(Outstanding \ done).drainToken
  BY <1>1, <1>3 DEF PauseRecord
<1> QED BY <1>2, <1>4, DrainLooksBehind

LEMMA FlushKeepsDrain ==
  ASSUME Evidence, DrainNotForgotten, NEW root \in Roots, Flush(root)
  PROVE  DrainNotForgotten'
<1>1. UNCHANGED pause
  BY DEF Flush
<1>2. ledger' = ledger \/ \E id : ledger' = [ledger EXCEPT ![id] = "open"]
  BY DEF Flush, FlushWindow, Admitted, Rejected, Unpublished
<1>3. Outstanding \subseteq Outstanding'
  BY <1>2, LanesAreTyped DEF Outstanding, InLedger
<1> QED BY <1>1, <1>3, RecordsStay

LEMMA BarrierKeepsDrain ==
  ASSUME Evidence, DrainNotForgotten,
         ReceivePause \/ ReceiveDrain \/ ReceiveResume \/ GuestDetach \/ GuestAttach
  PROVE  DrainNotForgotten'
<1>1. UNCHANGED ledger /\ pause \in PauseRecord
  BY LanesAreTyped DEF ReceivePause, ReceiveDrain, ReceiveResume, GuestDetach, GuestAttach, ledgerVars
<1>2. Outstanding' = Outstanding
  BY <1>1 DEF Outstanding, InLedger
<1>3. \/ pause'.drainToken \in {0, pause.drainToken}
      \/ Outstanding # {}
  <2>1. CASE ReceivePause
    BY <1>1, <2>1 DEF ReceivePause, PauseRecord
  <2>2. CASE ReceiveDrain
    BY <1>1, <2>2 DEF ReceiveDrain, PauseRecord
  <2>3. CASE ReceiveResume
    BY <1>1, <2>3 DEF ReceiveResume, PauseRecord
  <2>4. CASE GuestDetach \/ GuestAttach
    BY <2>4 DEF GuestDetach, GuestAttach, ResetPause
  <2> QED BY <2>1, <2>2, <2>3, <2>4
<1> QED BY <1>2, <1>3 DEF DrainNotForgotten

LEMMA DrainIsAnsweredStep ==
  Evidence /\ DrainNotForgotten /\ [Next]_vars => DrainNotForgotten'
<1> SUFFICES ASSUME Evidence, DrainNotForgotten, [Next]_vars
             PROVE  DrainNotForgotten'
  OBVIOUS
<1>1. CASE ClientStep
  <2>1. UNCHANGED <<pause, ledger>>
    BY <1>1 DEF ClientStep, RequestFeedback, Commit, DestroySurface
  <2> QED BY <2>1, SameRecords
<1>2. CASE CompositorStep
  <2>1. CASE ApplyUpdate \/ (\E root \in Roots : ApplyUnblocked(root)) \/ ReceiveCapture
               \/ SampleRejected
    <3>1. UNCHANGED <<pause, ledger>>
      BY <2>1 DEF ApplyUpdate, ApplyUnblocked, ReceiveCapture, SampleRejected, ledgerVars
    <3> QED BY <3>1, SameRecords
  <2>2. CASE \E root \in Roots : Flush(root)
    BY <2>2, FlushKeepsDrain
  <2>3. CASE ReceiveResult
    BY <2>3, ReceiveResultAnswersDrain
  <2>4. CASE \E expired \in SUBSET Outstanding, late, ask \in BOOLEAN : Tick(expired, late, ask)
    BY <2>4, TickAnswersDrain
  <2>5. CASE SampleFaults
    BY <2>5, WaitingAreIds, FlushShownAnswersDrain DEF SampleFaults, ClockFault
  <2>6. CASE SampleAccepted
    BY <2>6, SampleAcceptedAnswersDrain
  <2>7. CASE \E id \in Ids : SceneSample(id)
    <3>1. PICK id \in Ids : SceneSample(id)
      BY <2>7
    <3>2. FlushShown(Waiting, Outstanding) \/ FlushShown({id}, ceiling)
      BY <3>1 DEF SceneSample, ClockFault
    <3> QED BY <3>2, WaitingAreIds, FlushShownAnswersDrain
  <2>8. CASE ReceivePause \/ ReceiveDrain \/ ReceiveResume \/ GuestDetach
    BY <2>8, BarrierKeepsDrain
  <2> QED BY <1>2, <2>1, <2>2, <2>3, <2>4, <2>5, <2>6, <2>7, <2>8 DEF CompositorStep
<1>3. CASE UNCHANGED guestVars
  BY <1>3, SameRecords DEF guestVars
<1>4. CASE Connect
  BY <1>4, BarrierKeepsDrain DEF Connect
<1>5. CASE UNCHANGED vars
  BY <1>5, SameRecords DEF vars, guestVars
<1> QED BY <1>1, <1>2, <1>3, <1>4, <1>5 DEF Next, InGuest, InHost

(***************************************************************************)
(* The guest never waits with a drain for an empty ledger: whichever path  *)
(* takes the last record out (a result, an expiry, a clock sample, a reset) *)
(* also answers the drain.                                                 *)
(***************************************************************************)
THEOREM DrainIsAnswered == Spec => []DrainNotForgotten
<1>1. Init => DrainNotForgotten
  BY DEF Init, GuestInit, DrainNotForgotten
<1>2. Spec => [](Evidence /\ DrainNotForgotten)
  BY <1>1, InitHasEvidence, NextKeepsEvidence, DrainIsAnsweredStep, PTL DEF Spec
<1> QED BY <1>2, PTL
=============================================================================
