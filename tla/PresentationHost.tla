--------------------------- MODULE PresentationHost ---------------------------
(***************************************************************************)
(* The macOS side of display feedback: the presentation journal, which     *)
(* holds one record per scene until the guest acknowledges its result, and *)
(* the window bridge, which submits scenes to Metal, sends results, asks   *)
(* for replays, and runs the pause barrier of the virtual machine.         *)
(*                                                                         *)
(* Where a scene waits before submission (pending, resolving textures,     *)
(* held by the presenter) is abstracted: its record is queued.             *)
(***************************************************************************)
EXTENDS PresentationLanes

CONSTANT Pauses   \* bound: how many pauses the host starts

ASSUME PauseAssumption == Pauses \in Nat

VARIABLES
  attached,  \* the bridge has an output
  session,   \* presentationSessionID is known
  journal,   \* state of each scene's record
  sceneRoot, \* the window of each registered record
  sent,      \* sentPresentationResults
  refresh,   \* deferredPresentationRefresh
  gated,     \* presentationDrawingGated
  phase,     \* where prepare / resume stands
  token,     \* token of the barrier waited for, 0 when there is none
  stale,     \* connectionGeneration changed since the wait began
  nextToken, \* nextPresentationBarrierToken
  pauses     \* pauses started

hostVars    == <<attached, session, journal, sceneRoot, sent, refresh, gated, phase,
                 token, stale, nextToken, pauses>>
barrierVars == <<phase, token, stale, nextToken, pauses>>

Terminal == {"zero", "shown"}
Phases   == {"open", "pausing", "settling", "fencing", "draining", "sealed", "resuming",
             "unsealed", "blindSettling", "blindSealed", "blindResuming"}

HostTypeOK ==
  /\ attached \in BOOLEAN /\ session \in BOOLEAN
  /\ journal \in [Ids -> {"none", "queued", "submitted"} \cup Terminal]
  /\ sceneRoot \in [Ids -> Roots]
  /\ sent \subseteq Ids
  /\ refresh \subseteq Roots
  /\ gated \in BOOLEAN
  /\ phase \in Phases
  /\ token \in Nat
  /\ stale \in BOOLEAN
  /\ nextToken \in Nat
  /\ pauses \in 0 .. Pauses

HostInit ==
  /\ attached = FALSE /\ session = FALSE
  /\ journal = [i \in Ids |-> "none"]
  /\ sceneRoot = [i \in Ids |-> CHOOSE r \in Roots : TRUE]
  /\ sent = {} /\ refresh = {}
  /\ gated = FALSE
  /\ phase = "open" /\ token = 0 /\ stale = FALSE /\ nextToken = 1 /\ pauses = 0

-----------------------------------------------------------------------------
(* The journal.                                                            *)

InState(states) == {i \in Ids : journal[i] \in states}

\* discardIfUnsubmitted, for the records in ids.
Discard(records, ids) == [i \in Ids |-> IF i \in ids /\ records[i] = "queued"
                                        THEN "zero" ELSE records[i]]

\* A batch of results, and one of requests; their order within the batch has
\* no effect and is fixed.
Results(ids)    == LET order == SetToSeq(ids)
                   IN  [k \in DOMAIN order |-> [type |-> journal[order[k]], id |-> order[k]]]
Captures(roots) == LET order == SetToSeq(roots)
                   IN  [k \in DOMAIN order |-> [type |-> "capture", root |-> order[k]]]

\* Mutant of Unsent: records without a result are sent too.
UnsentOfAll == Ids \ sent

\* flushPresentationResults, with the journal as it is before the step.
Unsent == InState(Terminal) \ sent

SendUnsent ==
  /\ feedback' = Written(feedback, Results(Unsent))
  /\ sent' = sent \cup Unsent

\* A zero result the guest has not acknowledged keeps a replay back.
AwaitsAck(root, ids) == \E i \in ids : journal[i] = "zero" /\ sceneRoot[i] = root

\* PresentationRecord.claimSubmission, under the presenter's gate.
Submit(id) ==
  /\ journal[id] = "queued" /\ ~gated
  /\ journal' = [journal EXCEPT ![id] = "submitted"]
  /\ UNCHANGED <<laneVars, attached, session, sceneRoot, sent, refresh, gated, barrierVars>>

\* discardIfUnsubmitted: superseded, hidden, cancelled or without textures.
DiscardQueued(id) ==
  /\ journal[id] = "queued"
  /\ journal' = Discard(journal, {id})
  /\ UNCHANGED <<laneVars, attached, session, sceneRoot, sent, refresh, gated, barrierVars>>

\* PresentationRecord.recordDrawableResult with a valid time.
Drawable(id, result) ==
  /\ journal[id] = "submitted"
  /\ journal' = [journal EXCEPT ![id] = result]
  /\ UNCHANGED <<laneVars, attached, session, sceneRoot, sent, refresh, gated, barrierVars>>

\* The journal's change callback.
FlushResults ==
  /\ attached /\ session /\ Unsent # {}
  /\ SendUnsent
  /\ UNCHANGED <<up, connections, display, control, attached, session, journal,
                 sceneRoot, refresh, gated, barrierVars>>

\* The connection reader answers a clock request ahead of the events that the
\* bridge has not handled yet, and its session is adopted.
AnswerClock ==
  /\ up /\ attached /\ ~Heard(display, "started")
  /\ \E i \in DOMAIN display :
       /\ display[i].type = "clock"
       /\ display' = RemoveAt(display, i)
       /\ feedback' = Written(feedback, <<[type |-> "sample", epoch |-> display[i].epoch]>>
                                           \o Results(Unsent))
  /\ session' = TRUE
  /\ sent' = sent \cup Unsent
  /\ UNCHANGED <<up, connections, control, attached, journal, sceneRoot, refresh,
                 gated, barrierVars>>

\* A window wants its current content again.  It waits for the guest to
\* acknowledge every zero result of the window first.  One unread request at a
\* time is a bound of the model.
AskReplay(root) ==
  /\ attached
  /\ root \notin refresh /\ control = <<>>
  /\ IF session /\ AwaitsAck(root, Ids)
     THEN refresh' = refresh \cup {root} /\ UNCHANGED control
     ELSE control' = Written(control, Captures({root})) /\ UNCHANGED refresh
  /\ UNCHANGED <<up, connections, display, feedback, attached, session, journal,
                 sceneRoot, sent, gated, barrierVars>>

\* flushDeferredPresentationRefresh of the windows in roots, once the records
\* in ids are what the journal holds and drawing is open.
FlushDeferred(roots, ids) ==
  LET ask == {r \in roots \cap refresh : ~AwaitsAck(r, ids)}
  IN  /\ control' = Written(control, Captures(ask))
      /\ refresh' = refresh \ ask

\* The display clock of a window.
DisplayTick(root) ==
  /\ attached /\ ~gated /\ root \in refresh
  /\ FlushDeferred({root}, IF session THEN Ids ELSE {})
  /\ UNCHANGED <<up, connections, display, feedback, attached, session, journal,
                 sceneRoot, sent, gated, barrierVars>>

-----------------------------------------------------------------------------
(* Guest events.                                                           *)

\* channelReady: a new connection generation.
ReceiveStarted ==
  /\ attached /\ Heard(display, "started")
  /\ display' = Tail(display)
  /\ stale' = (phase # "open") /\ session' = FALSE /\ sent' = {} /\ refresh' = {}
  /\ UNCHANGED <<up, connections, control, feedback, attached, journal,
                 sceneRoot, gated, phase, token, nextToken, pauses>>

\* enqueue(scene): register its record, then complete it at once while drawing
\* is gated, or let it supersede an older scene of the window.
Waits(root) == {i \in InState({"queued"}) : sceneRoot[i] = root}

ReceiveScene ==
  /\ attached /\ Heard(display, "scene")
  /\ LET id   == Head(display).id
         root == Head(display).root
         registered == IF journal[id] = "none" THEN [journal EXCEPT ![id] = "queued"]
                                               ELSE journal
     IN  /\ IF gated THEN journal' = Discard(registered, {id})
            ELSE \E older \in SUBSET Waits(root) :
                   Cardinality(older) <= 1 /\ journal' = Discard(registered, older)
         /\ sceneRoot' = [sceneRoot EXCEPT ![id] = root]
  /\ display' = Tail(display)
  /\ session' = TRUE
  /\ SendUnsent
  /\ UNCHANGED <<up, connections, control, attached, refresh, gated, barrierVars>>

\* presentationFeedbackAcknowledged: only a terminal record retires, and a
\* replay that waited for it may go.
ReceiveAck ==
  /\ attached /\ Heard(display, "ack")
  /\ display' = Tail(display)
  /\ LET id   == Head(display).id
         gone == {id} \cap InState(Terminal)
     IN  /\ journal' = [i \in Ids |-> IF i \in gone THEN "none" ELSE journal[i]]
         /\ sent' = sent \ {id}
         /\ IF gated THEN UNCHANGED <<control, refresh>>
            ELSE FlushDeferred({sceneRoot[id]}, IF session THEN Ids \ gone ELSE {})
  /\ UNCHANGED <<up, connections, feedback, attached, session, sceneRoot, gated,
                 barrierVars>>

-----------------------------------------------------------------------------
(* prepareForVirtualMachinePause and the resume after it.  A wait ends when *)
(* its condition holds, or fails: by its deadline, by cancellation, or     *)
(* because the connection generation changed.                              *)

NewBarrier(p, type) ==
  /\ nextToken <= MaxTokens
  /\ phase' = p /\ token' = nextToken /\ nextToken' = nextToken + 1
  /\ control' = Written(control, <<[type |-> type, token |-> nextToken]>>)

NoBarrier(p) == phase' = p /\ token' = 0 /\ UNCHANGED <<nextToken, control>>

Settled == InState({"queued", "submitted"}) = {}

\* Drawing is gated and waiting scenes are completed; what a presenter is
\* encoding at this moment is discarded when it finds the gate closed.
StartPause ==
  /\ phase = "open" /\ pauses < Pauses /\ nextToken + 2 <= MaxTokens
  /\ pauses' = pauses + 1
  /\ gated' = TRUE /\ stale' = FALSE
  /\ \E encoding \in SUBSET InState({"queued"}) :
       journal' = Discard(journal, InState({"queued"}) \ encoding)
  /\ IF session THEN NewBarrier("pausing", "pause") ELSE NoBarrier("blindSettling")
  /\ UNCHANGED <<up, connections, display, feedback, attached, session,
                 sceneRoot, sent, refresh>>

\* fencePresentationSubmission and the wait for submitted drawables.
Settle ==
  /\ ~stale /\ Settled
  /\ \/ phase = "settling" /\ NewBarrier("fencing", "pause")
     \/ phase = "blindSettling" /\ NoBarrier("blindSealed")
  /\ UNCHANGED <<up, connections, display, feedback, attached, session, journal,
                 sceneRoot, sent, refresh, gated, stale, pauses>>

\* The reply the current wait expects.
Expected(type, p) == Heard(display, type) /\ phase = p /\ ~stale /\ session
                       /\ token = Head(display).token

Drawing == gated' = FALSE /\ FlushDeferred(Roots, IF session THEN Ids ELSE {})

ReceiveReply ==
  /\ attached
  /\ Heard(display, "reached") \/ Heard(display, "drained") \/ Heard(display, "resumed")
  /\ display' = Tail(display)
  /\ CASE Expected("reached", "pausing") ->
            /\ phase' = "settling" /\ token' = 0
            /\ UNCHANGED <<control, feedback, sent, refresh, gated>>
       [] Expected("reached", "fencing") ->
            /\ phase' = "draining" /\ UNCHANGED token
            /\ feedback' = Written(feedback, Append(Results(InState(Terminal)),
                                   [type |-> "drain", token |-> token]))
            /\ sent' = sent \cup InState(Terminal)
            /\ UNCHANGED <<control, refresh, gated>>
       [] Expected("drained", "draining") ->
            /\ phase' = "sealed" /\ UNCHANGED token
            /\ UNCHANGED <<control, feedback, sent, refresh, gated>>
       [] Expected("resumed", "resuming") ->
            /\ phase' = "open" /\ token' = 0
            /\ Drawing /\ UNCHANGED <<feedback, sent>>
       [] OTHER -> UNCHANGED <<control, feedback, sent, refresh, gated, phase, token>>
  /\ UNCHANGED <<up, connections, attached, session, journal, sceneRoot,
                 stale, nextToken, pauses>>

BeginResume ==
  /\ stale' = FALSE
  /\ IF session THEN NewBarrier("resuming", "resume") ELSE NoBarrier("blindResuming")
  /\ UNCHANGED <<up, connections, display, feedback, attached, session, journal,
                 sceneRoot, sent, refresh, gated, pauses>>

\* Mutant of PauseFails: gives up without a rollback.
PauseFailsOpen ==
  /\ phase \in {"pausing", "settling", "fencing", "draining", "blindSettling"}
  /\ phase' = "open" /\ token' = 0 /\ gated' = FALSE
  /\ UNCHANGED <<laneVars, attached, session, journal, sceneRoot, sent, refresh,
                 stale, nextToken, pauses>>

\* A failed pause rolls back by resuming.
PauseFails ==
  /\ phase \in {"pausing", "settling", "fencing", "draining", "blindSettling"}
  /\ BeginResume

StartResume == phase \in {"sealed", "blindSealed", "unsealed"} /\ BeginResume

BlindResume ==
  /\ phase = "blindResuming" /\ ~stale /\ InState({"submitted"}) = {}
  /\ phase' = "open" /\ token' = 0
  /\ Drawing
  /\ UNCHANGED <<up, connections, display, feedback, attached, session, journal,
                 sceneRoot, sent, stale, nextToken, pauses>>

\* A failed resume leaves drawing gated until it is tried again.
ResumeFails ==
  /\ phase \in {"resuming", "blindResuming"}
  /\ phase' = "unsealed" /\ token' = 0
  /\ UNCHANGED <<laneVars, attached, session, journal, sceneRoot, sent, refresh, gated,
                 stale, nextToken, pauses>>

-----------------------------------------------------------------------------
\* Mutant of HostDetach: the journal goes with the connection.
HostDetachForgets ==
  /\ attached /\ ~up
  /\ attached' = FALSE /\ session' = FALSE
  /\ stale' = (phase # "open") /\ token' = 0
  /\ journal' = [id \in Ids |-> "none"]
  /\ sent' = {} /\ refresh' = {} /\ gated' = FALSE
  /\ UNCHANGED <<laneVars, sceneRoot, phase, nextToken, pauses>>

\* Mutant of HostDetach: a barrier survives the connection.
HostDetachKeepsBarrier ==
  /\ attached /\ ~up
  /\ attached' = FALSE /\ session' = FALSE
  /\ journal' = Discard(journal, Ids)
  /\ sent' = {} /\ refresh' = {} /\ gated' = FALSE
  /\ UNCHANGED <<laneVars, sceneRoot, barrierVars>>

\* closeAll: the transport is gone.  What was never submitted is discarded.
HostDetach ==
  /\ attached /\ ~up
  /\ attached' = FALSE /\ session' = FALSE
  /\ stale' = (phase # "open") /\ token' = 0
  /\ journal' = Discard(journal, Ids)
  /\ sent' = {} /\ refresh' = {} /\ gated' = FALSE
  /\ UNCHANGED <<laneVars, sceneRoot, phase, nextToken, pauses>>
=============================================================================
