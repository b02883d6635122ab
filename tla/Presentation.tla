----------------------------- MODULE Presentation -----------------------------
(***************************************************************************)
(* Display feedback end to end: the guest compositor, the macOS host and   *)
(* the connection between them.                                            *)
(***************************************************************************)
EXTENDS PresentationGate, PresentationHost

VARIABLE displayed  \* history: the scenes a drawable has really shown

vars == <<laneVars, guestVars, hostVars, displayed>>

TypeOK ==
  /\ LanesTypeOK /\ GuestTypeOK /\ HostTypeOK
  /\ displayed \subseteq Ids

Init ==
  /\ LanesInit /\ GuestInit /\ HostInit
  /\ displayed = {}

(***************************************************************************)
(* A new connection: both sides have noticed the loss of the previous one. *)
(***************************************************************************)
Connect ==
  /\ ~up /\ ~attached /\ connections < MaxConnections
  /\ GuestAttach
  /\ up' = TRUE /\ connections' = connections + 1
  /\ attached' = TRUE
  /\ UNCHANGED <<session, journal, sceneRoot, sent, refresh, gated, barrierVars, displayed>>

\* The client's requests.
ClientStep ==
  \/ \E q \in Queries : RequestFeedback(q)
  \/ \E s \in Surfaces, kind \in Kinds : Commit(s, kind)
  \/ \E s \in Mortal : DestroySurface(s)

\* The compositor's own steps.
CompositorStep ==
  \/ ApplyUpdate
  \/ \E root \in Roots : ApplyUnblocked(root)
  \/ \E root \in Roots : Flush(root)
  \/ ReceiveCapture \/ ReceiveResult \/ ReceivePause \/ ReceiveDrain \/ ReceiveResume
  \/ \E expired \in SUBSET Outstanding, late, ask \in BOOLEAN : Tick(expired, late, ask)
  \/ SampleRejected \/ SampleFaults \/ SampleAccepted
  \/ \E id \in Ids : SceneSample(id)
  \/ GuestDetach

\* The host's steps.
HostStep ==
  \/ \E id \in Ids : Submit(id) \/ DiscardQueued(id) \/ Drawable(id, "zero")
  \/ FlushResults \/ AnswerClock
  \/ \E root \in Recaptured : AskReplay(root)
  \/ \E root \in Roots : DisplayTick(root)
  \/ ReceiveStarted \/ ReceiveScene \/ ReceiveAck \/ ReceiveReply
  \/ StartPause \/ Settle \/ PauseFails
  \/ StartResume \/ BlindResume \/ ResumeFails
  \/ HostDetach

\* Metal reports that the drawable of a scene appeared.
Displays(id) == Drawable(id, "shown") /\ displayed' = displayed \cup {id}

InGuest(A) == A /\ UNCHANGED <<hostVars, displayed>>
InHost(A)  == A /\ UNCHANGED <<guestVars, displayed>>

Next ==
  \/ InGuest(ClientStep) \/ InGuest(CompositorStep)
  \/ InHost(HostStep)
  \/ \E id \in Ids : Displays(id) /\ UNCHANGED guestVars
  \/ Drop /\ UNCHANGED <<guestVars, hostVars, displayed>>
  \/ Connect

Spec == Init /\ [][Next]_vars

(***************************************************************************)
(* Fairness, all of it weak.  A handler that runs ends.  The compositor's  *)
(* event loop dispatches its sources, its timer included; the backend      *)
(* takes a prepared scene in the end; the bridge reads what arrives; both  *)
(* notice a lost connection and the guest dials again.  Nothing is assumed *)
(* of Metal's callbacks, of clients, of the quality of clock samples, or   *)
(* of results that convert.                                                *)
(***************************************************************************)
Expires(id) == \E expired \in SUBSET Outstanding :
                 id \in expired /\ Tick(expired, FALSE, FALSE)
Emits(root) == Flush(root) /\ dirty'[root] # dirty[root]

Fairness ==
  /\ WF_vars(InGuest(ApplyUpdate))
  /\ \A root \in Roots : WF_vars(InGuest(flushing = root /\ Flush(root)))
  /\ \A root \in Roots : WF_vars(InGuest(Emits(root)))
  /\ WF_vars(InGuest(ReceiveCapture)) /\ WF_vars(InGuest(ReceiveResult))
  /\ WF_vars(InGuest(SampleRejected \/ SampleFaults \/ SampleAccepted))
  /\ WF_vars(InGuest(ReceivePause \/ ReceiveDrain \/ ReceiveResume))
  /\ WF_vars(InGuest(Tick({}, TRUE, FALSE)))
  /\ \A id \in Ids : WF_vars(InGuest(Expires(id)))
  /\ WF_vars(InGuest(GuestDetach)) /\ WF_vars(InHost(HostDetach)) /\ WF_vars(Connect)
  /\ WF_vars(InHost(FlushResults)) /\ WF_vars(InHost(AnswerClock))
  /\ WF_vars(InHost(ReceiveStarted \/ ReceiveScene \/ ReceiveAck \/ ReceiveReply))

FairSpec == Spec /\ Fairness

-----------------------------------------------------------------------------
(* Safety.                                                                 *)

Target(q) == <<query[q].surface, query[q].commit>>
Shows(id, layer) == layer \in packet[id].layers
WasDisplayed(q) == \E id \in displayed : Shows(id, Target(q))

\* A client is told that its commit was presented only if a drawable whose
\* scene sampled exactly that commit of that surface really appeared: after any
\* replay, reconnect, deferral and redisplay (flush_result, defer_current_feedback).
PresentedWasDisplayed ==
  \A q \in Queries : query[q].at = "presented" => WasDisplayed(q)

\* At the moment a client is told that its commit was discarded, no drawable
\* has shown it: replaced content, a destroyed surface and a zero result never
\* hide a display (retire, defer_current_feedback, np_presentation_time_discard_*).
DiscardedWasNotDisplayed ==
  [][\A q \in Queries : query[q].at # "discarded" /\ query'[q].at = "discarded"
                          => ~WasDisplayed(q)]_vars

\* While the outcome of the surface's current commit is in flight, no other
\* scene samples it: np_presentation_time_prepare_scene returns 0 until then, so
\* one commit is never the subject of two results.
NoRedisplayInFlight ==
  \A q \in Queries : query[q].at = "ledger" /\ ~query[q].retired =>
    \A id \in Ids : Shows(id, Target(q)) => id <= query[q].scene

\* The host forgets a result only after the guest has settled that record: an
\* acknowledgement of another connection or an early one never loses a result.
ForgottenOnlyWhenSettled ==
  [][\A id \in Ids : journal[id] # "none" /\ journal'[id] = "none"
                       => ~InLedger(id)]_vars

\* finish_drain: a drain request never waits for an empty ledger; the last
\* record to leave, by any path, answers it.
DrainNotForgotten == pause.drainToken # 0 => Outstanding # {}

\* When the host believes the guest is drained, the guest drained this very
\* barrier on this very connection; and while the guest is still in it nothing is
\* under way: no record awaits a result on either side and no scene is on its
\* way to the host.
SealedIsQuiet ==
  phase = "sealed" /\ ~stale /\ up =>
    /\ pause.pauseToken = token
    /\ pause.paused => /\ Outstanding = {}
                       /\ InState({"submitted"}) = {}
                       /\ \A i \in DOMAIN display : display[i].type # "scene"

\* Once the host draws again, no pause of this connection is left in force: an
\* aborted or failed barrier never leaves the guest fenced with nobody to resume it.
OpenMeansUnfenced ==
  phase = "open" /\ up =>
    /\ ~pause.paused
    /\ \A i \in DOMAIN control : control[i].type # "pause"

\* docs/wayland.md: a sealed pause keeps the guest's display stream fenced
\* until a resume establishes a new clock epoch.
SealHolds == phase = "sealed" /\ ~stale /\ ready => pause.paused

-----------------------------------------------------------------------------
(***************************************************************************)
(* Why PresentedWasDisplayed holds.  A "shown" result, wherever it is on   *)
(* its way from the drawable to the client, stands for a displayed scene;  *)
(* a query on its way is in a scene that sampled its commit; and the id of *)
(* a scene is never used for a second one.                                 *)
(***************************************************************************)
Sampling(id) == packet[id].layers # {}

SceneEvents ==
       [type : {"scene"}, id : {i \in Ids : Sampling(i)}, root : Roots]
  \cup [type : {"ack"}, id : Ids]
  \cup [type : {"reached", "drained", "resumed"}, token : Nat]
  \cup [type : {"started"}]
  \cup [type : {"clock"}, epoch : Nat]
ResultCommands ==
       [type : {"zero"}, id : Ids]
  \cup [type : {"shown"}, id : displayed]
  \cup [type : {"drain"}, token : Nat]
  \cup [type : {"sample"}, epoch : Nat]
BarrierCommands ==
       [type : {"pause", "resume"}, token : Nat]
  \cup [type : {"capture"}, root : Roots]

LanesCarryEvidence ==
  /\ display \in Seq(SceneEvents)
  /\ feedback \in Seq(ResultCommands)
  /\ control \in Seq(BarrierCommands)

HostHoldsEvidence ==
  /\ journal \in [Ids -> {"none", "queued", "submitted"} \cup Terminal]
  /\ sceneRoot \in [Ids -> Roots]
  /\ refresh \subseteq Roots
  /\ token \in Nat /\ nextToken \in Nat
  /\ displayed \subseteq {id \in Ids : Sampling(id)}
  /\ \A id \in Ids : journal[id] # "none" => Sampling(id)
  /\ \A id \in Ids : journal[id] = "shown" => id \in displayed

GuestShape ==
  /\ connections \in 0 .. MaxConnections
  /\ alive \subseteq Surfaces
  /\ content \in [Surfaces -> Nat]
  /\ dirty \in [Surfaces -> Nat]
  /\ nextId \in 1 .. MaxId + 1
  /\ query \in [Queries -> QueryRecord]
  /\ ledger \in [Ids -> RecordStates]
  /\ packet \in [Ids -> [layers : SUBSET (Surfaces \X Nat), epoch : Nat]]
  /\ epoch \in Nat
  /\ pause \in PauseRecord

\* Scene ids are handed out once.
SceneIdsAreFresh ==
  /\ \A s \in Surfaces : dirty[s] # 0 => dirty[s] < nextId /\ ~Sampling(dirty[s])
  /\ \A s, t \in Surfaces : dirty[s] # 0 /\ dirty[s] = dirty[t] => s = t
  /\ \A id \in Ids : id >= nextId => ~Sampling(id)

\* Updates still to be applied are not what any surface shows.
Pending == applying \cup (UNION {cached[s] : s \in Surfaces})
                    \cup (UNION {UNION blocked[s] : s \in Surfaces})
PendingIsNew ==
  /\ cached \in [Surfaces -> SUBSET UpdateRecord]
  /\ blocked \in [Surfaces -> SUBSET SUBSET UpdateRecord]
  /\ applying \subseteq UpdateRecord
  /\ \A u \in Pending : u.id < nextId /\ u.id # content[u.surface]
  /\ \A u, v \in Pending : u.id = v.id => u = v
  /\ \A s \in Surfaces : content[s] < nextId

\* Every update waits in one place only, so that it is applied once.
PendingOnce ==
  /\ \A s \in Surfaces : \A u \in cached[s] : u.surface = s /\ u \notin applying
  /\ \A s, t \in Surfaces : \A group \in blocked[t] : cached[s] \cap group = {}
  /\ \A s \in Surfaces : \A group \in blocked[s] : group \cap applying = {}
  /\ \A s, t \in Surfaces : \A g \in blocked[s], h \in blocked[t] :
       g \cap h # {} => s = t /\ g = h

\* Where a query is bound to: what its surface shows, or what its scene sampled.
BoundToContent(q) ==
  query[q].bound /\ query[q].commit # 0 /\ query[q].commit = content[query[q].surface]
QueriesFollowContent ==
  \A q \in Queries :
    /\ query[q].at = "unused" => ~query[q].bound
    /\ query[q].at = "listed" /\ query[q].bound => BoundToContent(q)
    /\ query[q].at = "ledger" =>
         /\ query[q].scene \in Ids
         /\ Shows(query[q].scene, Target(q))
         /\ query[q].surface \in alive /\ ~query[q].retired => BoundToContent(q)

LedgerHoldsEvidence == \A id \in Ids : ledger[id] = "shown" => id \in displayed

Evidence ==
  /\ GuestShape /\ PendingIsNew /\ PendingOnce /\ SceneIdsAreFresh
  /\ QueriesFollowContent /\ LedgerHoldsEvidence /\ PresentedWasDisplayed
  /\ LanesCarryEvidence /\ HostHoldsEvidence

-----------------------------------------------------------------------------
(* Liveness.                                                               *)

\* Whatever is lost on the way, the host learns that the guest has its result
\* and forgets the record, unless the guest gave it up: a result is sent again
\* on every new connection (acceptPresentationSession) and every repeated result
\* is acknowledged again (np_presentation_time_result).
ResultIsSettled ==
  \A id \in Ids : journal[id] \in Terminal ~> journal[id] = "none" \/ ledger[id] = "expired"

\* A window that must be redrawn is sent in the end: neither a query in flight,
\* nor a scene lost with its connection, nor a clock that cannot be calibrated
\* freezes it (tick, np_presentation_time_prepare_scene).
DirtyIsSent == \A root \in Roots : dirty[root] # 0 ~> dirty[root] = 0

-----------------------------------------------------------------------------
(* What clients see of all this.                                           *)

Outcome(q) == IF query[q].at \in {"listed", "ledger"} THEN "pending" ELSE query[q].at

Client == INSTANCE FeedbackOutcome WITH
  Layers  <- Layer,
  outcome <- [q \in Queries |-> Outcome(q)],
  content <- [q \in Queries |-> IF query[q].commit = 0 THEN <<>> ELSE Target(q)],
  shown   <- UNION {packet[id].layers : id \in displayed}

\* Guest, host and lossy connection together keep the promise of FeedbackOutcome
\* to every client: one outcome for each query, and a true one.
ClientSpec == Client!Spec
=============================================================================
