-------------------------- MODULE PresentationGuest --------------------------
(***************************************************************************)
(* The guest compositor's side of display feedback: wp_presentation queries *)
(* follow wl_surface commits into window scenes, scenes admitted to the    *)
(* display lane move their queries into a ledger that outlives surfaces    *)
(* and connections, and host results settle the ledger.  The pause barrier *)
(* and the presentation clock gate what may be sent and settled.           *)
(*                                                                         *)
(* The compositor is one thread: each action is one handler.  A handler    *)
(* that ends by applying updates or by flushing leaves that work to be     *)
(* done, and nothing else of the compositor runs before it is.             *)
(***************************************************************************)
EXTENDS PresentationLanes

VARIABLES
  ready,    \* host_session_ready
  alive,    \* surfaces that exist
  content,  \* commit shown by each surface, 0 without published content
  cached,   \* synchronized_updates
  blocked,  \* blocked_updates of a window, each with its dependencies
  applying, \* updates that the running handler still applies, oldest first
  flushing, \* window that the running handler still flushes, else 0
  dirty,    \* scene_presentation_id of a dirty window, else 0
  nextId,   \* np_presentation_next_id
  query,    \* every wp_presentation_feedback
  ledger,   \* state of each scene record, by presentation id
  ceiling,  \* records whose mapping_ceiling a clock fault has set
  packet,   \* what each admitted scene sampled
  epoch,    \* the clock epoch
  clock,    \* validity of the clock mapping, and whether a clock request is out
  pause     \* barrier state

guestVars == <<ready, alive, content, cached, blocked, applying, flushing, dirty,
               nextId, query, ledger, ceiling, packet, epoch, clock, pause>>
surfaceVars == <<alive, content, cached, blocked, applying, flushing, dirty, nextId>>
ledgerVars  == <<query, ledger, ceiling, packet>>

NoPacket == [layers |-> {}, epoch |-> 0]
Final    == {"presented", "discarded", "failed"}

UpdateRecord == [surface : Surfaces, id : Nat \ {0}, kind : Kinds]
QueryRecord  == [at : {"unused", "listed", "ledger"} \cup Final, surface : Surfaces,
                 commit : Nat, bound : BOOLEAN, retired : BOOLEAN, scene : Nat]
RecordStates == {"none", "open", "shown", "expired"}
ClockRecord  == [valid : BOOLEAN, faulted : BOOLEAN, unverified : BOOLEAN,
                 old : BOOLEAN, reconnecting : BOOLEAN, asked : BOOLEAN]
PauseRecord  == [paused : BOOLEAN, reached : BOOLEAN, pauseToken : Nat, drainToken : Nat,
                 resumeToken : Nat, lastBarrier : Nat, completedResume : Nat]

GuestTypeOK ==
  /\ ready \in BOOLEAN
  /\ alive \subseteq Surfaces
  /\ content \in [Surfaces -> Nat]
  /\ cached \in [Surfaces -> SUBSET UpdateRecord]
  /\ blocked \in [Surfaces -> SUBSET SUBSET UpdateRecord]
  /\ applying \subseteq UpdateRecord
  /\ flushing \in {0} \cup Roots
  /\ dirty \in [Surfaces -> Nat]
  /\ nextId \in 1 .. MaxId + 1
  /\ query \in [Queries -> QueryRecord]
  /\ ledger \in [Ids -> RecordStates]
  /\ ceiling \subseteq Ids
  /\ packet \in [Ids -> [layers : SUBSET (Surfaces \X Nat), epoch : Nat]]
  /\ epoch \in Nat
  /\ clock \in ClockRecord
  /\ pause \in PauseRecord

GuestInit ==
  /\ ready = FALSE
  /\ alive = Surfaces
  /\ content = [s \in Surfaces |-> 0]
  /\ cached = [s \in Surfaces |-> {}]
  /\ blocked = [s \in Surfaces |-> {}]
  /\ applying = {} /\ flushing = 0
  /\ dirty = [s \in Surfaces |-> 0]
  /\ nextId = 1
  /\ query \in [Queries -> {[at |-> "unused", surface |-> s, commit |-> 0, bound |-> FALSE,
                             retired |-> FALSE, scene |-> 0] : s \in Surfaces}]
  /\ ledger = [i \in Ids |-> "none"]
  /\ ceiling = {}
  /\ packet = [i \in Ids |-> NoPacket]
  /\ epoch = 1
  /\ clock = [valid |-> FALSE, faulted |-> FALSE, unverified |-> FALSE,
              old |-> FALSE, reconnecting |-> FALSE, asked |-> FALSE]
  /\ pause = [paused |-> FALSE, reached |-> FALSE, pauseToken |-> 0, drainToken |-> 0,
              resumeToken |-> 0, lastBarrier |-> 0, completedResume |-> 0]

\* No handler is running.
Idle == applying = {} /\ flushing = 0

-----------------------------------------------------------------------------
(* Queries and records.                                                    *)

InLedger(id)    == ledger[id] \in {"open", "shown"}
Outstanding     == {id \in Ids : InLedger(id)}
Feedbacks(id)   == {q \in Queries : query[q].at = "ledger" /\ query[q].scene = id}
Listed(s)       == {q \in Queries : query[q].at = "listed" /\ query[q].surface = s}
InFlight(s)     == {q \in Queries : query[q].at = "ledger" /\ query[q].surface = s}

Ended(record, outcome)  == [at |-> outcome, surface |-> record.surface,
                            commit |-> record.commit, bound |-> FALSE,
                            retired |-> FALSE, scene |-> 0]
Placed(record, at, id)  == [at |-> at, surface |-> record.surface,
                            commit |-> record.commit, bound |-> record.bound,
                            retired |-> record.retired, scene |-> id]
Committed(record, id)   == [at |-> record.at, surface |-> record.surface,
                            commit |-> id, bound |-> record.bound,
                            retired |-> record.retired, scene |-> record.scene]
Marked(record, bound, retired) ==
                           [at |-> record.at, surface |-> record.surface,
                            commit |-> record.commit, bound |-> bound,
                            retired |-> retired, scene |-> record.scene]
WithEnded(Q, outcome)  == [q \in Queries |-> IF q \in Q THEN Ended(query[q], outcome)
                                                        ELSE query[q]]

\* The zero result of an attempt: a query whose commit may still be shown
\* returns to its surface, a retired one is discarded.
Deferred(id) ==
  [q \in Queries |->
     IF q \notin Feedbacks(id) THEN query[q]
     ELSE IF query[q].retired \/ query[q].surface \notin alive
          THEN Ended(query[q], "discarded")
          ELSE Placed(query[q], "listed", 0)]

\* Ids a client may still take: one per window stays reserved for the replay
\* of each connection to come (a bound of the model).
IdsLeft(n) == nextId + n + (MaxConnections - connections) * Cardinality(Roots) <= MaxId + 1

-----------------------------------------------------------------------------
(* Clock requests and the replies of the ledger.                           *)

\* np_presentation_time_clock_request, which its retry interval may hold back.
\* A retry is a rejected answer followed by a new request.
MayAskClock  == ready /\ ~clock.asked /\ ~(pause.paused /\ pause.resumeToken = 0)
ClockRequest == <<[type |-> "clock", epoch |-> epoch]>>

EmissionAllowed == ~pause.paused /\ pause.resumeToken = 0 /\ ~clock.reconnecting

\* Mutant of DrainDone: looks before the last record has left.
DrainDoneEarlyLook(left) == pause.drainToken # 0 /\ Outstanding = {}

\* finish_drain: the drain is answered as soon as no record is left.
DrainDone(left)  == pause.drainToken # 0 /\ left = {}
DrainReply(left) == IF DrainDone(left)
                    THEN <<[type |-> "drained", token |-> pause.drainToken]>> ELSE <<>>
AfterDrain(left) == IF DrainDone(left) THEN [pause EXCEPT !.drainToken = 0] ELSE pause

\* The queries of records whose shown result is reported, or cannot be
\* because it lies above the record's ceiling.
Reported(done, over) ==
  [q \in Queries |->
     IF query[q].at # "ledger" \/ query[q].scene \notin done THEN query[q]
     ELSE Ended(query[q], IF query[q].scene \in over THEN "failed" ELSE "presented")]

\* Records leave the ledger.
Without(ids) == [i \in Ids |-> IF i \in ids THEN "none" ELSE ledger[i]]

\* Each settled record is acknowledged, then a drain may be over.
Acks(ids) == LET order == SetToSeq(ids)
             IN  [k \in DOMAIN order |-> [type |-> "ack", id |-> order[k]]]

Acknowledge(ids) ==
  /\ ledger' = Without(ids)
  /\ display' = Written(display, Acks(ids) \o DrainReply(Outstanding \ ids))
  /\ pause' = AfterDrain(Outstanding \ ids)

(***************************************************************************)
(* flush_result of the records in ids, which hold a shown result.  It      *)
(* waits for a verified clock history; which results convert yet, and      *)
(* which exceed their ceiling, is left open.                               *)
(***************************************************************************)
Presentable(ids) == IF clock.unverified THEN {{}} ELSE SUBSET ids

FlushShown(ids, limited) ==
  \E done \in Presentable(ids) :
    \E over \in SUBSET (done \cap limited) :
      /\ query' = Reported(done, over)
      /\ ceiling' = limited \ done
      /\ Acknowledge(done)

-----------------------------------------------------------------------------
(* Client requests.                                                        *)

\* wp_presentation.feedback
RequestFeedback(q) ==
  /\ Idle
  /\ query[q].at = "unused" /\ query[q].surface \in alive
  /\ query' = [query EXCEPT ![q] = Placed(@, "listed", 0)]
  /\ \/ MayAskClock /\ clock' = [clock EXCEPT !.asked = TRUE]
                    /\ display' = Written(display, ClockRequest)
     \/ UNCHANGED <<clock, display>>
  /\ UNCHANGED <<ready, surfaceVars, ledger, ceiling, packet, epoch, pause,
                 up, connections, control, feedback>>

Synchronized(s) == RootOf[s] # s
Children(s)     == {c \in Surfaces : RootOf[c] = s /\ c # s}

\* A synchronized subsurface keeps the update for its parent's commit, which
\* applies it first.  A commit that waits for a fence or a barrier, or for an
\* older commit that does, is blocked.
Enqueue(s, update) ==
  LET group == (UNION {cached[c] : c \in Children(s)}) \cup {update}
  IN  IF Synchronized(s)
      THEN /\ cached' = [cached EXCEPT ![s] = @ \cup {update}]
           /\ UNCHANGED <<blocked, applying>>
      ELSE /\ cached' = [c \in Surfaces |-> IF c \in Children(s) THEN {} ELSE cached[c]]
           /\ \/ blocked[s] = {} /\ applying' = group /\ UNCHANGED blocked
              \/ s \in Throttled /\ blocked' = [blocked EXCEPT ![s] = @ \cup {group}]
                                 /\ UNCHANGED applying

\* wl_surface.commit: the pending queries belong to this commit.
Commit(s, kind) ==
  /\ Idle
  /\ s \in alive /\ RootOf[s] \in alive
  /\ IdsLeft(2)
  /\ nextId' = nextId + 1
  /\ query' = [q \in Queries |->
                 IF q \in Listed(s) /\ query[q].commit = 0
                 THEN Committed(query[q], nextId) ELSE query[q]]
  /\ Enqueue(s, [surface |-> s, id |-> nextId, kind |-> kind])
  /\ UNCHANGED <<ready, alive, content, flushing, dirty, ledger, ceiling, packet, epoch,
                 clock, pause, laneVars>>

\* np_surface_apply_unblocked: the oldest blocked commit of a window may go.
ApplyUnblocked(root) ==
  /\ Idle
  /\ \E group \in blocked[root] :
       /\ \A later \in blocked[root] \ {group} : \A u \in group, v \in later : u.id < v.id
       /\ applying' = group
       /\ blocked' = [blocked EXCEPT ![root] = @ \ {group}]
  /\ UNCHANGED <<ready, alive, content, cached, flushing, dirty, nextId, ledgerVars, epoch,
                 clock, pause, laneVars>>

\* Mutant of Replaced: content already sent is discarded too.
ReplacedInFlightToo(s, id) ==
  {q \in Queries : /\ query[q].at \in {"listed", "ledger"} /\ query[q].surface = s
                   /\ query[q].bound /\ query[q].commit # id}

\* Mutant of Superseded: queries in flight are never retired.
SupersededNever(s, id) == {q \in InFlight(s) : query[q].commit = 0 /\ id = 0}

\* np_presentation_time_apply and np_presentation_time_discard_commit: the
\* queries that a newly applied commit replaces, or that end with it.
Replaced(s, id)   == {q \in Listed(s) : query[q].bound /\ query[q].commit # id}
EndsWith(s, id)   == {q \in Listed(s) : query[q].commit = id}
Superseded(s, id) == {q \in InFlight(s) : query[q].commit # id}

\* The update leaves its surface with content, and its window needs a new scene.
Publishes(u) == u.kind = "attach" \/ (u.kind \in {"state", "frame"} /\ content[u.surface] # 0)
NewScene(u) ==
  /\ \/ Publishes(u) /\ (u.kind = "frame" => EndsWith(u.surface, u.id) # {})
     \/ u.kind = "detach" /\ Synchronized(u.surface)
  /\ dirty[RootOf[u.surface]] = 0

AfterApply(q, u) ==
  IF q \in Replaced(u.surface, u.id) THEN Ended(query[q], "discarded")
  ELSE IF q \in EndsWith(u.surface, u.id)
  THEN IF Publishes(u) THEN Marked(query[q], TRUE, query[q].retired)
                       ELSE Ended(query[q], "discarded")
  ELSE IF q \in Superseded(u.surface, u.id) THEN Marked(query[q], query[q].bound, TRUE)
  ELSE query[q]

\* apply_surface_update_now for the oldest update of the running commit.  The
\* commit left an id for the scene that it makes necessary.
ApplyUpdate ==
  \E u \in applying :
    /\ \A v \in applying : u.id <= v.id
    /\ applying' = applying \ {u}
    /\ content' = [content EXCEPT ![u.surface] = IF Publishes(u) THEN u.id ELSE 0]
    /\ query' = [q \in Queries |-> AfterApply(q, u)]
    /\ IF NewScene(u)
       THEN /\ nextId <= MaxId /\ nextId' = nextId + 1
            /\ dirty' = [dirty EXCEPT ![RootOf[u.surface]] = nextId]
       ELSE UNCHANGED <<nextId, dirty>>
    /\ UNCHANGED <<ready, alive, cached, blocked, flushing, ledger, ceiling, packet,
                   epoch, clock, pause, laneVars>>

\* surface_resource_destroy: the ledger keeps the queries of what was sent, the
\* surface's waiting commits end with their queries, and the window that a
\* subsurface belonged to is redrawn without it.
Dropped(s) == cached[s] \cup {u \in UNION blocked[RootOf[s]] : u.surface = s \/ RootOf[s] = s}

DestroySurface(s) ==
  /\ Idle
  /\ s \in alive
  /\ IdsLeft(2)
  /\ alive' = alive \ {s}
  /\ query' = [q \in Queries |->
       IF q \in Listed(s) THEN Ended(query[q], "discarded")
       ELSE IF q \in InFlight(s) THEN Marked(query[q], query[q].bound, TRUE)
       ELSE IF \E u \in Dropped(s) : q \in EndsWith(u.surface, u.id)
       THEN Ended(query[q], "discarded") ELSE query[q]]
  /\ content' = [content EXCEPT ![s] = 0]
  /\ cached' = [cached EXCEPT ![s] = {}]
  /\ blocked' = [blocked EXCEPT ![RootOf[s]] = {group \ Dropped(s) : group \in @} \ {{}}]
  /\ LET root  == RootOf[s]
         child == root # s /\ root \in alive
         fresh == child /\ dirty[root] = 0
     IN  IF fresh THEN dirty' = [dirty EXCEPT ![root] = nextId + 1] /\ nextId' = nextId + 2
         ELSE /\ dirty' = [dirty EXCEPT ![s] = 0]
              /\ nextId' = IF child THEN nextId + 1 ELSE nextId
  /\ UNCHANGED <<ready, applying, flushing, ledger, ceiling, packet, epoch, clock, pause,
                 laneVars>>

-----------------------------------------------------------------------------
(* Scene admission.                                                        *)

Sampled(root)  == {s \in alive : RootOf[s] = root /\ content[s] # 0}
LayersOf(root) == {<<s, content[s]>> : s \in Sampled(root)}

\* Mutant of Blocked: the window is free as soon as the result arrives.
BlockedUntilHeard(root) ==
  \E s \in Sampled(root) : \E q \in InFlight(s) :
    ~query[q].retired /\ ledger[query[q].scene] = "open"

\* Mutant of Queried: takes queries whose commit is not applied yet.
QueriedUnbound(root) == {q \in Queries : query[q].at = "listed"
                                           /\ query[q].surface \in Sampled(root)}

\* Mutant of Queried: takes queries of any commit in the window, cached ones too.
QueriedOfWindow(root) == {q \in Queries : query[q].at = "listed"
                                            /\ RootOf[query[q].surface] = root}

\* The current commit of a sampled surface already awaits its outcome.
Blocked(root) == \E s \in Sampled(root) : \E q \in InFlight(s) : ~query[q].retired
Queried(root) == {q \in Queries : query[q].at = "listed" /\ query[q].bound
                                    /\ query[q].surface \in Sampled(root)}

\* Mutant of MayPrepare: a window with queries waits for the clock forever.
MayPrepareCalibrated(root) ==
  /\ EmissionAllowed
  /\ ~Blocked(root)
  /\ Queried(root) = {} \/ clock.valid

MayPrepare(root) ==
  /\ EmissionAllowed
  /\ ~Blocked(root)
  /\ Queried(root) = {} \/ clock.faulted \/ clock.valid

\* prepare_scene without a trustworthy clock: the scene goes out without its
\* queries, whether or not the backend then admits it.
Unreportable(root) == IF clock.faulted THEN Queried(root) ELSE {}

Admitted(root, id) ==
  LET carried == Queried(root) \ Unreportable(root)
  IN  /\ query' = [q \in Queries |->
           IF q \in Unreportable(root) THEN Ended(query[q], "discarded")
           ELSE IF q \in carried THEN Placed(query[q], "ledger", id) ELSE query[q]]
      /\ ledger' = IF carried = {} THEN ledger ELSE [ledger EXCEPT ![id] = "open"]
      /\ packet' = [packet EXCEPT ![id] = [layers |-> LayersOf(root), epoch |-> epoch]]
      /\ display' = Written(display, <<[type |-> "scene", id |-> id, root |-> root]>>)
      /\ dirty' = [dirty EXCEPT ![root] = 0]

Rejected(root) ==
  /\ query' = WithEnded(Unreportable(root), "discarded")
  /\ UNCHANGED <<ledger, packet, display, dirty>>

Unpublished(root) ==
  /\ dirty' = [dirty EXCEPT ![root] = 0]
  /\ UNCHANGED <<query, ledger, packet, display>>

\* np_presentation_flush for one dirty window.
FlushWindow(root) ==
  IF ready /\ EmissionAllowed /\ root \in alive /\ dirty[root] # 0
  THEN IF content[root] = 0 THEN Unpublished(root)
       ELSE IF MayPrepare(root) THEN Admitted(root, dirty[root]) \/ Rejected(root)
       ELSE UNCHANGED <<query, ledger, packet, display, dirty>>
  ELSE UNCHANGED <<query, ledger, packet, display, dirty>>

Flush(root) ==
  /\ applying = {} /\ flushing \in {0, root}
  /\ flushing' = 0
  /\ FlushWindow(root)
  /\ UNCHANGED <<ready, alive, content, cached, blocked, applying, nextId, ceiling, epoch, clock, pause,
                 up, connections, control, feedback>>

\* capture_current_presentation: the host asks for the same content again.
\* Without an id left the request is dropped (a bound of the model).
ReceiveCapture ==
  /\ Idle
  /\ ready /\ Heard(control, "capture")
  /\ control' = Tail(control)
  /\ LET root == Head(control).root
     IN  IF root \in alive /\ content[root] # 0 /\ (dirty[root] # 0 \/ IdsLeft(1))
         THEN /\ dirty' = IF dirty[root] = 0 THEN [dirty EXCEPT ![root] = nextId] ELSE dirty
              /\ nextId' = IF dirty[root] = 0 THEN nextId + 1 ELSE nextId
              /\ flushing' = root
         ELSE UNCHANGED <<dirty, nextId, flushing>>
  /\ UNCHANGED <<ready, alive, content, cached, blocked, applying, ledgerVars, epoch, clock, pause,
                 up, connections, display, feedback>>

-----------------------------------------------------------------------------
(* Results.                                                                *)

\* Mutant of RepeatAck: an unknown record is ignored.
RepeatAckNever(id) == id \in Ids /\ UNCHANGED display

\* A result for a record that the ledger no longer has is acknowledged again.
RepeatAck(id) == display' = Written(display, <<[type |-> "ack", id |-> id]>>)

\* np_presentation_time_result: the first result of a record counts.
ReceiveResult ==
  /\ Idle
  /\ ready /\ (Heard(feedback, "zero") \/ Heard(feedback, "shown"))
  /\ feedback' = Tail(feedback)
  /\ LET id    == Head(feedback).id
         value == IF ledger[id] = "open" THEN Head(feedback).type ELSE "shown"
     IN  CASE ~InLedger(id) ->
                RepeatAck(id) /\ UNCHANGED <<query, ledger, ceiling, pause>>
           [] InLedger(id) /\ value = "zero" ->
                /\ query' = Deferred(id)
                /\ ceiling' = ceiling \ {id}
                /\ Acknowledge({id})
           [] InLedger(id) /\ value = "shown" ->
                \/ /\ ledger' = [ledger EXCEPT ![id] = "shown"]
                   /\ UNCHANGED <<query, ceiling, display, pause>>
                \/ FlushShown({id}, ceiling) /\ ledger'[id] = "none"
  /\ UNCHANGED <<ready, surfaceVars, packet, epoch, clock,
                 up, connections, control>>

Waiting == {id \in Ids : ledger[id] = "shown"}
=============================================================================
