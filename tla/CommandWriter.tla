----------------------------- MODULE CommandWriter -----------------------------
(***************************************************************************)
(* The host's serial command writer: one lock, one dispatch queue, and per  *)
(* connection the ordered commands, the feedback to desktop notifications,  *)
(* received-byte credit, and (on a remote session) a bulk lane cut into     *)
(* fragments under a flow window.  (WindowCommandWriter.swift)              *)
(*                                                                         *)
(* A command carries its number; a frame also the newest configure sent     *)
(* before it.  `wire` is what the current guest has read.                   *)
(***************************************************************************)
EXTENDS Integers, Sequences, FiniteSets, SequencesExt

CONSTANTS
  Remote,       \* the writer of a remote session, or of a local lane
  Notes,        \* notification ids
  Fragments,    \* fragments of a bulk record
  Window,       \* fragments in flight
  MaxSends,     \* bound: commands and file records
  MaxEvents,    \* bound: notification events, feedback and acknowledgements
  MaxConns      \* bound: connections

VARIABLES
  handle,     \* the connection, or zero
  pending,    \* commands not taken yet
  guest,      \* guestNotifications: the revision of each active id, or zero
  feedback,   \* notificationFeedback per id
  order,      \* notificationOrder
  scheduled,  \* writerScheduled
  drains,     \* drain closures in the dispatch queue
  running,    \* the closure that runs: idle, between items, or an item in hand
  bulk,       \* the record on the bulk lane and its offset
  bulkQueue,  \* records waiting for the bulk lane
  flight,     \* fragments the peer has not acknowledged
  received,   \* receivedBytes
  wire,       \* what the guest of this connection has read
  sends,      \* per kind, the commands sent on this connection
  used        \* bounds used: sends, events, connections

vars == <<handle, pending, guest, feedback, order, scheduled, drains, running, bulk,
          bulkQueue, flight, received, wire, sends, used>>
notes == <<guest, feedback, order>>
lanes == <<bulk, bulkQueue, flight, received>>

NoFeedback == [revision |-> 0, action |-> FALSE, closed |-> FALSE]
Item(k) == [kind |-> k, n |-> 0, conf |-> 0, conn |-> 0]
NoItem == Item("none")
Nothing == [conf |-> 0, frame |-> 0, data |-> 0, file |-> 0, closed |-> {}]
Kinds == {"conf", "frame", "data", "file"}

Cleared(h) ==
  /\ handle' = h /\ pending' = <<>> /\ scheduled' = FALSE
  /\ guest' = [i \in Notes |-> 0] /\ feedback' = [i \in Notes |-> NoFeedback] /\ order' = <<>>

Init ==
  /\ handle = 0 /\ pending = <<>> /\ guest = [i \in Notes |-> 0]
  /\ feedback = [i \in Notes |-> NoFeedback] /\ order = <<>>
  /\ scheduled = FALSE /\ drains = 0 /\ running = Item("idle")
  /\ bulk = [item |-> NoItem, offset |-> 0] /\ bulkQueue = <<>> /\ flight = 0 /\ received = 0
  /\ wire = Nothing /\ sends = [k \in Kinds |-> 0]
  /\ used = [sends |-> 0, events |-> 0, conns |-> 0]

Spend(what, limit) == used[what] < limit /\ used' = [used EXCEPT ![what] = @ + 1]

\* Mutant of Schedule: a closure is queued only when nothing was pending.
ScheduleWhenEmpty ==
  /\ scheduled' = TRUE
  /\ drains' = IF scheduled \/ pending # <<>> THEN drains ELSE drains + 1

\* writerScheduled, and the closure that is queued when it was not set.
Schedule ==
  /\ scheduled' = TRUE
  /\ drains' = IF scheduled THEN drains ELSE drains + 1

---------------------------------------------------------------------------
\* install and disconnect drop everything of the old connection.
Install ==
  /\ Spend("conns", MaxConns)
  /\ Cleared(used'.conns)
  /\ bulk' = [item |-> NoItem, offset |-> 0] /\ bulkQueue' = <<>> /\ flight' = 0 /\ received' = 0
  /\ wire' = Nothing /\ sends' = [k \in Kinds |-> 0]
  /\ UNCHANGED <<drains, running>>

Disconnect ==
  /\ handle # 0 /\ Cleared(0)
  /\ bulk' = [item |-> NoItem, offset |-> 0] /\ bulkQueue' = <<>> /\ flight' = 0 /\ received' = 0
  /\ UNCHANGED <<drains, running, wire, sends, used>>

Command(k, n) == [kind |-> k, n |-> n, conf |-> IF k = "conf" THEN n ELSE sends["conf"], conn |-> handle]

\* Mutant of Enqueued: the newest configure replaces any older one in the queue.
EnqueuedAnywhere(c) ==
  LET kept == SelectSeq(pending, LAMBDA p : c.kind # "conf" \/ p.kind # "conf")
  IN  Append(kept, c)

\* enqueue: state replaces only the state adjacent to it.
Enqueued(c) ==
  IF c.kind = "conf" /\ pending # <<>> /\ Last(pending).kind = "conf"
  THEN [pending EXCEPT ![Len(pending)] = c]
  ELSE Append(pending, c)

Send(k) ==
  /\ handle # 0 /\ k # "file" /\ Spend("sends", MaxSends)
  /\ sends' = [sends EXCEPT ![k] = @ + 1]
  /\ pending' = Enqueued(Command(k, sends'[k]))
  /\ Schedule
  /\ UNCHANGED <<handle, notes, running, lanes, wire>>

\* sendFileSession
SendFile ==
  /\ Remote /\ handle # 0 /\ Spend("sends", MaxSends)
  /\ sends' = [sends EXCEPT !["file"] = @ + 1]
  /\ bulkQueue' = Append(bulkQueue, Command("file", sends'["file"]))
  /\ Schedule
  /\ UNCHANGED <<handle, pending, notes, running, bulk, flight, received, wire>>

Retired(i) == /\ feedback' = [feedback EXCEPT ![i] = NoFeedback]
              /\ order' = SelectSeq(order, LAMBDA o : o # i)

\* Mutant of Observed: queued feedback survives a replacement.
ObservedOnly(i, rev) == guest' = [guest EXCEPT ![i] = rev] /\ UNCHANGED <<feedback, order>>

\* observeNotification: a newer revision retires the feedback to the old one.
Observed(i, rev) ==
  /\ guest' = [guest EXCEPT ![i] = rev]
  /\ IF guest[i] # rev THEN Retired(i) ELSE UNCHANGED <<feedback, order>>

\* observeGuestNotification on the reader: a post, a withdrawal, or a reset.
Observe(i) ==
  /\ handle # 0 /\ Spend("events", MaxEvents)
  /\ \/ Observed(i, guest[i] + 1)
     \/ guest[i] # 0 /\ guest' = [guest EXCEPT ![i] = 0] /\ Retired(i)
     \/ /\ guest' = [j \in Notes |-> 0] /\ feedback' = [j \in Notes |-> NoFeedback] /\ order' = <<>>
  /\ UNCHANGED <<handle, pending, scheduled, drains, running, lanes, wire, sends>>

\* enqueueNotification: a click or a close the user made on some revision.
Feedback(i, rev, what) ==
  /\ handle # 0 /\ Spend("events", MaxEvents)
  /\ IF guest[i] = rev
     THEN /\ feedback' = [feedback EXCEPT ![i] = [revision |-> rev,
                            action |-> what = "action" \/ @.action, closed |-> what = "closed" \/ @.closed]]
          /\ order' = IF feedback[i] = NoFeedback THEN Append(order, i) ELSE order
     ELSE UNCHANGED <<feedback, order>>
  /\ IF order' # <<>> THEN Schedule ELSE UNCHANGED <<scheduled, drains>>
  /\ UNCHANGED <<handle, pending, guest, running, lanes, wire, sends>>

\* acknowledgeRemoteBytes: credit to return, or fragments the peer has read.
Acknowledge(ours) ==
  /\ Remote /\ handle # 0
  /\ IF ours THEN Spend("events", MaxEvents) /\ received' = received + 1 /\ UNCHANGED flight
     ELSE flight > 0 /\ flight' = flight - 1 /\ UNCHANGED <<received, used>>
  /\ Schedule
  /\ UNCHANGED <<handle, pending, notes, running, bulk, bulkQueue, wire, sends>>

---------------------------------------------------------------------------
\* The dispatch queue.

\* drain starts.
Begin ==
  /\ drains > 0 /\ running = Item("idle")
  /\ drains' = drains - 1 /\ running' = Item("take")
  /\ UNCHANGED <<handle, pending, notes, scheduled, lanes, wire, sends, used>>

\* The record a free bulk lane takes from its queue.
Loaded == IF bulk.item = NoItem /\ bulkQueue # <<>> THEN [item |-> Head(bulkQueue), offset |-> 0] ELSE bulk

\* Mutant of Takeable: selection data overtakes the record on the bulk lane.
TakeableAny(b) == DOMAIN pending

\* Commands that may be taken while b is on the bulk lane.
Takeable(b) == {i \in DOMAIN pending : b.item = NoItem \/ pending[i].kind # "data"}
First(S) == CHOOSE i \in S : \A j \in S : i <= j

\* Mutant of Idle: fragments leave without credit.
IdleUnpaced(b) == b.item = NoItem /\ order = <<>> /\ Takeable(b) = {} /\ received = 0

\* Nothing may be written: the bulk lane has no record or no credit.
Idle(b) ==
  /\ b.item = NoItem \/ flight >= Window
  /\ order = <<>> /\ Takeable(b) = {} /\ received = 0

\* take: credit first, then commands, then notification feedback, then bulk.
Take ==
  LET b == Loaded
      hold(c) == running' = c
  IN
  /\ running = Item("take")
  /\ IF handle = 0
     THEN scheduled' = FALSE /\ running' = Item("idle") /\ UNCHANGED <<pending, notes, lanes>>
     ELSE /\ bulkQueue' = IF b # bulk THEN Tail(bulkQueue) ELSE bulkQueue
          /\ IF Idle(b)
             THEN /\ scheduled' = FALSE /\ running' = Item("idle") /\ bulk' = b
                  /\ UNCHANGED <<pending, notes, flight, received>>
             ELSE IF received > 0
             THEN /\ received' = 0 /\ bulk' = b /\ hold([NoItem EXCEPT !.kind = "credit", !.conn = handle])
                  /\ UNCHANGED <<pending, notes, scheduled, flight>>
             ELSE IF Takeable(b) # {}
             THEN LET i == First(Takeable(b)) IN
                  /\ pending' = RemoveAt(pending, i) /\ hold(pending[i]) /\ bulk' = b
                  /\ UNCHANGED <<notes, scheduled, flight, received>>
             ELSE IF order # <<>>
             THEN LET i == Head(order)
                      f == feedback[i]
                  IN  /\ hold([kind |-> IF f.action THEN "action" ELSE "close", n |-> i,
                               conf |-> f.revision, conn |-> handle])
                      /\ IF f.action /\ f.closed
                         THEN feedback' = [feedback EXCEPT ![i].action = FALSE] /\ UNCHANGED <<order, guest>>
                         ELSE /\ Retired(i)
                              /\ guest' = [guest EXCEPT ![i] = IF f.closed /\ @ = f.revision THEN 0 ELSE @]
                      /\ bulk' = b /\ UNCHANGED <<pending, scheduled, flight, received>>
             ELSE LET done == b.offset + 1 = Fragments IN
                  /\ hold(IF done THEN b.item ELSE [b.item EXCEPT !.kind = "part"])
                  /\ flight' = flight + 1
                  /\ bulk' = IF done THEN [item |-> NoItem, offset |-> 0] ELSE [b EXCEPT !.offset = @ + 1]
                  /\ UNCHANGED <<pending, notes, scheduled, received>>
  /\ UNCHANGED <<handle, drains, wire, sends, used>>

InHand == running.kind \notin {"idle", "take"}

\* Mutant of Late: a record of the old connection joins the new bulk lane.
LateNever(c) == FALSE

\* The connection changed while a selection was encoded.
Late(c) == c.conn # handle

\* drain: a large selection goes to the bulk lane once it is encoded.
Divert ==
  LET c == running IN
  /\ InHand /\ Remote /\ c.kind = "data"
  /\ bulkQueue' = IF Late(c) THEN bulkQueue ELSE Append(bulkQueue, [c EXCEPT !.kind = "whole"])
  /\ running' = Item("take")
  /\ UNCHANGED <<handle, pending, notes, scheduled, drains, bulk, flight, received, wire, sends, used>>

\* The write succeeds: the peer of the command's own connection reads it.
Write ==
  LET c == running IN
  /\ InHand /\ ~(Remote /\ c.kind = "data")
  /\ running' = Item("take")
  /\ wire' = IF c.conn # handle THEN wire
             ELSE IF c.kind \in {"data", "whole"} THEN [wire EXCEPT !.data = c.n]
             ELSE IF c.kind \in Kinds THEN [wire EXCEPT ![c.kind] = c.n]
             ELSE IF c.kind = "close" THEN [wire EXCEPT !.closed = @ \cup {<<c.n, c.conf>>}] ELSE wire
  /\ UNCHANGED <<handle, pending, notes, scheduled, drains, lanes, sends, used>>

\* The write fails: the connection is over if it is still the current one.
WriteFails ==
  /\ InHand /\ running' = Item("idle")
  /\ IF running.conn = handle THEN Cleared(0) ELSE UNCHANGED <<handle, pending, notes, scheduled>>
  /\ UNCHANGED <<drains, lanes, wire, sends, used>>

---------------------------------------------------------------------------
Next == \/ Install \/ Disconnect \/ SendFile \/ Begin \/ Take \/ Divert \/ Write \/ WriteFails
        \/ \E k \in {"conf", "frame", "data"} : Send(k)
        \/ \E i \in Notes : Observe(i) \/ \E r \in 1 .. MaxEvents, w \in {"action", "closed"} : Feedback(i, r, w)
        \/ \E b \in BOOLEAN : Acknowledge(b)

Spec == Init /\ [][Next]_vars
\* The dispatch queue runs and the peer reads.
Steps == Begin \/ Take \/ Divert \/ Write \/ Acknowledge(FALSE)

---------------------------------------------------------------------------
\* Properties.

TypeOK ==
  /\ handle \in 0 .. MaxConns /\ flight \in 0 .. Window /\ drains \in 0 .. MaxConns + 1
  /\ \A i \in Notes : feedback[i].revision \in 0 .. guest[i]

\* Work that could be written always has a drain coming: across a new
\* connection, a failure and the gap between the last take and a new send.
NoLostWork == handle # 0 /\ ~Idle(Loaded) => drains > 0 \/ running # Item("idle")

\* Nothing queued for one connection is left to be written to the next.
OwnConnection ==
  \A c \in Range(pending) \cup Range(bulkQueue) \cup {bulk.item} :
    handle # 0 /\ c # NoItem => c.conn = handle

\* A frame that reaches the guest comes after the newest configure sent
\* before it, and no frame is dropped or overtaken by another.
FrameAfterItsState ==
  InHand /\ running.conn = handle /\ running.kind = "frame" =>
    wire.conf >= running.conf /\ running.n = wire.frame + 1

\* Selections arrive whole and in the order the application asked for them.
SelectionsInOrder ==
  InHand /\ running.conn = handle /\ running.kind \in {"data", "whole"} => running.n = wire.data + 1

\* Feedback is only for the revision the guest shows, and each id queues once.
FeedbackCurrent ==
  /\ \A i \in Notes : feedback[i] # NoFeedback => feedback[i].revision = guest[i] /\ i \in Range(order)
  /\ \A i \in Range(order) : feedback[i] # NoFeedback
  /\ IsInjective(order)

\* What is queued is written, in order, to the connection it was queued for.
QueueSafe == NoLostWork /\ OwnConnection /\ FrameAfterItsState /\ SelectionsInOrder /\ FeedbackCurrent

\* Who waits: a command until the connection that stays has read it.
Waits(k) == k = 1 /\ handle # 0 /\ used.conns < 2 /\ \E c \in Kinds : wire[c] < sends[c]
=============================================================================
