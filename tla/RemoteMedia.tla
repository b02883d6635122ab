----------------------------- MODULE RemoteMedia -----------------------------
(***************************************************************************)
(* The one output stream of a remote compositor: control records, credit-  *)
(* paced fragments of display and background records, and notifications,    *)
(* written by a thread of their own; the receiver that puts fragments       *)
(* together, and the credit it returns.                                     *)
(* (medialink.c, flow.h, RemoteStreamDecoder.swift, RemoteWire.swift)       *)
(*                                                                         *)
(* Lane 0 is control, 1 display, 2 background, 3 notifications.  A record   *)
(* is its size; sizes and windows count in units of the smallest fragment.  *)
(***************************************************************************)
EXTENDS Integers, Sequences, FiniteSets, SequencesExt, FiniteSetsExt

CONSTANTS
  Sizes,          \* sizes of display and background records
  FirstWindow,    \* credit before the first acknowledgement
  LeastWindow,    \* floor of the credit window
  MostWindow,     \* ceiling of the credit window
  LeastChunk, MostChunk,   \* a fragment is a quarter of the window within these
  Ring,           \* fragments that may wait for credit
  QueueLimit,     \* units the writer's queues own before the link fails
  NotedTurns,     \* fragments that may pass a waiting notification
  MaxQueued,      \* bound: records queued in a lane
  MaxControl,     \* bound: control records
  MaxNotes        \* bound: notifications

VARIABLES
  queues,     \* per lane: the records, each with its size and what is written of it
  flow,       \* np_remote_flow: window, unacknowledged fragments, waiting
  turns,      \* notification_turns and next_lane
  notes,      \* notifications queued or being written
  writer,     \* where the writer thread is, and the lane and count it writes
  signalled,  \* the condition variable was signalled since the writer waits
  failed,     \* fail_writer
  wire,       \* what was written and not yet read
  parts,      \* Reassembler: per lane the size and the units of a begun record
  credit,     \* units read and not yet acknowledged
  returning,  \* units in acknowledgements on the way back
  spent       \* control records and notifications so far

vars == <<queues, flow, turns, notes, writer, signalled, failed, wire, parts, credit,
          returning, spent>>

Bulk == {1, 2}
NoPart == [size |-> 0, got |-> 0]
Outstanding(f) == FoldSeq(LAMBDA n, sum : n + sum, 0, f.pending)
Owned == FoldSeq(LAMBDA r, sum : r.size - r.offset + sum, 0,
              queues[0] \o queues[1] \o queues[2])

Init ==
  /\ queues = [l \in 0 .. 2 |-> <<>>]
  /\ flow = [window |-> FirstWindow, pending |-> <<>>, waiting |-> FALSE]
  /\ turns = [notes |-> 0, next |-> 0] /\ notes = 0
  /\ writer = [at |-> "select", lane |-> 0, count |-> 0]
  /\ signalled = FALSE /\ failed = FALSE
  /\ wire = <<>> /\ parts = [l \in Bulk |-> NoPart]
  /\ credit = 0 /\ returning = 0
  /\ spent = [control |-> 0, notes |-> 0]

---------------------------------------------------------------------------
\* Credit (flow.h).

Chunk(window, rest) ==
  Min({rest, Max({LeastChunk, Min({MostChunk, window \div 4})})})

\* Mutant of Allowed: the fragment itself is not counted.
AllowedBeyond(f, rest) == Len(f.pending) < Ring /\ Outstanding(f) < f.window

\* Mutant of Allowed: the ring of fragments is not looked at.
AllowedPastRing(f, rest) == Outstanding(f) + Chunk(f.window, rest) <= f.window

\* np_flow_allow: whether a fragment of a record may go now.
Allowed(f, rest) == Len(f.pending) < Ring /\ Outstanding(f) + Chunk(f.window, rest) <= f.window

\* Mutant of Settle: a fragment leaves the ring with its first credit.
SettleWhole(pending, n) == Tail(pending)

\* np_flow_ack: credit leaves the oldest fragments first.
Settle(pending, n) ==
  LET before(i) == FoldSeq(LAMBDA x, sum : x + sum, 0, SubSeq(pending, 1, i))
      left      == [i \in DOMAIN pending |->
                     IF before(i) <= n THEN 0
                     ELSE IF before(i - 1) >= n THEN pending[i] ELSE before(i) - n]
  IN  SelectSeq(left, LAMBDA x : x > 0)

\* The round trip grew, did not grow, or no adjustment is due.
Adjusted(f, trip) ==
  CASE trip = "same"   -> f
    [] trip = "slower" -> [f EXCEPT !.window = Max({LeastWindow, (@ * 3) \div 4}), !.waiting = FALSE]
    [] trip = "steady" -> [f EXCEPT !.window = IF f.waiting THEN Min({MostWindow, @ * 2}) ELSE @,
                                    !.waiting = FALSE]

---------------------------------------------------------------------------
\* The writer thread (medialink.c).

\* Three turns for interactive pixels, then one for the background.
Preferred(next) == IF next = 3 THEN 2 ELSE 1

CanSend(lane) ==
  /\ queues[lane] # <<>>
  /\ Allowed(flow, Head(queues[lane]).size - Head(queues[lane]).offset)

\* Mutant of ReadyLane: notifications wait for a quiet link.
ReadyLanePatient ==
  LET first == Preferred(turns.next)
  IN  IF queues[0] # <<>> THEN 0
      ELSE IF CanSend(first) THEN first
      ELSE IF CanSend(3 - first) THEN 3 - first
      ELSE IF notes > 0 THEN 3 ELSE -1

\* ready_lane
ReadyLane ==
  LET first == Preferred(turns.next)
      ready == IF CanSend(first) THEN first ELSE IF CanSend(3 - first) THEN 3 - first ELSE -1
  IN  IF queues[0] # <<>> THEN 0
      ELSE IF notes > 0 /\ (ready = -1 \/ turns.notes >= NotedTurns) THEN 3
      ELSE ready

\* A lane that is asked for credit and gets none asks for a larger window.
Asked ==
  LET first == Preferred(turns.next)
      refused(l) == queues[l] # <<>> /\ ~CanSend(l)
  IN  IF queues[0] = <<>> /\ (refused(first) \/ (~CanSend(first) /\ refused(3 - first)))
      THEN [flow EXCEPT !.waiting = TRUE] ELSE flow

\* The lock is held: take what to write next, or wait for a signal.
Select ==
  /\ writer.at = "select" \/ (writer.at = "waiting" /\ signalled)
  /\ ~failed
  /\ signalled' = FALSE
  /\ LET lane == ReadyLane IN
     IF lane = -1
     THEN /\ writer' = [writer EXCEPT !.at = "waiting"] /\ flow' = Asked
          /\ UNCHANGED turns
     ELSE LET rest  == IF lane = 3 THEN 1 ELSE Head(queues[lane]).size - Head(queues[lane]).offset
              count == IF lane \in Bulk THEN Chunk(flow.window, rest) ELSE rest
          IN  /\ writer' = [at |-> "writing", lane |-> lane, count |-> count]
              /\ flow' = IF lane \in Bulk THEN [Asked EXCEPT !.pending = Append(@, count)] ELSE Asked
              /\ turns' = IF lane \in Bulk THEN [turns EXCEPT !.next = (@ + 1) % 4] ELSE turns
  /\ UNCHANGED <<queues, notes, failed, wire, parts, credit, returning, spent>>

\* write_bytes without the lock, and what the writer does with its result.  A
\* notification of which nothing is written gives way to a control record.
Yield ==
  /\ writer.at = "writing" /\ writer.lane = 3 /\ queues[0] # <<>> /\ ~failed
  /\ writer' = [writer EXCEPT !.at = "select"]
  /\ UNCHANGED <<queues, flow, turns, notes, signalled, failed, wire, parts, credit, returning, spent>>

\* What is left of a lane after count units of its head are written.
Written(lane, count) ==
  LET r == Head(queues[lane])
  IN  IF r.offset + count = r.size THEN Tail(queues[lane])
      ELSE [queues[lane] EXCEPT ![1].offset = @ + count]

WriteDone ==
  LET lane == writer.lane
      r    == Head(queues[lane])
  IN  /\ writer.at = "writing" /\ ~failed
      /\ wire' = Append(wire, IF lane \in Bulk
                   THEN [lane |-> lane, size |-> r.size, offset |-> r.offset, count |-> writer.count]
                   ELSE [lane |-> lane, size |-> 0, offset |-> 0, count |-> writer.count])
      /\ IF lane = 3
         THEN /\ notes' = notes - 1 /\ turns' = [turns EXCEPT !.notes = 0]
              /\ UNCHANGED queues
         ELSE /\ queues' = [queues EXCEPT ![lane] = Written(lane, writer.count)]
              /\ turns' = IF lane \in Bulk /\ turns.notes < NotedTurns
                          THEN [turns EXCEPT !.notes = @ + 1] ELSE turns
              /\ UNCHANGED notes
      /\ writer' = [writer EXCEPT !.at = "select"]
      /\ UNCHANGED <<flow, signalled, failed, parts, credit, returning, spent>>

WriteFails ==
  /\ writer.at = "writing" /\ ~failed
  /\ failed' = TRUE /\ signalled' = TRUE
  /\ UNCHANGED <<queues, flow, turns, notes, writer, wire, parts, credit, returning, spent>>

---------------------------------------------------------------------------
\* The event loop and the encoder threads.

\* Mutant of Queued: a new record goes to the head of its lane.
QueuedFirst(lane, r) == <<r>> \o queues[lane]

Queued(lane, r) == Append(queues[lane], r)

\* enqueue; a full queue is a failure of the link.
Enqueue(lane, size) ==
  /\ ~failed /\ Len(queues[lane]) < MaxQueued
  /\ lane = 0 => spent.control < MaxControl
  /\ signalled' = TRUE
  /\ IF size > QueueLimit - Owned
     THEN failed' = TRUE /\ UNCHANGED <<queues, spent>>
     ELSE /\ queues' = [queues EXCEPT ![lane] = Queued(lane, [size |-> size, offset |-> 0])]
          /\ spent' = IF lane = 0 THEN [spent EXCEPT !.control = @ + 1] ELSE spent
          /\ UNCHANGED failed
  /\ UNCHANGED <<flow, turns, notes, writer, wire, parts, credit, returning>>

\* np_media_send_notification
Notify ==
  /\ ~failed /\ spent.notes < MaxNotes
  /\ notes' = notes + 1 /\ spent' = [spent EXCEPT !.notes = @ + 1]
  /\ signalled' = TRUE
  /\ UNCHANGED <<queues, flow, turns, writer, failed, wire, parts, credit, returning>>

\* Mutant of Wakes: credit does not wake the writer.
WakesNobody == signalled

Wakes == TRUE

\* np_media_acknowledge
Acknowledge(trip) ==
  /\ ~failed /\ returning > 0
  /\ returning' = 0
  /\ IF returning > Outstanding(flow)
     THEN failed' = TRUE /\ UNCHANGED flow
     ELSE /\ flow' = Adjusted([flow EXCEPT !.pending = Settle(@, returning)], trip)
          /\ UNCHANGED failed
  /\ signalled' = Wakes
  /\ UNCHANGED <<queues, turns, notes, writer, wire, parts, credit, spent>>

---------------------------------------------------------------------------
\* The receiver.

\* The guards of Reassembler.receive.
Accepts(f) ==
  /\ f.count <= f.size - f.offset
  /\ IF f.offset = 0 THEN parts[f.lane] = NoPart
     ELSE parts[f.lane].got = f.offset /\ parts[f.lane].size = f.size

\* RemoteStreamDecoder.next: a fragment returns its bytes as credit at once.
Receive ==
  /\ wire # <<>> /\ wire' = Tail(wire)
  /\ LET f == Head(wire) IN
     IF f.lane \notin Bulk THEN UNCHANGED <<parts, credit>>
     ELSE /\ Accepts(f)
          /\ credit' = credit + f.count
          /\ parts' = [parts EXCEPT ![f.lane] =
               IF f.offset + f.count = f.size THEN NoPart ELSE [size |-> f.size, got |-> f.offset + f.count]]
  /\ UNCHANGED <<queues, flow, turns, notes, writer, signalled, failed, returning, spent>>

\* The host's writer sends the credit gathered so far in one record.
ReturnCredit ==
  /\ credit > 0 /\ returning = 0
  /\ returning' = credit /\ credit' = 0
  /\ UNCHANGED <<queues, flow, turns, notes, writer, signalled, failed, wire, parts, spent>>

---------------------------------------------------------------------------
Trips == {"same", "slower", "steady"}

Link == Select \/ Yield \/ WriteDone
Next == \/ Link \/ WriteFails \/ Notify \/ Receive \/ ReturnCredit
        \/ \E trip \in Trips : Acknowledge(trip)
        \/ Enqueue(0, 1) \/ \E l \in Bulk, n \in Sizes : Enqueue(l, n)

Spec == Init /\ [][Next]_vars

\* The writer thread runs, and the receiver reads and returns credit.
Steps ==
  Link \/ Receive \/ ReturnCredit \/ \E trip \in Trips : Acknowledge(trip)

---------------------------------------------------------------------------
\* Properties.

TypeOK ==
  /\ \A l \in 0 .. 2 : \A i \in DOMAIN queues[l] :
       queues[l][i].size \in Sizes \cup {1} /\ queues[l][i].offset \in 0 .. queues[l][i].size - 1
  /\ flow.window \in LeastWindow .. MostWindow /\ Len(flow.pending) <= Ring
  /\ \A i \in DOMAIN flow.pending : flow.pending[i] \in 1 .. MostChunk
  /\ writer.at \in {"select", "waiting", "writing"} /\ writer.lane \in 0 .. 3
  /\ notes \in 0 .. MaxNotes /\ turns \in [notes : 0 .. NotedTurns, next : 0 .. 3]

OnWire == FoldSeq(LAMBDA f, sum : IF f.lane \in Bulk THEN f.count + sum ELSE sum, 0, wire)
Selected == IF writer.at = "writing" /\ writer.lane \in Bulk THEN writer.count ELSE 0

\* Every unit that is charged to the window is being written, on the wire, or
\* coming back as credit: none is lost, which would shrink the window for good,
\* and none is counted twice, which the sender would take for a broken peer.
CreditConserved == ~failed => Outstanding(flow) = Selected + OnWire + credit + returning

\* The receiver finds every fragment where the last one of its lane ended, with
\* the lanes interleaved at fragment boundaries.
FragmentsFit == wire # <<>> /\ Head(wire).lane \in Bulk => Accepts(Head(wire))

\* A fragment is only sent within the window of that moment.
SentWithinWindow == Len(flow'.pending) > Len(flow.pending) => Outstanding(flow') <= flow.window

\* The writer never sleeps on work it could do.
NoLostWakeup == writer.at = "waiting" /\ ~failed /\ ReadyLane # -1 => signalled

\* The credit, the fragments and the sleep of the writer, at every moment.
StreamSafe == CreditConserved /\ FragmentsFit /\ NoLostWakeup

\* Who waits: notes behind pictures, and background records behind both.
Waits(k) == ~failed /\ ((k = 1 /\ notes > 0) \/ (k = 2 /\ queues[2] # <<>>))
=============================================================================
