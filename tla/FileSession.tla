------------------------------ MODULE FileSession ------------------------------
(***************************************************************************)
(* NPFR v2: one full-duplex connection with many streams.  Each peer has a  *)
(* reader thread, a control writer for the CANCELs the reader originates,   *)
(* and callers that share one write gate; both socket buffers are bounded.  *)
(* (np_file_session.c, FileSession.swift)                                   *)
(*                                                                         *)
(* A DATA frame stands for one unit of a stream's data and carries its      *)
(* number.                                                                  *)
(***************************************************************************)
EXTENDS Integers, Sequences, FiniteSets, SequencesExt

CONSTANTS
  Guest,        \* streams the guest opens, in increasing order
  Host,         \* streams the host opens
  DataMax,      \* DATA one direction of a stream may carry
  MaxInbound,   \* inbound streams of a peer
  Socket,       \* frames a socket buffer holds
  MaxControl,   \* CANCELs that may wait
  MayFail       \* whether the connection may break

Peers == {"guest", "host"}
Other(p) == IF p = "guest" THEN "host" ELSE "guest"
Streams == Guest \cup Host
Own(p) == IF p = "guest" THEN Guest ELSE Host

VARIABLES
  st,        \* per peer and stream: the stream state
  last,      \* last_peer_id of each peer
  inbound,   \* inbound_streams of each peer
  gate,      \* the frame a peer is writing, or none
  controls,  \* CANCELs queued for the control writer
  sock,      \* socket buffer towards the other peer
  error,     \* why the session failed, or none
  refs,      \* references to the session: its owner and its streams
  fd         \* the descriptor is open

vars == <<st, last, inbound, gate, controls, sock, error, refs, fd>>

NoFrame == [type |-> "none", id |-> 0, n |-> 0, end |-> FALSE]
Fresh == [known |-> FALSE, ref |-> FALSE, responded |-> FALSE, mine |-> FALSE, theirs |-> FALSE,
          cancelled |-> FALSE, sent |-> 0, received |-> 0, inbox |-> <<>>, used |-> FALSE,
          read |-> 0, saw |-> FALSE]

Init ==
  /\ st = [p \in Peers |-> [i \in Streams |-> Fresh]]
  /\ last = [p \in Peers |-> 0] /\ inbound = [p \in Peers |-> 0]
  /\ gate = [p \in Peers |-> NoFrame] /\ controls = [p \in Peers |-> <<>>]
  /\ sock = [p \in Peers |-> <<>>] /\ error = [p \in Peers |-> "none"]
  /\ refs = [p \in Peers |-> 1] /\ fd = [p \in Peers |-> TRUE]

Responder(p, i) == i \notin Own(p)
Done(s) == s.mine /\ s.theirs
Live(p) == error[p] = "none"
Set(p, i, s) == st' = [st EXCEPT ![p][i] = s]
Frame(t, i, n, e) == [type |-> t, id |-> i, n |-> n, end |-> e]

\* acquire_writer, and the frame written once the lock is released.
Acquire(p, f) == Live(p) /\ gate[p] = NoFrame /\ gate' = [gate EXCEPT ![p] = f]
\* Mutant of Usable: a finished half may still be written.
UsableEnded(p, i) == ~st[p][i].cancelled /\ Live(p)

\* stream_unusable
Usable(p, i) == ~st[p][i].cancelled /\ Live(p) /\ ~st[p][i].mine

\* queue_cancel, with the limit that drops a peer which never reads.
Controls(p, i) ==
  IF Len(controls[p]) < MaxControl
  THEN controls' = [controls EXCEPT ![p] = Append(@, i)] /\ UNCHANGED error
  ELSE error' = [error EXCEPT ![p] = "ENOBUFS"] /\ UNCHANGED controls

---------------------------------------------------------------------------
\* Callers.

\* np_file2_request: the id is allocated under the gate.
Request(p, i, end) ==
  /\ i \in Own(p) /\ ~st[p][i].used /\ \A j \in Own(p) : j < i => st[p][j].used
  /\ Acquire(p, Frame("request", i, 0, end))
  /\ Set(p, i, [Fresh EXCEPT !.known = TRUE, !.ref = TRUE, !.used = TRUE, !.mine = end])
  /\ refs' = [refs EXCEPT ![p] = @ + 1]
  /\ UNCHANGED <<last, inbound, controls, sock, error, fd>>

\* np_file2_respond
Respond(p, i, end) ==
  /\ st[p][i].ref /\ Responder(p, i) /\ ~st[p][i].responded /\ Usable(p, i)
  /\ Acquire(p, Frame("response", i, 0, end))
  /\ Set(p, i, [st[p][i] EXCEPT !.responded = TRUE, !.mine = end])
  /\ UNCHANGED <<last, inbound, controls, sock, error, refs, fd>>

\* One frame of np_file2_send; an empty DATA only ends the stream.
Send(p, i, n, end) ==
  LET s == st[p][i] IN
  /\ s.ref /\ Usable(p, i) /\ (Responder(p, i) => s.responded)
  /\ n + s.sent <= DataMax /\ (n = 0 => end)
  /\ Acquire(p, Frame("data", i, IF n = 0 THEN 0 ELSE s.sent + 1, end))
  /\ Set(p, i, [s EXCEPT !.sent = @ + n, !.mine = end])
  /\ UNCHANGED <<last, inbound, controls, sock, error, refs, fd>>

\* np_file2_receive returns a message or the end of the peer's half.
Receive(p, i) ==
  LET s == st[p][i] IN
  /\ s.ref /\ ~s.saw
  /\ \/ s.inbox # <<>> /\ Set(p, i, [s EXCEPT !.inbox = Tail(@), !.read = IF Head(s.inbox) = 0 THEN @ ELSE Head(s.inbox)])
     \/ s.inbox = <<>> /\ s.theirs /\ ~s.cancelled /\ Set(p, i, [s EXCEPT !.saw = TRUE])
  /\ UNCHANGED <<last, inbound, gate, controls, sock, error, refs, fd>>

Abandoned(s) == [s EXCEPT !.cancelled = TRUE, !.inbox = <<>>]

\* np_file2_cancel
Cancel(p, i) ==
  LET s == st[p][i] IN
  /\ s.ref /\ ~s.cancelled /\ Set(p, i, Abandoned(s))
  /\ IF Live(p) /\ ~Done(s) THEN Controls(p, i) ELSE UNCHANGED <<controls, error>>
  /\ UNCHANGED <<last, inbound, gate, sock, refs, fd>>

\* maybe_destroy
Forgettable(p, s) == s.cancelled \/ ~Live(p) \/ Done(s)

\* Mutant of Forgotten: the slot of an inbound stream is not returned.
ForgottenInbound(p, i) == inbound[p]

Forgotten(p, i) == IF Responder(p, i) THEN inbound[p] - 1 ELSE inbound[p]

\* np_file2_stream_release of the last reference, after its cancel.
Release(p, i) ==
  LET s == st[p][i] IN
  /\ s.ref /\ Forgettable(p, s)
  /\ Set(p, i, [Fresh EXCEPT !.used = TRUE, !.read = s.read, !.saw = s.saw])
  /\ inbound' = [inbound EXCEPT ![p] = Forgotten(p, i)]
  /\ refs' = [refs EXCEPT ![p] = @ - 1]
  /\ UNCHANGED <<last, gate, controls, sock, error, fd>>

---------------------------------------------------------------------------
\* Threads of the session.

\* write_frame_unlocked: into the socket, or a failure ends the session.
Written(p) ==
  /\ gate[p] # NoFrame /\ gate' = [gate EXCEPT ![p] = NoFrame]
  /\ \/ /\ Live(p) /\ Len(sock[p]) < Socket
        /\ sock' = [sock EXCEPT ![p] = Append(@, gate[p])] /\ UNCHANGED error
     \/ ~Live(p) /\ UNCHANGED <<sock, error>>
  /\ UNCHANGED <<st, last, inbound, controls, refs, fd>>

\* control_writer
WriteControl(p) ==
  /\ controls[p] # <<>>
  /\ Acquire(p, Frame("cancel", Head(controls[p]), 0, FALSE))
  /\ controls' = [controls EXCEPT ![p] = Tail(@)]
  /\ UNCHANGED <<st, last, inbound, sock, error, refs, fd>>

Broken(p) == error' = [error EXCEPT ![p] = "EPROTO"] /\ UNCHANGED <<st, last, inbound, controls, refs>>
Ignored == UNCHANGED <<st, last, inbound, controls, error, refs>>
Changed(p, i, s) == Set(p, i, s) /\ UNCHANGED <<last, inbound, controls, error, refs>>

OnCancel(p, i) == IF st[p][i].known /\ ~st[p][i].cancelled THEN Changed(p, i, Abandoned(st[p][i])) ELSE Ignored

\* Mutant of Full: one stream more than the limit.
FullLate(p) == inbound[p] > MaxInbound

Full(p) == inbound[p] >= MaxInbound

OnRequest(p, i, end) ==
  IF i \in Own(p) \/ i <= last[p] THEN Broken(p)
  ELSE /\ last' = [last EXCEPT ![p] = i]
       /\ IF Full(p)
          THEN Controls(p, i) /\ UNCHANGED <<st, inbound, refs>>
          ELSE /\ Set(p, i, [Fresh EXCEPT !.known = TRUE, !.ref = TRUE, !.used = TRUE, !.theirs = end])
               /\ inbound' = [inbound EXCEPT ![p] = @ + 1] /\ refs' = [refs EXCEPT ![p] = @ + 1]
               /\ UNCHANGED <<controls, error>>

OnResponse(p, i, end) ==
  LET s == st[p][i] IN
  IF i \notin Own(p) \/ ~s.used THEN Broken(p)
  ELSE IF ~s.known \/ s.cancelled THEN Ignored
  ELSE IF s.responded \/ s.theirs THEN Broken(p)
  ELSE Changed(p, i, [s EXCEPT !.responded = TRUE, !.theirs = end, !.inbox = Append(@, 0)])

\* Mutants of Delivered: the message that ends the half is dropped, or a
\* message is put in front.
DeliveredUnlessEnd(s, n, end) == IF n > 0 /\ ~end THEN Append(s.inbox, n) ELSE s.inbox
DeliveredInFront(s, n, end) == IF n > 0 THEN <<n>> \o s.inbox ELSE s.inbox

\* enqueue: an empty DATA only ends the half.
Delivered(s, n, end) == IF n > 0 THEN Append(s.inbox, n) ELSE s.inbox

OnData(p, i, n, end) ==
  LET s == st[p][i] IN
  IF (i \in Own(p) /\ ~s.used) \/ (i \notin Own(p) /\ i > last[p]) THEN Broken(p)
  ELSE IF ~s.known \/ s.cancelled THEN Ignored
  ELSE IF s.theirs \/ (~Responder(p, i) /\ ~s.responded) \/ (n > 0 /\ s.received = DataMax) THEN Broken(p)
  ELSE Changed(p, i, [s EXCEPT !.theirs = end, !.received = IF n > 0 THEN @ + 1 ELSE @,
                               !.inbox = Delivered(s, n, end)])

\* Mutant of MayDispatch: the reader refuses a request itself.
MayDispatchWriting(p, f) == f.type = "request" /\ Full(p) => gate[p] = NoFrame

\* The reader waits for no one.
MayDispatch(p, f) == TRUE

\* reader and dispatch
Read(p) ==
  LET q == Other(p)
      f == Head(sock[q])
  IN  /\ Live(p) /\ sock[q] # <<>> /\ MayDispatch(p, f)
      /\ sock' = [sock EXCEPT ![q] = Tail(@)]
      /\ \/ f.type = "cancel" /\ OnCancel(p, f.id)
         \/ f.type = "request" /\ OnRequest(p, f.id, f.end)
         \/ f.type = "response" /\ OnResponse(p, f.id, f.end)
         \/ f.type = "data" /\ OnData(p, f.id, f.n, f.end)
      /\ UNCHANGED <<gate, fd>>

\* fail: the owner closes, or the connection breaks; the other reader notices.
Fail(p) ==
  /\ Live(p) /\ (MayFail \/ ~Live(Other(p)))
  /\ error' = [error EXCEPT ![p] = "ECONNRESET"]
  /\ UNCHANGED <<st, last, inbound, gate, controls, sock, refs, fd>>

\* Mutant of MayClose: the descriptor is closed under a writer.
MayCloseNow(p) == TRUE

MayClose(p) == gate[p] = NoFrame

\* np_file2_session_close, after its threads have ended.
Close(p) ==
  /\ ~Live(p) /\ fd[p] /\ MayClose(p)
  /\ fd' = [fd EXCEPT ![p] = FALSE]
  /\ LET gone == {i \in Streams : st[p][i].known /\ ~st[p][i].ref} IN
     /\ st' = [st EXCEPT ![p] = [i \in Streams |-> IF i \in gone THEN [Fresh EXCEPT !.used = TRUE] ELSE @[i]]]
     /\ refs' = [refs EXCEPT ![p] = @ - 1 - Cardinality(gone)]
     /\ inbound' = [inbound EXCEPT ![p] = @ - Cardinality({i \in gone : Responder(p, i)})]
  /\ UNCHANGED <<last, gate, controls, sock, error>>

---------------------------------------------------------------------------
Caller(p) == \E i \in Streams, e \in BOOLEAN :
  Request(p, i, e) \/ Respond(p, i, e) \/ Receive(p, i) \/ Cancel(p, i) \/ Release(p, i)
  \/ \E n \in {0, 1} : Send(p, i, n, e)
Next == \E p \in Peers : Caller(p) \/ Written(p) \/ WriteControl(p) \/ Read(p) \/ Fail(p) \/ Close(p)

Spec == Init /\ [][Next]_vars
\* Threads run; callers may do nothing.
Steps == \E p \in Peers : Written(p) \/ WriteControl(p) \/ Read(p)

---------------------------------------------------------------------------
\* Properties.

TypeOK == \A p \in Peers :
  /\ inbound[p] \in 0 .. MaxInbound /\ Len(sock[p]) <= Socket /\ Len(controls[p]) <= MaxControl
  /\ \A i \in Streams : st[p][i].sent \in 0 .. DataMax /\ st[p][i].received \in 0 .. DataMax

\* Two correct peers never break the protocol for each other, however ends,
\* cancels, refusals and releases of the two sides cross on the wire.
NoProtocolError == \A p \in Peers : error[p] \notin {"EPROTO", "ENOBUFS"}

\* Every stream a peer knows holds a session reference and, if the other side
\* opened it, one of its inbound slots.
StreamsCounted == \A p \in Peers :
  LET known == {i \in Streams : st[p][i].known} IN
  /\ refs[p] = Cardinality(known) + (IF fd[p] THEN 1 ELSE 0)
  /\ inbound[p] = Cardinality({i \in known : Responder(p, i)})

\* A receiver that sees the peer's end has read everything the peer sent.
EndMeansAll(p, i) ==
  st[p][i].saw /\ st[p][i].known /\ st[Other(p)][i].known => st[p][i].read = st[Other(p)][i].sent

\* What arrives is what was sent: all of it before the end, in order and once.
DataArrives ==
  /\ [](\A p \in Peers, i \in Streams : EndMeansAll(p, i))
  /\ [][\A p \in Peers, i \in Streams : st'[p][i].read \in {st[p][i].read, st[p][i].read + 1}]_st

\* No writer is inside send() once the descriptor may be reused.
NoWriteAfterClose == \A p \in Peers : fd[p] \/ gate[p] = NoFrame

\* Streams, session references and the descriptor are given up together.
SessionKept == StreamsCounted /\ NoWriteAfterClose

\* Who waits: a writer behind full buffers in both directions, and a request the
\* peer has no room for.
Waits(k) ==
  \/ k = 1 /\ \E p \in Peers : gate[p] # NoFrame
  \/ k = 2 /\ \E p \in Peers : \E i \in Own(p) : st[p][i].known /\ ~st[p][i].cancelled
=============================================================================
