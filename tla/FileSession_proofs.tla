-------------------------- MODULE FileSession_proofs ---------------------------
(***************************************************************************)
(* What two correct peers may rely on, for any streams, limits and socket     *)
(* sizes: they never find each other in breach of the protocol, data arrive     *)
(* in order, an end comes after everything before it, and streams, slots       *)
(* and references are given up together.                                     *)
(*                                                                         *)
(* The proof follows the frames that are on their way.  Pipe[p] is what p    *)
(* has written, or is writing, and the other peer has not read.  Cancels,      *)
(* releases and refusals may make the reader deaf to a stream at any         *)
(* moment, so that the invariant speaks of what the reader still hears.      *)
(***************************************************************************)
EXTENDS FileSession, FiniteSetTheorems, SequenceTheorems, TLAPS

\* What the two ends agree on: the host's ids are even and the guest's odd, so
\* that no id belongs to both, and zero to none.
Numbering ==
  /\ Guest \subseteq Nat \ {0} /\ Host \subseteq Nat \ {0} /\ Guest \cap Host = {}
  /\ IsFiniteSet(Streams)
  /\ DataMax \in Nat /\ MaxInbound \in Nat /\ Socket \in Nat /\ MaxControl \in Nat

---------------------------------------------------------------------------
\* Types.

Frames == {f \in [type : {"request", "response", "data", "cancel"}, id : Streams, n : 0 .. DataMax, end : BOOLEAN] :
             (f.type # "data" => f.n = 0) /\ (f.type = "cancel" => ~f.end)}
StreamStates == [known : BOOLEAN, ref : BOOLEAN, responded : BOOLEAN, mine : BOOLEAN, theirs : BOOLEAN,
                 cancelled : BOOLEAN, sent : 0 .. DataMax, received : 0 .. DataMax, inbox : Seq(Nat),
                 used : BOOLEAN, read : Nat, saw : BOOLEAN]

Types ==
  /\ st \in [Peers -> [Streams -> StreamStates]]
  /\ last \in [Peers -> Nat] /\ inbound \in [Peers -> Int] /\ refs \in [Peers -> Int]
  /\ gate \in [Peers -> Frames \cup {NoFrame}] /\ sock \in [Peers -> Seq(Frames)]
  /\ controls \in [Peers -> Seq(Streams)]
  /\ error \in [Peers -> {"none", "EPROTO", "ENOBUFS", "ECONNRESET"}]
  /\ fd \in [Peers -> BOOLEAN]

\* The frames between p and the other peer, the one p is writing included.
Pipe == [p \in Peers |-> IF gate[p] = NoFrame THEN sock[p] ELSE Append(sock[p], gate[p])]
\* The streams a peer has opened or has been asked for.
Met == [p \in Peers |-> {i \in Streams : IF i \in Own(p) THEN st[p][i].used ELSE i <= last[p]}]
\* The streams whose frames mean something to a peer: those it keeps, and those to come.
Hears == [p \in Peers |-> {i \in Streams : i \notin Met[p] \/ (st[p][i].known /\ ~st[p][i].cancelled)}]

---------------------------------------------------------------------------
\* The other peer.

LEMMA Two ==
  /\ \A p \in Peers : Other(p) \in Peers /\ Other(p) # p /\ Other(Other(p)) = p
  /\ \A p, x \in Peers : x = p \/ x = Other(p)
  /\ \A p \in Peers : Own(p) \subseteq Streams
BY DEF Peers, Other, Own, Streams

LEMMA OneOwner == ASSUME Numbering PROVE \A p \in Peers, i \in Streams : i \in Own(p) <=> i \notin Own(Other(p))
BY DEF Peers, Other, Own, Streams, Numbering

LEMMA Ids == ASSUME Numbering PROVE /\ Streams \subseteq Nat \ {0}
                                    /\ \A p \in Peers : \A i \in Own(p) : i \in Nat \ {0}
BY DEF Streams, Numbering, Own

LEMMA NoFrameIsNone == NoFrame \notin Frames
BY DEF NoFrame, Frames

LEMMA FreshTyped == ASSUME Numbering PROVE Fresh \in StreamStates
<1>1. <<>> \in Seq(Nat)
  OBVIOUS
<1> QED BY <1>1 DEF Fresh, StreamStates, Numbering

LEMMA FreshSays ==
  /\ ~Fresh.known /\ ~Fresh.ref /\ ~Fresh.responded /\ ~Fresh.mine /\ ~Fresh.theirs /\ ~Fresh.cancelled
  /\ Fresh.sent = 0 /\ Fresh.received = 0 /\ Fresh.inbox = <<>> /\ ~Fresh.used /\ Fresh.read = 0 /\ ~Fresh.saw
BY DEF Fresh

LEMMA MetMeans == \A p \in Peers, i \in Streams :
  /\ i \in Met[p] <=> IF i \in Own(p) THEN st[p][i].used ELSE i <= last[p]
  /\ i \in Hears[p] <=> i \notin Met[p] \/ (st[p][i].known /\ ~st[p][i].cancelled)
BY DEF Met, Hears

LEMMA MetMeansNext == \A p \in Peers, i \in Streams :
  /\ i \in Met'[p] <=> IF i \in Own(p) THEN st'[p][i].used ELSE i <= last'[p]
  /\ i \in Hears'[p] <=> i \notin Met'[p] \/ (st'[p][i].known /\ ~st'[p][i].cancelled)
BY DEF Met, Hears

LEMMA SubsetsOfStreams == \A p \in Peers : Met[p] \subseteq Streams /\ Hears[p] \subseteq Streams
BY DEF Met, Hears

LEMMA SubsetsOfStreamsNext == \A p \in Peers : Met'[p] \subseteq Streams /\ Hears'[p] \subseteq Streams
BY DEF Met, Hears

\* A stream's state is replaced, and no other.
LEMMA SetChanges ==
  ASSUME Types, NEW p \in Peers, NEW i \in Streams, NEW s \in StreamStates, Set(p, i, s)
  PROVE  /\ st' \in [Peers -> [Streams -> StreamStates]]
         /\ st'[p][i] = s
         /\ \A x \in Peers, j \in Streams : x # p \/ j # i => st'[x][j] = st[x][j]
BY DEF Types, Set

---------------------------------------------------------------------------
\* The frames on their way: what the steps do to them.

LEMMA PipeTyped == ASSUME Types PROVE \A p \in Peers : Pipe[p] \in Seq(Frames)
<1> SUFFICES ASSUME NEW p \in Peers PROVE Pipe[p] \in Seq(Frames)
  OBVIOUS
<1>1. CASE gate[p] = NoFrame
  BY <1>1 DEF Pipe, Types
<1>2. CASE gate[p] # NoFrame
  <2>1. gate[p] \in Frames /\ sock[p] \in Seq(Frames)
    BY <1>2 DEF Types
  <2>2. Append(sock[p], gate[p]) \in Seq(Frames)
    BY <2>1, AppendProperties
  <2> QED BY <1>2, <2>2 DEF Pipe
<1> QED BY <1>1, <1>2

LEMMA FramesSay == ASSUME Numbering, NEW f \in Frames
  PROVE  /\ f.type \in {"request", "response", "data", "cancel"} /\ f.id \in Streams /\ f.n \in 0 .. DataMax
         /\ f.n \in Nat /\ f.end \in BOOLEAN /\ (f.n > 0 => f.type = "data") /\ (f.type = "cancel" => ~f.end)
BY DEF Frames, Numbering

\* A frame enters the gate.
Puts(p, f) == /\ Len(Pipe'[p]) = Len(Pipe[p]) + 1
              /\ \A k \in 1 .. Len(Pipe[p]) : Pipe'[p][k] = Pipe[p][k]
              /\ Pipe'[p][Len(Pipe[p]) + 1] = f
              /\ Pipe'[Other(p)] = Pipe[Other(p)]

LEMMA AcquirePuts ==
  ASSUME Types, NEW p \in Peers, NEW f \in Frames, Acquire(p, f), sock' = sock
  PROVE  Puts(p, f) /\ Live(p) /\ gate' \in [Peers -> Frames \cup {NoFrame}]
<1>1. Pipe[p] = sock[p] /\ Pipe[p] \in Seq(Frames)
  BY PipeTyped DEF Acquire, Pipe
<1>2. Pipe'[p] = Append(sock[p], f)
  BY NoFrameIsNone DEF Pipe, Acquire, Types
<1>3. Pipe'[Other(p)] = Pipe[Other(p)]
  BY Two DEF Pipe, Acquire, Types
<1> QED BY <1>1, <1>2, <1>3, AppendProperties DEF Puts, Acquire, Types

\* A reader takes the first frame.
Takes(q, f) == /\ Len(Pipe[q]) > 0 /\ Pipe[q][1] = f
               /\ Len(Pipe'[q]) = Len(Pipe[q]) - 1
               /\ \A k \in 1 .. Len(Pipe'[q]) : Pipe'[q][k] = Pipe[q][k + 1]
               /\ Pipe'[Other(q)] = Pipe[Other(q)]

LEMMA Before == \A n \in Nat : \A k \in 1 .. n : k # n => k \in 1 .. n - 1 /\ k + 1 \in 1 .. n
OBVIOUS

LEMMA TailTakes ==
  ASSUME NEW S, NEW s \in Seq(S), s # <<>>, NEW e \in S
  PROVE  /\ Len(s) > 0 /\ s[1] = Head(s) /\ Len(Tail(s)) = Len(s) - 1
         /\ \A k \in 1 .. Len(Tail(s)) : Tail(s)[k] = s[k + 1]
         /\ Len(Append(s, e)) = Len(s) + 1 /\ Append(s, e)[1] = Head(s)
         /\ Len(Append(Tail(s), e)) = Len(s)
         /\ \A k \in 1 .. Len(s) : Append(Tail(s), e)[k] = Append(s, e)[k + 1]
<1>1. /\ Tail(s) \in Seq(S) /\ Len(Tail(s)) = Len(s) - 1 /\ Len(s) \in Nat /\ Len(s) > 0 /\ Head(s) = s[1]
      /\ \A k \in 1 .. Len(Tail(s)) : Tail(s)[k] = s[k + 1]
  BY HeadTailProperties, LenProperties, EmptySeq
<1>2. /\ Len(Append(s, e)) = Len(s) + 1
      /\ \A k \in 1 .. Len(s) : Append(s, e)[k] = s[k]
      /\ Append(s, e)[Len(s) + 1] = e
  BY AppendProperties
<1>3. /\ Len(Append(Tail(s), e)) = Len(Tail(s)) + 1
      /\ \A k \in 1 .. Len(Tail(s)) : Append(Tail(s), e)[k] = Tail(s)[k]
      /\ Append(Tail(s), e)[Len(Tail(s)) + 1] = e
  BY <1>1, AppendProperties
<1>4. ASSUME NEW k \in 1 .. Len(s) PROVE Append(Tail(s), e)[k] = Append(s, e)[k + 1]
  <2>1. CASE k = Len(s)
    BY <2>1, <1>1, <1>2, <1>3
  <2>2. CASE k # Len(s)
    <3>1. k \in 1 .. Len(Tail(s)) /\ k + 1 \in 1 .. Len(s)
      BY <2>2, <1>1, Before
    <3>2. Append(Tail(s), e)[k] = Tail(s)[k] /\ Tail(s)[k] = s[k + 1] /\ Append(s, e)[k + 1] = s[k + 1]
      BY <3>1, <1>1, <1>2, <1>3
    <3> QED BY <3>2
  <2> QED BY <2>1, <2>2
<1>5. Append(s, e)[1] = Head(s) /\ Len(Append(Tail(s), e)) = Len(s)
  BY <1>1, <1>2, <1>3
<1> QED BY <1>1, <1>2, <1>4, <1>5

LEMMA ReadTakes ==
  ASSUME Types, NEW q \in Peers, sock[q] # <<>>, sock' = [sock EXCEPT ![q] = Tail(@)], gate' = gate
  PROVE  Takes(q, Head(sock[q])) /\ sock' \in [Peers -> Seq(Frames)] /\ Head(sock[q]) \in Frames
         /\ \A p \in Peers : Len(sock'[p]) <= Len(sock[p])
<1>1. sock[q] \in Seq(Frames) /\ Head(sock[q]) \in Frames /\ Tail(sock[q]) \in Seq(Frames)
  BY HeadTailProperties DEF Types
<1>2. Pipe'[Other(q)] = Pipe[Other(q)]
  BY Two DEF Pipe, Types
<1>3. CASE gate[q] = NoFrame
  <2>1. Pipe[q] = sock[q] /\ Pipe'[q] = Tail(sock[q])
    BY <1>3 DEF Pipe, Types
  <2> QED BY <2>1, <1>1, <1>2, TailTakes, LenProperties DEF Takes, Types
<1>4. CASE gate[q] # NoFrame
  <2>1. Pipe[q] = Append(sock[q], gate[q]) /\ Pipe'[q] = Append(Tail(sock[q]), gate[q]) /\ gate[q] \in Frames
    BY <1>4 DEF Pipe, Types
  <2>2. /\ Len(sock[q]) > 0 /\ Len(Tail(sock[q])) = Len(sock[q]) - 1
        /\ Len(Append(sock[q], gate[q])) = Len(sock[q]) + 1 /\ Append(sock[q], gate[q])[1] = Head(sock[q])
        /\ Len(Append(Tail(sock[q]), gate[q])) = Len(sock[q])
        /\ \A k \in 1 .. Len(sock[q]) : Append(Tail(sock[q]), gate[q])[k] = Append(sock[q], gate[q])[k + 1]
    BY <1>1, <2>1, TailTakes
  <2>3. Len(sock[q]) \in Nat
    BY <1>1, LenProperties
  <2>4. Takes(q, Head(sock[q]))
    BY <2>1, <2>2, <2>3, <1>2 DEF Takes
  <2>5. \A p \in Peers : Len(sock'[p]) <= Len(sock[p])
    <3>1. sock'[q] = Tail(sock[q]) /\ \A p \in Peers : p # q => sock'[p] = sock[p]
      BY DEF Types
    <3>2. \A p \in Peers : Len(sock[p]) \in Nat
      BY LenProperties DEF Types
    <3> QED BY <3>1, <3>2, <2>2
  <2> QED BY <2>4, <2>5, <1>1 DEF Types
<1> QED BY <1>3, <1>4

\* A frame reaches the socket, or is lost with its session.
Keeps(p) == \/ Pipe'[p] = Pipe[p]
            \/ /\ ~Live(p) /\ Len(Pipe'[p]) = Len(Pipe[p]) - 1
               /\ \A k \in 1 .. Len(Pipe'[p]) : Pipe'[p][k] = Pipe[p][k]

LEMMA WrittenKeeps ==
  ASSUME Types, NEW p \in Peers, Written(p)
  PROVE  /\ Keeps(p) /\ Pipe'[Other(p)] = Pipe[Other(p)]
         /\ sock' \in [Peers -> Seq(Frames)] /\ gate' \in [Peers -> Frames \cup {NoFrame}]
<1>1. sock[p] \in Seq(Frames) /\ gate[p] \in Frames /\ Pipe[p] = Append(sock[p], gate[p])
  BY DEF Written, Types, Pipe
<1>2. Append(sock[p], gate[p]) \in Seq(Frames) /\ Len(Append(sock[p], gate[p])) = Len(sock[p]) + 1
      /\ \A k \in 1 .. Len(sock[p]) : Append(sock[p], gate[p])[k] = sock[p][k]
  BY <1>1, AppendProperties
<1>3. Pipe'[Other(p)] = Pipe[Other(p)]
  BY Two DEF Written, Pipe, Types
<1>4. CASE Live(p) /\ sock' = [sock EXCEPT ![p] = Append(@, gate[p])]
  <2>1. Pipe'[p] = Pipe[p]
    BY <1>4, <1>1 DEF Written, Pipe, Types
  <2> QED BY <2>1, <1>3, <1>4, <1>2 DEF Keeps, Written, Types
<1>5. CASE ~Live(p) /\ sock' = sock
  <2>1. Pipe'[p] = sock[p]
    BY <1>5 DEF Written, Pipe, Types
  <2>2. Len(sock[p]) \in Nat
    BY <1>1, LenProperties
  <2>3. Keeps(p)
    BY <2>1, <2>2, <1>1, <1>2, <1>5 DEF Keeps
  <2> QED BY <2>3, <1>3, <1>5, <1>1 DEF Written, Types
<1> QED BY <1>4, <1>5 DEF Written

---------------------------------------------------------------------------
\* The invariant, per direction and stream: p sends stream i and Other(p) reads it.

\* Where the frames of a stream are in the pipe, its cancels left out.
Places == [p \in Peers |-> [i \in Streams |->
  {k \in 1 .. Len(Pipe[p]) : Pipe[p][k].type # "cancel" /\ Pipe[p][k].id = i}]]

\* A stream is opened by its owner, before anything else of it.
Introduced == [p \in Peers |-> {i \in Streams : \A k \in Places[p][i] :
  /\ i \in Met[p]
  /\ Pipe[p][k].type = "request" => i \in Own(p)
  /\ Pipe[p][k].type = "response" => i \notin Own(p)
  /\ Pipe[p][k].type = "data" /\ i \in Own(p) =>
       i \in Met[Other(p)] \/ \E j \in Places[p][i] : j < k /\ Pipe[p][j].type = "request"}]

\* What is on its way has been noted by its sender.
Noted == [p \in Peers |-> {i \in Streams : \A k \in Places[p][i] : st[p][i].known =>
  /\ Pipe[p][k].end => st[p][i].mine
  /\ Pipe[p][k].type # "request" /\ i \notin Own(p) => st[p][i].responded
  /\ Pipe[p][k].n <= st[p][i].sent}]

\* Only data follow, with rising numbers, and nothing follows an end.
Ordered == [p \in Peers |-> {i \in Streams : \A j, k \in Places[p][i] : j < k =>
  /\ ~Pipe[p][j].end /\ Pipe[p][k].type = "data"
  /\ Pipe[p][k].n > 0 => Pipe[p][j].n < Pipe[p][k].n}]

\* A reader that still hears the stream expects each of its frames.
Expected == [p \in Peers |-> {i \in Streams : i \in Hears[Other(p)] => \A k \in Places[p][i] :
  /\ ~st[Other(p)][i].theirs
  /\ Pipe[p][k].type = "response" => ~st[Other(p)][i].responded
  /\ Pipe[p][k].type = "data" /\ i \notin Own(p) =>
       st[Other(p)][i].responded \/ \E j \in Places[p][i] : j < k /\ Pipe[p][j].type = "response"
  /\ Pipe[p][k].n > 0 =>
       /\ Pipe[p][k].n > st[Other(p)][i].received
       /\ \/ Pipe[p][k].n = st[Other(p)][i].received + 1
          \/ Pipe[p][k].n > 1 /\ \E j \in Places[p][i] : j < k /\ Pipe[p][j].n = Pipe[p][k].n - 1
  /\ Pipe[p][k].end /\ st[p][i].known =>
       \/ st[p][i].sent = st[Other(p)][i].received
       \/ st[p][i].sent > 0 /\ \E j \in Places[p][i] : j <= k /\ Pipe[p][j].n = st[p][i].sent}]

\* What the reader has seen of the sender's half is so, and the rest is on its way.
Agreed == [p \in Peers |-> {i \in Streams : i \in Hears[Other(p)] /\ st[p][i].known =>
  /\ st[Other(p)][i].theirs => st[p][i].mine /\ st[p][i].sent = st[Other(p)][i].received
  /\ st[Other(p)][i].responded /\ i \notin Own(p) => st[p][i].responded
  /\ error[p] = "none" =>
       \/ st[p][i].sent = st[Other(p)][i].received
       \/ st[p][i].sent > 0 /\ \E k \in Places[p][i] : Pipe[p][k].n = st[p][i].sent
  /\ error[p] = "none" /\ i \in Own(p) =>
       i \in Met[Other(p)] \/ \E k \in Places[p][i] : Pipe[p][k].type = "request"
  /\ error[p] = "none" /\ i \notin Own(p) /\ st[p][i].responded =>
       st[Other(p)][i].responded \/ \E k \in Places[p][i] : Pipe[p][k].type = "response"}]

Streamed == \A p \in Peers : \A i \in Streams :
  /\ i \in Introduced[p] /\ i \in Noted[p] /\ i \in Ordered[p] /\ i \in Expected[p] /\ i \in Agreed[p]

\* Requests arrive with rising ids.
Rises == {p \in Peers : \A i, j \in Streams : \A k \in Places[p][i], l \in Places[p][j] :
  /\ Pipe[p][k].type = "request" => i \notin Met[Other(p)]
  /\ Pipe[p][k].type = "request" /\ Pipe[p][l].type = "request" /\ l < k => j < i}

\* What a peer knows of a stream.
Sensible == [p \in Peers |-> {i \in Streams :
  /\ i \notin Met[p] => st[p][i] = Fresh
  /\ st[p][i].known <=> st[p][i].ref
  /\ i \in Own(p) /\ i \in Met[Other(p)] => i \in Met[p]
  /\ i \in Own(p) /\ st[p][i].responded => i \in Met[Other(p)]
  /\ i \in Own(p) /\ ~st[p][i].responded => st[p][i].received = 0 /\ ~st[p][i].theirs
  /\ st[p][i].known /\ st[p][i].saw => st[p][i].theirs
  /\ \A j \in Own(p) : i \in Own(p) /\ i \in Met[p] /\ j < i => j \in Met[p]}]

\* The inbox holds the data between what was read and what was received.
Stored == [p \in Peers |-> {i \in Streams :
  /\ st[p][i].cancelled => st[p][i].inbox = <<>>
  /\ st[p][i].known /\ ~st[p][i].cancelled =>
       /\ Len(st[p][i].inbox) <= st[p][i].received + 1
       /\ st[p][i].read = IF Len(st[p][i].inbox) > st[p][i].received THEN 0
                          ELSE st[p][i].received - Len(st[p][i].inbox)
       /\ \A k \in 1 .. Len(st[p][i].inbox) :
            st[p][i].inbox[k] = st[p][i].received - Len(st[p][i].inbox) + k
       /\ i \in Own(p) /\ ~st[p][i].responded => st[p][i].inbox = <<>>}]

\* Who has seen the end has read all of a half that is closed.
Finished == [p \in Peers |-> {i \in Streams :
  st[p][i].known /\ st[Other(p)][i].known /\ st[Other(p)][i].saw =>
    st[p][i].mine /\ st[Other(p)][i].read = st[p][i].sent}]

Agreement ==
  /\ Types /\ Streamed
  /\ \A p \in Peers : p \in Rises
  /\ \A p \in Peers : \A i \in Streams : i \in Sensible[p] /\ i \in Stored[p] /\ i \in Finished[p]

---------------------------------------------------------------------------
\* How places move.

LEMMA PlacesAreNumbers == ASSUME Types, NEW p \in Peers, NEW i \in Streams
  PROVE /\ Places[p][i] \subseteq Nat
        /\ \A k \in Places[p][i] : Pipe[p][k] \in Frames /\ Pipe[p][k].type # "cancel" /\ Pipe[p][k].id = i /\ k >= 1
BY PipeTyped, LenProperties, ElementOfSeq DEF Places

\* The places of a stream in a pipe whose first d frames were read and that
\* may have lost its last.
Shifts(p, i, d) ==
  /\ d \in {0, 1}
  /\ \A k \in Places'[p][i] : k + d \in Places[p][i] /\ Pipe'[p][k] = Pipe[p][k + d]
  /\ \A j \in Places[p][i] : \A k \in Places'[p][i] : j > d /\ j < k + d => j - d \in Places'[p][i]
  /\ error[p] = "none" => \A j \in Places[p][i] : j > d => j - d \in Places'[p][i]

\* Nothing that the reader hears was read.
Passes(p, i) == \E d \in {0, 1} :
  /\ Shifts(p, i, d)
  /\ i \in Hears'[Other(p)] => \A j \in Places[p][i] : j > d
  /\ i \notin Met'[Other(p)] => \A j \in Places[p][i] : j > d

\* The ends change nothing that the frames of the stream are about, or forget it.
Fades(p, i) ==
  /\ i \in Met[p] => i \in Met'[p]
  /\ i \in Met[Other(p)] => i \in Met'[Other(p)]
  /\ i \in Hears'[Other(p)] => i \in Hears[Other(p)]
  /\ i \notin Hears'[Other(p)] => i \in Met'[Other(p)]
  /\ st'[p][i].known =>
       /\ st[p][i].known
       /\ st'[p][i].mine = st[p][i].mine /\ st'[p][i].sent = st[p][i].sent
       /\ i \notin Own(p) => st'[p][i].responded = st[p][i].responded
  /\ i \in Hears'[Other(p)] =>
       /\ st'[Other(p)][i].theirs = st[Other(p)][i].theirs
       /\ st'[Other(p)][i].received = st[Other(p)][i].received
       /\ i \notin Own(p) => st'[Other(p)][i].responded = st[Other(p)][i].responded
  /\ error'[p] = "none" => error[p] = "none"

LEMMA Bystander ==
  ASSUME Numbering, Types, Streamed, NEW p \in Peers, NEW i \in Streams, Passes(p, i), Fades(p, i)
  PROVE  /\ i \in Introduced'[p] /\ i \in Noted'[p] /\ i \in Ordered'[p]
         /\ i \in Expected'[p] /\ i \in Agreed'[p]
<1>1. PICK d \in {0, 1} : /\ Shifts(p, i, d)
                          /\ i \in Hears'[Other(p)] => \A j \in Places[p][i] : j > d
                          /\ i \notin Met'[Other(p)] => \A j \in Places[p][i] : j > d
  BY DEF Passes
<1>2. /\ i \in Introduced[p] /\ i \in Noted[p] /\ i \in Ordered[p] /\ i \in Expected[p] /\ i \in Agreed[p]
  BY DEF Streamed
<1>3. Other(p) \in Peers
  BY Two
<1>4. /\ Places[p][i] \subseteq Nat /\ Places'[p][i] \subseteq Int
      /\ \A k \in Places[p][i] : Pipe[p][k] \in Frames
  BY <1>1, PlacesAreNumbers DEF Places, Shifts
<1>5. \A k \in Places[p][i] : Pipe[p][k].n \in Nat /\ (Pipe[p][k].type = "response" => Pipe[p][k].n = 0)
  BY <1>4, FramesSay
<1>6. i \in Introduced'[p]
  BY <1>1, <1>2, <1>3, <1>4 DEF Introduced, Shifts, Fades
<1>7. i \in Noted'[p]
  BY <1>1, <1>2, <1>3, <1>4 DEF Noted, Shifts, Fades
<1>8. i \in Ordered'[p]
  BY <1>1, <1>2, <1>3, <1>4 DEF Ordered, Shifts
<1>9. i \in Expected'[p]
  <2> DEFINE q == Other(p)
  <2> SUFFICES ASSUME i \in Hears'[q], NEW k \in Places'[p][i]
               PROVE  /\ ~st'[q][i].theirs
                      /\ Pipe'[p][k].type = "response" => ~st'[q][i].responded
                      /\ Pipe'[p][k].type = "data" /\ i \notin Own(p) =>
                           \/ st'[q][i].responded
                           \/ \E j \in Places'[p][i] : j < k /\ Pipe'[p][j].type = "response"
                      /\ Pipe'[p][k].n > 0 =>
                           /\ Pipe'[p][k].n > st'[q][i].received
                           /\ \/ Pipe'[p][k].n = st'[q][i].received + 1
                              \/ Pipe'[p][k].n > 1 /\ \E j \in Places'[p][i] : j < k /\ Pipe'[p][j].n = Pipe'[p][k].n - 1
                      /\ Pipe'[p][k].end /\ st'[p][i].known =>
                           \/ st'[p][i].sent = st'[q][i].received
                           \/ st'[p][i].sent > 0 /\ \E j \in Places'[p][i] : j <= k /\ Pipe'[p][j].n = st'[p][i].sent
    BY DEF Expected
  <2> HIDE DEF q
  <2>1. /\ i \in Hears[q] /\ st'[q][i].theirs = st[q][i].theirs /\ st'[q][i].received = st[q][i].received
        /\ i \notin Own(p) => st'[q][i].responded = st[q][i].responded
        /\ \A j \in Places[p][i] : j > d
    BY <1>1 DEF Fades, q
  <2>2. /\ k + d \in Places[p][i] /\ Pipe'[p][k] = Pipe[p][k + d] /\ k \in Int
        /\ \A j \in Places[p][i] : j < k + d => j - d \in Places'[p][i] /\ Pipe'[p][j - d] = Pipe[p][j] /\ j - d < k
    <3>1. k + d \in Places[p][i] /\ Pipe'[p][k] = Pipe[p][k + d] /\ k \in Int
      BY <1>1, <1>4 DEF Shifts
    <3>2. ASSUME NEW j \in Places[p][i], j < k + d
          PROVE  j - d \in Places'[p][i] /\ Pipe'[p][j - d] = Pipe[p][j] /\ j - d < k
      <4>1. j > d /\ j - d \in Places'[p][i]
        BY <2>1, <3>2, <1>1 DEF Shifts
      <4>2. (j - d) + d = j /\ j - d < k
        BY <3>1, <3>2, <1>4
      <4> QED BY <4>1, <4>2, <1>1 DEF Shifts
    <3> QED BY <3>1, <3>2
  <2>3. i \in Expected[p] /\ i \in Introduced[p]
    BY <1>2
  <2>4. /\ ~st'[q][i].theirs
        /\ Pipe'[p][k].type = "response" => ~st'[q][i].responded
    BY <2>1, <2>2, <2>3 DEF Expected, Introduced, q
  <2>5. Pipe'[p][k].type = "data" /\ i \notin Own(p) =>
          st'[q][i].responded \/ \E j \in Places'[p][i] : j < k /\ Pipe'[p][j].type = "response"
    BY <2>1, <2>2, <2>3 DEF Expected, q
  <2>6. Pipe'[p][k].n > 0 =>
          /\ Pipe'[p][k].n > st'[q][i].received
          /\ \/ Pipe'[p][k].n = st'[q][i].received + 1
             \/ Pipe'[p][k].n > 1 /\ \E j \in Places'[p][i] : j < k /\ Pipe'[p][j].n = Pipe'[p][k].n - 1
    BY <2>1, <2>2, <2>3, <1>4 DEF Expected, q
  <2>7. ASSUME Pipe'[p][k].end, st'[p][i].known
        PROVE  \/ st'[p][i].sent = st'[q][i].received
               \/ st'[p][i].sent > 0 /\ \E j \in Places'[p][i] : j <= k /\ Pipe'[p][j].n = st'[p][i].sent
    <3>1. st[p][i].known /\ st'[p][i].sent = st[p][i].sent
      BY <2>7 DEF Fades
    <3>2. \/ st[p][i].sent = st[q][i].received
          \/ st[p][i].sent > 0 /\ \E j \in Places[p][i] : j <= k + d /\ Pipe[p][j].n = st[p][i].sent
      BY <2>7, <3>1, <2>1, <2>2, <2>3 DEF Expected, q
    <3>3. ASSUME NEW j \in Places[p][i], j <= k + d, Pipe[p][j].n = st[p][i].sent
          PROVE  \E l \in Places'[p][i] : l <= k /\ Pipe'[p][l].n = st'[p][i].sent
      <4>1. CASE j = k + d
        BY <4>1, <3>3, <3>1, <2>2
      <4>2. CASE j < k + d
        BY <4>2, <3>3, <3>1, <2>2, <1>4
      <4> QED BY <3>3, <4>1, <4>2, <2>2, <1>4
    <3> QED BY <3>1, <3>2, <3>3, <2>1
  <2> QED BY <2>4, <2>5, <2>6, <2>7
<1>10. i \in Agreed'[p]
  BY <1>1, <1>2, <1>3, <1>4, <1>5 DEF Agreed, Shifts, Fades
<1> QED BY <1>6, <1>7, <1>8, <1>9, <1>10

LEMMA LenNat == ASSUME Types PROVE \A p \in Peers : Len(Pipe[p]) \in Nat
BY PipeTyped, LenProperties

LEMMA Unmoved == ASSUME Types, NEW p \in Peers, NEW i \in Streams, Shifts(p, i, 0) PROVE Passes(p, i)
<1>1. \A j \in Places[p][i] : j > 0
  BY PlacesAreNumbers
<1> QED BY <1>1 DEF Passes

LEMMA StillPasses == ASSUME Types, NEW p \in Peers, NEW i \in Streams, Pipe'[p] = Pipe[p] PROVE Shifts(p, i, 0) /\ Passes(p, i)
<1>1. Places'[p][i] = Places[p][i] /\ Places[p][i] \subseteq Nat
  BY PlacesAreNumbers DEF Places
<1>2. Shifts(p, i, 0)
  BY <1>1 DEF Shifts
<1> QED BY <1>2, Unmoved

LEMMA KeepsPasses == ASSUME Types, NEW p \in Peers, NEW i \in Streams, Keeps(p) PROVE Shifts(p, i, 0) /\ Passes(p, i)
<1>1. CASE Pipe'[p] = Pipe[p]
  BY <1>1, StillPasses
<1>2. CASE /\ ~Live(p) /\ Len(Pipe'[p]) = Len(Pipe[p]) - 1
           /\ \A k \in 1 .. Len(Pipe'[p]) : Pipe'[p][k] = Pipe[p][k]
  <2>1. Len(Pipe[p]) \in Nat
    BY LenNat
  <2>2. \A k \in Places'[p][i] : k \in Places[p][i] /\ Pipe'[p][k] = Pipe[p][k] /\ k \in Nat
    BY <1>2, <2>1 DEF Places
  <2>3. \A j \in Places[p][i] : \A k \in Places'[p][i] : j < k => j \in Places'[p][i]
    BY SMTT(60), <1>2, <2>1 DEF Places
  <2>4. Places[p][i] \subseteq Nat
    BY PlacesAreNumbers
  <2>5. Shifts(p, i, 0)
    BY <1>2, <2>2, <2>3, <2>4 DEF Shifts, Live
  <2> QED BY <2>5, Unmoved
<1> QED BY <1>1, <1>2 DEF Keeps

LEMMA PutsElsewhere ==
  ASSUME Types, NEW p \in Peers, NEW f \in Frames, Puts(p, f), NEW x \in Peers, NEW i \in Streams,
         x # p \/ i # f.id \/ f.type = "cancel"
  PROVE  Shifts(x, i, 0) /\ Passes(x, i)
<1>1. CASE x # p
  BY <1>1, Two, StillPasses DEF Puts
<1>2. CASE x = p
  <2>1. Len(Pipe[p]) \in Nat
    BY LenNat
  <2>2. \A k \in Places'[p][i] : k \in Places[p][i] /\ Pipe'[p][k] = Pipe[p][k] /\ k \in Nat
    BY <1>2, <2>1 DEF Places, Puts
  <2>3. \A j \in Places[p][i] : j \in Places'[p][i] /\ j \in Nat
    BY <1>2, <2>1 DEF Places, Puts
  <2>4. Shifts(p, i, 0)
    BY <2>2, <2>3 DEF Shifts
  <2> QED BY <1>2, <2>4, Unmoved
<1> QED BY <1>1, <1>2

\* One place more, behind all others.
Grows(p, i, f, n) ==
  /\ n \in Nat /\ n \notin Places[p][i] /\ Places'[p][i] = Places[p][i] \cup {n} /\ Pipe'[p][n] = f
  /\ \A j \in Places[p][i] : j < n /\ Pipe'[p][j] = Pipe[p][j]

LEMMA PutsHere ==
  ASSUME Types, NEW p \in Peers, NEW f \in Frames, Puts(p, f), f.type # "cancel", f.id \in Streams
  PROVE  /\ Grows(p, f.id, f, Len(Pipe[p]) + 1)
         /\ \A j \in Streams : \A k \in Places[p][j] : k < Len(Pipe[p]) + 1
<1>1. Len(Pipe[p]) \in Nat
  BY LenNat
<1>2. Places'[p][f.id] = Places[p][f.id] \cup {Len(Pipe[p]) + 1}
  BY <1>1 DEF Places, Puts
<1> QED BY SMTT(60), <1>1, <1>2 DEF Grows, Places, Puts

LEMMA TakesShift ==
  ASSUME Types, NEW q \in Peers, NEW f, Takes(q, f), NEW i \in Streams
  PROVE  /\ Shifts(q, i, 1)
         /\ 1 \in Places[q][i] <=> i = f.id /\ f.type # "cancel"
         /\ \A j \in Places[q][i] : j > 1 \/ j = 1
         /\ Pipe[q][1] = f
<1>1. Len(Pipe[q]) \in Nat
  BY LenNat
<1>2. \A k \in Places'[q][i] : k + 1 \in Places[q][i] /\ Pipe'[q][k] = Pipe[q][k + 1]
  BY SMTT(60), <1>1 DEF Places, Takes
<1>3. \A j \in Places[q][i] : j > 1 => j - 1 \in 1 .. Len(Pipe'[q]) /\ (j - 1) + 1 = j
  BY <1>1 DEF Places, Takes
<1>4. \A j \in Places[q][i] : j > 1 => j - 1 \in Places'[q][i]
  BY <1>3 DEF Places, Takes
<1> QED BY SMTT(60), <1>1, <1>2, <1>4 DEF Shifts, Places, Takes

\* A reader that is deaf to the frame it takes.
LEMMA TakesPasses ==
  ASSUME Types, NEW q \in Peers, NEW f, Takes(q, f), NEW x \in Peers, NEW i \in Streams,
         \/ x # q \/ i # f.id \/ f.type = "cancel"
         \/ i \notin Hears'[Other(q)] /\ i \in Met'[Other(q)]
  PROVE  Passes(x, i)
<1>1. CASE x # q
  <2>1. x = Other(q)
    BY <1>1, Two
  <2> QED BY <2>1, StillPasses DEF Takes
<1>2. CASE x = q
  BY <1>2, TakesShift DEF Passes
<1> QED BY <1>1, <1>2

---------------------------------------------------------------------------
\* A frame more and a frame less.

\* The owner opens a stream.
LEMMA Opened ==
  ASSUME Numbering, Types, Streamed, NEW p \in Peers, NEW i \in Streams, i \in Own(p), i \notin Met[p],
         i \in Sensible[p], i \in Sensible[Other(p)],
         NEW f \in Frames, f.type = "request", NEW n, Grows(p, i, f, n),
         i \in Met'[p], st'[p][i].mine = f.end, st'[p][i].sent = 0,
         st'[Other(p)][i] = st[Other(p)][i],
         i \in Met'[Other(p)] <=> i \in Met[Other(p)]
  PROVE  /\ i \in Introduced'[p] /\ i \in Noted'[p] /\ i \in Ordered'[p]
         /\ i \in Expected'[p] /\ i \in Agreed'[p]
<1>1. Other(p) \in Peers /\ f.n = 0
  BY Two DEF Frames
<1>2. Places[p][i] = {}
  BY DEF Streamed, Introduced
<1>3. Places'[p][i] = {n} /\ Pipe'[p][n] = f /\ n \in Nat
  BY <1>2 DEF Grows
<1>4. st[Other(p)][i] = Fresh
  <2>1. i \notin Met[Other(p)]
    BY DEF Sensible
  <2> QED BY <1>1, <2>1 DEF Sensible
<1>5. ~st'[Other(p)][i].theirs /\ ~st'[Other(p)][i].responded /\ st'[Other(p)][i].received = 0
  BY <1>4, FreshSays
<1>6. i \in Introduced'[p]
  BY <1>1, <1>3 DEF Introduced
<1>7. i \in Noted'[p]
  BY <1>1, <1>3 DEF Noted
<1>8. i \in Ordered'[p]
  BY <1>1, <1>3 DEF Ordered
<1>9. i \in Expected'[p]
  BY <1>1, <1>3, <1>5 DEF Expected
<1>10. i \in Agreed'[p]
  BY <1>1, <1>3, <1>5 DEF Agreed
<1> QED BY <1>6, <1>7, <1>8, <1>9, <1>10

\* A response or data enter the pipe.
LEMMA Produced ==
  ASSUME Numbering, Types, Streamed, NEW p \in Peers, NEW i \in Streams, i \in Met[p],
         NEW f \in Frames, NEW n, Grows(p, i, f, n), f.type \in {"response", "data"},
         st[p][i].known, ~st[p][i].mine, error[p] = "none",
         f.type = "response" => i \notin Own(p) /\ ~st[p][i].responded,
         f.type = "data" /\ i \notin Own(p) => st[p][i].responded,
         f.n = 0 \/ f.n = st[p][i].sent + 1,
         i \in Met'[p], st'[p][i].mine = f.end,
         st'[p][i].sent = IF f.n = 0 THEN st[p][i].sent ELSE f.n,
         f.type = "response" => st'[p][i].responded,
         f.type = "data" => st'[p][i].responded = st[p][i].responded,
         st'[Other(p)][i] = st[Other(p)][i],
         i \in Met'[Other(p)] <=> i \in Met[Other(p)],
         i \in Hears'[Other(p)] <=> i \in Hears[Other(p)]
  PROVE  /\ i \in Introduced'[p] /\ i \in Noted'[p] /\ i \in Ordered'[p]
         /\ i \in Expected'[p] /\ i \in Agreed'[p]
<1> DEFINE q == Other(p)
<1>1. q \in Peers
  BY Two
<1>2. /\ i \in Introduced[p] /\ i \in Noted[p] /\ i \in Ordered[p] /\ i \in Expected[p] /\ i \in Agreed[p]
  BY DEF Streamed
<1>3. i \notin Hears[q] => i \in Met[q]
  BY <1>1, MetMeans
<1>4. /\ n \in Nat /\ Places'[p][i] = Places[p][i] \cup {n} /\ Pipe'[p][n] = f /\ n \notin Places[p][i]
      /\ \A j \in Places[p][i] : j < n /\ Pipe'[p][j] = Pipe[p][j] /\ Pipe[p][j] \in Frames /\ j \in Nat
  BY PlacesAreNumbers DEF Grows
<1>5. /\ f.n \in Nat /\ (f.type = "response" => f.n = 0)
      /\ \A j \in Places[p][i] : Pipe[p][j].n \in Nat
  BY <1>4, FramesSay
<1>6. /\ st[p][i].sent \in Nat /\ st[q][i].received \in Nat
  BY SMTT(60), <1>1 DEF Types, StreamStates, Numbering
<1>7. st'[p][i].sent \in Nat /\ st'[p][i].sent >= st[p][i].sent
  BY <1>5, <1>6
<1>8. i \in Introduced'[p]
  BY <1>1, <1>2, <1>3, <1>4 DEF Introduced, Agreed
<1>9. i \in Noted'[p]
  BY <1>1, <1>2, <1>4, <1>5, <1>6, <1>7 DEF Noted
<1>10. i \in Ordered'[p]
  <2>1. \A j \in Places[p][i] : ~Pipe[p][j].end /\ (f.n > 0 => Pipe[p][j].n < f.n)
    BY <1>2, <1>5, <1>6 DEF Noted
  <2>2. Places[p][i] # {} => f.type = "data"
    BY <1>2 DEF Introduced, Noted
  <2> QED BY <1>1, <1>2, <1>4, <2>1, <2>2 DEF Ordered
<1>11. i \in Expected'[p]
  <2> SUFFICES ASSUME i \in Hears[q], NEW k \in Places'[p][i]
               PROVE  /\ ~st[q][i].theirs
                      /\ Pipe'[p][k].type = "response" => ~st[q][i].responded
                      /\ Pipe'[p][k].type = "data" /\ i \notin Own(p) =>
                           \/ st[q][i].responded
                           \/ \E j \in Places'[p][i] : j < k /\ Pipe'[p][j].type = "response"
                      /\ Pipe'[p][k].n > 0 =>
                           /\ Pipe'[p][k].n > st[q][i].received
                           /\ \/ Pipe'[p][k].n = st[q][i].received + 1
                              \/ Pipe'[p][k].n > 1 /\ \E j \in Places'[p][i] : j < k /\ Pipe'[p][j].n = Pipe'[p][k].n - 1
                      /\ Pipe'[p][k].end /\ st'[p][i].known =>
                           \/ st'[p][i].sent = st[q][i].received
                           \/ st'[p][i].sent > 0 /\ \E j \in Places'[p][i] : j <= k /\ Pipe'[p][j].n = st'[p][i].sent
    BY DEF Expected
  <2> HIDE DEF q
  <2>1. \/ st[p][i].sent = st[q][i].received
        \/ st[p][i].sent > 0 /\ \E j \in Places[p][i] : Pipe[p][j].n = st[p][i].sent
    BY <1>2 DEF Agreed, q
  <2>2. ~st[q][i].theirs
    BY <1>2 DEF Agreed, q
  <2>3. CASE k # n
    <3>1. k \in Places[p][i] /\ Pipe'[p][k] = Pipe[p][k]
      BY <2>3, <1>4
    <3>2. ~Pipe[p][k].end
      BY <3>1, <1>2 DEF Noted
    <3> QED BY <3>1, <3>2, <2>2, <1>2, <1>4 DEF Expected, q
  <2>4. CASE k = n
    <3>1. f.type = "response" => ~st[q][i].responded
      BY <1>2 DEF Agreed, q
    <3>2. f.type = "data" /\ i \notin Own(p) =>
            st[q][i].responded \/ \E j \in Places'[p][i] : j < n /\ Pipe'[p][j].type = "response"
      BY <1>2, <1>4 DEF Agreed, q
    <3>3. f.n > 0 => /\ f.n > st[q][i].received
                     /\ \/ f.n = st[q][i].received + 1
                        \/ f.n > 1 /\ \E j \in Places'[p][i] : j < n /\ Pipe'[p][j].n = f.n - 1
      <4>1. \A j \in Places[p][i] : Pipe[p][j].n > 0 => Pipe[p][j].n > st[q][i].received
        BY <1>2 DEF Expected, q
      <4> QED BY <4>1, <2>1, <1>4, <1>5, <1>6
    <3>4. f.end => \/ st'[p][i].sent = st[q][i].received
                   \/ st'[p][i].sent > 0 /\ \E j \in Places'[p][i] : j <= n /\ Pipe'[p][j].n = st'[p][i].sent
      BY <2>1, <1>4, <1>5, <1>6
    <3> QED BY <2>2, <2>4, <3>1, <3>2, <3>3, <3>4, <1>4
  <2> QED BY <2>3, <2>4
<1>12. i \in Agreed'[p]
  <2> SUFFICES ASSUME i \in Hears[q], st'[p][i].known
               PROVE  /\ ~st[q][i].theirs
                      /\ st[q][i].responded /\ i \notin Own(p) => st'[p][i].responded
                      /\ \/ st'[p][i].sent = st[q][i].received
                         \/ st'[p][i].sent > 0 /\ \E k \in Places'[p][i] : Pipe'[p][k].n = st'[p][i].sent
                      /\ i \in Own(p) => i \in Met[q] \/ \E k \in Places'[p][i] : Pipe'[p][k].type = "request"
                      /\ i \notin Own(p) => st[q][i].responded \/ \E k \in Places'[p][i] : Pipe'[p][k].type = "response"
    BY <1>1 DEF Agreed
  <2>1. \/ st[p][i].sent = st[q][i].received
        \/ st[p][i].sent > 0 /\ \E j \in Places[p][i] : Pipe[p][j].n = st[p][i].sent
    BY <1>2 DEF Agreed
  <2>2. /\ ~st[q][i].theirs
        /\ st[q][i].responded /\ i \notin Own(p) => st'[p][i].responded
    BY <1>2 DEF Agreed
  <2>3. \/ st'[p][i].sent = st[q][i].received
        \/ st'[p][i].sent > 0 /\ \E k \in Places'[p][i] : Pipe'[p][k].n = st'[p][i].sent
    BY <2>1, <1>4, <1>5, <1>6
  <2>4. i \in Own(p) => i \in Met[q] \/ \E k \in Places'[p][i] : Pipe'[p][k].type = "request"
    BY <1>2, <1>4 DEF Agreed
  <2>5. i \notin Own(p) => st[q][i].responded \/ \E k \in Places'[p][i] : Pipe'[p][k].type = "response"
    BY <1>2, <1>4 DEF Agreed
  <2> QED BY <2>2, <2>3, <2>4, <2>5
<1> QED BY <1>8, <1>9, <1>10, <1>11, <1>12

\* The reader takes a frame of a stream it hears.
LEMMA Consumed ==
  ASSUME Numbering, Types, Streamed, NEW q \in Peers, NEW i \in Streams,
         NEW f \in Frames, f.type # "cancel", f.id = i, Takes(q, f),
         i \in Hears[Other(q)], i \in Met'[Other(q)],
         i \in Met'[q] <=> i \in Met[q], st'[q][i] = st[q][i], error'[q] = error[q],
         st'[Other(q)][i].theirs = f.end,
         st'[Other(q)][i].received = IF f.n > 0 THEN st[Other(q)][i].received + 1 ELSE st[Other(q)][i].received,
         i \notin Own(q) => (st'[Other(q)][i].responded <=> st[Other(q)][i].responded \/ f.type = "response")
  PROVE  /\ i \in Introduced'[q] /\ i \in Noted'[q] /\ i \in Ordered'[q]
         /\ i \in Expected'[q] /\ i \in Agreed'[q]
<1> DEFINE p == Other(q)
<1>1. p \in Peers
  BY Two
<1>2. /\ i \in Introduced[q] /\ i \in Noted[q] /\ i \in Ordered[q] /\ i \in Expected[q] /\ i \in Agreed[q]
  BY DEF Streamed
<1>3. /\ 1 \in Places[q][i] /\ Pipe[q][1] = f
      /\ Places[q][i] \subseteq Nat /\ \A k \in Places[q][i] : Pipe[q][k].n \in Nat /\ k >= 1
      /\ f.n \in Nat /\ (f.n > 0 => f.type = "data")
  BY TakesShift, PlacesAreNumbers, FramesSay
<1>4. /\ \A k \in Places'[q][i] : k + 1 \in Places[q][i] /\ Pipe'[q][k] = Pipe[q][k + 1] /\ k \in Nat /\ k + 1 > 1
      /\ \A j \in Places[q][i] : j > 1 => j - 1 \in Places'[q][i] /\ Pipe'[q][j - 1] = Pipe[q][j]
  <2>1. Shifts(q, i, 1)
    BY TakesShift
  <2>2. Places'[q][i] \subseteq Nat \ {0}
    <3>1. Len(Pipe[q]) \in Nat
      BY LenNat
    <3> QED BY <3>1 DEF Places, Takes
  <2>3. \A j \in Places[q][i] : j > 1 => j - 1 \in Places'[q][i] /\ (j - 1) + 1 = j
    <3>1. Len(Pipe[q]) \in Nat
      BY LenNat
    <3>2. \A j \in Places[q][i] : j > 1 => j - 1 \in 1 .. Len(Pipe'[q]) /\ (j - 1) + 1 = j
      BY <3>1 DEF Places, Takes
    <3> QED BY <3>2 DEF Places, Takes
  <2> QED BY <2>1, <2>2, <2>3 DEF Shifts
<1>5. st[q][i].sent \in Nat /\ st[p][i].received \in Nat
  BY SMTT(60), <1>1 DEF Types, StreamStates, Numbering
<1>6. /\ \A k \in Places'[q][i] : ~f.end /\ Pipe'[q][k].type = "data" /\ (Pipe'[q][k].n > 0 => f.n < Pipe'[q][k].n)
      /\ f.n > 0 => f.n = st[p][i].received + 1
  <2>1. f.n > 0 => f.n = st[p][i].received + 1
    BY <1>2, <1>3 DEF Expected
  <2> QED BY <2>1, <1>2, <1>3, <1>4 DEF Ordered
<1>7. i \in Introduced'[q]
  BY <1>1, <1>2, <1>3, <1>4 DEF Introduced
<1>8. i \in Noted'[q]
  BY <1>2, <1>4 DEF Noted
<1>9. i \in Ordered'[q]
  BY <1>2, <1>4 DEF Ordered
<1>10. i \in Expected'[q]
  <2> SUFFICES ASSUME NEW k \in Places'[q][i]
               PROVE  /\ ~st'[p][i].theirs
                      /\ Pipe'[q][k].type = "data" /\ i \notin Own(q) => st'[p][i].responded
                      /\ Pipe'[q][k].n > 0 =>
                           /\ Pipe'[q][k].n > st'[p][i].received
                           /\ \/ Pipe'[q][k].n = st'[p][i].received + 1
                              \/ Pipe'[q][k].n > 1 /\ \E j \in Places'[q][i] : j < k /\ Pipe'[q][j].n = Pipe'[q][k].n - 1
                      /\ Pipe'[q][k].end /\ st[q][i].known =>
                           \/ st[q][i].sent = st'[p][i].received
                           \/ st[q][i].sent > 0 /\ \E j \in Places'[q][i] : j <= k /\ Pipe'[q][j].n = st[q][i].sent
    BY <1>6 DEF Expected
  <2> HIDE DEF p
  <2>1. i \notin Own(q) => st'[p][i].responded
    <3>1. CASE f.type \in {"response", "data"}
      BY <3>1, <1>2, <1>3 DEF Expected, p
    <3>2. CASE f.type = "request"
      BY <3>2, <1>2, <1>3 DEF Introduced
    <3>3. f.type \in {"request", "response", "data"}
      BY FramesSay
    <3> QED BY <3>1, <3>2, <3>3
  <2>2. /\ Pipe'[q][k] = Pipe[q][k + 1] /\ k + 1 \in Places[q][i] /\ k \in Nat /\ k + 1 > 1
        /\ Pipe[q][k + 1].n \in Nat
    BY <1>4, <1>3
  <2>3. ASSUME Pipe'[q][k].n > 0
        PROVE  /\ Pipe'[q][k].n > st'[p][i].received
               /\ \/ Pipe'[q][k].n = st'[p][i].received + 1
                  \/ Pipe'[q][k].n > 1 /\ \E j \in Places'[q][i] : j < k /\ Pipe'[q][j].n = Pipe'[q][k].n - 1
    <3>1. /\ Pipe[q][k + 1].n > st[p][i].received
          /\ \/ Pipe[q][k + 1].n = st[p][i].received + 1
             \/ Pipe[q][k + 1].n > 1 /\ \E j \in Places[q][i] : j < k + 1 /\ Pipe[q][j].n = Pipe[q][k + 1].n - 1
      BY <2>2, <2>3, <1>2 DEF Expected, p
    <3>2. Pipe'[q][k].n > st'[p][i].received
      BY <3>1, <2>2, <2>3, <1>3, <1>5, <1>6 DEF p
    <3>3. CASE Pipe[q][k + 1].n = st[p][i].received + 1
      BY <3>2, <3>3, <2>2, <1>3, <1>5, <1>6 DEF p
    <3>4. ASSUME Pipe[q][k + 1].n > 1, NEW j \in Places[q][i], j < k + 1, Pipe[q][j].n = Pipe[q][k + 1].n - 1
          PROVE  \/ Pipe'[q][k].n = st'[p][i].received + 1
                 \/ Pipe'[q][k].n > 1 /\ \E l \in Places'[q][i] : l < k /\ Pipe'[q][l].n = Pipe'[q][k].n - 1
      <4>1. CASE j = 1
        BY <4>1, <3>4, <2>2, <1>3, <1>5, <1>6 DEF p
      <4>2. CASE j > 1
        <5>1. j - 1 \in Places'[q][i] /\ Pipe'[q][j - 1] = Pipe[q][j] /\ j - 1 < k
          BY <4>2, <3>4, <1>3, <1>4, <2>2
        <5> QED BY <5>1, <3>4, <2>2
      <4> QED BY <4>1, <4>2, <1>3
    <3> QED BY <3>1, <3>2, <3>3, <3>4
  <2>4. ASSUME Pipe'[q][k].end, st[q][i].known
        PROVE  \/ st[q][i].sent = st'[p][i].received
               \/ st[q][i].sent > 0 /\ \E j \in Places'[q][i] : j <= k /\ Pipe'[q][j].n = st[q][i].sent
    <3>1. \/ st[q][i].sent = st[p][i].received
          \/ st[q][i].sent > 0 /\ \E j \in Places[q][i] : j <= k + 1 /\ Pipe[q][j].n = st[q][i].sent
      BY <2>2, <2>4, <1>2 DEF Expected, p
    <3>2. CASE st[q][i].sent = st[p][i].received
      <4>1. f.n <= st[q][i].sent
        BY <2>4, <1>2, <1>3 DEF Noted
      <4> QED BY <4>1, <3>2, <1>3, <1>5, <1>6 DEF p
    <3>3. ASSUME st[q][i].sent > 0, NEW j \in Places[q][i], j <= k + 1, Pipe[q][j].n = st[q][i].sent
          PROVE  \/ st[q][i].sent = st'[p][i].received
                 \/ \E l \in Places'[q][i] : l <= k /\ Pipe'[q][l].n = st[q][i].sent
      <4>1. CASE j = 1
        BY <4>1, <3>3, <1>3, <1>5, <1>6 DEF p
      <4>2. CASE j > 1
        BY <4>2, <3>3, <1>3, <1>4, <2>2
      <4> QED BY <4>1, <4>2, <1>3
    <3> QED BY <3>1, <3>2, <3>3
  <2> QED BY <1>6, <2>1, <2>3, <2>4 DEF p
<1>11. i \in Agreed'[q]
  <2> SUFFICES ASSUME st[q][i].known
               PROVE  /\ st'[p][i].theirs => st[q][i].mine /\ st[q][i].sent = st'[p][i].received
                      /\ st'[p][i].responded /\ i \notin Own(q) => st[q][i].responded
                      /\ error[q] = "none" =>
                           \/ st[q][i].sent = st'[p][i].received
                           \/ st[q][i].sent > 0 /\ \E k \in Places'[q][i] : Pipe'[q][k].n = st[q][i].sent
                      /\ error[q] = "none" /\ i \notin Own(q) /\ st[q][i].responded =>
                           st'[p][i].responded \/ \E k \in Places'[q][i] : Pipe'[q][k].type = "response"
    BY DEF Agreed
  <2> HIDE DEF p
  <2>1. f.n <= st[q][i].sent
    BY <1>2, <1>3 DEF Noted
  <2>2. st'[p][i].theirs => st[q][i].mine /\ st[q][i].sent = st'[p][i].received
    <3>1. f.end => st[q][i].mine
      BY <1>2, <1>3 DEF Noted
    <3>2. f.end => \/ st[q][i].sent = st[p][i].received
                   \/ st[q][i].sent > 0 /\ \E j \in Places[q][i] : j <= 1 /\ Pipe[q][j].n = st[q][i].sent
      BY <1>2, <1>3 DEF Expected, p
    <3>3. f.end => st[q][i].sent = st[p][i].received \/ (st[q][i].sent > 0 /\ f.n = st[q][i].sent)
      BY <3>2, <1>3
    <3> QED BY <3>1, <3>3, <2>1, <1>3, <1>5, <1>6 DEF p
  <2>3. st'[p][i].responded /\ i \notin Own(q) => st[q][i].responded
    BY <1>2, <1>3 DEF Agreed, Noted, p
  <2>4. error[q] = "none" =>
          \/ st[q][i].sent = st'[p][i].received
          \/ st[q][i].sent > 0 /\ \E k \in Places'[q][i] : Pipe'[q][k].n = st[q][i].sent
    <3>1. error[q] = "none" =>
          \/ st[q][i].sent = st[p][i].received
          \/ st[q][i].sent > 0 /\ \E k \in Places[q][i] : Pipe[q][k].n = st[q][i].sent
      BY <1>2 DEF Agreed, p
    <3>2. st[q][i].sent = st[p][i].received => st[q][i].sent = st'[p][i].received
      BY <2>1, <1>3, <1>5, <1>6 DEF p
    <3>3. ASSUME st[q][i].sent > 0, NEW k \in Places[q][i], Pipe[q][k].n = st[q][i].sent
          PROVE  \/ st[q][i].sent = st'[p][i].received
                 \/ \E l \in Places'[q][i] : Pipe'[q][l].n = st[q][i].sent
      <4>1. CASE k = 1
        BY <4>1, <3>3, <1>3, <1>5, <1>6 DEF p
      <4>2. CASE k > 1
        BY <4>2, <3>3, <1>4
      <4> QED BY <4>1, <4>2, <1>3
    <3> QED BY <3>1, <3>2, <3>3
  <2>5. error[q] = "none" /\ i \notin Own(q) /\ st[q][i].responded =>
          st'[p][i].responded \/ \E k \in Places'[q][i] : Pipe'[q][k].type = "response"
    <3>1. error[q] = "none" /\ i \notin Own(q) /\ st[q][i].responded =>
          st[p][i].responded \/ \E k \in Places[q][i] : Pipe[q][k].type = "response"
      BY <1>2 DEF Agreed, p
    <3>2. ASSUME i \notin Own(q), NEW k \in Places[q][i], Pipe[q][k].type = "response"
          PROVE  st'[p][i].responded \/ \E l \in Places'[q][i] : Pipe'[q][l].type = "response"
      <4>1. CASE k = 1
        BY <4>1, <3>2, <1>3 DEF p
      <4>2. CASE k > 1
        BY <4>2, <3>2, <1>4
      <4> QED BY <4>1, <4>2, <1>3
    <3> QED BY <3>1, <3>2 DEF p
  <2> QED BY <2>2, <2>3, <2>4, <2>5
<1> QED BY <1>7, <1>8, <1>9, <1>10, <1>11

---------------------------------------------------------------------------
\* Steps that leave the streams alone.

LEMMA RisesMoved ==
  ASSUME Types, NEW p \in Peers, p \in Rises, NEW d \in {0, 1}, \A i \in Streams : Shifts(p, i, d),
         \A i \in Streams : i \in Met'[Other(p)] <=> i \in Met[Other(p)]
  PROVE  p \in Rises'
<1> SUFFICES ASSUME NEW i \in Streams, NEW j \in Streams, NEW k \in Places'[p][i], NEW l \in Places'[p][j]
             PROVE  /\ Pipe'[p][k].type = "request" => i \notin Met'[Other(p)]
                    /\ Pipe'[p][k].type = "request" /\ Pipe'[p][l].type = "request" /\ l < k => j < i
  BY DEF Rises
<1>1. /\ k + d \in Places[p][i] /\ Pipe'[p][k] = Pipe[p][k + d]
      /\ l + d \in Places[p][j] /\ Pipe'[p][l] = Pipe[p][l + d]
  BY DEF Shifts
<1>2. k \in Int /\ l \in Int
  BY DEF Places
<1>3. l < k => l + d < k + d
  BY <1>2
<1> QED BY <1>1, <1>3 DEF Rises

\* Pipes moved, and no reader took a frame it hears.
Moved == /\ \A p \in Peers : \A i \in Streams : Passes(p, i)
         /\ \A p \in Peers : \E d \in {0, 1} : \A i \in Streams : Shifts(p, i, d)

LEMMA StillMoved == ASSUME Types, \A p \in Peers : \A i \in Streams : Shifts(p, i, 0) PROVE Moved
BY Unmoved DEF Moved

LEMMA UntouchedMoved == ASSUME Types, gate' = gate, sock' = sock PROVE Moved
<1>1. Pipe' = Pipe
  BY DEF Pipe
<1> QED BY <1>1, StillPasses, StillMoved

LEMMA RisesAll ==
  ASSUME Types, Moved, \A p \in Peers : p \in Rises,
         \A p \in Peers : \A i \in Streams : i \in Met'[p] <=> i \in Met[p]
  PROVE  \A p \in Peers : p \in Rises'
<1> SUFFICES ASSUME NEW p \in Peers PROVE p \in Rises'
  OBVIOUS
<1>1. PICK d \in {0, 1} : \A i \in Streams : Shifts(p, i, d)
  BY DEF Moved
<1>2. \A i \in Streams : i \in Met'[Other(p)] <=> i \in Met[Other(p)]
  BY Two
<1> QED BY <1>1, <1>2, RisesMoved

LEMMA Unstirred ==
  ASSUME Numbering, Agreement, Types', st' = st, last' = last,
         \A p \in Peers : error'[p] = "none" => error[p] = "none",
         Moved
  PROVE  Agreement'
<1>0. Types
  BY DEF Agreement
<1>1. \A p \in Peers : \A i \in Streams : (i \in Met'[p] <=> i \in Met[p]) /\ (i \in Hears'[p] <=> i \in Hears[p])
  BY MetMeans, MetMeansNext
<1>2. ASSUME NEW p \in Peers, NEW i \in Streams
      PROVE  /\ i \in Introduced'[p] /\ i \in Noted'[p] /\ i \in Ordered'[p] /\ i \in Expected'[p] /\ i \in Agreed'[p]
  <2>1. Passes(p, i)
    BY DEF Moved
  <2>2. Fades(p, i)
    BY <1>1, Two, MetMeans DEF Fades
  <2>3. Streamed
    BY DEF Agreement
  <2> QED BY <1>0, <2>1, <2>2, <2>3, Bystander
<1>3. Streamed'
  BY <1>2 DEF Streamed
<1>4. \A p \in Peers : p \in Rises'
  BY <1>0, <1>1, RisesAll DEF Agreement
<1>5. ASSUME NEW p \in Peers, NEW i \in Streams PROVE i \in Sensible'[p] /\ i \in Stored'[p] /\ i \in Finished'[p]
  <2>1. i \in Sensible[p] /\ i \in Stored[p] /\ i \in Finished[p]
    BY DEF Agreement
  <2>2. i \in Sensible'[p]
    BY <2>1, <1>1, Two DEF Sensible
  <2> QED BY <2>1, <2>2 DEF Stored, Finished
<1> QED BY <1>3, <1>4, <1>5 DEF Agreement

---------------------------------------------------------------------------
\* Steps that a caller takes with its own stream, no frame written.

\* Stream i of p is as it was for the other peer, or no longer of interest.
Subsides(p, i, s) ==
  /\ st[p][i].known
  /\ i \in Own(p) => s.used
  /\ s.known <=> s.ref
  /\ s.known => /\ s.mine = st[p][i].mine /\ s.sent = st[p][i].sent /\ s.theirs = st[p][i].theirs
                /\ s.received = st[p][i].received /\ s.responded = st[p][i].responded
                /\ s.saw => s.theirs
  /\ ~s.known => ~s.responded /\ s.received = 0 /\ ~s.theirs
  /\ s.known /\ ~s.cancelled => ~st[p][i].cancelled

LEMMA Local ==
  ASSUME Numbering, Agreement, Types', NEW p \in Peers, NEW i \in Streams, NEW s \in StreamStates,
         Set(p, i, s), Subsides(p, i, s), last' = last, Moved,
         \A x \in Peers : error'[x] = "none" => error[x] = "none",
         i \in Stored'[p], i \in Finished'[Other(p)]
  PROVE  Agreement' /\ \A x \in Peers : Hears'[x] \subseteq Hears[x]
<1> DEFINE q == Other(p)
<1>0. Types /\ Streamed /\ q \in Peers /\ Other(q) = p /\ q # p /\ \A x \in Peers : x = p \/ x = q
  BY Two DEF Agreement
<1>1. /\ st'[p][i] = s
      /\ \A x \in Peers, j \in Streams : x # p \/ j # i => st'[x][j] = st[x][j]
  BY <1>0, SetChanges
<1>2. \A x \in Peers : \A j \in Streams : j \in Sensible[x] /\ j \in Stored[x] /\ j \in Finished[x]
  BY DEF Agreement
<1>3. i \in Met[p]
  BY <1>2, FreshSays DEF Sensible, Subsides
<1>4. \A x \in Peers : \A j \in Streams : (j \in Met'[x] <=> j \in Met[x]) /\ (j \in Hears'[x] => j \in Hears[x])
  BY <1>1, <1>3, MetMeans, MetMeansNext DEF Subsides
<1>6. ASSUME NEW x \in Peers, NEW j \in Streams
      PROVE  /\ j \in Introduced'[x] /\ j \in Noted'[x] /\ j \in Ordered'[x] /\ j \in Expected'[x] /\ j \in Agreed'[x]
  <2>1. Passes(x, j)
    BY DEF Moved
  <2>2. /\ j \in Met[x] => j \in Met'[x]
        /\ j \in Met[Other(x)] => j \in Met'[Other(x)]
        /\ j \in Hears'[Other(x)] => j \in Hears[Other(x)]
        /\ j \notin Hears'[Other(x)] => j \in Met'[Other(x)]
    BY <1>4, Two, MetMeansNext
  <2>3. st'[x][j].known => /\ st[x][j].known
                           /\ st'[x][j].mine = st[x][j].mine /\ st'[x][j].sent = st[x][j].sent
                           /\ st'[x][j].responded = st[x][j].responded
    BY <1>1 DEF Subsides
  <2>4. j \in Hears'[Other(x)] =>
          /\ st'[Other(x)][j].theirs = st[Other(x)][j].theirs
          /\ st'[Other(x)][j].received = st[Other(x)][j].received
          /\ st'[Other(x)][j].responded = st[Other(x)][j].responded
    BY <1>0, <1>1, <1>3, <1>4, MetMeansNext, Two DEF Subsides
  <2>5. Fades(x, j)
    BY <2>2, <2>3, <2>4 DEF Fades
  <2> QED BY <1>0, <2>1, <2>5, Bystander
<1>7. Streamed'
  BY <1>6 DEF Streamed
<1>8. \A x \in Peers : x \in Rises'
  BY <1>0, <1>4, RisesAll DEF Agreement
<1>9. ASSUME NEW x \in Peers, NEW j \in Streams PROVE j \in Sensible'[x]
  <2>1. CASE x = p /\ j = i
    <3>1. \A l \in Own(p) : l \in Streams
      BY Two
    <3>2. i \in Sensible[p]
      BY <1>2
    <3>3. i \in Own(p) /\ ~s.responded => s.received = 0 /\ ~s.theirs
      BY <3>2 DEF Sensible, Subsides
    <3>4. i \in Own(p) /\ s.responded => i \in Met[q]
      BY <3>2 DEF Sensible, Subsides
    <3>5. s.known /\ s.saw => s.theirs
      BY DEF Subsides
    <3>6. /\ i \in Met'[p] /\ (i \in Met'[q] <=> i \in Met[q])
          /\ \A l \in Own(p) : l \in Met'[p] <=> l \in Met[p]
      BY <3>1, <1>0, <1>3, <1>4
    <3> QED BY <2>1, <1>0, <1>1, <3>2, <3>3, <3>4, <3>5, <3>6 DEF Sensible, Subsides
  <2>2. CASE x # p \/ j # i
    <3>1. st'[x][j] = st[x][j] /\ j \in Sensible[x] /\ Other(x) \in Peers
      BY <2>2, <1>1, <1>2, Two
    <3>2. \A l \in Own(x) : l \in Streams
      BY Two
    <3> QED BY <3>1, <3>2, <1>4 DEF Sensible
  <2> QED BY <2>1, <2>2
<1>10. ASSUME NEW x \in Peers, NEW j \in Streams PROVE j \in Stored'[x]
  <2>1. CASE x = p /\ j = i
    BY <2>1
  <2>2. CASE x # p \/ j # i
    <3>1. st'[x][j] = st[x][j] /\ j \in Stored[x]
      BY <2>2, <1>1, <1>2
    <3> QED BY <3>1 DEF Stored
  <2> QED BY <2>1, <2>2
<1>11. ASSUME NEW x \in Peers, NEW j \in Streams PROVE j \in Finished'[x]
  <2>1. CASE j # i
    BY <2>1, <1>1, <1>2, Two DEF Finished
  <2>2. CASE j = i /\ x = p
    BY <2>2, <1>0, <1>1, <1>2 DEF Finished, Subsides
  <2>3. CASE j = i /\ x = q
    BY <2>3
  <2> QED BY <2>1, <2>2, <2>3, <1>0
<1>12. \A x \in Peers : Hears'[x] \subseteq Hears[x]
  BY <1>4, SubsetsOfStreamsNext
<1> QED BY <1>7, <1>8, <1>9, <1>10, <1>11, <1>12 DEF Agreement

\* What callers and threads may leave of a queue of cancels and an error.
LEMMA ControlsStep ==
  ASSUME Types, NEW p \in Peers, NEW i \in Streams, Controls(p, i)
  PROVE  /\ controls' \in [Peers -> Seq(Streams)]
         /\ error' \in [Peers -> {"none", "EPROTO", "ENOBUFS", "ECONNRESET"}]
         /\ \A x \in Peers : error'[x] = "none" => error[x] = "none"
         /\ \A x \in Peers : error'[x] = "EPROTO" => error[x] = "EPROTO"
<1>1. Append(controls[p], i) \in Seq(Streams)
  BY AppendProperties DEF Types
<1> QED BY <1>1 DEF Controls, Types

\* A step that writes and reads nothing keeps the types of the rest.
LEMMA LocalTypes ==
  ASSUME Types, NEW p \in Peers, NEW i \in Streams, NEW s \in StreamStates, Set(p, i, s),
         last' = last, fd' = fd, gate' = gate, sock' \in [Peers -> Seq(Frames)],
         inbound' \in [Peers -> Int], refs' \in [Peers -> Int], controls' \in [Peers -> Seq(Streams)],
         error' \in [Peers -> {"none", "EPROTO", "ENOBUFS", "ECONNRESET"}]
  PROVE  Types'
BY SetChanges DEF Types

LEMMA StateFields == ASSUME Numbering, NEW s \in StreamStates
  PROVE  /\ s.sent \in 0 .. DataMax /\ s.received \in 0 .. DataMax /\ s.sent \in Nat /\ s.received \in Nat
         /\ s.inbox \in Seq(Nat) /\ s.read \in Nat /\ Len(s.inbox) \in Nat
         /\ s.known \in BOOLEAN /\ s.ref \in BOOLEAN /\ s.responded \in BOOLEAN /\ s.mine \in BOOLEAN
         /\ s.theirs \in BOOLEAN /\ s.cancelled \in BOOLEAN /\ s.used \in BOOLEAN /\ s.saw \in BOOLEAN
<1>1. s.inbox \in Seq(Nat)
  BY DEF StreamStates
<1> QED BY <1>1, LenProperties DEF StreamStates, Numbering

LEMMA States == ASSUME Types, NEW p \in Peers, NEW i \in Streams PROVE st[p][i] \in StreamStates
BY DEF Types

\* The data that are read rise by one.
InTurn == \A p \in Peers, i \in Streams : st'[p][i].read \in {st[p][i].read, st[p][i].read + 1}

LEMMA OneFurther == \A r, l, k \in Int : r - l + (k + 1) = r - (l - 1) + k
OBVIOUS

LEMMA ReceiveAgrees ==
  ASSUME Numbering, Agreement, NEW p \in Peers, NEW i \in Streams, Receive(p, i)
  PROVE  Agreement' /\ error' = error /\ InTurn /\ \A x \in Peers : Hears'[x] \subseteq Hears[x]
<1> DEFINE q == Other(p)
<1>0. Types /\ q \in Peers /\ Other(q) = p /\ q # p
  BY Two DEF Agreement
<1>1. st[p][i].ref /\ ~st[p][i].saw /\ st[p][i] \in StreamStates
  BY <1>0, States DEF Receive
<1>2. i \in Sensible[p] /\ i \in Stored[p] /\ i \in Finished[q] /\ i \in Agreed[q]
  BY <1>0 DEF Agreement, Streamed
<1>3. st[p][i].known /\ i \in Met[p] /\ (i \in Own(p) => st[p][i].used)
  <2>1. st[p][i].known
    BY <1>1, <1>2 DEF Sensible
  <2>2. i \in Met[p]
    BY <1>2, <2>1, FreshSays DEF Sensible
  <2> QED BY <2>1, <2>2, MetMeans
<1>4. last' = last /\ gate' = gate /\ sock' = sock /\ error' = error /\ controls' = controls
      /\ refs' = refs /\ fd' = fd /\ inbound' = inbound
  BY DEF Receive
<1>5. ASSUME st[p][i].inbox # <<>>,
             Set(p, i, [st[p][i] EXCEPT !.inbox = Tail(@), !.read = IF Head(st[p][i].inbox) = 0 THEN @ ELSE Head(st[p][i].inbox)])
      PROVE  Agreement' /\ InTurn /\ \A x \in Peers : Hears'[x] \subseteq Hears[x]
  <2> DEFINE b == st[p][i].inbox
             R == st[p][i].received
             s == [st[p][i] EXCEPT !.inbox = Tail(@), !.read = IF Head(st[p][i].inbox) = 0 THEN @ ELSE Head(st[p][i].inbox)]
  <2>1. /\ b \in Seq(Nat) /\ b # <<>> /\ Len(b) \in Nat /\ Len(b) >= 1 /\ Head(b) = b[1] /\ b[1] \in Nat
        /\ Tail(b) \in Seq(Nat) /\ Len(Tail(b)) = Len(b) - 1
        /\ \A k \in 1 .. Len(Tail(b)) : Tail(b)[k] = b[k + 1]
        /\ R \in Nat
    BY <1>1, <1>5, StateFields, HeadTailProperties, EmptySeq, LenProperties
  <2>2. ~st[p][i].cancelled
    BY <1>2, <1>5 DEF Stored
  <2>3. /\ Len(b) <= R + 1
        /\ st[p][i].read = IF Len(b) > R THEN 0 ELSE R - Len(b)
        /\ \A k \in 1 .. Len(b) : b[k] = R - Len(b) + k
        /\ i \in Own(p) => st[p][i].responded
    BY <1>2, <1>3, <1>5, <2>2 DEF Stored
  <2>4. /\ b[1] = R - Len(b) + 1
        /\ (IF b[1] = 0 THEN st[p][i].read ELSE b[1]) = R - Len(b) + 1
        /\ (IF b[1] = 0 THEN st[p][i].read ELSE b[1]) \in {st[p][i].read, st[p][i].read + 1}
    BY SMTT(60), <2>1, <2>3
  <2>5. s \in StreamStates
    BY <1>1, <2>1 DEF StreamStates
  <2>6. /\ s.inbox = Tail(b) /\ s.read = (IF b[1] = 0 THEN st[p][i].read ELSE b[1])
        /\ s.known = st[p][i].known /\ s.ref = st[p][i].ref /\ s.used = st[p][i].used
        /\ s.mine = st[p][i].mine /\ s.sent = st[p][i].sent /\ s.theirs = st[p][i].theirs
        /\ s.received = R /\ s.responded = st[p][i].responded /\ s.saw = st[p][i].saw
        /\ s.cancelled = st[p][i].cancelled
    BY <1>1, <2>1 DEF StreamStates
  <2>7. Set(p, i, s)
    BY <1>5
  <2> HIDE DEF s
  <2>8. st'[p][i] = s /\ \A x \in Peers, j \in Streams : x # p \/ j # i => st'[x][j] = st[x][j]
    BY <1>0, <2>5, <2>7, SetChanges
  <2>9. Subsides(p, i, s)
    BY <1>1, <1>2, <1>3, <2>6 DEF Subsides, Sensible
  <2>10. Types'
    BY <1>0, <1>4, <2>5, <2>7, LocalTypes DEF Types
  <2>11. i \in Stored'[p]
    <3>1. Len(Tail(b)) <= R + 1
      BY <2>1, <2>3
    <3>2. s.read = IF Len(Tail(b)) > R THEN 0 ELSE R - Len(Tail(b))
      BY SMTT(60), <2>1, <2>3, <2>4, <2>6
    <3>3. \A k \in 1 .. Len(Tail(b)) : Tail(b)[k] = R - Len(Tail(b)) + k
      <4>1. ASSUME NEW k \in 1 .. Len(Tail(b)) PROVE Tail(b)[k] = R - Len(Tail(b)) + k
        <5>1. k + 1 \in 1 .. Len(b) /\ k \in Int
          BY <2>1
        <5>2. b[k + 1] = R - Len(b) + (k + 1) /\ Tail(b)[k] = b[k + 1]
          BY <5>1, <2>1, <2>3
        <5>3. R - Len(b) + (k + 1) = R - (Len(b) - 1) + k
          <6>1. R \in Int /\ Len(b) \in Int
            BY <2>1
          <6> HIDE DEF R, b
          <6> QED BY <5>1, <6>1, OneFurther
        <5> QED BY <5>2, <5>3, <2>1
      <4> QED BY <4>1
    <3>4. i \in Own(p) => s.responded
      BY <2>3, <2>6
    <3> QED BY ZenonT(60), <2>2, <2>6, <2>8, <3>1, <3>2, <3>3, <3>4 DEF Stored
  <2>12. i \in Finished'[q]
    BY <1>0, <1>1, <2>6, <2>8 DEF Finished
  <2>13. InTurn
    <3>1. \A x \in Peers, j \in Streams : st[x][j].read \in Nat
      BY <1>0, States, StateFields
    <3> QED BY <2>4, <2>6, <2>8, <3>1 DEF InTurn
  <2> QED BY <1>4, <2>5, <2>7, <2>9, <2>10, <2>11, <2>12, <2>13, UntouchedMoved, Local DEF Agreement
<1>6. ASSUME st[p][i].inbox = <<>>, st[p][i].theirs, ~st[p][i].cancelled, Set(p, i, [st[p][i] EXCEPT !.saw = TRUE])
      PROVE  Agreement' /\ InTurn /\ \A x \in Peers : Hears'[x] \subseteq Hears[x]
  <2> DEFINE s == [st[p][i] EXCEPT !.saw = TRUE]
  <2>1. s \in StreamStates
    BY <1>1 DEF StreamStates
  <2>2. /\ s.inbox = st[p][i].inbox /\ s.read = st[p][i].read
        /\ s.known = st[p][i].known /\ s.ref = st[p][i].ref /\ s.used = st[p][i].used
        /\ s.mine = st[p][i].mine /\ s.sent = st[p][i].sent /\ s.theirs = st[p][i].theirs
        /\ s.received = st[p][i].received /\ s.responded = st[p][i].responded
        /\ s.cancelled = st[p][i].cancelled
    BY <1>1 DEF StreamStates
  <2>3. Set(p, i, s)
    BY <1>6
  <2> HIDE DEF s
  <2>4. st'[p][i] = s /\ \A x \in Peers, j \in Streams : x # p \/ j # i => st'[x][j] = st[x][j]
    BY <1>0, <2>1, <2>3, SetChanges
  <2>5. Subsides(p, i, s)
    BY <1>2, <1>3, <1>6, <2>2 DEF Subsides, Sensible
  <2>6. Types'
    BY <1>0, <1>4, <2>1, <2>3, LocalTypes DEF Types
  <2>7. i \in Stored'[p]
    <3>1. /\ st'[p][i].inbox = st[p][i].inbox /\ st'[p][i].read = st[p][i].read
          /\ st'[p][i].received = st[p][i].received /\ st'[p][i].known = st[p][i].known
          /\ st'[p][i].cancelled = st[p][i].cancelled /\ st'[p][i].responded = st[p][i].responded
      BY <2>2, <2>4
    <3> QED BY SMTT(60), <1>2, <3>1 DEF Stored
  <2>8. i \in Finished'[q]
    <3>1. i \in Hears[p]
      BY <1>3, <1>6, MetMeans
    <3>2. st[q][i].known => st[q][i].mine /\ st[q][i].sent = st[p][i].received
      BY <1>0, <1>2, <1>6, <3>1 DEF Agreed
    <3>3. st[p][i].read = st[p][i].received
      <4>1. Len(st[p][i].inbox) = 0 /\ st[p][i].received \in Nat
        BY <1>1, <1>6, EmptySeq, StateFields
      <4> QED BY <4>1, <1>2, <1>3, <1>6 DEF Stored
    <3> QED BY <1>0, <2>2, <2>4, <3>2, <3>3 DEF Finished
  <2>9. InTurn
    BY <2>2, <2>4 DEF InTurn
  <2> QED BY <1>4, <2>1, <2>3, <2>5, <2>6, <2>7, <2>8, <2>9, UntouchedMoved, Local DEF Agreement
<1>7. CASE st[p][i].inbox # <<>> /\ Set(p, i, [st[p][i] EXCEPT !.inbox = Tail(@), !.read = IF Head(st[p][i].inbox) = 0 THEN @ ELSE Head(st[p][i].inbox)])
  BY <1>4, <1>5, <1>7
<1>8. CASE st[p][i].inbox = <<>> /\ st[p][i].theirs /\ ~st[p][i].cancelled /\ Set(p, i, [st[p][i] EXCEPT !.saw = TRUE])
  BY <1>4, <1>6, <1>8
<1> QED BY <1>7, <1>8 DEF Receive

\* Nothing is kept for a stream that was cancelled.
LEMMA AbandonedSays ==
  ASSUME Numbering, NEW s \in StreamStates
  PROVE  /\ Abandoned(s) \in StreamStates
         /\ Abandoned(s).inbox = <<>> /\ Abandoned(s).cancelled /\ Abandoned(s).read = s.read
         /\ Abandoned(s).known = s.known /\ Abandoned(s).ref = s.ref /\ Abandoned(s).used = s.used
         /\ Abandoned(s).mine = s.mine /\ Abandoned(s).sent = s.sent /\ Abandoned(s).theirs = s.theirs
         /\ Abandoned(s).received = s.received /\ Abandoned(s).responded = s.responded
         /\ Abandoned(s).saw = s.saw
<1>1. <<>> \in Seq(Nat)
  OBVIOUS
<1> QED BY <1>1 DEF Abandoned, StreamStates

LEMMA CancelAgrees ==
  ASSUME Numbering, Agreement, NEW p \in Peers, NEW i \in Streams, Cancel(p, i)
  PROVE  Agreement' /\ InTurn /\ i \in Hears[p] /\ i \notin Hears'[p]
         /\ \A x \in Peers : Hears'[x] \subseteq Hears[x]
<1> DEFINE q == Other(p)
           s == Abandoned(st[p][i])
<1>0. Types /\ q \in Peers /\ Other(q) = p /\ q # p
  BY Two DEF Agreement
<1>1. st[p][i].ref /\ ~st[p][i].cancelled /\ Set(p, i, s) /\ st[p][i] \in StreamStates
  BY <1>0, States DEF Cancel
<1>2. i \in Sensible[p] /\ i \in Finished[q]
  BY <1>0 DEF Agreement
<1>3. st[p][i].known /\ i \in Met[p] /\ (i \in Own(p) => st[p][i].used)
  <2>1. st[p][i].known
    BY <1>1, <1>2 DEF Sensible
  <2>2. i \in Met[p]
    BY <1>2, <2>1, FreshSays DEF Sensible
  <2> QED BY <2>1, <2>2, MetMeans
<1>4. last' = last /\ gate' = gate /\ sock' = sock /\ refs' = refs /\ fd' = fd /\ inbound' = inbound
  BY DEF Cancel
<1>5. /\ controls' \in [Peers -> Seq(Streams)]
      /\ error' \in [Peers -> {"none", "EPROTO", "ENOBUFS", "ECONNRESET"}]
      /\ \A x \in Peers : error'[x] = "none" => error[x] = "none"
  BY <1>0, ControlsStep DEF Cancel, Types
<1>6. s \in StreamStates /\ s.inbox = <<>> /\ s.cancelled /\ s.read = st[p][i].read /\ s.known /\ s.saw = st[p][i].saw
  BY <1>1, <1>3, AbandonedSays
<1>7. Subsides(p, i, s)
  BY <1>1, <1>2, <1>3, AbandonedSays DEF Subsides, Sensible
<1> HIDE DEF s
<1>8. st'[p][i] = s /\ \A x \in Peers, j \in Streams : x # p \/ j # i => st'[x][j] = st[x][j]
  BY <1>0, <1>1, <1>6, SetChanges
<1>9. Types'
  BY <1>0, <1>1, <1>4, <1>5, <1>6, LocalTypes DEF Types
<1>10. i \in Stored'[p]
  BY <1>6, <1>8 DEF Stored
<1>11. i \in Finished'[q]
  BY <1>0, <1>2, <1>3, <1>6, <1>8 DEF Finished
<1>12. InTurn
  BY <1>6, <1>8 DEF InTurn
<1>13. i \in Hears[p] /\ i \notin Hears'[p]
  <2>1. i \in Met'[p]
    BY <1>3, <1>4, <1>7, <1>8, MetMeans, MetMeansNext DEF Subsides
  <2> QED BY <1>1, <1>3, <1>6, <1>8, <2>1, MetMeans, MetMeansNext
<1> QED BY <1>1, <1>4, <1>5, <1>6, <1>7, <1>9, <1>10, <1>11, <1>12, <1>13, UntouchedMoved, Local DEF Agreement

LEMMA ReleaseAgrees ==
  ASSUME Numbering, Agreement, NEW p \in Peers, NEW i \in Streams, Release(p, i)
  PROVE  Agreement' /\ InTurn /\ \A x \in Peers : Hears'[x] \subseteq Hears[x]
<1> DEFINE q == Other(p)
           s == [Fresh EXCEPT !.used = TRUE, !.read = st[p][i].read, !.saw = st[p][i].saw]
<1>0. Types /\ q \in Peers /\ Other(q) = p /\ q # p
  BY Two DEF Agreement
<1>1. st[p][i].ref /\ Set(p, i, s) /\ st[p][i] \in StreamStates
  BY <1>0, States DEF Release
<1>2. i \in Sensible[p]
  BY DEF Agreement
<1>3. st[p][i].known
  BY <1>1, <1>2 DEF Sensible
<1>4. last' = last /\ gate' = gate /\ sock' = sock /\ fd' = fd /\ controls' = controls /\ error' = error
      /\ inbound' \in [Peers -> Int] /\ refs' \in [Peers -> Int]
  BY <1>0 DEF Release, Types, Forgotten
<1>5. s \in StreamStates /\ s.read = st[p][i].read /\ ~s.known /\ ~s.ref /\ s.used /\ ~s.cancelled
      /\ ~s.responded /\ s.received = 0 /\ ~s.theirs 
  <2>1. st[p][i].read \in Nat /\ st[p][i].saw \in BOOLEAN /\ <<>> \in Seq(Nat)
    BY <1>1, StateFields
  <2> DEFINE r == st[p][i].read
             w == st[p][i].saw
  <2>2. r \in Nat /\ w \in BOOLEAN /\ s = [Fresh EXCEPT !.used = TRUE, !.read = r, !.saw = w]
    BY <2>1
  <2> HIDE DEF r, w, s
  <2>3. /\ s \in StreamStates /\ s.read = r /\ s.saw = w /\ s.used
        /\ ~s.known /\ ~s.ref /\ ~s.cancelled /\ ~s.responded /\ s.received = 0 /\ ~s.theirs
    <3>1. Fresh \in StreamStates
      BY FreshTyped
    <3>2. /\ s \in StreamStates /\ s.read = r /\ s.saw = w /\ s.used
          /\ s.known = Fresh.known /\ s.ref = Fresh.ref /\ s.cancelled = Fresh.cancelled
          /\ s.responded = Fresh.responded /\ s.received = Fresh.received /\ s.theirs = Fresh.theirs
      BY <3>1, <2>2 DEF StreamStates
    <3> QED BY <3>2, FreshSays
  <2> QED BY <2>3 DEF r
<1> HIDE DEF s
<1>6. Subsides(p, i, s)
  BY <1>3, <1>5 DEF Subsides
<1>8. st'[p][i] = s /\ \A x \in Peers, j \in Streams : x # p \/ j # i => st'[x][j] = st[x][j]
  BY <1>0, <1>1, <1>5, SetChanges
<1>9. Types'
  BY <1>0, <1>1, <1>4, <1>5, LocalTypes DEF Types
<1>10. i \in Stored'[p]
  BY <1>5, <1>8 DEF Stored
<1>11. i \in Finished'[q]
  BY <1>0, <1>5, <1>8 DEF Finished
<1>12. InTurn
  BY <1>5, <1>8 DEF InTurn
<1> QED BY <1>1, <1>4, <1>5, <1>6, <1>9, <1>10, <1>11, <1>12, UntouchedMoved, Local DEF Agreement

---------------------------------------------------------------------------
\* Steps that write a frame.

LEMMA RisesPut ==
  ASSUME Types, NEW p \in Peers, p \in Rises, NEW f \in Frames, NEW i \in Streams, NEW n, Grows(p, i, f, n),
         f.type # "request",
         \A j \in Streams : j # i => Shifts(p, j, 0),
         \A j \in Streams : j \in Met'[Other(p)] <=> j \in Met[Other(p)]
  PROVE  p \in Rises'
<1> SUFFICES ASSUME NEW h \in Streams, NEW j \in Streams, NEW k \in Places'[p][h], NEW l \in Places'[p][j]
             PROVE  /\ Pipe'[p][k].type = "request" => h \notin Met'[Other(p)]
                    /\ Pipe'[p][k].type = "request" /\ Pipe'[p][l].type = "request" /\ l < k => j < h
  BY DEF Rises
<1>1. ASSUME NEW g \in Streams, NEW m \in Places'[p][g], Pipe'[p][m].type = "request"
      PROVE  m \in Places[p][g] /\ Pipe'[p][m] = Pipe[p][m]
  <2>1. CASE g = i
    BY <1>1, <2>1 DEF Grows
  <2>2. CASE g # i
    <3>1. m + 0 \in Places[p][g] /\ Pipe'[p][m] = Pipe[p][m + 0] /\ m \in Int
      BY <2>2 DEF Shifts, Places
    <3> QED BY <3>1
  <2> QED BY <2>1, <2>2
<1> QED BY <1>1 DEF Rises

\* A response or data.
LEMMA WriteAgrees ==
  ASSUME Numbering, Agreement, Types', NEW p \in Peers, NEW i \in Streams, NEW s \in StreamStates, NEW f \in Frames,
         f.id = i, f.type \in {"response", "data"}, Set(p, i, s), Acquire(p, f),
         sock' = sock, last' = last, error' = error,
         st[p][i].ref, ~st[p][i].cancelled, ~st[p][i].mine,
         f.type = "response" => i \notin Own(p) /\ ~st[p][i].responded /\ s.responded,
         f.type = "data" => (i \notin Own(p) => st[p][i].responded) /\ s.responded = st[p][i].responded,
         f.n = 0 \/ f.n = st[p][i].sent + 1,
         s.sent = IF f.n = 0 THEN st[p][i].sent ELSE f.n, s.mine = f.end,
         s.known = st[p][i].known, s.ref = st[p][i].ref, s.used = st[p][i].used, s.cancelled = st[p][i].cancelled,
         s.theirs = st[p][i].theirs, s.received = st[p][i].received, s.inbox = st[p][i].inbox,
         s.read = st[p][i].read, s.saw = st[p][i].saw
  PROVE  Agreement' /\ InTurn /\ \A x \in Peers : Hears'[x] \subseteq Hears[x]
<1> DEFINE q == Other(p)
           n == Len(Pipe[p]) + 1
<1>0. Types /\ Streamed /\ q \in Peers /\ Other(q) = p /\ q # p /\ \A x \in Peers : x = p \/ x = q
  BY Two DEF Agreement
<1>1. /\ st'[p][i] = s
      /\ \A x \in Peers, j \in Streams : x # p \/ j # i => st'[x][j] = st[x][j]
  BY <1>0, SetChanges
<1>2. \A x \in Peers : x \in Rises /\ \A j \in Streams : j \in Sensible[x] /\ j \in Stored[x] /\ j \in Finished[x]
  BY DEF Agreement
<1>3. st[p][i].known /\ i \in Met[p]
  <2>1. st[p][i].known
    BY <1>2 DEF Sensible
  <2> QED BY <1>2, <2>1, FreshSays DEF Sensible
<1>4. \A x \in Peers : \A j \in Streams : (j \in Met'[x] <=> j \in Met[x]) /\ (j \in Hears'[x] <=> j \in Hears[x])
  <2>1. \A x \in Peers, j \in Streams :
          /\ st'[x][j].used = st[x][j].used /\ st'[x][j].known = st[x][j].known
          /\ st'[x][j].cancelled = st[x][j].cancelled
    BY <1>1
  <2>2. \A x \in Peers, j \in Streams : j \in Met'[x] <=> j \in Met[x]
    BY <2>1, MetMeans, MetMeansNext
  <2> QED BY <2>1, <2>2, MetMeans, MetMeansNext
<1>5. Puts(p, f) /\ error[p] = "none"
  BY <1>0, AcquirePuts DEF Live
<1>6. Grows(p, i, f, n)
  BY <1>0, <1>5, PutsHere
<1>7. ASSUME NEW x \in Peers, NEW j \in Streams, x # p \/ j # i PROVE Shifts(x, j, 0) /\ Passes(x, j)
  BY <1>0, <1>5, <1>7, PutsElsewhere
<1>8. ASSUME NEW x \in Peers, NEW j \in Streams
      PROVE  /\ j \in Introduced'[x] /\ j \in Noted'[x] /\ j \in Ordered'[x] /\ j \in Expected'[x] /\ j \in Agreed'[x]
  <2>1. CASE x = p /\ j = i
    <3>1. st'[q][i] = st[q][i]
      BY <1>0, <1>1
    <3>2. (i \in Met'[q] <=> i \in Met[q]) /\ (i \in Hears'[q] <=> i \in Hears[q]) /\ i \in Met'[p]
      BY <1>0, <1>3, <1>4
    <3> HIDE DEF n
    <3> QED BY <2>1, <1>0, <1>1, <1>3, <1>5, <1>6, <3>1, <3>2, Produced
  <2>2. CASE x # p \/ j # i
    <3>1. Passes(x, j)
      BY <2>2, <1>7
    <3>2. /\ j \in Met[x] => j \in Met'[x]
          /\ j \in Met[Other(x)] => j \in Met'[Other(x)]
          /\ j \in Hears'[Other(x)] => j \in Hears[Other(x)]
          /\ j \notin Hears'[Other(x)] => j \in Met'[Other(x)]
      BY <1>4, Two, MetMeansNext
    <3>3. st'[x][j] = st[x][j]
      BY <2>2, <1>1
    <3>4. /\ st'[Other(x)][j].theirs = st[Other(x)][j].theirs
          /\ st'[Other(x)][j].received = st[Other(x)][j].received
          /\ j \notin Own(x) => st'[Other(x)][j].responded = st[Other(x)][j].responded
      <4>1. CASE Other(x) = p /\ j = i
        <5>1. x = q
          BY <4>1, Two
        <5>2. j \notin Own(x) => i \in Own(p)
          BY <4>1, <5>1, OneOwner
        <5> QED BY <4>1, <1>1, <5>2
      <4>2. CASE ~(Other(x) = p /\ j = i)
        BY <4>2, <1>1, Two
      <4> QED BY <4>1, <4>2
    <3>5. Fades(x, j)
      BY <3>2, <3>3, <3>4 DEF Fades
    <3> QED BY <1>0, <3>1, <3>5, Bystander
  <2> QED BY <2>1, <2>2
<1>9. Streamed'
  BY <1>8 DEF Streamed
<1>10. \A x \in Peers : x \in Rises'
  <2>1. p \in Rises'
    <3>1. \A j \in Streams : j \in Met'[q] <=> j \in Met[q]
      BY <1>0, <1>4
    <3>2. \A j \in Streams : j # i => Shifts(p, j, 0)
      BY <1>7
    <3> HIDE DEF n
    <3> QED BY <1>0, <1>2, <1>6, <3>1, <3>2, RisesPut
  <2>2. q \in Rises'
    <3>1. \A j \in Streams : (j \in Met'[Other(q)] <=> j \in Met[Other(q)]) /\ Shifts(q, j, 0)
      BY <1>0, <1>4, <1>7
    <3> QED BY <1>0, <1>2, <3>1, RisesMoved
  <2> QED BY <1>0, <2>1, <2>2
<1>11. ASSUME NEW x \in Peers, NEW j \in Streams PROVE j \in Sensible'[x]
  <2>0. /\ \A l \in Own(x) : l \in Met'[x] <=> l \in Met[x]
        /\ (j \in Met'[x] <=> j \in Met[x]) /\ (j \in Met'[Other(x)] <=> j \in Met[Other(x)])
    BY <1>4, Two
  <2>1. CASE x = p /\ j = i
    <3>1. i \in Own(p) => s.responded = st[p][i].responded
      OBVIOUS
    <3>2. i \in Sensible[p]
      BY <1>2
    <3> QED BY ZenonT(60), <2>0, <2>1, <1>0, <1>1, <1>3, <3>1, <3>2 DEF Sensible
  <2>2. CASE x # p \/ j # i
    <3>1. st'[x][j] = st[x][j] /\ j \in Sensible[x]
      BY <2>2, <1>1, <1>2
    <3> QED BY <2>0, <3>1 DEF Sensible
  <2> QED BY <2>1, <2>2
<1>12. ASSUME NEW x \in Peers, NEW j \in Streams PROVE j \in Stored'[x]
  <2>1. /\ st'[x][j].inbox = st[x][j].inbox /\ st'[x][j].read = st[x][j].read
        /\ st'[x][j].received = st[x][j].received /\ st'[x][j].known = st[x][j].known
        /\ st'[x][j].cancelled = st[x][j].cancelled
        /\ j \in Own(x) => st'[x][j].responded = st[x][j].responded
    <3>1. i \in Own(p) => s.responded = st[p][i].responded
      OBVIOUS
    <3> QED BY <1>1, <3>1
  <2> QED BY SMTT(60), <1>2, <2>1 DEF Stored
<1>13. ASSUME NEW x \in Peers, NEW j \in Streams PROVE j \in Finished'[x]
  <2>1. CASE j # i
    BY <2>1, <1>1, <1>2, Two DEF Finished
  <2>2. CASE j = i /\ x = p
    BY <2>2, <1>0, <1>1, <1>2, <1>3 DEF Finished
  <2>3. CASE j = i /\ x = q
    BY <2>3, <1>0, <1>1, <1>2 DEF Finished
  <2> QED BY <2>1, <2>2, <2>3, <1>0
<1>14. InTurn
  BY <1>1 DEF InTurn
<1>15. \A x \in Peers : Hears'[x] \subseteq Hears[x]
  BY <1>4, SubsetsOfStreamsNext
<1> QED BY <1>9, <1>10, <1>11, <1>12, <1>13, <1>14, <1>15 DEF Agreement

\* The types after a frame entered the gate.
LEMMA WriteTypes ==
  ASSUME Types, NEW p \in Peers, NEW i \in Streams, NEW s \in StreamStates, NEW f \in Frames, Set(p, i, s), Acquire(p, f),
         last' = last, sock' = sock, fd' = fd, inbound' = inbound, controls' = controls, error' = error,
         refs' \in [Peers -> Int]
  PROVE  Types'
BY SetChanges, AcquirePuts DEF Types

LEMMA RespondAgrees ==
  ASSUME Numbering, Agreement, NEW p \in Peers, NEW i \in Streams, NEW end \in BOOLEAN, Respond(p, i, end)
  PROVE  Agreement' /\ InTurn /\ \A x \in Peers : Hears'[x] \subseteq Hears[x]
<1> DEFINE s == [st[p][i] EXCEPT !.responded = TRUE, !.mine = end]
           f == Frame("response", i, 0, end)
<1>1. Types /\ st[p][i] \in StreamStates
  BY States DEF Agreement
<1>2. /\ st[p][i].ref /\ i \notin Own(p) /\ ~st[p][i].responded /\ ~st[p][i].cancelled /\ ~st[p][i].mine
      /\ Acquire(p, f) /\ Set(p, i, s) /\ sock' = sock /\ last' = last /\ error' = error
      /\ fd' = fd /\ inbound' = inbound /\ controls' = controls /\ refs' = refs
  BY DEF Respond, Usable, Responder
<1>3. f \in Frames /\ f.id = i /\ f.type = "response" /\ f.n = 0 /\ f.end = end
  BY DEF Frames, Frame, Numbering
<1>4. /\ s \in StreamStates /\ s.responded /\ s.sent = st[p][i].sent /\ s.mine = end
      /\ s.known = st[p][i].known /\ s.ref = st[p][i].ref /\ s.used = st[p][i].used /\ s.cancelled = st[p][i].cancelled
      /\ s.theirs = st[p][i].theirs /\ s.received = st[p][i].received /\ s.inbox = st[p][i].inbox
      /\ s.read = st[p][i].read /\ s.saw = st[p][i].saw
  BY <1>1 DEF StreamStates
<1> HIDE DEF s, f
<1>5. Types'
  BY <1>1, <1>2, <1>3, <1>4, WriteTypes DEF Types
<1> QED BY <1>2, <1>3, <1>4, <1>5, WriteAgrees

LEMMA SendAgrees ==
  ASSUME Numbering, Agreement, NEW p \in Peers, NEW i \in Streams, NEW m \in {0, 1}, NEW end \in BOOLEAN, Send(p, i, m, end)
  PROVE  Agreement' /\ InTurn /\ \A x \in Peers : Hears'[x] \subseteq Hears[x]
<1> DEFINE s == [st[p][i] EXCEPT !.sent = @ + m, !.mine = end]
           f == Frame("data", i, IF m = 0 THEN 0 ELSE st[p][i].sent + 1, end)
<1>1. Types /\ st[p][i] \in StreamStates
  BY States DEF Agreement
<1>2. /\ st[p][i].ref /\ (i \notin Own(p) => st[p][i].responded) /\ ~st[p][i].cancelled /\ ~st[p][i].mine
      /\ Acquire(p, f) /\ Set(p, i, s) /\ sock' = sock /\ last' = last /\ error' = error
      /\ fd' = fd /\ inbound' = inbound /\ controls' = controls /\ refs' = refs
      /\ m + st[p][i].sent <= DataMax
  BY DEF Send, Usable, Responder
<1>3. st[p][i].sent \in 0 .. DataMax /\ DataMax \in Nat
  BY <1>1, StateFields DEF Numbering
<1>4. f \in Frames /\ f.id = i /\ f.type = "data" /\ f.n = (IF m = 0 THEN 0 ELSE st[p][i].sent + 1) /\ f.end = end
  BY <1>2, <1>3 DEF Frames, Frame
<1>5. f.n = 0 \/ f.n = st[p][i].sent + 1
  BY <1>4
<1>6. /\ s \in StreamStates /\ s.responded = st[p][i].responded /\ s.sent = st[p][i].sent + m /\ s.mine = end
      /\ s.known = st[p][i].known /\ s.ref = st[p][i].ref /\ s.used = st[p][i].used /\ s.cancelled = st[p][i].cancelled
      /\ s.theirs = st[p][i].theirs /\ s.received = st[p][i].received /\ s.inbox = st[p][i].inbox
      /\ s.read = st[p][i].read /\ s.saw = st[p][i].saw
  <2>1. st[p][i].sent + m \in 0 .. DataMax
    BY <1>2, <1>3
  <2> QED BY <1>1, <2>1 DEF StreamStates
<1>7. s.sent = IF f.n = 0 THEN st[p][i].sent ELSE f.n
  BY <1>3, <1>4, <1>6
<1> HIDE DEF s, f
<1>8. Types'
  BY <1>1, <1>2, <1>4, <1>6, WriteTypes DEF Types
<1> QED BY <1>2, <1>4, <1>5, <1>6, <1>7, <1>8, WriteAgrees

\* A new stream.
LEMMA RequestAgrees ==
  ASSUME Numbering, Agreement, NEW p \in Peers, NEW i \in Streams, NEW end \in BOOLEAN, Request(p, i, end)
  PROVE  Agreement' /\ InTurn /\ \A x \in Peers : Hears'[x] \subseteq Hears[x]
<1> DEFINE q == Other(p)
           n == Len(Pipe[p]) + 1
           s == [Fresh EXCEPT !.known = TRUE, !.ref = TRUE, !.used = TRUE, !.mine = end]
           f == Frame("request", i, 0, end)
<1>0. Types /\ Streamed /\ q \in Peers /\ Other(q) = p /\ q # p /\ \A x \in Peers : x = p \/ x = q
  BY Two DEF Agreement
<1>1. /\ i \in Own(p) /\ ~st[p][i].used /\ (\A j \in Own(p) : j < i => st[p][j].used)
      /\ Acquire(p, f) /\ Set(p, i, s) /\ sock' = sock /\ last' = last /\ error' = error
      /\ fd' = fd /\ inbound' = inbound /\ controls' = controls /\ refs' \in [Peers -> Int]
  BY <1>0 DEF Request, Types
<1>2. \A x \in Peers : x \in Rises /\ \A j \in Streams : j \in Sensible[x] /\ j \in Stored[x] /\ j \in Finished[x]
  BY DEF Agreement
<1>3. f \in Frames /\ f.id = i /\ f.type = "request" /\ f.n = 0 /\ f.end = end
  BY DEF Frames, Frame, Numbering
<1>4. Fresh \in StreamStates
  BY FreshTyped
<1>5. /\ s \in StreamStates /\ s.known /\ s.ref /\ s.used /\ s.mine = end
      /\ s.responded = Fresh.responded /\ s.theirs = Fresh.theirs /\ s.cancelled = Fresh.cancelled
      /\ s.sent = Fresh.sent /\ s.received = Fresh.received /\ s.inbox = Fresh.inbox
      /\ s.read = Fresh.read /\ s.saw = Fresh.saw
  BY <1>4 DEF StreamStates
<1> HIDE DEF s, f
<1>6. /\ st'[p][i] = s
      /\ \A x \in Peers, j \in Streams : x # p \/ j # i => st'[x][j] = st[x][j]
  BY <1>0, <1>1, <1>5, SetChanges
<1>7. i \notin Met[p] /\ st[p][i] = Fresh /\ i \notin Met[q] /\ st[q][i] = Fresh
  <2>1. i \notin Met[p]
    BY <1>1, MetMeans
  <2>2. i \notin Met[q] /\ st[p][i] = Fresh
    BY <1>1, <1>2, <2>1 DEF Sensible
  <2> QED BY <1>0, <1>2, <2>1, <2>2 DEF Sensible
<1>8. /\ i \in Met'[p]
      /\ \A x \in Peers : \A j \in Streams : x # p \/ j # i => (j \in Met'[x] <=> j \in Met[x])
      /\ \A x \in Peers : \A j \in Streams : j \in Hears'[x] <=> j \in Hears[x]
  <2>1. i \in Met'[p]
    BY <1>1, <1>5, <1>6, MetMeansNext
  <2>2. \A x \in Peers : \A j \in Streams : x # p \/ j # i => (j \in Met'[x] <=> j \in Met[x])
    BY <1>1, <1>6, MetMeans, MetMeansNext
  <2>3. i \in Hears'[p] /\ i \in Hears[p]
    BY <1>5, <1>6, <1>7, FreshSays, MetMeans, MetMeansNext
  <2> QED BY <1>6, <2>1, <2>2, <2>3, MetMeans, MetMeansNext
<1>9. Puts(p, f) /\ error[p] = "none"
  BY <1>0, <1>1, <1>3, AcquirePuts DEF Live
<1>10. Grows(p, i, f, n) /\ \A j \in Streams : \A k \in Places[p][j] : k < n
  BY <1>0, <1>3, <1>9, PutsHere
<1> HIDE DEF n
<1>11. ASSUME NEW x \in Peers, NEW j \in Streams, x # p \/ j # i PROVE Shifts(x, j, 0) /\ Passes(x, j)
  BY <1>0, <1>3, <1>9, <1>11, PutsElsewhere
<1>12. ASSUME NEW x \in Peers, NEW j \in Streams
      PROVE  /\ j \in Introduced'[x] /\ j \in Noted'[x] /\ j \in Ordered'[x] /\ j \in Expected'[x] /\ j \in Agreed'[x]
  <2>1. CASE x = p /\ j = i
    <3>1. st'[q][i] = st[q][i] /\ (i \in Met'[q] <=> i \in Met[q])
      BY <1>0, <1>6, <1>8
    <3>2. i \in Sensible[p] /\ i \in Sensible[q] /\ st'[p][i].mine = f.end /\ st'[p][i].sent = 0
      BY <1>0, <1>2, <1>3, <1>5, <1>6, FreshSays
    <3> QED BY <2>1, <1>0, <1>1, <1>3, <1>7, <1>8, <1>10, <3>1, <3>2, Opened
  <2>2. CASE x # p \/ j # i
    <3>1. Passes(x, j)
      BY <2>2, <1>11
    <3>2. /\ j \in Met[x] => j \in Met'[x]
          /\ j \in Met[Other(x)] => j \in Met'[Other(x)]
          /\ j \in Hears'[Other(x)] => j \in Hears[Other(x)]
          /\ j \notin Hears'[Other(x)] => j \in Met'[Other(x)]
      BY <1>8, Two, MetMeansNext
    <3>3. st'[x][j] = st[x][j]
      BY <2>2, <1>6
    <3>4. /\ st'[Other(x)][j].theirs = st[Other(x)][j].theirs
          /\ st'[Other(x)][j].received = st[Other(x)][j].received
          /\ st'[Other(x)][j].responded = st[Other(x)][j].responded
      BY <1>5, <1>6, <1>7, Two
    <3>5. Fades(x, j)
      BY <1>1, <3>2, <3>3, <3>4 DEF Fades
    <3> QED BY <1>0, <3>1, <3>5, Bystander
  <2> QED BY <2>1, <2>2
<1>13. Streamed'
  BY <1>12 DEF Streamed
<1>14. p \in Rises'
  <2>1. ASSUME NEW j \in Streams, NEW k \in Places'[p][j], Pipe'[p][k].type = "request"
        PROVE  \/ j = i /\ k = n
               \/ j # i /\ k \in Places[p][j] /\ Pipe'[p][k] = Pipe[p][k] /\ k < n
    <3>1. CASE j = i
      <4>1. Places[p][i] = {}
        BY <1>0, <1>7 DEF Streamed, Introduced
      <4> QED BY <2>1, <3>1, <4>1, <1>10 DEF Grows
    <3>2. CASE j # i
      <4>1. k + 0 \in Places[p][j] /\ Pipe'[p][k] = Pipe[p][k + 0] /\ k \in Int
        BY <3>2, <1>11 DEF Shifts, Places
      <4> QED BY <3>2, <4>1, <1>10
    <3> QED BY <3>1, <3>2
  <2>2. ASSUME NEW j \in Streams, NEW k \in Places[p][j], Pipe[p][k].type = "request", j # i
        PROVE  j < i
    <3>1. j \in Own(p) /\ j \in Met[p]
      BY <2>2, <1>0 DEF Streamed, Introduced
    <3>2. ~(i < j)
      BY <3>1, <1>1, <1>2, <1>7 DEF Sensible
    <3> QED BY <2>2, <3>2, Ids
  <2>3. ASSUME NEW g \in Streams, NEW j \in Streams, NEW k \in Places'[p][g], NEW l \in Places'[p][j],
               Pipe'[p][k].type = "request"
        PROVE  /\ g \notin Met'[Other(p)]
               /\ Pipe'[p][l].type = "request" /\ l < k => j < g
    <3>1. CASE g = i /\ k = n
      <4>1. g \notin Met'[Other(p)]
        BY <3>1, <1>0, <1>7, <1>8
      <4>2. ASSUME Pipe'[p][l].type = "request", l < k PROVE j < g
        <5>1. j # i /\ l \in Places[p][j] /\ Pipe'[p][l] = Pipe[p][l]
          <6>1. n \in Nat
            BY <1>10 DEF Grows
          <6> QED BY <4>2, <3>1, <2>1, <6>1
        <5> QED BY <3>1, <4>2, <5>1, <2>2
      <4> QED BY <4>1, <4>2
    <3>2. CASE ~(g = i /\ k = n)
      <4>1. g # i /\ k \in Places[p][g] /\ Pipe'[p][k] = Pipe[p][k] /\ k < n
        BY <3>2, <2>1, <2>3
      <4>2. g \notin Met'[Other(p)]
        BY <4>1, <2>3, <1>0, <1>2, <1>8 DEF Rises
      <4>3. ASSUME Pipe'[p][l].type = "request", l < k PROVE j < g
        <5>1. l \in Places[p][j] /\ Pipe'[p][l] = Pipe[p][l]
          <6>1. n \in Nat /\ k \in Nat
            BY <1>0, <1>10, <4>1, PlacesAreNumbers DEF Grows
          <6> QED BY <4>1, <4>3, <2>1, <6>1
        <5> QED BY <4>1, <4>3, <5>1, <2>3, <1>2 DEF Rises
      <4> QED BY <4>2, <4>3
    <3> QED BY <3>1, <3>2
  <2> QED BY <2>3 DEF Rises
<1>15. \A x \in Peers : x \in Rises'
  <2>1. q \in Rises'
    <3>1. \A j \in Streams : Shifts(q, j, 0)
      BY <1>0, <1>11
    <3>2. ASSUME NEW j \in Streams, NEW l \in Streams, NEW k \in Places'[q][j], NEW m \in Places'[q][l]
          PROVE  /\ Pipe'[q][k].type = "request" => j \notin Met'[Other(q)]
                 /\ Pipe'[q][k].type = "request" /\ Pipe'[q][m].type = "request" /\ m < k => l < j
      <4>1. /\ k \in Places[q][j] /\ Pipe'[q][k] = Pipe[q][k]
            /\ m \in Places[q][l] /\ Pipe'[q][m] = Pipe[q][m]
        <5>1. k \in Int /\ m \in Int
          BY DEF Places
        <5> QED BY <3>1, <5>1 DEF Shifts
      <4>2. Pipe[q][k].type = "request" => j \in Own(q) /\ j # i
        <5>1. Pipe[q][k].type = "request" => j \in Own(q)
          BY <1>0, <4>1 DEF Streamed, Introduced
        <5> QED BY <5>1, <1>0, <1>1, OneOwner
      <4> QED BY <4>1, <4>2, <1>0, <1>2, <1>8 DEF Rises
    <3> QED BY <1>0, <3>2 DEF Rises
  <2> QED BY <1>0, <1>14, <2>1
<1>16. ASSUME NEW x \in Peers, NEW j \in Streams PROVE j \in Sensible'[x]
  <2>0. /\ \A l \in Own(x) : l \in Streams /\ (l \in Met[x] => l \in Met'[x])
        /\ j \in Met[x] => j \in Met'[x]
    BY <1>8, Two
  <2>1. CASE x = p /\ j = i
    <3>1. \A l \in Own(p) : l < i => l \in Met'[p]
      BY <1>1, <2>0, <2>1, MetMeans
    <3> QED BY <2>1, <1>0, <1>5, <1>6, <1>7, <1>8, <3>1, FreshSays DEF Sensible
  <2>2. CASE x # p \/ j # i
    <3>1. st'[x][j] = st[x][j] /\ j \in Sensible[x] /\ (j \in Met'[x] <=> j \in Met[x])
      BY <2>2, <1>2, <1>6, <1>8
    <3>2. j \in Own(x) => (j \in Met'[Other(x)] <=> j \in Met[Other(x)])
      <4>1. CASE Other(x) = p /\ j = i
        BY <4>1, <1>1, OneOwner
      <4>2. CASE ~(Other(x) = p /\ j = i)
        BY <4>2, <1>8, Two
      <4> QED BY <4>1, <4>2
    <3> QED BY <2>0, <3>1, <3>2 DEF Sensible
  <2> QED BY <2>1, <2>2
<1>17. ASSUME NEW x \in Peers, NEW j \in Streams PROVE j \in Stored'[x]
  <2>1. CASE x = p /\ j = i
    <3>1. /\ st'[p][i].inbox = <<>> /\ st'[p][i].received = 0 /\ st'[p][i].read = 0 /\ Len(<<>>) = 0
      BY <1>5, <1>6, FreshSays, EmptySeq
    <3> QED BY <2>1, <3>1 DEF Stored
  <2>2. CASE x # p \/ j # i
    <3>1. st'[x][j] = st[x][j] /\ j \in Stored[x]
      BY <2>2, <1>2, <1>6
    <3> QED BY <3>1 DEF Stored
  <2> QED BY <2>1, <2>2
<1>18. ASSUME NEW x \in Peers, NEW j \in Streams PROVE j \in Finished'[x]
  <2>1. CASE j # i
    BY <2>1, <1>2, <1>6, Two DEF Finished
  <2>2. CASE j = i
    <3>1. ~st'[q][i].known
      BY <1>0, <1>6, <1>7, FreshSays
    <3> QED BY <2>2, <1>0, <3>1 DEF Finished
  <2> QED BY <2>1, <2>2
<1>19. InTurn
  BY <1>5, <1>6, <1>7 DEF InTurn
<1>20. Types'
  BY <1>0, <1>1, <1>3, <1>5, WriteTypes
<1>21. \A x \in Peers : Hears'[x] \subseteq Hears[x]
  BY <1>8, SubsetsOfStreamsNext
<1> QED BY <1>13, <1>15, <1>16, <1>17, <1>18, <1>19, <1>20, <1>21 DEF Agreement

\* Steps of threads that change no stream.
LEMMA QuietAgrees ==
  ASSUME Numbering, Agreement, NEW p \in Peers, Written(p) \/ WriteControl(p) \/ Fail(p)
  PROVE  Agreement' /\ InTurn /\ \A x \in Peers : Hears'[x] \subseteq Hears[x]
<1>0. Types
  BY DEF Agreement
<1>1. st' = st /\ last' = last /\ inbound' = inbound /\ refs' = refs /\ fd' = fd
  BY DEF Written, WriteControl, Fail
<1>2. \A x \in Peers : error'[x] = "none" => error[x] = "none"
  BY <1>0 DEF Written, WriteControl, Fail, Types
<1>3. /\ Types'
      /\ \A x \in Peers : \A i \in Streams : Shifts(x, i, 0)
  <2>1. CASE Written(p)
    <3>1. Keeps(p) /\ Pipe'[Other(p)] = Pipe[Other(p)]
          /\ sock' \in [Peers -> Seq(Frames)] /\ gate' \in [Peers -> Frames \cup {NoFrame}]
      BY <1>0, <2>1, WrittenKeeps
    <3>2. \A x \in Peers : \A i \in Streams : Shifts(x, i, 0)
      BY <1>0, <3>1, KeepsPasses, StillPasses, Two
    <3>3. Types'
      BY <1>0, <1>1, <2>1, <3>1 DEF Types, Written
    <3> QED BY <3>2, <3>3
  <2>2. CASE WriteControl(p)
    <3> DEFINE f == Frame("cancel", Head(controls[p]), 0, FALSE)
    <3>1. controls[p] \in Seq(Streams) /\ controls[p] # <<>>
      BY <1>0, <2>2 DEF Types, WriteControl
    <3>2. Head(controls[p]) \in Streams /\ Tail(controls[p]) \in Seq(Streams)
      BY <3>1, HeadTailProperties
    <3>3. f \in Frames /\ f.type = "cancel"
      BY <3>2 DEF Frames, Frame, Numbering
    <3>4. Acquire(p, f) /\ sock' = sock /\ error' = error /\ controls' = [controls EXCEPT ![p] = Tail(@)]
      BY <2>2 DEF WriteControl
    <3> HIDE DEF f
    <3>5. Puts(p, f) /\ gate' \in [Peers -> Frames \cup {NoFrame}]
      BY <1>0, <3>3, <3>4, AcquirePuts
    <3>6. \A x \in Peers : \A i \in Streams : Shifts(x, i, 0)
      BY <1>0, <3>3, <3>5, PutsElsewhere
    <3>7. Types'
      BY <1>0, <1>1, <3>2, <3>4, <3>5 DEF Types
    <3> QED BY <3>6, <3>7
  <2>3. CASE Fail(p)
    <3>1. gate' = gate /\ sock' = sock /\ controls' = controls /\ error' = [error EXCEPT ![p] = "ECONNRESET"]
      BY <2>3 DEF Fail
    <3>2. Pipe' = Pipe
      BY <3>1 DEF Pipe
    <3>3. \A x \in Peers : \A i \in Streams : Shifts(x, i, 0)
      BY <1>0, <3>2, StillPasses
    <3>4. Types'
      BY <1>0, <1>1, <3>1 DEF Types
    <3> QED BY <3>3, <3>4
  <2> QED BY <2>1, <2>2, <2>3
<1>4. Agreement'
  BY <1>0, <1>1, <1>2, <1>3, StillMoved, Unstirred
<1>5. InTurn
  BY <1>1 DEF InTurn
<1>6. \A x \in Peers : Hears'[x] = Hears[x]
  BY <1>1 DEF Hears, Met
<1> QED BY <1>4, <1>5, <1>6

---------------------------------------------------------------------------
\* Steps of a reader.

\* A frame the reader is deaf to, or a cancel.
LEMMA TakesMoved ==
  ASSUME Types, NEW q \in Peers, NEW f, Takes(q, f),
         f.type = "cancel" \/ (f.id \notin Hears'[Other(q)] /\ f.id \in Met'[Other(q)])
  PROVE  Moved
<1>1. \A x \in Peers : \A i \in Streams : Passes(x, i)
  <2>1. ASSUME NEW x \in Peers, NEW i \in Streams PROVE Passes(x, i)
    BY TakesPasses
  <2> QED BY <2>1
<1>2. \A i \in Streams : Shifts(q, i, 1)
  BY TakesShift
<1>3. \A i \in Streams : Shifts(Other(q), i, 0)
  BY Two, StillPasses DEF Takes
<1> QED BY <1>1, <1>2, <1>3, Two DEF Moved

\* A frame of a stream that the reader has met and hears: a response or data.
LEMMA HearAgrees ==
  ASSUME Numbering, Agreement, Types', NEW p \in Peers, NEW i \in Streams, NEW s \in StreamStates, NEW f \in Frames,
         f.id = i, f.type \in {"response", "data"}, Takes(Other(p), f), Set(p, i, s),
         last' = last, error' = error,
         st[p][i].known, ~st[p][i].cancelled,
         s.known = st[p][i].known, s.ref = st[p][i].ref, s.used = st[p][i].used, s.cancelled = st[p][i].cancelled,
         s.mine = st[p][i].mine, s.sent = st[p][i].sent, s.read = st[p][i].read, s.saw = st[p][i].saw,
         s.theirs = f.end,
         s.received = IF f.n > 0 THEN st[p][i].received + 1 ELSE st[p][i].received,
         f.type = "response" => i \in Own(p) /\ s.responded,
         f.type = "data" => s.responded = st[p][i].responded /\ (i \in Own(p) => st[p][i].responded),
         i \in Stored'[p], s.saw => s.theirs
  PROVE  Agreement' /\ InTurn /\ \A x \in Peers : Hears'[x] \subseteq Hears[x]
<1> DEFINE q == Other(p)
<1>0. Types /\ Streamed /\ q \in Peers /\ Other(q) = p /\ q # p /\ \A x \in Peers : x = p \/ x = q
  BY Two DEF Agreement
<1>1. /\ st'[p][i] = s
      /\ \A x \in Peers, j \in Streams : x # p \/ j # i => st'[x][j] = st[x][j]
  BY <1>0, SetChanges
<1>2. \A x \in Peers : x \in Rises /\ \A j \in Streams : j \in Sensible[x] /\ j \in Stored[x] /\ j \in Finished[x]
  BY DEF Agreement
<1>3. i \in Met[p] /\ i \in Hears[p]
  <2>1. i \in Met[p]
    BY <1>2, FreshSays DEF Sensible
  <2> QED BY <2>1, MetMeans
<1>4. \A x \in Peers : \A j \in Streams : (j \in Met'[x] <=> j \in Met[x]) /\ (j \in Hears'[x] <=> j \in Hears[x])
  <2>1. \A x \in Peers, j \in Streams :
          /\ st'[x][j].used = st[x][j].used /\ st'[x][j].known = st[x][j].known
          /\ st'[x][j].cancelled = st[x][j].cancelled
    BY ZenonT(60), <1>1
  <2>2. \A x \in Peers, j \in Streams : j \in Met'[x] <=> j \in Met[x]
    BY <2>1, MetMeans, MetMeansNext
  <2> QED BY <2>1, <2>2, MetMeans, MetMeansNext
<1>5. i \notin Own(q) <=> i \in Own(p)
  BY <1>0, OneOwner
<1>6. f.type = "response" => f.n = 0
  BY DEF Frames
<1>7. ASSUME NEW x \in Peers, NEW j \in Streams
      PROVE  /\ j \in Introduced'[x] /\ j \in Noted'[x] /\ j \in Ordered'[x] /\ j \in Expected'[x] /\ j \in Agreed'[x]
  <2>1. CASE x = q /\ j = i
    <3>1. f.type # "cancel" /\ i \in Hears[Other(q)] /\ i \in Met'[Other(q)] /\ Takes(q, f)
          /\ (i \in Met'[q] <=> i \in Met[q]) /\ st'[q][i] = st[q][i] /\ error'[q] = error[q]
      BY <1>0, <1>1, <1>3, <1>4
    <3>2. /\ st'[Other(q)][i].theirs = f.end
          /\ st'[Other(q)][i].received = IF f.n > 0 THEN st[Other(q)][i].received + 1 ELSE st[Other(q)][i].received
          /\ i \notin Own(q) => (st'[Other(q)][i].responded <=> st[Other(q)][i].responded \/ f.type = "response")
      BY <1>0, <1>1, <1>5
    <3> QED BY <2>1, <1>0, <3>1, <3>2, Consumed
  <2>2. CASE x # q \/ j # i
    <3>1. Passes(x, j)
      BY <2>2, <1>0, TakesPasses
    <3>2. /\ j \in Met[x] => j \in Met'[x]
          /\ j \in Met[Other(x)] => j \in Met'[Other(x)]
          /\ j \in Hears'[Other(x)] => j \in Hears[Other(x)]
          /\ j \notin Hears'[Other(x)] => j \in Met'[Other(x)]
      BY <1>4, Two, MetMeansNext
    <3>3. /\ st'[x][j].known = st[x][j].known
          /\ st'[x][j].mine = st[x][j].mine /\ st'[x][j].sent = st[x][j].sent
          /\ j \notin Own(x) => st'[x][j].responded = st[x][j].responded
      BY ZenonT(60), <1>1
    <3>4. st'[Other(x)][j] = st[Other(x)][j]
      <4>1. Other(x) = p /\ j = i => x = q
        BY Two
      <4> QED BY <2>2, <4>1, <1>1, Two
    <3>5. Fades(x, j)
      BY <3>2, <3>3, <3>4 DEF Fades
    <3> QED BY <1>0, <3>1, <3>5, Bystander
  <2> QED BY <2>1, <2>2
<1>8. Streamed'
  BY <1>7 DEF Streamed
<1>9. \A x \in Peers : x \in Rises'
  <2>1. ASSUME NEW x \in Peers PROVE x \in Rises'
    <3>1. \A j \in Streams : j \in Met'[Other(x)] <=> j \in Met[Other(x)]
      BY <1>4, Two
    <3>2. CASE x = q
      BY <3>1, <3>2, <1>0, <1>2, TakesShift, RisesMoved
    <3>3. CASE x = p
      <4>1. Pipe'[p] = Pipe[p]
        BY <1>0 DEF Takes
      <4> QED BY <3>1, <3>3, <4>1, <1>0, <1>2, StillPasses, RisesMoved
    <3> QED BY <3>2, <3>3, <1>0
  <2> QED BY <2>1
<1>10. ASSUME NEW x \in Peers, NEW j \in Streams PROVE j \in Sensible'[x]
  <2>0. /\ \A l \in Own(x) : l \in Met'[x] <=> l \in Met[x]
        /\ (j \in Met'[x] <=> j \in Met[x]) /\ (j \in Met'[Other(x)] <=> j \in Met[Other(x)])
    BY <1>4, Two
  <2>1. CASE x = p /\ j = i
    <3>1. i \in Sensible[p]
      BY <1>2
    <3>2. i \in Own(p) => s.responded
      OBVIOUS
    <3>3. i \in Own(p) /\ s.responded => i \in Met[q]
      <4>1. CASE f.type = "response"
        <5>1. 1 \in Places[q][i] /\ Pipe[q][1] = f
          BY <1>0, <4>1, TakesShift
        <5> QED BY <5>1, <1>0 DEF Streamed, Introduced
      <4>2. CASE f.type = "data"
        BY <4>2, <3>1 DEF Sensible
      <4> QED BY <4>1, <4>2
    <3> QED BY <2>0, <2>1, <1>0, <1>1, <1>3, <3>1, <3>2, <3>3 DEF Sensible
  <2>2. CASE x # p \/ j # i
    <3>1. st'[x][j] = st[x][j] /\ j \in Sensible[x]
      BY <2>2, <1>1, <1>2
    <3> QED BY <2>0, <3>1 DEF Sensible
  <2> QED BY <2>1, <2>2
<1>11. ASSUME NEW x \in Peers, NEW j \in Streams PROVE j \in Stored'[x]
  <2>1. CASE x = p /\ j = i
    BY <2>1
  <2>2. CASE x # p \/ j # i
    <3>1. st'[x][j] = st[x][j] /\ j \in Stored[x]
      BY <2>2, <1>1, <1>2
    <3> QED BY <3>1 DEF Stored
  <2> QED BY <2>1, <2>2
<1>12. ASSUME NEW x \in Peers, NEW j \in Streams PROVE j \in Finished'[x]
  <2>1. /\ st'[x][j].known = st[x][j].known /\ st'[x][j].mine = st[x][j].mine /\ st'[x][j].sent = st[x][j].sent
        /\ st'[Other(x)][j].known = st[Other(x)][j].known /\ st'[Other(x)][j].saw = st[Other(x)][j].saw
        /\ st'[Other(x)][j].read = st[Other(x)][j].read
    BY ZenonT(60), <1>1, Two
  <2> QED BY <2>1, <1>2 DEF Finished
<1>13. InTurn
  BY <1>1 DEF InTurn
<1>14. \A x \in Peers : Hears'[x] \subseteq Hears[x]
  BY <1>4, SubsetsOfStreamsNext
<1> QED BY <1>8, <1>9, <1>10, <1>11, <1>12, <1>13, <1>14 DEF Agreement

\* A request, kept or refused.
LEMMA MeetAgrees ==
  ASSUME Numbering, Agreement, Types', NEW p \in Peers, NEW i \in Streams, NEW f \in Frames,
         f.id = i, f.type = "request", Takes(Other(p), f),
         i \notin Own(p), i \notin Met[p], last' = [last EXCEPT ![p] = i],
         \A x \in Peers : error'[x] = "none" => error[x] = "none",
         \A x \in Peers, j \in Streams : x # p \/ j # i => st'[x][j] = st[x][j],
         \/ st'[p][i] = Fresh
         \/ /\ st'[p][i].known /\ st'[p][i].ref /\ st'[p][i].used /\ st'[p][i].theirs = f.end
            /\ ~st'[p][i].responded /\ ~st'[p][i].cancelled /\ st'[p][i].sent = 0 /\ st'[p][i].received = 0
            /\ st'[p][i].inbox = <<>> /\ st'[p][i].read = 0 /\ ~st'[p][i].saw /\ error' = error
  PROVE  Agreement' /\ InTurn /\ \A x \in Peers : Hears'[x] \subseteq Hears[x]
<1> DEFINE q == Other(p)
<1>0. Types /\ Streamed /\ q \in Peers /\ Other(q) = p /\ q # p /\ \A x \in Peers : x = p \/ x = q
  BY Two DEF Agreement
<1>2. \A x \in Peers : x \in Rises /\ \A j \in Streams : j \in Sensible[x] /\ j \in Stored[x] /\ j \in Finished[x]
  BY DEF Agreement
<1>3. i \in Own(q) /\ f.n = 0 /\ i \in Nat /\ i \notin Own(p)
  BY <1>0, OneOwner, Ids DEF Frames
<1>4. /\ st[p][i] = Fresh /\ ~st[p][i].known /\ ~st[p][i].theirs /\ st[p][i].received = 0 /\ st[p][i].read = 0
      /\ i \in Hears[p]
  BY <1>2, FreshSays, MetMeans DEF Sensible
<1>5. /\ i \in Met'[p]
      /\ \A j \in Streams : j \in Met'[p] => j \in Met[p] \/ (j \in Own(q) /\ j <= i)
      /\ \A x \in Peers : \A j \in Streams : j \in Met[x] => j \in Met'[x]
      /\ \A j \in Streams : j \in Met'[q] <=> j \in Met[q]
      /\ \A j \in Own(p) : j \in Met'[p] <=> j \in Met[p]
  <2>1. last'[p] = i /\ last'[q] = last[q] /\ last[p] \in Nat /\ last[p] < i
    <3>1. ~(i <= last[p]) /\ last[p] \in Nat
      BY <1>0, <1>3, MetMeans DEF Types
    <3> QED BY <1>0, <1>3, <3>1 DEF Types
  <2>2. \A x \in Peers, j \in Streams : j \in Own(x) => st'[x][j] = st[x][j]
    BY <1>3
  <2>3. i \in Met'[p]
    BY <1>3, <2>1, MetMeansNext
  <2>4. \A j \in Streams : j \in Met'[p] => j \in Met[p] \/ (j \in Own(q) /\ j <= i)
    BY <1>0, <2>1, <2>2, MetMeans, MetMeansNext, OneOwner
  <2>5. \A j \in Streams : j \in Met'[q] <=> j \in Met[q]
    BY <1>0, <2>1, <2>2, MetMeans, MetMeansNext
  <2>6. \A j \in Streams : j \in Met[p] => j \in Met'[p]
    <3>1. \A j \in Streams : j \in Nat
      BY Ids
    <3> QED BY <3>1, <2>1, <2>2, MetMeans, MetMeansNext
  <2>7. \A j \in Own(p) : j \in Streams /\ (j \in Met'[p] <=> j \in Met[p])
    BY <2>2, MetMeans, MetMeansNext, Two
  <2> QED BY <1>0, <2>3, <2>4, <2>5, <2>6, <2>7
<1>6. \A x \in Peers : \A j \in Streams : (j \in Hears'[x] => j \in Hears[x]) /\ (j \notin Hears'[x] => j \in Met'[x])
  <2>1. ASSUME NEW x \in Peers, NEW j \in Streams, x # p \/ j # i PROVE j \in Hears'[x] => j \in Hears[x]
    BY <2>1, <1>5, MetMeans, MetMeansNext
  <2> QED BY <2>1, <1>4, MetMeansNext
<1>7. i \in Introduced[q] /\ 1 \in Places[q][i] /\ Pipe[q][1] = f /\ Takes(q, f) /\ i \in Met[q]
  <2>1. 1 \in Places[q][i] /\ Pipe[q][1] = f /\ Takes(q, f)
    BY <1>0, TakesShift
  <2> QED BY <1>0, <2>1 DEF Streamed, Introduced
<1>8. Places[p][i] = {}
  BY <1>0 DEF Streamed, Introduced
<1>9. Pipe'[p] = Pipe[p]
  BY <1>0, <1>7 DEF Takes
<1>10. Places'[p][i] = {}
  BY <1>8, <1>9 DEF Places
<1>11. i \in Sensible[q] /\ ~st[q][i].responded /\ ~st[q][i].theirs /\ st[q][i].received = 0
       /\ st'[q][i] = st[q][i] /\ ~(st[q][i].known /\ st[q][i].saw)
  <2>1. i \in Sensible[q] /\ st'[q][i] = st[q][i]
    BY <1>0, <1>2
  <2>2. ~st[q][i].responded
    BY <1>0, <1>3, <2>1 DEF Sensible
  <2> QED BY <1>0, <1>3, <2>1, <2>2 DEF Sensible
<1>12. ASSUME NEW x \in Peers, NEW j \in Streams
       PROVE  /\ j \in Introduced'[x] /\ j \in Noted'[x] /\ j \in Ordered'[x] /\ j \in Expected'[x] /\ j \in Agreed'[x]
  <2>0. /\ j \in Met[x] => j \in Met'[x]
        /\ j \in Met[Other(x)] => j \in Met'[Other(x)]
        /\ j \in Hears'[Other(x)] => j \in Hears[Other(x)]
        /\ j \notin Hears'[Other(x)] => j \in Met'[Other(x)]
    BY <1>5, <1>6, Two
  <2>1. CASE j # i
    <3>1. Passes(x, j)
      BY <2>1, <1>0, <1>7, TakesPasses
    <3>2. st'[x][j] = st[x][j] /\ st'[Other(x)][j] = st[Other(x)][j]
      BY <2>1, Two
    <3>3. Fades(x, j)
      BY <2>0, <3>2 DEF Fades
    <3> QED BY <1>0, <3>1, <3>3, Bystander
  <2>2. CASE j = i /\ x = p
    <3>1. i \in Introduced'[p] /\ i \in Noted'[p] /\ i \in Ordered'[p]
      BY <1>10 DEF Introduced, Noted, Ordered
    <3>2. i \in Expected'[p]
      BY <1>10 DEF Expected
    <3>3. i \in Agreed'[p]
      <4>1. CASE st'[p][i] = Fresh
        BY <4>1, FreshSays DEF Agreed
      <4>2. CASE st'[p][i].known /\ ~st'[p][i].responded /\ st'[p][i].sent = 0
        BY <4>2, <1>3, <1>11 DEF Agreed
      <4> QED BY <4>1, <4>2
    <3> QED BY <2>2, <3>1, <3>2, <3>3
  <2>3. CASE j = i /\ x = q
    <3>1. CASE st'[p][i] = Fresh
      <4>1. i \notin Hears'[p]
        BY <3>1, <1>5, FreshSays, MetMeansNext
      <4>2. Passes(q, i)
        BY <1>0, <1>5, <1>7, <4>1, TakesPasses
      <4>3. Fades(q, i)
        BY <1>0, <1>11, <2>0, <2>3, <4>1 DEF Fades
      <4> QED BY <1>0, <2>3, <4>2, <4>3, Bystander
    <3>2. CASE st'[p][i].known /\ st'[p][i].theirs = f.end /\ st'[p][i].received = 0 /\ error' = error
      <4>1. f.type # "cancel" /\ i \in Hears[Other(q)] /\ i \in Met'[Other(q)] /\ Takes(q, f)
            /\ (i \in Met'[q] <=> i \in Met[q]) /\ st'[q][i] = st[q][i] /\ error'[q] = error[q]
        BY <1>0, <1>4, <1>5, <1>7, <1>11, <3>2
      <4>2. /\ st'[Other(q)][i].theirs = f.end
            /\ st'[Other(q)][i].received = IF f.n > 0 THEN st[Other(q)][i].received + 1 ELSE st[Other(q)][i].received
            /\ i \notin Own(q) => (st'[Other(q)][i].responded <=> st[Other(q)][i].responded \/ f.type = "response")
        BY <1>0, <1>3, <1>4, <3>2
      <4> QED BY <2>3, <1>0, <4>1, <4>2, Consumed
    <3> QED BY <3>1, <3>2
  <2> QED BY <2>1, <2>2, <2>3, <1>0
<1>13. Streamed'
  BY <1>12 DEF Streamed
<1>14. \A x \in Peers : x \in Rises'
  <2>1. p \in Rises'
    <3>1. \A j \in Streams : j \in Met'[Other(p)] <=> j \in Met[Other(p)]
      BY <1>5
    <3> QED BY <3>1, <1>0, <1>2, <1>9, StillPasses, RisesMoved
  <2>2. ASSUME NEW g \in Streams, NEW j \in Streams, NEW k \in Places'[q][g], NEW l \in Places'[q][j],
               Pipe'[q][k].type = "request"
        PROVE  /\ g \notin Met'[Other(q)]
               /\ Pipe'[q][l].type = "request" /\ l < k => j < g
    <3>1. /\ k + 1 \in Places[q][g] /\ Pipe'[q][k] = Pipe[q][k + 1]
          /\ l + 1 \in Places[q][j] /\ Pipe'[q][l] = Pipe[q][l + 1]
      BY <1>0, <1>7, TakesShift DEF Shifts
    <3>2. k \in Nat /\ k >= 1 /\ l \in Nat
      <4>1. Len(Pipe'[q]) \in Int
        BY <1>0, <1>7, LenNat DEF Takes
      <4> QED BY <4>1, <1>0 DEF Places
    <3>3. i < g
      <4>1. 1 < k + 1
        BY <3>2
      <4> QED BY <2>2, <4>1, <3>1, <1>0, <1>2, <1>7 DEF Rises
    <3>4. g \notin Met[p]
      BY <2>2, <3>1, <1>0, <1>2 DEF Rises
    <3>5. g \notin Met'[p]
      <4>1. i \in Nat /\ g \in Nat
        BY Ids
      <4> QED BY <4>1, <3>3, <3>4, <1>5
    <3>6. Pipe'[q][l].type = "request" /\ l < k => j < g
      <4>1. l < k => l + 1 < k + 1
        BY <3>2
      <4> QED BY <2>2, <4>1, <3>1, <1>0, <1>2 DEF Rises
    <3> QED BY <3>5, <3>6, <1>0
  <2>3. q \in Rises'
    BY <1>0, <2>2 DEF Rises
  <2> QED BY <2>1, <2>3, <1>0
<1>15. ASSUME NEW x \in Peers, NEW j \in Streams PROVE j \in Sensible'[x]
  <2>1. CASE x = p /\ j = i
    <3>1. ~st'[p][i].saw /\ (st'[p][i].known <=> st'[p][i].ref)
      BY FreshSays
    <3> QED BY <2>1, <1>3, <1>5, <3>1 DEF Sensible
  <2>2. CASE x = p /\ j # i
    <3>1. st'[p][j] = st[p][j] /\ j \in Sensible[p]
      BY <2>2, <1>2
    <3>2. /\ \A l \in Own(p) : l \in Met'[p] <=> l \in Met[p]
          /\ j \in Met[p] => j \in Met'[p]
          /\ j \in Met'[q] <=> j \in Met[q]
      BY <1>5
    <3> QED BY <2>2, <3>1, <3>2 DEF Sensible
  <2>3. CASE x = q
    <3>1. st'[q][j] = st[q][j] /\ j \in Sensible[q]
      BY <1>0, <1>2
    <3>2. /\ \A l \in Own(q) : l \in Streams /\ (l \in Met'[q] <=> l \in Met[q])
          /\ j \in Met'[q] <=> j \in Met[q]
          /\ j \in Met[p] => j \in Met'[p]
      BY <1>0, <1>5, Two
    <3>3. j \in Own(q) /\ j \in Met'[p] => j \in Met[q]
      <4>1. CASE j \in Met[p]
        BY <4>1, <1>0, <3>1 DEF Sensible
      <4>2. CASE j = i
        BY <4>2, <1>7
      <4>3. ASSUME j \in Own(q), j \in Met'[p], j \notin Met[p], j # i PROVE j \in Met[q]
        <5>1. j \in Nat /\ i \in Nat /\ j <= i
          BY <4>3, <1>5, Ids
        <5>2. j < i
          BY <5>1, <4>3
        <5> QED BY <1>0, <5>2, <4>3, <1>3, <1>7, <1>11 DEF Sensible
      <4> QED BY <4>1, <4>2, <4>3
    <3> QED BY <2>3, <1>0, <3>1, <3>2, <3>3 DEF Sensible
  <2> QED BY <2>1, <2>2, <2>3, <1>0
<1>16. ASSUME NEW x \in Peers, NEW j \in Streams PROVE j \in Stored'[x]
  <2>1. CASE x = p /\ j = i
    <3>1. /\ st'[p][i].inbox = <<>> /\ st'[p][i].received = 0 /\ st'[p][i].read = 0 /\ Len(<<>>) = 0
      BY FreshSays, EmptySeq
    <3> QED BY <2>1, <3>1 DEF Stored
  <2>2. CASE x # p \/ j # i
    <3>1. st'[x][j] = st[x][j] /\ j \in Stored[x]
      BY <2>2, <1>2
    <3> QED BY <3>1 DEF Stored
  <2> QED BY <2>1, <2>2
<1>17. ASSUME NEW x \in Peers, NEW j \in Streams PROVE j \in Finished'[x]
  <2>1. CASE j # i
    BY <2>1, <1>2, Two DEF Finished
  <2>2. CASE j = i /\ x = p
    BY <2>2, <1>0, <1>11 DEF Finished
  <2>3. CASE j = i /\ x = q
    <3>1. ~st'[p][i].saw
      BY FreshSays
    <3> QED BY <2>3, <1>0, <3>1 DEF Finished
  <2> QED BY <2>1, <2>2, <2>3, <1>0
<1>18. InTurn
  <2>1. st'[p][i].read = 0
    BY FreshSays
  <2> QED BY <2>1, <1>4 DEF InTurn
<1>19. \A x \in Peers : Hears'[x] \subseteq Hears[x]
  BY <1>6, SubsetsOfStreamsNext
<1> QED BY <1>13, <1>14, <1>15, <1>16, <1>17, <1>18, <1>19 DEF Agreement

\* The step of a reader that takes f; none is a breach of the protocol.
NoNewBreach == \A x \in Peers : error'[x] = "EPROTO" => error[x] = "EPROTO"
Taken(p, f) == Takes(Other(p), f) /\ sock' \in [Peers -> Seq(Frames)] /\ gate' = gate /\ fd' = fd

LEMMA IgnoredAgrees ==
  ASSUME Numbering, Agreement, NEW p \in Peers, NEW f \in Frames, Taken(p, f), Ignored,
         f.type = "cancel" \/ (f.id \notin Hears[p] /\ f.id \in Met[p])
  PROVE  Agreement' /\ InTurn /\ NoNewBreach /\ \A x \in Peers : Hears'[x] \subseteq Hears[x]
<1>0. Types /\ Other(p) \in Peers /\ Other(Other(p)) = p
  BY Two DEF Agreement
<1>1. st' = st /\ last' = last /\ error' = error /\ inbound' = inbound /\ refs' = refs /\ controls' = controls
  BY DEF Ignored
<1>2. Types'
  BY <1>0, <1>1 DEF Types, Taken
<1>3. Hears' = Hears /\ Met' = Met
  BY <1>1 DEF Hears, Met
<1>4. Moved
  BY <1>0, <1>3, TakesMoved DEF Taken
<1>5. Agreement'
  BY <1>1, <1>2, <1>4, Unstirred
<1> QED BY <1>1, <1>3, <1>5 DEF InTurn, NoNewBreach

LEMMA HeardCancelAgrees ==
  ASSUME Numbering, Agreement, NEW p \in Peers, NEW f \in Frames, Taken(p, f), f.type = "cancel", OnCancel(p, f.id)
  PROVE  Agreement' /\ InTurn /\ NoNewBreach /\ \A x \in Peers : Hears'[x] \subseteq Hears[x]
<1> DEFINE i == f.id
           q == Other(p)
           s == Abandoned(st[p][i])
<1>0. Types /\ i \in Streams /\ q \in Peers /\ Other(q) = p /\ q # p
  BY Two, FramesSay DEF Agreement
<1>1. CASE ~(st[p][i].known /\ ~st[p][i].cancelled)
  BY <1>1, IgnoredAgrees DEF OnCancel
<1>2. CASE st[p][i].known /\ ~st[p][i].cancelled
  <2>1. Set(p, i, s) /\ last' = last /\ inbound' = inbound /\ controls' = controls /\ error' = error /\ refs' = refs
    BY <1>2 DEF OnCancel, Changed
  <2>2. st[p][i] \in StreamStates /\ i \in Sensible[p] /\ i \in Finished[q]
    BY <1>0, States DEF Agreement
  <2>3. i \in Met[p] /\ (i \in Own(p) => st[p][i].used)
    <3>1. i \in Met[p]
      BY <1>2, <2>2, FreshSays DEF Sensible
    <3> QED BY <1>0, <3>1, MetMeans
  <2>4. s \in StreamStates /\ s.inbox = <<>> /\ s.cancelled /\ s.read = st[p][i].read /\ s.known /\ s.saw = st[p][i].saw
    BY <1>2, <2>2, AbandonedSays
  <2>5. Subsides(p, i, s)
    BY <1>2, <2>2, <2>3, AbandonedSays DEF Subsides, Sensible
  <2> HIDE DEF s, i
  <2>6. st'[p][i] = s /\ \A x \in Peers, j \in Streams : x # p \/ j # i => st'[x][j] = st[x][j]
    BY <1>0, <2>1, <2>4, SetChanges
  <2>7. Types'
    BY <1>0, <2>1, <2>4, LocalTypes DEF Types, Taken
  <2>8. i \in Stored'[p]
    BY <1>0, <2>4, <2>6 DEF Stored
  <2>9. i \in Finished'[q]
    BY <1>0, <1>2, <2>2, <2>4, <2>6 DEF Finished
  <2>10. InTurn
    BY <2>4, <2>6 DEF InTurn
  <2>11. Moved
    BY <1>0, TakesMoved DEF Taken
  <2> QED BY <1>0, <2>1, <2>4, <2>5, <2>7, <2>8, <2>9, <2>10, <2>11, Local DEF NoNewBreach
<1> QED BY <1>1, <1>2

LEMMA HeardRequestAgrees ==
  ASSUME Numbering, Agreement, NEW p \in Peers, NEW f \in Frames, Taken(p, f), f.type = "request", OnRequest(p, f.id, f.end)
  PROVE  /\ Agreement' /\ InTurn /\ NoNewBreach /\ \A x \in Peers : Hears'[x] \subseteq Hears[x]
         /\ f.id \notin Own(p) /\ ~st[p][f.id].known /\ f.id \in Hears[p]
         /\ IF Full(p)
            THEN f.id \notin Hears'[p] /\ Controls(p, f.id) /\ UNCHANGED <<st, inbound, refs>>
            ELSE /\ st'[p][f.id].known /\ \A x \in Peers, j \in Streams : x # p \/ j # f.id => st'[x][j] = st[x][j]
                 /\ inbound' = [inbound EXCEPT ![p] = @ + 1] /\ refs' = [refs EXCEPT ![p] = @ + 1]
                 /\ UNCHANGED <<controls, error>>
<1> DEFINE i == f.id
           q == Other(p)
           s == [Fresh EXCEPT !.known = TRUE, !.ref = TRUE, !.used = TRUE, !.theirs = f.end]
<1>0. Types /\ Streamed /\ i \in Streams /\ f.end \in BOOLEAN /\ q \in Peers /\ Other(q) = p /\ q # p
  BY Two, FramesSay DEF Agreement
<1>1. 1 \in Places[q][i] /\ Pipe[q][1] = f
  BY <1>0, TakesShift DEF Taken
<1>2. i \notin Own(p) /\ i \notin Met[p] /\ ~(i <= last[p]) /\ i \in Nat
  <2>1. i \in Own(q)
    BY <1>0, <1>1 DEF Streamed, Introduced
  <2>2. i \notin Met[p]
    BY <1>0, <1>1 DEF Agreement, Rises
  <2>3. i \notin Own(p) /\ i \in Nat
    BY <1>0, <2>1, OneOwner, Ids
  <2> QED BY <1>0, <2>2, <2>3, MetMeans
<1>3. last' = [last EXCEPT ![p] = i]
  BY <1>2 DEF OnRequest
<1>4. st[p][i] = Fresh /\ i \in Hears[p]
  <2>1. i \in Sensible[p]
    BY <1>0 DEF Agreement
  <2> QED BY <1>0, <1>2, <2>1, MetMeans DEF Sensible
<1> HIDE DEF s, i
<1>5. CASE Full(p)
  <2>1. Controls(p, i) /\ st' = st /\ inbound' = inbound /\ refs' = refs
    BY <1>2, <1>5 DEF OnRequest, i
  <2>2. /\ controls' \in [Peers -> Seq(Streams)]
        /\ error' \in [Peers -> {"none", "EPROTO", "ENOBUFS", "ECONNRESET"}]
        /\ \A x \in Peers : error'[x] = "none" => error[x] = "none"
        /\ NoNewBreach
    BY <1>0, <2>1, ControlsStep DEF NoNewBreach
  <2>3. Types'
    BY <1>0, <1>2, <1>3, <2>1, <2>2 DEF Types, Taken
  <2>4. Agreement' /\ InTurn /\ \A x \in Peers : Hears'[x] \subseteq Hears[x]
    BY <1>0, <1>2, <1>3, <1>4, <2>1, <2>2, <2>3, MeetAgrees DEF Taken, i
  <2>5. i \notin Hears'[p]
    <3>1. last'[p] = i
      BY <1>0, <1>3 DEF Types
    <3>2. i \in Met'[p] /\ ~st'[p][i].known
      BY <1>0, <1>2, <1>4, <2>1, <3>1, FreshSays, MetMeansNext
    <3> QED BY <1>0, <3>2, MetMeansNext
  <2> QED BY <1>2, <1>4, <1>5, <2>1, <2>2, <2>4, <2>5, FreshSays DEF i
<1>6. CASE ~Full(p)
  <2>1. /\ Set(p, i, s) /\ controls' = controls /\ error' = error
        /\ inbound' = [inbound EXCEPT ![p] = @ + 1] /\ refs' = [refs EXCEPT ![p] = @ + 1]
    BY <1>2, <1>6 DEF OnRequest, s, i
  <2>2. Fresh \in StreamStates
    BY FreshTyped
  <2>3. /\ s \in StreamStates /\ s.known /\ s.ref /\ s.used /\ s.theirs = f.end
        /\ s.responded = Fresh.responded /\ s.mine = Fresh.mine /\ s.cancelled = Fresh.cancelled
        /\ s.sent = Fresh.sent /\ s.received = Fresh.received /\ s.inbox = Fresh.inbox
        /\ s.read = Fresh.read /\ s.saw = Fresh.saw
    BY <1>0, <2>2 DEF StreamStates, s
  <2>4. /\ st' \in [Peers -> [Streams -> StreamStates]] /\ st'[p][i] = s
        /\ \A x \in Peers, j \in Streams : x # p \/ j # i => st'[x][j] = st[x][j]
    BY <1>0, <2>1, <2>3, SetChanges
  <2>5. Types'
    <3>1. inbound' \in [Peers -> Int] /\ refs' \in [Peers -> Int] /\ last' \in [Peers -> Nat]
      BY <1>0, <1>2, <1>3, <2>1 DEF Types
    <3> QED BY <1>0, <2>1, <2>4, <3>1 DEF Types, Taken
  <2>6. /\ ~s.responded /\ ~s.cancelled /\ s.sent = 0 /\ s.received = 0
        /\ s.inbox = <<>> /\ s.read = 0 /\ ~s.saw
    BY <2>3, FreshSays
  <2>7. Agreement' /\ InTurn /\ \A x \in Peers : Hears'[x] \subseteq Hears[x]
    BY <1>0, <1>2, <1>3, <2>1, <2>3, <2>4, <2>5, <2>6, MeetAgrees DEF Taken, i
  <2> QED BY <1>2, <1>4, <1>6, <2>1, <2>3, <2>4, <2>7, FreshSays DEF i, NoNewBreach
<1> QED BY <1>5, <1>6

LEMMA HeardResponseAgrees ==
  ASSUME Numbering, Agreement, NEW p \in Peers, NEW f \in Frames, Taken(p, f), f.type = "response", OnResponse(p, f.id, f.end)
  PROVE  Agreement' /\ InTurn /\ NoNewBreach /\ controls' = controls /\ \A x \in Peers : Hears'[x] \subseteq Hears[x]
<1> DEFINE i == f.id
           q == Other(p)
           s == [st[p][i] EXCEPT !.responded = TRUE, !.theirs = f.end, !.inbox = Append(@, 0)]
<1>0. Types /\ Streamed /\ i \in Streams /\ f.end \in BOOLEAN /\ f.n = 0 /\ q \in Peers /\ Other(q) = p /\ q # p
  BY Two, FramesSay DEF Agreement, Frames
<1>1. 1 \in Places[q][i] /\ Pipe[q][1] = f
  BY <1>0, TakesShift DEF Taken
<1>2. i \in Sensible[p] /\ i \in Stored[p] /\ i \in Introduced[q] /\ i \in Expected[q] /\ st[p][i] \in StreamStates
  BY <1>0, States DEF Agreement, Streamed
<1>3. i \in Own(p) /\ i \in Met[p] /\ st[p][i].used
  <2>1. i \notin Own(q) /\ i \in Met[q]
    BY <1>0, <1>1, <1>2 DEF Introduced
  <2>2. i \in Own(p)
    BY <1>0, <2>1, OneOwner
  <2>3. i \in Met[p]
    BY <2>1, <2>2, <1>2 DEF Sensible
  <2> QED BY <1>0, <2>2, <2>3, MetMeans
<1> HIDE DEF s, i
<1>4. CASE ~st[p][i].known \/ st[p][i].cancelled
  <2>1. Ignored /\ i \notin Hears[p]
    BY <1>0, <1>3, <1>4, MetMeans DEF OnResponse, i
  <2> QED BY <1>3, <2>1, IgnoredAgrees DEF i, Ignored
<1>5. CASE st[p][i].known /\ ~st[p][i].cancelled
  <2>1. i \in Hears[p]
    BY <1>0, <1>5, MetMeans
  <2>2. ~st[p][i].responded /\ ~st[p][i].theirs
    BY <1>0, <1>1, <1>2, <2>1 DEF Expected
  <2>3. Set(p, i, s) /\ last' = last /\ inbound' = inbound /\ controls' = controls /\ error' = error /\ refs' = refs
    BY <1>3, <1>5, <2>2 DEF OnResponse, Changed, s, i
  <2>4. /\ st[p][i].inbox = <<>> /\ st[p][i].received = 0 /\ st[p][i].read = 0
        /\ ~st[p][i].saw
    <3>1. st[p][i].inbox = <<>> /\ st[p][i].received = 0 /\ ~st[p][i].saw
      BY <1>2, <1>3, <1>5, <2>2 DEF Sensible, Stored
    <3>2. Len(<<>>) = 0
      BY EmptySeq
    <3>3. st[p][i].read = 0
      BY <1>2, <1>5, <3>1, <3>2 DEF Stored
    <3> QED BY <3>1, <3>3
  <2>5. Append(<<>>, 0) \in Seq(Nat) /\ Len(Append(<<>>, 0)) = 1 /\ Append(<<>>, 0)[1] = 0
    <3>1. <<>> \in Seq(Nat) /\ Len(<<>>) = 0 /\ 0 \in Nat
      BY EmptySeq
    <3> QED BY <3>1, AppendProperties
  <2>6. /\ s \in StreamStates /\ s.responded /\ s.theirs = f.end /\ s.inbox = Append(<<>>, 0)
        /\ s.known = st[p][i].known /\ s.ref = st[p][i].ref /\ s.used = st[p][i].used /\ s.cancelled = st[p][i].cancelled
        /\ s.mine = st[p][i].mine /\ s.sent = st[p][i].sent /\ s.received = st[p][i].received
        /\ s.read = st[p][i].read /\ s.saw = st[p][i].saw
    BY <1>0, <1>2, <2>4, <2>5 DEF StreamStates, s
  <2>7. st'[p][i] = s
    BY <1>0, <2>3, <2>6, SetChanges
  <2>8. Types'
    BY <1>0, <2>3, <2>6, LocalTypes DEF Types, Taken
  <2>9. i \in Stored'[p]
    <3> DEFINE b == Append(<<>>, 0)
    <3>1. Len(b) = 1 /\ b[1] = 0
      BY <2>5
    <3>2. s.inbox = b /\ s.received = 0 /\ s.read = 0 /\ s.responded /\ ~s.cancelled
      BY <1>5, <2>4, <2>6
    <3> HIDE DEF b
    <3>3. \A k \in 1 .. Len(b) : b[k] = 0 - Len(b) + k
      BY <3>1
    <3>4. /\ st'[p][i].inbox = b /\ st'[p][i].received = 0 /\ st'[p][i].read = 0
          /\ st'[p][i].responded /\ ~st'[p][i].cancelled
      BY <2>7, <3>2
    <3>5. /\ Len(st'[p][i].inbox) <= st'[p][i].received + 1
          /\ st'[p][i].read = IF Len(st'[p][i].inbox) > st'[p][i].received THEN 0
                              ELSE st'[p][i].received - Len(st'[p][i].inbox)
          /\ \A k \in 1 .. Len(st'[p][i].inbox) :
               st'[p][i].inbox[k] = st'[p][i].received - Len(st'[p][i].inbox) + k
      <4>1. st'[p][i].inbox = b /\ st'[p][i].received = 0 /\ st'[p][i].read = 0
        BY <3>4
      <4>2. Len(b) <= 0 + 1 /\ 0 = IF Len(b) > 0 THEN 0 ELSE 0 - Len(b)
        BY <3>1
      <4> QED BY <4>1, <4>2, <3>3
    <3> QED BY <1>0, <3>4, <3>5 DEF Stored
  <2>10. Agreement' /\ InTurn /\ \A x \in Peers : Hears'[x] \subseteq Hears[x]
    <3>1. f.id = i /\ Takes(q, f)
      BY DEF i, Taken
    <3>2. s.received = IF f.n > 0 THEN st[p][i].received + 1 ELSE st[p][i].received
      BY <1>0, <2>6
    <3>3. ~s.saw
      BY <2>4, <2>6
    <3> QED BY <1>0, <1>3, <1>5, <2>3, <2>6, <2>8, <2>9, <3>1, <3>2, <3>3, HearAgrees
  <2> QED BY <2>3, <2>10 DEF NoNewBreach
<1> QED BY <1>4, <1>5

\* The inbox after one more unit.
LEMMA OneMore == \A R, l, k \in Int : (R + 1) - (l + 1) + k = R - l + k
OBVIOUS

LEMMA Stores ==
  ASSUME NEW b \in Seq(Nat), NEW R \in Nat, NEW r \in Nat,
         Len(b) <= R + 1, r = IF Len(b) > R THEN 0 ELSE R - Len(b),
         \A k \in 1 .. Len(b) : b[k] = R - Len(b) + k
  PROVE  LET c == Append(b, R + 1) IN
         /\ c \in Seq(Nat) /\ Len(c) <= (R + 1) + 1 /\ r = IF Len(c) > R + 1 THEN 0 ELSE (R + 1) - Len(c)
         /\ \A k \in 1 .. Len(c) : c[k] = (R + 1) - Len(c) + k
<1> DEFINE c == Append(b, R + 1)
<1>1. /\ c \in Seq(Nat) /\ Len(c) = Len(b) + 1 /\ Len(b) \in Nat
      /\ \A k \in 1 .. Len(b) : c[k] = b[k]
      /\ c[Len(b) + 1] = R + 1
  BY AppendProperties, LenProperties
<1> HIDE DEF c
<1>2. Len(c) <= (R + 1) + 1 /\ r = IF Len(c) > R + 1 THEN 0 ELSE (R + 1) - Len(c)
  BY <1>1
<1>3. ASSUME NEW k \in 1 .. Len(c) PROVE c[k] = (R + 1) - Len(c) + k
  <2>1. CASE k = Len(b) + 1
    BY <1>1, <2>1
  <2>2. CASE k # Len(b) + 1
    <3>1. k \in 1 .. Len(b) /\ k \in Int
      BY <1>1, <2>2
    <3>2. c[k] = R - Len(b) + k
      BY <1>1, <3>1
    <3> QED BY <1>1, <3>1, <3>2, OneMore
  <2> QED BY <2>1, <2>2
<1> QED BY <1>1, <1>2, <1>3 DEF c

LEMMA HeardDataAgrees ==
  ASSUME Numbering, Agreement, NEW p \in Peers, NEW f \in Frames, Taken(p, f), f.type = "data", OnData(p, f.id, f.n, f.end)
  PROVE  Agreement' /\ InTurn /\ NoNewBreach /\ controls' = controls /\ \A x \in Peers : Hears'[x] \subseteq Hears[x]
<1> DEFINE i == f.id
           q == Other(p)
           s == [st[p][i] EXCEPT !.theirs = f.end, !.received = IF f.n > 0 THEN @ + 1 ELSE @,
                                 !.inbox = Delivered(st[p][i], f.n, f.end)]
<1>0. /\ Types /\ Streamed /\ i \in Streams /\ f.end \in BOOLEAN /\ f.n \in 0 .. DataMax /\ f.n \in Nat
      /\ q \in Peers /\ Other(q) = p /\ q # p
  BY Two, FramesSay DEF Agreement
<1>1. 1 \in Places[q][i] /\ Pipe[q][1] = f /\ \A j \in Places[q][i] : ~(j < 1)
  <2>1. \A j \in Places[q][i] : j \in Nat /\ j >= 1
    BY <1>0, PlacesAreNumbers
  <2> QED BY <1>0, <2>1, TakesShift DEF Taken
<1>2. i \in Sensible[p] /\ i \in Stored[p] /\ i \in Introduced[q] /\ i \in Expected[q] /\ st[p][i] \in StreamStates
  BY <1>0, States DEF Agreement, Streamed
<1>3. i \in Met[p] /\ (i \in Own(p) => st[p][i].used) /\ (i \notin Own(p) => ~(i > last[p]))
  <2>1. i \in Met[p]
    <3>1. CASE i \in Own(p)
      <4>1. i \in Met[q]
        BY <1>0, <1>1, <1>2 DEF Introduced
      <4> QED BY <3>1, <4>1, <1>2 DEF Sensible
    <3>2. CASE i \notin Own(p)
      BY <3>2, <1>0, <1>1, <1>2, OneOwner DEF Introduced
    <3> QED BY <3>1, <3>2
  <2>2. i \in Nat /\ last[p] \in Nat
    BY <1>0, Ids DEF Types
  <2> QED BY <1>0, <2>1, <2>2, MetMeans
<1> HIDE DEF s, i
<1>4. CASE ~st[p][i].known \/ st[p][i].cancelled
  <2>1. Ignored /\ i \notin Hears[p]
    BY <1>0, <1>3, <1>4, MetMeans DEF OnData, i
  <2> QED BY <1>3, <2>1, IgnoredAgrees DEF i, Ignored
<1>5. CASE st[p][i].known /\ ~st[p][i].cancelled
  <2>0. st[p][i].received \in Nat /\ st[p][i].received \in 0 .. DataMax /\ st[p][i].inbox \in Seq(Nat) /\ st[p][i].read \in Nat
    BY <1>2, StateFields
  <2>1. i \in Hears[p]
    BY <1>0, <1>5, MetMeans
  <2>2. /\ ~st[p][i].theirs
        /\ i \in Own(p) => st[p][i].responded
        /\ f.n > 0 => f.n = st[p][i].received + 1 /\ st[p][i].received + 1 \in 0 .. DataMax
    <3>1. ~st[p][i].theirs
      BY <1>0, <1>1, <1>2, <2>1 DEF Expected
    <3>2. i \in Own(p) => st[p][i].responded
      BY <1>0, <1>1, <1>2, <2>1, OneOwner DEF Expected
    <3>3. f.n > 0 => f.n = st[p][i].received + 1
      BY <1>0, <1>1, <1>2, <2>1 DEF Expected
    <3> QED BY <1>0, <3>1, <3>2, <3>3
  <2>3. Set(p, i, s) /\ last' = last /\ inbound' = inbound /\ controls' = controls /\ error' = error /\ refs' = refs
    <3>1. ~(f.n > 0 /\ st[p][i].received = DataMax)
      BY <2>0, <2>2, <1>0 DEF Numbering
    <3> QED BY <1>3, <1>5, <2>2, <3>1 DEF OnData, Changed, Responder, s, i
  <2>4. ~st[p][i].saw
    BY <1>2, <1>5, <2>2 DEF Sensible
  <2> DEFINE R == st[p][i].received
             b == st[p][i].inbox
  <2>5. /\ Len(b) <= R + 1 /\ st[p][i].read = IF Len(b) > R THEN 0 ELSE R - Len(b)
        /\ \A k \in 1 .. Len(b) : b[k] = R - Len(b) + k
    BY <1>2, <1>5 DEF Stored
  <2>6. LET c == Append(b, R + 1) IN
         /\ c \in Seq(Nat) /\ Len(c) <= (R + 1) + 1
         /\ st[p][i].read = IF Len(c) > R + 1 THEN 0 ELSE (R + 1) - Len(c)
         /\ \A k \in 1 .. Len(c) : c[k] = (R + 1) - Len(c) + k
    BY ZenonT(60), <2>0, <2>5, Stores
  <2>7. /\ s \in StreamStates /\ s.theirs = f.end
        /\ s.received = IF f.n > 0 THEN R + 1 ELSE R
        /\ s.inbox = IF f.n > 0 THEN Append(b, R + 1) ELSE b
        /\ s.known = st[p][i].known /\ s.ref = st[p][i].ref /\ s.used = st[p][i].used /\ s.cancelled = st[p][i].cancelled
        /\ s.mine = st[p][i].mine /\ s.sent = st[p][i].sent /\ s.responded = st[p][i].responded
        /\ s.read = st[p][i].read /\ s.saw = st[p][i].saw
    <3>1. CASE f.n > 0
      <4>1. s = [st[p][i] EXCEPT !.theirs = f.end, !.received = R + 1, !.inbox = Append(b, R + 1)]
        BY <3>1, <2>2 DEF s, Delivered
      <4> QED BY <3>1, <4>1, <1>0, <1>2, <2>2, <2>6 DEF StreamStates
    <3>2. CASE ~(f.n > 0)
      <4>1. s = [st[p][i] EXCEPT !.theirs = f.end, !.received = R, !.inbox = b]
        BY <3>2 DEF s, Delivered
      <4> QED BY <3>2, <4>1, <1>0, <1>2, <2>0 DEF StreamStates
    <3> QED BY <3>1, <3>2
  <2>8. st'[p][i] = s
    BY <1>0, <2>3, <2>7, SetChanges
  <2>9. Types'
    BY <1>0, <2>3, <2>7, LocalTypes DEF Types, Taken
  <2>10. i \in Stored'[p]
    <3>1. CASE f.n > 0
      <4> DEFINE c == Append(b, R + 1)
      <4>1. /\ Len(c) <= (R + 1) + 1
            /\ st[p][i].read = IF Len(c) > R + 1 THEN 0 ELSE (R + 1) - Len(c)
            /\ \A k \in 1 .. Len(c) : c[k] = (R + 1) - Len(c) + k
        BY <2>6
      <4>2. /\ st'[p][i].inbox = c /\ st'[p][i].received = R + 1 /\ st'[p][i].read = st[p][i].read
            /\ ~st'[p][i].cancelled /\ st'[p][i].responded = st[p][i].responded
        BY <3>1, <1>5, <2>7, <2>8
      <4> HIDE DEF c, R, b
      <4> QED BY <1>0, <2>2, <4>1, <4>2 DEF Stored
    <3>2. CASE ~(f.n > 0)
      <4>1. /\ st'[p][i].inbox = st[p][i].inbox /\ st'[p][i].read = st[p][i].read
            /\ st'[p][i].received = st[p][i].received /\ st'[p][i].known = st[p][i].known
            /\ st'[p][i].cancelled = st[p][i].cancelled /\ st'[p][i].responded = st[p][i].responded
        BY <3>2, <2>7, <2>8
      <4> QED BY SMTT(60), <1>2, <4>1 DEF Stored
    <3> QED BY <3>1, <3>2
  <2>11. Agreement' /\ InTurn /\ \A x \in Peers : Hears'[x] \subseteq Hears[x]
    <3>1. f.id = i /\ Takes(q, f) /\ ~s.saw
      BY <2>4, <2>7 DEF i, Taken
    <3> QED BY <1>0, <1>5, <2>2, <2>3, <2>7, <2>9, <2>10, <3>1, HearAgrees
  <2> QED BY <2>3, <2>11 DEF NoNewBreach
<1> QED BY <1>4, <1>5

LEMMA ReadAgrees ==
  ASSUME Numbering, Agreement, NEW p \in Peers, Read(p)
  PROVE  Agreement' /\ InTurn /\ NoNewBreach /\ \A x \in Peers : Hears'[x] \subseteq Hears[x]
<1> DEFINE q == Other(p)
           f == Head(sock[q])
<1>1. Types /\ q \in Peers
  BY Two DEF Agreement
<1>2. /\ sock[q] # <<>> /\ sock' = [sock EXCEPT ![q] = Tail(@)] /\ gate' = gate /\ fd' = fd
      /\ \/ f.type = "cancel" /\ OnCancel(p, f.id)
         \/ f.type = "request" /\ OnRequest(p, f.id, f.end)
         \/ f.type = "response" /\ OnResponse(p, f.id, f.end)
         \/ f.type = "data" /\ OnData(p, f.id, f.n, f.end)
  BY DEF Read
<1>3. f \in Frames /\ Taken(p, f)
  BY <1>1, <1>2, ReadTakes DEF Taken
<1> HIDE DEF f
<1> QED BY <1>2, <1>3, HeardCancelAgrees, HeardRequestAgrees, HeardResponseAgrees, HeardDataAgrees

---------------------------------------------------------------------------
\* The session as a whole.

\* Every stream a peer knows is held by its caller: none is left to the end.
LEMMA NoneGone ==
  ASSUME Agreement, NEW p \in Peers, Close(p)
  PROVE  /\ st' = st /\ inbound' = inbound /\ refs' = [refs EXCEPT ![p] = @ - 1] /\ fd' = [fd EXCEPT ![p] = FALSE]
         /\ last' = last /\ gate' = gate /\ controls' = controls /\ sock' = sock /\ error' = error
<1> DEFINE gone == {i \in Streams : st[p][i].known /\ ~st[p][i].ref}
<1>0. Types
  BY DEF Agreement
<1>1. gone = {} /\ {i \in gone : Responder(p, i)} = {}
  BY DEF Agreement, Sensible
<1>2. Cardinality({}) = 0
  BY FS_EmptySet
<1>3. /\ st' = [st EXCEPT ![p] = [i \in Streams |-> IF i \in gone THEN [Fresh EXCEPT !.used = TRUE] ELSE @[i]]]
      /\ refs' = [refs EXCEPT ![p] = @ - 1 - Cardinality(gone)]
      /\ inbound' = [inbound EXCEPT ![p] = @ - Cardinality({i \in gone : Responder(p, i)})]
  BY DEF Close
<1> HIDE DEF gone
<1>4. st' = st
  BY <1>0, <1>1, <1>3 DEF Types
<1>5. inbound' = inbound /\ refs' = [refs EXCEPT ![p] = @ - 1]
  <2>1. Cardinality(gone) = 0 /\ Cardinality({i \in gone : Responder(p, i)}) = 0
    BY <1>1, <1>2
  <2>2. inbound[p] \in Int /\ refs[p] \in Int
    BY <1>0 DEF Types
  <2>3. inbound[p] - 0 = inbound[p] /\ refs[p] - 1 - 0 = refs[p] - 1
    BY <2>2
  <2> QED BY <1>0, <1>3, <2>1, <2>3 DEF Types
<1> QED BY <1>4, <1>5 DEF Close

LEMMA CloseAgrees ==
  ASSUME Numbering, Agreement, NEW p \in Peers, Close(p)
  PROVE  Agreement' /\ InTurn /\ NoNewBreach /\ \A x \in Peers : Hears'[x] \subseteq Hears[x]
<1>0. Types
  BY DEF Agreement
<1>1. Types'
  <2>1. refs' \in [Peers -> Int] /\ fd' \in [Peers -> BOOLEAN]
    <3>1. refs' = [refs EXCEPT ![p] = @ - 1] /\ fd' = [fd EXCEPT ![p] = FALSE]
      BY NoneGone
    <3>2. refs \in [Peers -> Int] /\ fd \in [Peers -> BOOLEAN]
      BY <1>0 DEF Types
    <3> QED BY <3>1, <3>2
  <2> QED BY <1>0, <2>1, NoneGone DEF Types
<1>2. Hears' = Hears
  BY NoneGone DEF Hears, Met
<1>3. Agreement'
  BY <1>0, <1>1, NoneGone, UntouchedMoved, Unstirred
<1> QED BY <1>2, <1>3, NoneGone DEF InTurn, NoNewBreach

LEMMA AgreementStarts == ASSUME Numbering, Init PROVE Agreement
<1>1. Fresh \in StreamStates /\ <<>> \in Seq(Frames) /\ <<>> \in Seq(Streams) /\ Len(<<>>) = 0
  BY FreshTyped, EmptySeq
<1>2. Types
  BY <1>1 DEF Init, Types
<1>3. \A p \in Peers : \A i \in Streams : st[p][i] = Fresh /\ Places[p][i] = {} /\ i \notin Met[p]
  <2>1. \A p \in Peers : Pipe[p] = <<>>
    BY DEF Init, Pipe
  <2>2. \A p \in Peers : \A i \in Streams : Places[p][i] = {}
    BY <1>1, <2>1 DEF Places
  <2>3. \A p \in Peers : \A i \in Streams : st[p][i] = Fresh /\ last[p] = 0 /\ i \in Nat \ {0}
    BY Ids DEF Init
  <2>4. \A p \in Peers : \A i \in Streams : i \notin Met[p]
    BY <2>3, FreshSays, MetMeans
  <2> QED BY <2>2, <2>3, <2>4
<1>4. Streamed
  <2> SUFFICES ASSUME NEW p \in Peers, NEW i \in Streams
               PROVE  /\ i \in Introduced[p] /\ i \in Noted[p] /\ i \in Ordered[p]
                      /\ i \in Expected[p] /\ i \in Agreed[p]
    BY DEF Streamed
  <2> QED BY <1>3, FreshSays DEF Introduced, Noted, Ordered, Expected, Agreed
<1>5. \A p \in Peers : p \in Rises
  BY <1>3 DEF Rises
<1>6. ASSUME NEW p \in Peers, NEW i \in Streams PROVE i \in Sensible[p] /\ i \in Stored[p] /\ i \in Finished[p]
  <2>1. st[p][i] = Fresh /\ st[Other(p)][i] = Fresh /\ i \notin Met[p] /\ i \notin Met[Other(p)]
    BY <1>3, Two
  <2>2. i \in Sensible[p]
    BY <2>1, FreshSays DEF Sensible
  <2> QED BY <2>1, <2>2, FreshSays DEF Stored, Finished
<1> QED BY <1>2, <1>4, <1>5, <1>6 DEF Agreement

LEMMA NextAgrees ==
  ASSUME Numbering, Agreement, [Next]_vars
  PROVE  Agreement' /\ InTurn /\ NoNewBreach /\ \A x \in Peers : Hears'[x] \subseteq Hears[x]
<1>0. Types
  BY DEF Agreement
<1>1. CASE UNCHANGED vars
  <2>1. Types' /\ Hears' = Hears
    BY <1>0, <1>1 DEF Types, vars, Hears, Met
  <2>2. Agreement'
    BY <1>0, <1>1, <2>1, UntouchedMoved, Unstirred DEF vars
  <2> QED BY <1>1, <2>1, <2>2 DEF InTurn, NoNewBreach, vars
<1>2. ASSUME NEW p \in Peers, NEW i \in Streams, NEW e \in BOOLEAN, NEW n \in {0, 1},
             Request(p, i, e) \/ Respond(p, i, e) \/ Receive(p, i) \/ Cancel(p, i) \/ Release(p, i) \/ Send(p, i, n, e)
      PROVE  Agreement' /\ InTurn /\ NoNewBreach /\ \A x \in Peers : Hears'[x] \subseteq Hears[x]
  <2>1. NoNewBreach
    <3>1. CASE Cancel(p, i)
      BY <1>0, <3>1, ControlsStep DEF Cancel, NoNewBreach
    <3>2. CASE ~Cancel(p, i)
      BY <1>2, <3>2 DEF Request, Respond, Receive, Release, Send, NoNewBreach
    <3> QED BY <3>1, <3>2
  <2> QED BY <1>2, <2>1, RequestAgrees, RespondAgrees, ReceiveAgrees, CancelAgrees, ReleaseAgrees, SendAgrees
<1>3. ASSUME NEW p \in Peers, Written(p) \/ WriteControl(p) \/ Fail(p)
      PROVE  Agreement' /\ InTurn /\ NoNewBreach /\ \A x \in Peers : Hears'[x] \subseteq Hears[x]
  <2>1. NoNewBreach
    BY <1>0, <1>3 DEF Written, WriteControl, Fail, Types, NoNewBreach
  <2> QED BY <1>3, <2>1, QuietAgrees
<1>4. ASSUME NEW p \in Peers, Caller(p) \/ Written(p) \/ WriteControl(p) \/ Read(p) \/ Fail(p) \/ Close(p)
      PROVE  Agreement' /\ InTurn /\ NoNewBreach /\ \A x \in Peers : Hears'[x] \subseteq Hears[x]
  <2>1. CASE Caller(p)
    <3>1. 0 \in {0, 1}
      OBVIOUS
    <3> QED BY <2>1, <3>1, <1>2 DEF Caller
  <2> QED BY <1>3, <1>4, <2>1, ReadAgrees, CloseAgrees
<1> QED BY <1>1, <1>4 DEF Next

LEMMA AgreementIsInvariant == ASSUME Numbering PROVE Spec => []Agreement
<1>1. Init => Agreement
  BY AgreementStarts
<1>2. Agreement /\ [Next]_vars => Agreement'
  BY NextAgrees
<1> QED BY <1>1, <1>2, PTL DEF Spec

---------------------------------------------------------------------------
\* Streams, slots, references and the descriptor.

\* The streams a peer keeps, and those of them that the other side opened.
Kept == [p \in Peers |-> {i \in Streams : st[p][i].known}]
Slots == [p \in Peers |-> {i \in Streams : st[p][i].known /\ i \notin Own(p)}]

Counted == \A p \in Peers :
  /\ refs[p] = Cardinality(Kept[p]) + (IF fd[p] THEN 1 ELSE 0)
  /\ inbound[p] = Cardinality(Slots[p]) /\ inbound[p] <= MaxInbound
  /\ fd[p] \/ ~Live(p)
  /\ fd[p] \/ gate[p] = NoFrame
  /\ Len(sock[p]) <= Socket

LEMMA KeptFinite == ASSUME Numbering PROVE \A p \in Peers :
  /\ IsFiniteSet(Kept[p]) /\ IsFiniteSet(Slots[p]) /\ Cardinality(Kept[p]) \in Nat /\ Cardinality(Slots[p]) \in Nat
<1> SUFFICES ASSUME NEW p \in Peers
             PROVE  /\ IsFiniteSet(Kept[p]) /\ IsFiniteSet(Slots[p])
                    /\ Cardinality(Kept[p]) \in Nat /\ Cardinality(Slots[p]) \in Nat
  OBVIOUS
<1>1. Kept[p] \in SUBSET Streams /\ Slots[p] \in SUBSET Streams /\ IsFiniteSet(Streams)
  BY DEF Kept, Slots, Numbering
<1>2. IsFiniteSet(Kept[p]) /\ IsFiniteSet(Slots[p])
  BY <1>1, FS_Subset
<1> QED BY <1>2, FS_CardinalityType

\* The same streams are kept.
Keeping == \A p \in Peers : Kept'[p] = Kept[p] /\ Slots'[p] = Slots[p]

LEMMA SameKept ==
  ASSUME Types, NEW p \in Peers, NEW i \in Streams, NEW s, Set(p, i, s), s.known = st[p][i].known
  PROVE  Keeping
<1>1. \A x \in Peers, j \in Streams : st'[x][j] = IF x = p /\ j = i THEN s ELSE st[x][j]
  BY DEF Set, Types
<1>2. \A x \in Peers, j \in Streams : st'[x][j].known = st[x][j].known
  BY <1>1
<1> QED BY <1>2 DEF Keeping, Kept, Slots

\* A stream is added; it is in no count yet.
LEMMA OneKept ==
  ASSUME Numbering, NEW p \in Peers, NEW i \in Streams, ~st[p][i].known, st'[p][i].known,
         \A x \in Peers, j \in Streams : x # p \/ j # i => st'[x][j] = st[x][j]
  PROVE  /\ Cardinality(Kept'[p]) = Cardinality(Kept[p]) + 1
         /\ i \in Own(p) => Cardinality(Slots'[p]) = Cardinality(Slots[p])
         /\ i \notin Own(p) => Cardinality(Slots'[p]) = Cardinality(Slots[p]) + 1
         /\ \A x \in Peers : x # p => Kept'[x] = Kept[x] /\ Slots'[x] = Slots[x]
<1>1. Kept'[p] = Kept[p] \cup {i} /\ i \notin Kept[p]
  BY DEF Kept
<1>2. i \in Own(p) => Slots'[p] = Slots[p]
  BY DEF Slots
<1>3. i \notin Own(p) => Slots'[p] = Slots[p] \cup {i} /\ i \notin Slots[p]
  BY DEF Slots
<1>4. \A x \in Peers : x # p => Kept'[x] = Kept[x] /\ Slots'[x] = Slots[x]
  BY DEF Kept, Slots
<1>5. Cardinality(Kept'[p]) = Cardinality(Kept[p]) + 1
  BY <1>1, KeptFinite, FS_AddElement
<1>6. i \notin Own(p) => Cardinality(Slots'[p]) = Cardinality(Slots[p]) + 1
  BY <1>3, KeptFinite, FS_AddElement
<1> QED BY <1>2, <1>4, <1>5, <1>6

LEMMA OneGone ==
  ASSUME Numbering, NEW p \in Peers, NEW i \in Streams, st[p][i].known, ~st'[p][i].known,
         \A x \in Peers, j \in Streams : x # p \/ j # i => st'[x][j] = st[x][j]
  PROVE  /\ Cardinality(Kept'[p]) = Cardinality(Kept[p]) - 1
         /\ i \in Own(p) => Cardinality(Slots'[p]) = Cardinality(Slots[p])
         /\ i \notin Own(p) => Cardinality(Slots'[p]) = Cardinality(Slots[p]) - 1
         /\ \A x \in Peers : x # p => Kept'[x] = Kept[x] /\ Slots'[x] = Slots[x]
<1>1. Kept'[p] = Kept[p] \ {i} /\ i \in Kept[p]
  BY DEF Kept
<1>2. i \in Own(p) => Slots'[p] = Slots[p]
  BY DEF Slots
<1>3. i \notin Own(p) => Slots'[p] = Slots[p] \ {i} /\ i \in Slots[p]
  BY DEF Slots
<1>4. \A x \in Peers : x # p => Kept'[x] = Kept[x] /\ Slots'[x] = Slots[x]
  BY DEF Kept, Slots
<1>5. Cardinality(Kept'[p]) = Cardinality(Kept[p]) - 1
  <2>1. Cardinality(Kept[p] \ {i}) = IF i \in Kept[p] THEN Cardinality(Kept[p]) - 1 ELSE Cardinality(Kept[p])
    <3>1. IsFiniteSet(Kept[p])
      BY KeptFinite
    <3> QED BY <3>1, FS_RemoveElement
  <2> QED BY <1>1, <2>1
<1>6. i \notin Own(p) => Cardinality(Slots'[p]) = Cardinality(Slots[p]) - 1
  BY SMTT(60), <1>3, KeptFinite, FS_RemoveElement
<1> QED BY <1>2, <1>4, <1>5, <1>6

\* What a step leaves that counts nothing.
LEMMA CountedStill ==
  ASSUME Types, Counted, Keeping, refs' = refs, inbound' = inbound, fd' = fd,
         \A x \in Peers : error'[x] = "none" => error[x] = "none",
         \A x \in Peers : gate'[x] = gate[x] \/ gate'[x] = NoFrame \/ Live(x),
         \A x \in Peers : Len(sock'[x]) <= Socket
  PROVE  Counted'
<1> SUFFICES ASSUME NEW x \in Peers
             PROVE  /\ refs'[x] = Cardinality(Kept'[x]) + (IF fd'[x] THEN 1 ELSE 0)
                    /\ inbound'[x] = Cardinality(Slots'[x]) /\ inbound'[x] <= MaxInbound
                    /\ fd'[x] \/ ~(error'[x] = "none")
                    /\ fd'[x] \/ gate'[x] = NoFrame
                    /\ Len(sock'[x]) <= Socket
  BY DEF Counted, Live
<1>1. Kept'[x] = Kept[x] /\ Slots'[x] = Slots[x]
  BY DEF Keeping
<1> QED BY <1>1 DEF Counted, Live

LEMMA CallerCounts ==
  ASSUME Numbering, Agreement, Counted, NEW p \in Peers, NEW i \in Streams, NEW e \in BOOLEAN, NEW n \in {0, 1},
         Request(p, i, e) \/ Respond(p, i, e) \/ Receive(p, i) \/ Cancel(p, i) \/ Release(p, i) \/ Send(p, i, n, e)
  PROVE  Counted'
<1>0. Types /\ st[p][i] \in StreamStates
  BY States DEF Agreement
<1>1. sock' = sock /\ fd' = fd
  BY DEF Request, Respond, Receive, Cancel, Release, Send
<1>2. \A x \in Peers : error'[x] = "none" => error[x] = "none"
  BY <1>0, ControlsStep DEF Request, Respond, Receive, Cancel, Release, Send
<1>3. \A x \in Peers : gate'[x] = gate[x] \/ gate'[x] = NoFrame \/ Live(x)
  BY <1>0 DEF Request, Respond, Receive, Cancel, Release, Send, Acquire, Types
<1>4. \A x \in Peers : Len(sock'[x]) <= Socket
  BY <1>1 DEF Counted
<1>5. CASE Respond(p, i, e) \/ Receive(p, i) \/ Cancel(p, i) \/ Send(p, i, n, e)
  <2>1. Keeping
    <3>1. CASE Respond(p, i, e)
      <4>1. [st[p][i] EXCEPT !.responded = TRUE, !.mine = e].known = st[p][i].known
        BY <1>0 DEF StreamStates
      <4> QED BY <3>1, <4>1, <1>0, SameKept DEF Respond
    <3>2. CASE Receive(p, i)
      <4> DEFINE s == st[p][i]
                 a == [s EXCEPT !.inbox = Tail(@), !.read = IF Head(s.inbox) = 0 THEN @ ELSE Head(s.inbox)]
                 b == [s EXCEPT !.saw = TRUE]
      <4>1. a.known = st[p][i].known /\ b.known = st[p][i].known
        BY <1>0 DEF StreamStates
      <4>2. Set(p, i, a) \/ Set(p, i, b)
        BY <3>2 DEF Receive
      <4> HIDE DEF a, b
      <4> QED BY <4>1, <4>2, <1>0, SameKept
    <3>3. CASE Cancel(p, i)
      <4>1. Abandoned(st[p][i]).known = st[p][i].known /\ Set(p, i, Abandoned(st[p][i]))
        BY <1>0, <3>3, AbandonedSays DEF Cancel
      <4> QED BY <4>1, <1>0, SameKept
    <3>4. CASE Send(p, i, n, e)
      <4> DEFINE s == [st[p][i] EXCEPT !.sent = @ + n, !.mine = e]
      <4>1. s.known = st[p][i].known
        BY <1>0 DEF StreamStates
      <4>2. Set(p, i, s)
        BY <3>4 DEF Send
      <4> HIDE DEF s
      <4> QED BY <4>1, <4>2, <1>0, SameKept
    <3> QED BY <1>5, <3>1, <3>2, <3>3, <3>4
  <2>2. refs' = refs /\ inbound' = inbound
    BY <1>5 DEF Respond, Receive, Cancel, Send
  <2> QED BY <1>0, <1>1, <1>2, <1>3, <1>4, <2>1, <2>2, CountedStill
<1>6. ASSUME Request(p, i, e) PROVE Counted'
  <2> DEFINE s == [Fresh EXCEPT !.known = TRUE, !.ref = TRUE, !.used = TRUE, !.mine = e]
  <2>1. s.known
    BY DEF Fresh
  <2>2. Set(p, i, s) /\ ~st[p][i].used /\ i \in Own(p) /\ inbound' = inbound /\ refs' = [refs EXCEPT ![p] = @ + 1]
    BY <1>6 DEF Request
  <2> HIDE DEF s
  <2>3. \A x \in Peers, j \in Streams : st'[x][j] = IF x = p /\ j = i THEN s ELSE st[x][j]
    BY <1>0, <2>2 DEF Set, Types
  <2>4. ~st[p][i].known
    <3>1. i \notin Met[p] /\ i \in Sensible[p]
      BY <2>2, MetMeans DEF Agreement
    <3> QED BY <3>1, FreshSays DEF Sensible
  <2>5. /\ Cardinality(Kept'[p]) = Cardinality(Kept[p]) + 1
        /\ Cardinality(Slots'[p]) = Cardinality(Slots[p])
        /\ \A x \in Peers : x # p => Kept'[x] = Kept[x] /\ Slots'[x] = Slots[x]
    BY <2>1, <2>2, <2>3, <2>4, OneKept
  <2>6. \A x \in Peers : refs'[x] = IF x = p THEN refs[x] + 1 ELSE refs[x]
    BY <1>0, <2>2 DEF Types
  <2>7. ASSUME NEW x \in Peers
        PROVE  /\ refs'[x] = Cardinality(Kept'[x]) + (IF fd'[x] THEN 1 ELSE 0)
               /\ inbound'[x] = Cardinality(Slots'[x]) /\ inbound'[x] <= MaxInbound
               /\ fd'[x] \/ ~(error'[x] = "none")
               /\ fd'[x] \/ gate'[x] = NoFrame
               /\ Len(sock'[x]) <= Socket
    <3>1. /\ refs[x] = Cardinality(Kept[x]) + (IF fd[x] THEN 1 ELSE 0)
          /\ inbound[x] = Cardinality(Slots[x]) /\ inbound[x] <= MaxInbound
          /\ fd[x] \/ ~(error[x] = "none")
          /\ fd[x] \/ gate[x] = NoFrame
      BY DEF Counted, Live
    <3>2. Cardinality(Kept[x]) \in Nat /\ Cardinality(Kept[p]) \in Nat
      BY KeptFinite
    <3>3. refs'[x] = Cardinality(Kept'[x]) + (IF fd'[x] THEN 1 ELSE 0)
      BY <1>1, <2>5, <2>6, <3>1, <3>2
    <3>4. inbound'[x] = Cardinality(Slots'[x]) /\ inbound'[x] <= MaxInbound
      BY <2>2, <2>5, <3>1
    <3> QED BY <1>1, <1>2, <1>3, <1>4, <3>1, <3>3, <3>4 DEF Live
  <2> QED BY <2>7 DEF Counted, Live
<1>7. ASSUME Release(p, i) PROVE Counted'
  <2> DEFINE s == [Fresh EXCEPT !.used = TRUE, !.read = st[p][i].read, !.saw = st[p][i].saw]
  <2>1. ~s.known
    BY DEF Fresh
  <2>2. Set(p, i, s) /\ st[p][i].ref /\ inbound' = [inbound EXCEPT ![p] = Forgotten(p, i)] /\ refs' = [refs EXCEPT ![p] = @ - 1]
    BY <1>7 DEF Release
  <2> HIDE DEF s
  <2>3. \A x \in Peers, j \in Streams : st'[x][j] = IF x = p /\ j = i THEN s ELSE st[x][j]
    BY <1>0, <2>2 DEF Set, Types
  <2>4. st[p][i].known
    BY <2>2 DEF Agreement, Sensible
  <2>5. /\ Cardinality(Kept'[p]) = Cardinality(Kept[p]) - 1
        /\ i \in Own(p) => Cardinality(Slots'[p]) = Cardinality(Slots[p])
        /\ i \notin Own(p) => Cardinality(Slots'[p]) = Cardinality(Slots[p]) - 1
        /\ \A x \in Peers : x # p => Kept'[x] = Kept[x] /\ Slots'[x] = Slots[x]
    BY <2>1, <2>3, <2>4, OneGone
  <2>6. \A x \in Peers : /\ refs'[x] = IF x = p THEN refs[x] - 1 ELSE refs[x]
                         /\ inbound'[x] = IF x = p /\ i \notin Own(p) THEN inbound[x] - 1 ELSE inbound[x]
    BY <1>0, <2>2 DEF Types, Forgotten, Responder
  <2>7. ASSUME NEW x \in Peers
        PROVE  /\ refs'[x] = Cardinality(Kept'[x]) + (IF fd'[x] THEN 1 ELSE 0)
               /\ inbound'[x] = Cardinality(Slots'[x]) /\ inbound'[x] <= MaxInbound
               /\ fd'[x] \/ ~(error'[x] = "none")
               /\ fd'[x] \/ gate'[x] = NoFrame
               /\ Len(sock'[x]) <= Socket
    <3>1. /\ refs[x] = Cardinality(Kept[x]) + (IF fd[x] THEN 1 ELSE 0)
          /\ inbound[x] = Cardinality(Slots[x]) /\ inbound[x] <= MaxInbound
          /\ fd[x] \/ ~(error[x] = "none")
          /\ fd[x] \/ gate[x] = NoFrame
      BY DEF Counted, Live
    <3>2. Cardinality(Kept[x]) \in Nat /\ Cardinality(Slots[x]) \in Nat /\ MaxInbound \in Nat
      BY KeptFinite DEF Numbering
    <3>3. refs'[x] = Cardinality(Kept'[x]) + (IF fd'[x] THEN 1 ELSE 0)
      BY <1>1, <2>5, <2>6, <3>1, <3>2
    <3>4. inbound'[x] = Cardinality(Slots'[x]) /\ inbound'[x] <= MaxInbound
      BY <2>5, <2>6, <3>1, <3>2
    <3> QED BY <1>1, <1>2, <1>3, <1>4, <3>1, <3>3, <3>4 DEF Live
  <2> QED BY <2>7 DEF Counted, Live
<1> QED BY <1>5, <1>6, <1>7

LEMMA ThreadCounts ==
  ASSUME Numbering, Agreement, Counted, NEW p \in Peers, Written(p) \/ WriteControl(p) \/ Fail(p)
  PROVE  Counted'
<1>0. Types /\ \A x \in Peers : Len(sock[x]) \in Nat
  BY LenProperties DEF Agreement, Types
<1>1. st' = st /\ inbound' = inbound /\ refs' = refs /\ fd' = fd
  BY DEF Written, WriteControl, Fail
<1>2. \A x \in Peers : error'[x] = "none" => error[x] = "none"
  BY <1>0 DEF Written, WriteControl, Fail, Types
<1>3. \A x \in Peers : gate'[x] = gate[x] \/ gate'[x] = NoFrame \/ Live(x)
  BY <1>0 DEF Written, WriteControl, Fail, Acquire, Types
<1>4. \A x \in Peers : Len(sock'[x]) <= Socket
  <2>1. CASE Written(p)
    <3>1. sock[p] \in Seq(Frames) /\ gate[p] \in Frames
      BY <1>0, <2>1 DEF Written, Types
    <3>2. Len(Append(sock[p], gate[p])) = Len(sock[p]) + 1
      BY <3>1, AppendProperties
    <3>3. \/ Len(sock[p]) < Socket /\ sock' = [sock EXCEPT ![p] = Append(@, gate[p])]
          \/ sock' = sock
      BY <2>1 DEF Written
    <3>4. ASSUME NEW x \in Peers PROVE Len(sock'[x]) <= Socket
      <4>1. Len(sock[x]) <= Socket
        BY DEF Counted
      <4>2. CASE sock' = sock
        BY <4>1, <4>2
      <4>3. CASE Len(sock[p]) < Socket /\ sock' = [sock EXCEPT ![p] = Append(@, gate[p])]
        <5>1. sock'[x] = IF x = p THEN Append(sock[p], gate[p]) ELSE sock[x]
          BY <4>3, <1>0 DEF Types
        <5>2. Socket \in Nat
          BY DEF Numbering
        <5> QED BY <4>1, <4>3, <5>1, <5>2, <3>2, <1>0
      <4> QED BY <3>3, <4>2, <4>3
    <3> QED BY <3>4
  <2>2. CASE WriteControl(p) \/ Fail(p)
    BY <2>2 DEF WriteControl, Fail, Counted
  <2> QED BY <2>1, <2>2
<1>5. Keeping
  BY <1>1 DEF Keeping, Kept, Slots
<1> QED BY <1>0, <1>1, <1>2, <1>3, <1>4, <1>5, CountedStill

LEMMA CloseCounts ==
  ASSUME Numbering, Agreement, Counted, NEW p \in Peers, Close(p)
  PROVE  Counted'
<1>0. Types
  BY DEF Agreement
<1>1. /\ st' = st /\ inbound' = inbound /\ refs' = [refs EXCEPT ![p] = @ - 1] /\ fd' = [fd EXCEPT ![p] = FALSE]
      /\ gate' = gate /\ sock' = sock /\ error' = error
  BY NoneGone
<1>2. ~Live(p) /\ fd[p] /\ gate[p] = NoFrame
  BY DEF Close, MayClose
<1>3. Kept' = Kept /\ Slots' = Slots
  BY <1>1 DEF Kept, Slots
<1>4. \A x \in Peers : /\ refs'[x] = IF x = p THEN refs[x] - 1 ELSE refs[x]
                       /\ fd'[x] <=> x # p /\ fd[x]
  BY <1>0, <1>1 DEF Types
<1>5. ASSUME NEW x \in Peers
      PROVE  /\ refs'[x] = Cardinality(Kept'[x]) + (IF fd'[x] THEN 1 ELSE 0)
             /\ inbound'[x] = Cardinality(Slots'[x]) /\ inbound'[x] <= MaxInbound
             /\ fd'[x] \/ ~(error'[x] = "none")
             /\ fd'[x] \/ gate'[x] = NoFrame
             /\ Len(sock'[x]) <= Socket
  <2>1. /\ refs[x] = Cardinality(Kept[x]) + (IF fd[x] THEN 1 ELSE 0)
        /\ inbound[x] = Cardinality(Slots[x]) /\ inbound[x] <= MaxInbound
        /\ fd[x] \/ ~(error[x] = "none")
        /\ fd[x] \/ gate[x] = NoFrame
        /\ Len(sock[x]) <= Socket
    BY DEF Counted, Live
  <2>2. Cardinality(Kept[x]) \in Nat
    BY KeptFinite
  <2>3. refs'[x] = Cardinality(Kept[x]) + (IF fd'[x] THEN 1 ELSE 0)
    <3>1. CASE x = p
      BY <3>1, <1>2, <1>4, <2>1, <2>2
    <3>2. CASE x # p
      BY <3>2, <1>4, <2>1
    <3> QED BY <3>1, <3>2
  <2> QED BY <1>1, <1>2, <1>3, <1>4, <2>1, <2>3 DEF Live
<1> QED BY <1>5 DEF Counted, Live

LEMMA ReaderCounts ==
  ASSUME Numbering, Agreement, Counted, NEW p \in Peers, Read(p)
  PROVE  Counted'
<1> DEFINE q == Other(p)
           f == Head(sock[q])
<1>0. Types /\ q \in Peers /\ \A x \in Peers : Len(sock[x]) \in Nat
  BY Two, LenProperties DEF Agreement, Types
<1>1. /\ sock[q] # <<>> /\ sock' = [sock EXCEPT ![q] = Tail(@)] /\ gate' = gate /\ fd' = fd
      /\ \/ f.type = "cancel" /\ OnCancel(p, f.id)
         \/ f.type = "request" /\ OnRequest(p, f.id, f.end)
         \/ f.type = "response" /\ OnResponse(p, f.id, f.end)
         \/ f.type = "data" /\ OnData(p, f.id, f.n, f.end)
  BY DEF Read
<1>2. f \in Frames /\ Taken(p, f) /\ (\A x \in Peers : Len(sock'[x]) <= Len(sock[x])) /\ f.id \in Streams
      /\ sock' \in [Peers -> Seq(Frames)]
  <2>1. f \in Frames /\ Taken(p, f) /\ (\A x \in Peers : Len(sock'[x]) <= Len(sock[x]))
        /\ sock' \in [Peers -> Seq(Frames)]
    BY <1>0, <1>1, ReadTakes DEF Taken
  <2> QED BY <2>1, FramesSay
<1> DEFINE i == f.id
<1>3. st[p][i] \in StreamStates
  BY <1>0, <1>2, States
<1> HIDE DEF f, i
<1>4. \A x \in Peers : Len(sock'[x]) <= Socket
  <2>1. \A x \in Peers : Len(sock[x]) <= Socket /\ Len(sock'[x]) \in Nat
    BY <1>2, LenProperties DEF Counted
  <2> QED BY <2>1, <1>0, <1>2 DEF Numbering
<1>5. CASE f.type # "request"
  <2>1. \/ Ignored \/ Broken(p)
        \/ \E s : s.known = st[p][i].known /\ Changed(p, i, s)
    <3>1. CASE OnCancel(p, i)
      <4>1. Abandoned(st[p][i]).known = st[p][i].known
        BY <1>3, AbandonedSays
      <4> QED BY <3>1, <4>1 DEF OnCancel
    <3>2. CASE OnResponse(p, i, f.end)
      <4> DEFINE s == [st[p][i] EXCEPT !.responded = TRUE, !.theirs = f.end, !.inbox = Append(@, 0)]
      <4>1. s.known = st[p][i].known
        BY <1>3 DEF StreamStates
      <4>2. Ignored \/ Broken(p) \/ Changed(p, i, s)
        BY <3>2 DEF OnResponse
      <4> HIDE DEF s
      <4> QED BY <4>1, <4>2
    <3>3. CASE OnData(p, i, f.n, f.end)
      <4> DEFINE s == [st[p][i] EXCEPT !.theirs = f.end, !.received = IF f.n > 0 THEN @ + 1 ELSE @,
                                       !.inbox = Delivered(st[p][i], f.n, f.end)]
      <4>1. s.known = st[p][i].known
        BY <1>3 DEF StreamStates
      <4>2. Ignored \/ Broken(p) \/ Changed(p, i, s)
        BY <3>3 DEF OnData
      <4> HIDE DEF s
      <4> QED BY <4>1, <4>2
    <3> QED BY <1>1, <1>5, <3>1, <3>2, <3>3 DEF i
  <2>2. Keeping
    <3>1. CASE Ignored \/ Broken(p)
      BY <3>1 DEF Ignored, Broken, Keeping, Kept, Slots
    <3>2. ASSUME NEW s, s.known = st[p][i].known, Changed(p, i, s) PROVE Keeping
      <4>1. Set(p, i, s) /\ i \in Streams
        BY <3>2, <1>2 DEF Changed, i
      <4> QED BY <4>1, <3>2, <1>0, SameKept
    <3> QED BY <2>1, <3>1, <3>2
  <2>3. /\ refs' = refs /\ inbound' = inbound
        /\ \A x \in Peers : error'[x] = "none" => error[x] = "none"
    BY <1>0, <2>1 DEF Ignored, Broken, Changed, Types
  <2> QED BY <1>0, <1>1, <1>4, <2>2, <2>3, CountedStill
<1>6. CASE f.type = "request"
  <2>1. /\ i \notin Own(p) /\ ~st[p][i].known /\ i \in Streams
        /\ IF Full(p)
           THEN Controls(p, i) /\ UNCHANGED <<st, inbound, refs>>
           ELSE /\ st'[p][i].known /\ \A x \in Peers, j \in Streams : x # p \/ j # i => st'[x][j] = st[x][j]
                /\ inbound' = [inbound EXCEPT ![p] = @ + 1] /\ refs' = [refs EXCEPT ![p] = @ + 1]
                /\ UNCHANGED <<controls, error>>
    BY <1>1, <1>2, <1>6, HeardRequestAgrees DEF i
  <2>2. CASE Full(p)
    <3>1. Keeping /\ refs' = refs /\ inbound' = inbound
      BY <2>1, <2>2 DEF Keeping, Kept, Slots
    <3>2. \A x \in Peers : error'[x] = "none" => error[x] = "none"
      BY <1>0, <2>1, <2>2, ControlsStep
    <3> QED BY <1>0, <1>1, <1>4, <3>1, <3>2, CountedStill
  <2>3. CASE ~Full(p)
    <3>1. /\ Cardinality(Kept'[p]) = Cardinality(Kept[p]) + 1
          /\ Cardinality(Slots'[p]) = Cardinality(Slots[p]) + 1
          /\ \A x \in Peers : x # p => Kept'[x] = Kept[x] /\ Slots'[x] = Slots[x]
      BY <2>1, <2>3, OneKept
    <3>2. \A x \in Peers : /\ refs'[x] = IF x = p THEN refs[x] + 1 ELSE refs[x]
                           /\ inbound'[x] = IF x = p THEN inbound[x] + 1 ELSE inbound[x]
      BY SMTT(60), <1>0, <2>1, <2>3 DEF Types
    <3>3. error' = error
      BY <2>1, <2>3
    <3>4. ASSUME NEW x \in Peers
          PROVE  /\ refs'[x] = Cardinality(Kept'[x]) + (IF fd'[x] THEN 1 ELSE 0)
                 /\ inbound'[x] = Cardinality(Slots'[x]) /\ inbound'[x] <= MaxInbound
                 /\ fd'[x] \/ ~(error'[x] = "none")
                 /\ fd'[x] \/ gate'[x] = NoFrame
                 /\ Len(sock'[x]) <= Socket
      <4>1. /\ refs[x] = Cardinality(Kept[x]) + (IF fd[x] THEN 1 ELSE 0)
            /\ inbound[x] = Cardinality(Slots[x]) /\ inbound[x] <= MaxInbound
            /\ fd[x] \/ ~(error[x] = "none")
            /\ fd[x] \/ gate[x] = NoFrame
        BY DEF Counted, Live
      <4>2. Cardinality(Kept[x]) \in Nat /\ Cardinality(Slots[x]) \in Nat /\ MaxInbound \in Nat
        BY KeptFinite DEF Numbering
      <4>3. refs'[x] = Cardinality(Kept'[x]) + (IF fd'[x] THEN 1 ELSE 0)
        BY <1>1, <3>1, <3>2, <4>1, <4>2
      <4>4. inbound'[x] = Cardinality(Slots'[x]) /\ inbound'[x] <= MaxInbound
        BY <2>3, <3>1, <3>2, <4>1, <4>2 DEF Full
      <4> QED BY <1>1, <1>4, <3>3, <4>1, <4>3, <4>4
    <3> QED BY <3>4 DEF Counted, Live
  <2> QED BY <2>2, <2>3
<1> QED BY <1>5, <1>6

LEMMA CountedStarts == ASSUME Numbering, Init PROVE Counted
<1>1. \A p \in Peers : Kept[p] = {} /\ Slots[p] = {}
  BY FreshSays DEF Init, Kept, Slots
<1>2. Cardinality({}) = 0 /\ Len(<<>>) = 0
  BY FS_EmptySet, EmptySeq
<1> SUFFICES ASSUME NEW p \in Peers
             PROVE  /\ refs[p] = Cardinality(Kept[p]) + (IF fd[p] THEN 1 ELSE 0)
                    /\ inbound[p] = Cardinality(Slots[p]) /\ inbound[p] <= MaxInbound
                    /\ fd[p] \/ ~Live(p)
                    /\ fd[p] \/ gate[p] = NoFrame
                    /\ Len(sock[p]) <= Socket
  BY DEF Counted
<1>3. refs[p] = 1 /\ fd[p] /\ inbound[p] = 0 /\ sock[p] = <<>>
  BY DEF Init
<1>4. Cardinality(Kept[p]) = 0 /\ Cardinality(Slots[p]) = 0 /\ Len(sock[p]) = 0
  BY <1>1, <1>2, <1>3
<1>5. refs[p] = Cardinality(Kept[p]) + (IF fd[p] THEN 1 ELSE 0)
  BY <1>3, <1>4
<1>6. inbound[p] = Cardinality(Slots[p]) /\ inbound[p] <= MaxInbound /\ Len(sock[p]) <= Socket
  BY <1>3, <1>4 DEF Numbering
<1> QED BY <1>3, <1>5, <1>6

LEMMA NextCounts == ASSUME Numbering, Agreement, Counted, [Next]_vars PROVE Counted'
<1>0. Types
  BY DEF Agreement
<1>1. CASE UNCHANGED vars
  <2>1. Keeping /\ refs' = refs /\ inbound' = inbound /\ fd' = fd /\ gate' = gate /\ sock' = sock /\ error' = error
    BY <1>1 DEF vars, Keeping, Kept, Slots
  <2>2. \A x \in Peers : Len(sock'[x]) <= Socket
    BY <2>1 DEF Counted
  <2> QED BY <1>0, <2>1, <2>2, CountedStill
<1>2. ASSUME NEW p \in Peers, Caller(p) \/ Written(p) \/ WriteControl(p) \/ Read(p) \/ Fail(p) \/ Close(p)
      PROVE  Counted'
  <2>1. CASE Caller(p)
    <3>1. 0 \in {0, 1}
      OBVIOUS
    <3> QED BY <2>1, <3>1, CallerCounts DEF Caller
  <2> QED BY <1>2, <2>1, ThreadCounts, ReaderCounts, CloseCounts
<1> QED BY <1>1, <1>2 DEF Next

---------------------------------------------------------------------------
\* The cancels that wait for the control writer.

\* They are of different streams, and of none that their peer still hears.
Queued == \A p \in Peers :
  /\ Len(controls[p]) <= MaxControl
  /\ \A k \in 1 .. Len(controls[p]) : controls[p][k] \notin Hears[p]
  /\ \A j, k \in 1 .. Len(controls[p]) : j # k => controls[p][j] # controls[p][k]

\* A cancel is queued for a stream the peer hears no longer, and may find no room.
Queues == \A x \in Peers :
  /\ \/ controls'[x] = controls[x]
     \/ controls[x] # <<>> /\ controls'[x] = Tail(controls[x])
     \/ Len(controls[x]) < MaxControl /\ \E i \in Hears[x] : i \notin Hears'[x] /\ controls'[x] = Append(controls[x], i)
  /\ error'[x] = "ENOBUFS" =>
       error[x] = "ENOBUFS" \/ (~(Len(controls[x]) < MaxControl) /\ \E i \in Hears[x] : i \in Streams)

LEMMA ControlsQueue ==
  ASSUME Types, NEW p \in Peers, NEW i \in Streams, i \in Hears[p], i \notin Hears'[p], Controls(p, i)
  PROVE  Queues
<1>1. CASE Len(controls[p]) < MaxControl
  <2>1. controls' = [controls EXCEPT ![p] = Append(@, i)] /\ error' = error
    BY <1>1 DEF Controls
  <2>2. \A x \in Peers : controls'[x] = IF x = p THEN Append(controls[p], i) ELSE controls[x]
    BY <2>1 DEF Types
  <2> QED BY <1>1, <2>1, <2>2 DEF Queues
<1>2. CASE ~(Len(controls[p]) < MaxControl)
  <2>1. controls' = controls /\ error' = [error EXCEPT ![p] = "ENOBUFS"]
    BY <1>2 DEF Controls
  <2>2. \A x \in Peers : error'[x] = IF x = p THEN "ENOBUFS" ELSE error[x]
    BY <2>1 DEF Types
  <2> QED BY <1>2, <2>1, <2>2 DEF Queues
<1> QED BY <1>1, <1>2

LEMMA NextQueues == ASSUME Numbering, Agreement, [Next]_vars PROVE Queues
<1>0. Types
  BY DEF Agreement
<1>1. CASE UNCHANGED vars
  BY <1>1 DEF vars, Queues
<1>2. ASSUME NEW p \in Peers, NEW i \in Streams, NEW e \in BOOLEAN, NEW n \in {0, 1},
             Request(p, i, e) \/ Respond(p, i, e) \/ Receive(p, i) \/ Cancel(p, i) \/ Release(p, i) \/ Send(p, i, n, e)
      PROVE  Queues
  <2>1. CASE Cancel(p, i)
    <3>1. i \in Hears[p] /\ i \notin Hears'[p]
      BY <2>1, CancelAgrees
    <3>2. Controls(p, i) \/ (controls' = controls /\ error' = error)
      BY <2>1 DEF Cancel
    <3> QED BY <1>0, <3>1, <3>2, ControlsQueue DEF Queues
  <2>2. CASE ~Cancel(p, i)
    <3>1. controls' = controls /\ error' = error
      BY <1>2, <2>2 DEF Request, Respond, Receive, Release, Send
    <3> QED BY <3>1 DEF Queues
  <2> QED BY <2>1, <2>2
<1>3. ASSUME NEW p \in Peers, Read(p) PROVE Queues
  <2> DEFINE q == Other(p)
             f == Head(sock[q])
  <2>1. q \in Peers /\ sock[q] # <<>> /\ sock' = [sock EXCEPT ![q] = Tail(@)] /\ gate' = gate /\ fd' = fd
        /\ \/ f.type = "cancel" /\ OnCancel(p, f.id)
           \/ f.type = "request" /\ OnRequest(p, f.id, f.end)
           \/ f.type = "response" /\ OnResponse(p, f.id, f.end)
           \/ f.type = "data" /\ OnData(p, f.id, f.n, f.end)
    BY <1>3, Two DEF Read
  <2>2. f \in Frames /\ Taken(p, f)
    BY <1>0, <2>1, ReadTakes DEF Taken
  <2> HIDE DEF f
  <2>3. CASE f.type # "request"
    <3>1. controls' = controls /\ (error' = error \/ error' = [error EXCEPT ![p] = "EPROTO"])
      BY <2>1, <2>3 DEF OnCancel, OnResponse, OnData, Ignored, Broken, Changed
    <3>2. \A x \in Peers : error'[x] = "ENOBUFS" => error[x] = "ENOBUFS"
      BY <1>0, <3>1 DEF Types
    <3> QED BY <3>1, <3>2 DEF Queues
  <2>4. CASE f.type = "request"
    <3>1. /\ f.id \in Streams /\ f.id \in Hears[p]
          /\ \/ f.id \notin Hears'[p] /\ Controls(p, f.id)
             \/ controls' = controls /\ error' = error
      BY <2>1, <2>2, <2>4, FramesSay, HeardRequestAgrees
    <3> QED BY <1>0, <3>1, ControlsQueue DEF Queues
  <2> QED BY <2>3, <2>4
<1>4. ASSUME NEW p \in Peers, Written(p) \/ WriteControl(p) \/ Fail(p) \/ Close(p) PROVE Queues
  <2>1. \A x \in Peers : error'[x] = "ENOBUFS" => error[x] = "ENOBUFS"
    BY <1>0, <1>4 DEF Written, WriteControl, Fail, Close, Types
  <2>2. \A x \in Peers : controls'[x] = controls[x] \/ (controls[x] # <<>> /\ controls'[x] = Tail(controls[x]))
    BY <1>0, <1>4 DEF Written, WriteControl, Fail, Close, Types
  <2> QED BY <2>1, <2>2 DEF Queues
<1>5. ASSUME NEW p \in Peers, Caller(p) \/ Written(p) \/ WriteControl(p) \/ Read(p) \/ Fail(p) \/ Close(p)
      PROVE  Queues
  <2>1. CASE Caller(p)
    <3>1. 0 \in {0, 1}
      OBVIOUS
    <3> QED BY <2>1, <3>1, <1>2 DEF Caller
  <2> QED BY <1>3, <1>4, <1>5, <2>1
<1> QED BY <1>1, <1>5 DEF Next

LEMMA NextQueued == ASSUME Numbering, Agreement, Queued, [Next]_vars PROVE Queued'
<1> SUFFICES ASSUME NEW p \in Peers
             PROVE  /\ Len(controls'[p]) <= MaxControl
                    /\ \A k \in 1 .. Len(controls'[p]) : controls'[p][k] \notin Hears'[p]
                    /\ \A j, k \in 1 .. Len(controls'[p]) : j # k => controls'[p][j] # controls'[p][k]
  BY DEF Queued
<1> DEFINE c == controls[p]
           d == controls'[p]
<1>1. Hears'[p] \subseteq Hears[p]
  BY NextAgrees
<1>2. /\ \/ d = c
         \/ c # <<>> /\ d = Tail(c)
         \/ Len(c) < MaxControl /\ \E i \in Hears[p] : i \notin Hears'[p] /\ d = Append(c, i)
  BY NextQueues DEF Queues
<1>3. /\ Len(c) <= MaxControl /\ c \in Seq(Streams) /\ Len(c) \in Nat /\ MaxControl \in Nat
      /\ \A k \in 1 .. Len(c) : c[k] \notin Hears[p]
      /\ \A j, k \in 1 .. Len(c) : j # k => c[j] # c[k]
  BY LenProperties DEF Queued, Agreement, Types, Numbering
<1> HIDE DEF c, d
<1>4. CASE d = c
  BY <1>1, <1>3, <1>4 DEF d
<1>5. CASE c # <<>> /\ d = Tail(c)
  <2>1. Len(d) = Len(c) - 1 /\ \A k \in 1 .. Len(d) : d[k] = c[k + 1]
    BY <1>3, <1>5, HeadTailProperties
  <2>2. \A k \in 1 .. Len(d) : k + 1 \in 1 .. Len(c) /\ k \in Int
    BY <1>3, <2>1
  <2>3. \A j, k \in 1 .. Len(d) : j # k => j + 1 # k + 1
    BY <2>2
  <2>4. \A k \in 1 .. Len(d) : d[k] \notin Hears'[p]
    BY <1>1, <1>3, <2>1, <2>2
  <2>5. \A j, k \in 1 .. Len(d) : j # k => d[j] # d[k]
    BY <1>3, <2>1, <2>2, <2>3
  <2>6. Len(d) <= MaxControl
    BY <1>3, <2>1
  <2> QED BY <2>4, <2>5, <2>6 DEF d
<1>6. ASSUME Len(c) < MaxControl, NEW i \in Hears[p], i \notin Hears'[p], d = Append(c, i)
      PROVE  /\ Len(d) <= MaxControl
             /\ \A k \in 1 .. Len(d) : d[k] \notin Hears'[p]
             /\ \A j, k \in 1 .. Len(d) : j # k => d[j] # d[k]
  <2>0. i \in Streams
    BY SubsetsOfStreams
  <2>1. Len(d) = Len(c) + 1 /\ d[Len(c) + 1] = i /\ \A k \in 1 .. Len(c) : d[k] = c[k]
    BY <1>3, <1>6, <2>0, AppendProperties
  <2>2. \A k \in 1 .. Len(d) : k = Len(c) + 1 \/ k \in 1 .. Len(c)
    BY <1>3, <2>1
  <2>3. \A k \in 1 .. Len(d) : d[k] \notin Hears'[p]
    BY <1>1, <1>3, <1>6, <2>1, <2>2
  <2>4. \A j, k \in 1 .. Len(d) : j # k => d[j] # d[k]
    BY <1>3, <1>6, <2>1, <2>2
  <2> QED BY <1>3, <1>6, <2>1, <2>3, <2>4
<1> QED BY <1>2, <1>4, <1>5, <1>6 DEF d

\* With as much room as there are streams, a cancel always finds some.
LEMMA RoomForAll ==
  ASSUME Numbering, Types, Queued, Cardinality(Streams) <= MaxControl, NEW p \in Peers, NEW i \in Hears[p], i \in Streams
  PROVE  Len(controls[p]) < MaxControl
<1> DEFINE c == controls[p]
           S == Streams \ {i}
<1>1. c \in Seq(Streams) /\ Len(c) \in Nat /\ \A k \in 1 .. Len(c) : c[k] \in S
  BY LenProperties, ElementOfSeq DEF Types, Queued
<1>2. IsFiniteSet(S) /\ Cardinality(S) = Cardinality(Streams) - 1 /\ Cardinality(Streams) \in Nat
  BY FS_RemoveElement, FS_CardinalityType DEF Numbering
<1>3. IsFiniteSet(1 .. Len(c)) /\ Cardinality(1 .. Len(c)) = Len(c)
  <2>1. 1 \in Int /\ Len(c) \in Int
    BY <1>1
  <2>2. IsFiniteSet(1 .. Len(c)) /\ Cardinality(1 .. Len(c)) = IF 1 > Len(c) THEN 0 ELSE Len(c) - 1 + 1
    BY <2>1, FS_Interval
  <2> QED BY <1>1, <2>2
<1>4. ASSUME Cardinality(S) < Len(c) PROVE FALSE
  <2> DEFINE g == [k \in 1 .. Len(c) |-> c[k]]
  <2>1. g \in [1 .. Len(c) -> S]
    BY <1>1
  <2>2. \E x, y \in 1 .. Len(c) : x # y /\ g[x] = g[y]
    <3> DEFINE D == 1 .. Len(c)
    <3>1. IsFiniteSet(D) /\ IsFiniteSet(S) /\ Cardinality(S) < Cardinality(D) /\ g \in [D -> S]
      BY <1>2, <1>3, <1>4, <2>1
    <3> HIDE DEF D, S, g
    <3>2. \E x, y \in D : x # y /\ g[x] = g[y]
      BY <3>1, FS_PigeonHole
    <3> QED BY <3>2 DEF D
  <2> QED BY <2>2 DEF Queued
<1>5. Cardinality(S) \in Nat
  BY <1>2, FS_CardinalityType
<1> HIDE DEF S
<1> QED BY <1>1, <1>2, <1>4, <1>5 DEF Numbering

LEMMA QueuedStarts == ASSUME Numbering, Init PROVE Queued
<1>1. Len(<<>>) = 0
  BY EmptySeq
<1>2. \A p \in Peers : controls[p] = <<>>
  BY DEF Init
<1> QED BY <1>1, <1>2 DEF Queued, Numbering

---------------------------------------------------------------------------
\* Theorems.

LEMMA SessionInvariant == ASSUME Numbering PROVE Spec => [](Agreement /\ Counted /\ Queued)
<1>1. Init => Agreement /\ Counted /\ Queued
  BY AgreementStarts, CountedStarts, QueuedStarts
<1>2. Agreement /\ Counted /\ Queued /\ [Next]_vars => (Agreement /\ Counted /\ Queued)'
  BY NextAgrees, NextCounts, NextQueued
<1> QED BY <1>1, <1>2, PTL DEF Spec

\* Streams, inbound slots, session references and the descriptor are given up
\* together, and no writer is in send() once the descriptor may be reused;
\* the limits on inbound streams, socket buffers and cancels are kept
\* (maybe_destroy, np_file2_session_close, queue_cancel).
THEOREM SessionIsCounted == ASSUME Numbering PROVE Spec => [](SessionKept /\ TypeOK)
<1>1. Agreement /\ Counted => SessionKept
  <2> SUFFICES ASSUME Agreement, Counted PROVE SessionKept
    OBVIOUS
  <2>1. ASSUME NEW p \in Peers
        PROVE  LET known == {i \in Streams : st[p][i].known} IN
               /\ refs[p] = Cardinality(known) + (IF fd[p] THEN 1 ELSE 0)
               /\ inbound[p] = Cardinality({i \in known : Responder(p, i)})
    <3> DEFINE known == {i \in Streams : st[p][i].known}
    <3>1. known = Kept[p] /\ {i \in known : Responder(p, i)} = Slots[p]
      BY DEF Kept, Slots, Responder
    <3> HIDE DEF known
    <3>2. refs[p] = Cardinality(known) + (IF fd[p] THEN 1 ELSE 0) /\ inbound[p] = Cardinality({i \in known : Responder(p, i)})
      BY <3>1 DEF Counted
    <3> QED BY <3>2 DEF known
  <2>2. StreamsCounted
    BY <2>1 DEF StreamsCounted
  <2> QED BY <2>2 DEF SessionKept, NoWriteAfterClose, Counted
<1>2. Agreement /\ Counted /\ Queued => TypeOK
  <2> SUFFICES ASSUME Agreement, Counted, Queued, NEW p \in Peers
               PROVE  /\ inbound[p] \in 0 .. MaxInbound /\ Len(sock[p]) <= Socket /\ Len(controls[p]) <= MaxControl
                      /\ \A i \in Streams : st[p][i].sent \in 0 .. DataMax /\ st[p][i].received \in 0 .. DataMax
    BY DEF TypeOK
  <2>1. inbound[p] \in 0 .. MaxInbound
    <3>1. inbound[p] = Cardinality(Slots[p]) /\ inbound[p] <= MaxInbound /\ Cardinality(Slots[p]) \in Nat /\ MaxInbound \in Nat
      BY KeptFinite DEF Counted, Numbering
    <3> QED BY <3>1
  <2>2. \A i \in Streams : st[p][i].sent \in 0 .. DataMax /\ st[p][i].received \in 0 .. DataMax
    BY States, StateFields DEF Agreement
  <2> QED BY <2>1, <2>2 DEF Counted, Queued
<1> QED BY <1>1, <1>2, SessionInvariant, PTL

\* A receiver reads the data in order and as often as they were sent, and who
\* sees the end of a half has read all of it (enqueue, np_file2_receive).
THEOREM DataArrive == ASSUME Numbering PROVE Spec => DataArrives
<1>1. Agreement => \A p \in Peers, i \in Streams : EndMeansAll(p, i)
  <2> SUFFICES ASSUME Agreement, NEW p \in Peers, NEW i \in Streams,
                      st[p][i].saw, st[p][i].known, st[Other(p)][i].known
               PROVE  st[p][i].read = st[Other(p)][i].sent
    BY DEF EndMeansAll
  <2>1. Other(p) \in Peers /\ Other(Other(p)) = p
    BY Two
  <2>2. i \in Finished[Other(p)]
    BY <2>1 DEF Agreement
  <2> QED BY <2>1, <2>2 DEF Finished
<1>2. Agreement /\ [Next]_vars =>
        [\A p \in Peers, i \in Streams : st'[p][i].read \in {st[p][i].read, st[p][i].read + 1}]_st
  BY NextAgrees DEF InTurn
<1> QED BY <1>1, <1>2, AgreementIsInvariant, PTL DEF Spec, DataArrives

\* However ends, cancels, refusals and releases cross on the wire, neither peer
\* finds the other in breach of the protocol (dispatch).
THEOREM NoBreach == ASSUME Numbering PROVE Spec => [](\A p \in Peers : error[p] # "EPROTO")
<1>1. Init => \A p \in Peers : error[p] # "EPROTO"
  BY DEF Init
<1>2. Agreement /\ (\A p \in Peers : error[p] # "EPROTO") /\ [Next]_vars => (\A p \in Peers : error[p] # "EPROTO")'
  BY NextAgrees DEF NoNewBreach
<1> QED BY <1>1, <1>2, AgreementIsInvariant, PTL DEF Spec

\* In a session of no more streams than cancels may wait (65536), a control
\* writer that is kept from the socket ends no session either: each stream has
\* at most one cancel in the queue (queue_cancel).
THEOREM PeersKeepTheProtocol ==
  ASSUME Numbering, Cardinality(Streams) <= MaxControl
  PROVE  Spec => []NoProtocolError
<1>1. Init => NoProtocolError
  BY DEF Init, NoProtocolError
<1>2. Agreement /\ Counted /\ Queued /\ NoProtocolError /\ [Next]_vars => NoProtocolError'
  <2> SUFFICES ASSUME Agreement, Queued, NoProtocolError, [Next]_vars, NEW p \in Peers
               PROVE  error'[p] \notin {"EPROTO", "ENOBUFS"}
    BY DEF NoProtocolError
  <2>1. error'[p] # "EPROTO"
    BY NextAgrees DEF NoNewBreach, NoProtocolError
  <2>2. error'[p] # "ENOBUFS"
    BY NextQueues, RoomForAll DEF Queues, NoProtocolError, Agreement
  <2> QED BY <2>1, <2>2
<1> QED BY <1>1, <1>2, SessionInvariant, PTL DEF Spec
=============================================================================
