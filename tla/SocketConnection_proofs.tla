------------------------ MODULE SocketConnection_proofs ------------------------
(***************************************************************************)
(* Every operation of a connection ends once, its sources are resumed while  *)
(* they are waited for, and its descriptor outlives both, for any number of  *)
(* operations and any length of the dispatch queue.                         *)
(***************************************************************************)
EXTENDS SocketConnection, TLAPS

\* What callers do: an operation is no placeholder, and a connection connects once
\* (SocketConnection.connect makes the only one, and connects it).
Callers ==
  /\ "none" \notin Ops
  /\ Kind \in [Ops -> {"connect", "read", "write", "detach"}]
  /\ \A o, p \in Ops : Kind[o] = "connect" /\ Kind[p] = "connect" => o = p

Orders == {"finishReading", "finishWriting", "close"}
Blocks == [do : {"connect", "read", "write", "refuse", "detach"} \cup Orders, op : Ops \cup {"none"}]

Types ==
  /\ calls \in Seq(Blocks) /\ writes \in Seq(Ops)
  /\ reading \in Ops \cup {"none"} /\ connecting \in Ops \cup {"none"}
  /\ watched \subseteq {"read", "write"} /\ cancels \subseteq {"read", "write"}
  /\ closed \in [all : BOOLEAN, input : BOOLEAN, output : BOOLEAN]
  /\ fd \in BOOLEAN /\ answers \in [Ops -> Nat] /\ begun \subseteq Ops

\* Operations whose block is still in the dispatch queue.
Handed == {calls[i].op : i \in DOMAIN calls} \ {"none"}

\* A block is in the queue once, and does what its operation is.
Queue ==
  /\ \A i \in DOMAIN calls :
       IF calls[i].do \in Orders THEN calls[i].op = "none"
       ELSE calls[i].op \in begun /\ (calls[i].do = Kind[calls[i].op]
                                      \/ (calls[i].do = "refuse" /\ Kind[calls[i].op] = "write"))
  /\ \A i, j \in DOMAIN calls : calls[i].op = calls[j].op /\ calls[i].op # "none" => i = j

\* What is in progress has left the queue.
Progress ==
  /\ Handed \cap Holding = {} /\ Holding \subseteq begun
  /\ reading # "none" => Kind[reading] = "read"
  /\ connecting # "none" => Kind[connecting] = "connect"
  /\ \A i \in DOMAIN writes : Kind[writes[i]] = "write"
  /\ \A i, j \in DOMAIN writes : writes[i] = writes[j] => i = j

Answered == \A o \in Ops : answers[o] = IF o \in begun \ (Holding \cup Handed) THEN 1 ELSE 0

\* Closing is the end: nothing is in progress, and the sources are cancelled.
Closing ==
  /\ closed.all => Holding = {}
  /\ ~closed.all => cancels = {} /\ fd
  /\ cancels # {} => fd

SocketInv == Types /\ Queue /\ Progress /\ Answered /\ Closing /\ WatchedWhileWaiting

LEMMA SafeFollows == ASSUME Callers, SocketInv PROVE SocketSafe
<1>1. AnsweredOnce
  BY DEF Callers, SocketInv, Answered, AnsweredOnce, Handed
<1>2. DescriptorHeld
  BY DEF SocketInv, Closing, DescriptorHeld, Types
<1> QED BY <1>1, <1>2 DEF SocketInv, SocketSafe

LEMMA InitIsSafe == ASSUME Callers, Init PROVE SocketInv
<1>1. Holding = {} /\ Handed = {}
  BY DEF Init, Holding, Handed, Range
<1> QED BY <1>1 DEF Init, SocketInv, Types, Queue, Progress, Answered, Closing, WatchedWhileWaiting

---------------------------------------------------------------------------
\* The dispatch queue as a sequence.

LEMMA QueuedBlock ==
  ASSUME Types, NEW c \in Blocks, calls' = Append(calls, c)
  PROVE  /\ calls' \in Seq(Blocks) /\ DOMAIN calls' = 1 .. Len(calls) + 1 /\ DOMAIN calls = 1 .. Len(calls)
         /\ Len(calls) \in Nat
         /\ calls'[Len(calls) + 1] = c /\ \A i \in 1 .. Len(calls) : calls'[i] = calls[i]
         /\ Handed' = Handed \cup ({c.op} \ {"none"})
<1>1. /\ calls' \in Seq(Blocks) /\ DOMAIN calls' = 1 .. Len(calls) + 1 /\ DOMAIN calls = 1 .. Len(calls)
      /\ Len(calls) \in Nat
      /\ calls'[Len(calls) + 1] = c /\ \A i \in 1 .. Len(calls) : calls'[i] = calls[i]
  BY DEF Types
<1>2. Handed' = Handed \cup ({c.op} \ {"none"})
  BY <1>1 DEF Handed
<1> QED BY <1>1, <1>2

LEMMA RunBlock ==
  ASSUME Types, Queue, calls # <<>>, calls' = Tail(calls)
  PROVE  /\ Head(calls) \in Blocks /\ calls' \in Seq(Blocks)
         /\ 1 \in DOMAIN calls /\ Head(calls) = calls[1]
         /\ \A i \in DOMAIN calls' : i + 1 \in DOMAIN calls /\ calls'[i] = calls[i + 1]
         /\ Handed' = Handed \ {Head(calls).op}
<1>1. /\ Head(calls) \in Blocks /\ calls' \in Seq(Blocks)
      /\ 1 \in DOMAIN calls /\ Head(calls) = calls[1]
      /\ \A i \in DOMAIN calls' : i + 1 \in DOMAIN calls /\ calls'[i] = calls[i + 1]
      /\ \A i \in DOMAIN calls : i # 1 => i - 1 \in DOMAIN calls' /\ calls[i] = calls'[i - 1]
      /\ \A i \in DOMAIN calls' : i \in Nat \ {0}
  BY DEF Types
<1>2. Handed' \subseteq Handed \ {Head(calls).op}
  BY <1>1 DEF Handed, Queue
<1>3. Handed \ {Head(calls).op} \subseteq Handed'
  <2> SUFFICES ASSUME NEW o \in Handed, o # Head(calls).op PROVE o \in Handed'
    OBVIOUS
  <2>1. PICK i \in DOMAIN calls : calls[i].op = o /\ o # "none"
    BY DEF Handed
  <2>2. i # 1 /\ i - 1 \in DOMAIN calls' /\ calls'[i - 1] = calls[i]
    BY <1>1, <2>1
  <2> QED BY <2>1, <2>2 DEF Handed
<1> QED BY <1>1, <1>2, <1>3
\* The queue keeps its shape when its first block has run.
LEMMA RunKeepsQueue ==
  ASSUME Types, Queue, calls # <<>>, calls' = Tail(calls), begun' = begun
  PROVE  /\ calls' \in Seq(Blocks) /\ Queue'
         /\ Head(calls) \in Blocks /\ Handed' = Handed \ {Head(calls).op}
         /\ IF Head(calls).do \in Orders THEN Head(calls).op = "none"
            ELSE Head(calls).op \in Handed \cup {"none"}
                 /\ (Head(calls).do = Kind[Head(calls).op]
                     \/ (Head(calls).do = "refuse" /\ Kind[Head(calls).op] = "write"))
<1>1. /\ Head(calls) \in Blocks /\ calls' \in Seq(Blocks) /\ 1 \in DOMAIN calls /\ Head(calls) = calls[1]
      /\ \A i \in DOMAIN calls' : i + 1 \in DOMAIN calls /\ calls'[i] = calls[i + 1] /\ i \in Nat
      /\ Handed' = Handed \ {Head(calls).op}
  BY RunBlock DEF Types
<1>2. Queue'
  <2>1. ASSUME NEW i \in DOMAIN calls'
        PROVE  IF calls'[i].do \in Orders THEN calls'[i].op = "none"
               ELSE calls'[i].op \in begun' /\ (calls'[i].do = Kind[calls'[i].op]
                                                \/ (calls'[i].do = "refuse" /\ Kind[calls'[i].op] = "write"))
    <3> i + 1 \in DOMAIN calls /\ calls'[i] = calls[i + 1]
      BY <1>1
    <3> QED BY DEF Queue
  <2>2. ASSUME NEW i \in DOMAIN calls', NEW j \in DOMAIN calls', calls'[i].op = calls'[j].op, calls'[i].op # "none"
        PROVE  i = j
    <3> i + 1 \in DOMAIN calls /\ calls'[i] = calls[i + 1] /\ j + 1 \in DOMAIN calls /\ calls'[j] = calls[j + 1]
        /\ i \in Nat /\ j \in Nat
      BY <1>1
    <3> i + 1 = j + 1
      BY <2>2 DEF Queue
    <3> QED OBVIOUS
  <2> QED BY <2>1, <2>2 DEF Queue
<1> QED BY ZenonT(60), <1>1, <1>2 DEF Queue, Handed

---------------------------------------------------------------------------
\* What every way to end operations has in common.

\* Exactly the operations of S are over.
LEMMA Settle ==
  ASSUME SocketInv, NEW S \in SUBSET (Holding \cup Handed), Answer(S), begun' = begun,
         Holding' \cup Handed' = (Holding \cup Handed) \ S
  PROVE  Answered' /\ answers' \in [Ops -> Nat]
<1>1. Holding \cup Handed \subseteq begun
  BY DEF SocketInv, Progress, Queue, Handed, Orders
<1>2. answers' = [o \in Ops |-> IF o \in S THEN answers[o] + 1 ELSE answers[o]]
  BY DEF Answer
<1>3. answers' \in [Ops -> Nat]
  BY <1>2 DEF SocketInv, Types
<1>4. ASSUME NEW o \in Ops PROVE answers'[o] = IF o \in begun' \ (Holding' \cup Handed') THEN 1 ELSE 0
  <2>1. answers[o] = IF o \in begun \ (Holding \cup Handed) THEN 1 ELSE 0
    BY DEF SocketInv, Answered
  <2>2. CASE o \in S
    BY <1>1, <1>2, <2>1, <2>2
  <2>3. CASE o \notin S
    BY <1>2, <2>1, <2>3
  <2> QED BY <2>2, <2>3
<1> QED BY <1>3, <1>4 DEF Answered

\* The connection closes, and the operations in `also` end with those in progress.
Closes(also) ==
  /\ closed' = [closed EXCEPT !.all = TRUE] /\ reading' = "none" /\ connecting' = "none" /\ writes' = <<>>
  /\ watched' = {"read", "write"} /\ cancels' = {"read", "write"}
  /\ Answer(Holding \cup also) /\ UNCHANGED fd

LEMMA ClosesKeeps ==
  ASSUME Callers, SocketInv, ~closed.all, NEW also \in SUBSET Handed, Closes(also),
         calls' \in Seq(Blocks), Queue', Handed' = Handed \ also, begun' = begun
  PROVE  SocketInv'
<1>1. Holding' = {}
  BY DEF Closes, Holding, Range
<1>2. Answered' /\ answers' \in [Ops -> Nat]
  <2>1. Holding' \cup Handed' = (Holding \cup Handed) \ (Holding \cup also)
    BY <1>1 DEF SocketInv, Progress
  <2> QED BY <2>1, Settle DEF Closes
<1>3. closed' \in [all : BOOLEAN, input : BOOLEAN, output : BOOLEAN] /\ closed'.all
  BY DEF Closes, SocketInv, Types
<1>4. Types'
  BY <1>2, <1>3 DEF Closes, SocketInv, Types
<1>5. Progress' /\ Closing' /\ WatchedWhileWaiting'
  BY <1>1, <1>3 DEF Closes, SocketInv, Progress, Closing, WatchedWhileWaiting
<1> QED BY <1>2, <1>4, <1>5 DEF SocketInv

LEMMA CloseAndCloses == ASSUME NEW also, CloseAnd(also) PROVE Closes(also)
BY DEF CloseAnd, Closes, CloseAnswers

\* An operation ends before it was in progress.
LEMMA FailKeeps ==
  ASSUME Callers, SocketInv, NEW o \in Handed, Fail(o),
         calls' \in Seq(Blocks), Queue', Handed' = Handed \ {o}, begun' = begun
  PROVE  SocketInv'
<1>1. Holding' = Holding
  BY DEF Fail, Holding
<1>2. Answered' /\ answers' \in [Ops -> Nat]
  <2>1. Holding' \cup Handed' = (Holding \cup Handed) \ {o}
    BY <1>1 DEF SocketInv, Progress
  <2> QED BY <2>1, Settle DEF Fail
<1>3. Types'
  BY <1>2 DEF Fail, Same, SocketInv, Types
<1>4. Progress' /\ Closing' /\ WatchedWhileWaiting'
  BY <1>1 DEF Fail, Same, SocketInv, Progress, Closing, WatchedWhileWaiting
<1> QED BY <1>2, <1>3, <1>4 DEF SocketInv

---------------------------------------------------------------------------
\* Callers.

LEMMA BeginKeeps == ASSUME Callers, SocketInv, NEW o \in Ops, Begin(o) PROVE SocketInv'
<1> DEFINE c == calls'[Len(calls) + 1]
<1>1. PICK do \in {Kind[o], "refuse"} : Queued([do |-> do, op |-> o]) /\ (do = "refuse" => Kind[o] = "write")
  <2>1. CASE Kind[o] # "write"
    <3>1. Kind[o] # "refuse"
      BY DEF Callers
    <3> QED BY <2>1, <3>1 DEF Begin
  <2>2. CASE Kind[o] = "write" /\ accepts /\ Fits(o)
    BY <2>2 DEF Begin
  <2>3. CASE Kind[o] = "write" /\ ~(accepts /\ Fits(o))
    BY <2>3 DEF Begin
  <2> QED BY <2>1, <2>2, <2>3
<1>2. [do |-> do, op |-> o] \in Blocks /\ do \notin Orders /\ o # "none"
  BY <1>1 DEF Blocks, Callers, Orders
<1>3. /\ calls' \in Seq(Blocks) /\ DOMAIN calls' = 1 .. Len(calls) + 1 /\ DOMAIN calls = 1 .. Len(calls)
      /\ Len(calls) \in Nat
      /\ calls'[Len(calls) + 1] = [do |-> do, op |-> o] /\ \A i \in 1 .. Len(calls) : calls'[i] = calls[i]
      /\ Handed' = Handed \cup {o}
  BY <1>1, <1>2, QueuedBlock DEF Queued, SocketInv
<1>4. o \notin begun /\ begun' = begun \cup {o} /\ begun \subseteq Ops /\ begun' \subseteq Ops
  BY DEF Begin, SocketInv, Types
<1>5. Handed \subseteq begun /\ Holding \subseteq begun /\ Holding' = Holding
  BY DEF SocketInv, Progress, Queue, Handed, Orders, Begin, Holding
<1>6. Queue'
  <2>1. ASSUME NEW i \in DOMAIN calls'
        PROVE  IF calls'[i].do \in Orders THEN calls'[i].op = "none"
               ELSE calls'[i].op \in begun' /\ (calls'[i].do = Kind[calls'[i].op]
                                                \/ (calls'[i].do = "refuse" /\ Kind[calls'[i].op] = "write"))
    <3>1. CASE i = Len(calls) + 1
      BY <1>1, <1>2, <1>3, <1>4, <3>1
    <3>2. CASE i \in DOMAIN calls
      BY <1>3, <1>4, <3>2 DEF SocketInv, Queue
    <3> QED BY <1>3, <3>1, <3>2
  <2>2. \A i \in DOMAIN calls : calls[i].op # o
    BY <1>2, <1>4, <1>5 DEF Handed
  <2>3. \A i, j \in DOMAIN calls' : calls'[i].op = calls'[j].op /\ calls'[i].op # "none" => i = j
    BY <1>3, <2>2 DEF SocketInv, Queue
  <2> QED BY <2>1, <2>3 DEF Queue
<1>7. Types'
  BY <1>3, <1>4 DEF Begin, SocketInv, Types
<1>8. Progress' /\ Closing' /\ WatchedWhileWaiting'
  BY <1>3, <1>4, <1>5 DEF Begin, SocketInv, Progress, Closing, WatchedWhileWaiting
<1>9. Answered'
  BY <1>3, <1>4, <1>5 DEF Begin, SocketInv, Answered
<1> QED BY <1>6, <1>7, <1>8, <1>9 DEF SocketInv

LEMMA AskKeeps == ASSUME Callers, SocketInv, NEW what \in Orders, Ask(what) PROVE SocketInv'
<1>1. [do |-> what, op |-> "none"] \in Blocks
  BY DEF Blocks
<1>2. /\ calls' \in Seq(Blocks) /\ DOMAIN calls' = 1 .. Len(calls) + 1 /\ DOMAIN calls = 1 .. Len(calls)
      /\ Len(calls) \in Nat
      /\ calls'[Len(calls) + 1] = [do |-> what, op |-> "none"] /\ \A i \in 1 .. Len(calls) : calls'[i] = calls[i]
      /\ Handed' = Handed
  BY <1>1, QueuedBlock DEF Ask, Queued, SocketInv
<1>3. Queue'
  BY <1>2 DEF Ask, SocketInv, Queue
<1>4. Types'
  BY <1>2 DEF Ask, SocketInv, Types
<1>5. Progress' /\ Closing' /\ WatchedWhileWaiting' /\ Answered'
  BY <1>2 DEF Ask, SocketInv, Progress, Closing, WatchedWhileWaiting, Answered, Holding
<1> QED BY <1>3, <1>4, <1>5 DEF SocketInv

\* What leaves queue, operations and sources alone.
LEMMA QuietKeeps ==
  ASSUME SocketInv, UNCHANGED <<calls, reading, connecting, writes, watched, closed, cancels, fd, answers, begun>>
  PROVE  SocketInv'
<1>1. Types' /\ Queue' /\ Closing' /\ WatchedWhileWaiting'
  BY DEF SocketInv, Types, Queue, Closing, WatchedWhileWaiting, Holding
<1>2. Progress' /\ Answered'
  BY DEF SocketInv, Progress, Answered, Holding, Handed
<1> QED BY <1>1, <1>2 DEF SocketInv

LEMMA CancelledKeeps == ASSUME SocketInv, NEW s \in {"read", "write"}, Cancelled(s) PROVE SocketInv'
<1>1. Types' /\ Closing'
  BY DEF SocketInv, Types, Cancelled, Closing, LastCancelled, Holding
<1>2. Queue' /\ Progress' /\ Answered' /\ WatchedWhileWaiting'
  BY DEF Cancelled, SocketInv, Queue, Progress, Answered, WatchedWhileWaiting, Holding, Handed
<1> QED BY <1>1, <1>2 DEF SocketInv

---------------------------------------------------------------------------
\* The sources.

\* Nothing of the queue is touched.
LEMMA SourceFrame ==
  ASSUME SocketInv, UNCHANGED <<calls, begun>>
  PROVE  calls' \in Seq(Blocks) /\ Queue' /\ Handed' = Handed /\ Handed' = Handed \ {} /\ begun' = begun
BY DEF SocketInv, Types, Queue, Handed

LEMMA SourceCloses == ASSUME Callers, SocketInv, ~closed.all, CloseAnd({}), UNCHANGED <<calls, begun>> PROVE SocketInv'
<1>1. Closes({})
  BY CloseAndCloses
<1> QED BY <1>1, SourceFrame, ClosesKeeps

LEMMA TimerKeeps == ASSUME Callers, SocketInv, Timer PROVE SocketInv'
BY SourceCloses DEF Timer

LEMMA ReadReadyKeeps == ASSUME Callers, SocketInv, ReadReady PROVE SocketInv'
<1>1. CASE CloseAnd({})
  BY <1>1, SourceCloses DEF ReadReady
<1>2. CASE /\ reading' = "none" /\ Answer({reading}) /\ Watching("none", "write" \in watched)
           /\ \E e \in BOOLEAN : closed' = [closed EXCEPT !.input = e]
           /\ UNCHANGED <<connecting, writes, reserved>> /\ Same
  <2>1. reading # "none" /\ ~closed.all /\ calls' = calls /\ begun' = begun
    BY DEF ReadReady
  <2>2. reading \in Holding /\ Holding' = Holding \ {reading}
    <3>1. reading # connecting /\ reading \notin Range(writes)
      BY <2>1 DEF SocketInv, Progress, Range, Callers, Types
    <3> QED BY <1>2, <2>1, <3>1 DEF Holding
  <2>3. Holding' \cup Handed' = (Holding \cup Handed) \ {reading}
    BY <2>1, <2>2, SourceFrame DEF SocketInv, Progress
  <2>4. Answered' /\ answers' \in [Ops -> Nat]
    BY <1>2, <2>1, <2>2, <2>3, Settle
  <2>5. closed' \in [all : BOOLEAN, input : BOOLEAN, output : BOOLEAN] /\ ~closed'.all
    BY <1>2, <2>1 DEF SocketInv, Types
  <2>6. Types'
    BY <1>2, <2>1, <2>4, <2>5 DEF Same, Watching, SocketInv, Types
  <2>7. Progress' /\ Closing'
    BY <1>2, <2>1, <2>2, <2>5, SourceFrame DEF Same, SocketInv, Progress, Closing
  <2>8. WatchedWhileWaiting'
    BY <1>2, <2>1, <2>5 DEF Watching, SocketInv, WatchedWhileWaiting
  <2> QED BY <2>1, <2>4, <2>6, <2>7, <2>8, SourceFrame DEF SocketInv
<1> QED BY <1>1, <1>2 DEF ReadReady

\* The first n writes leave the others.
LEMMA WritesLeave ==
  ASSUME SocketInv, NEW n \in 0 .. Len(writes), writes' = SubSeq(writes, n + 1, Len(writes))
  PROVE  /\ writes' \in Seq(Ops)
         /\ Range(writes') = Range(writes) \ {writes[i] : i \in 1 .. n}
         /\ {writes[i] : i \in 1 .. n} \subseteq Range(writes)
         /\ \A i \in DOMAIN writes' : Kind[writes'[i]] = "write"
         /\ \A i, j \in DOMAIN writes' : writes'[i] = writes'[j] => i = j
<1>1. writes \in Seq(Ops) /\ Len(writes) \in Nat /\ DOMAIN writes = 1 .. Len(writes) /\ n \in Nat
  BY DEF SocketInv, Types
<1>2. writes' \in Seq(Ops) /\ DOMAIN writes' = 1 .. (Len(writes) - n)
      /\ \A i \in DOMAIN writes' : writes'[i] = writes[i + n]
  BY <1>1
<1>3. \A i, j \in DOMAIN writes : writes[i] = writes[j] => i = j
  BY DEF SocketInv, Progress
<1>4. Range(writes) \ {writes[i] : i \in 1 .. n} \subseteq Range(writes')
  <2> SUFFICES ASSUME NEW i \in DOMAIN writes, writes[i] \notin {writes[k] : k \in 1 .. n}
               PROVE  writes[i] \in Range(writes')
    BY DEF Range
  <2>1. i \notin 1 .. n
    OBVIOUS
  <2>2. i - n \in DOMAIN writes' /\ writes'[i - n] = writes[i]
    BY <1>1, <1>2, <2>1
  <2> QED BY <2>2 DEF Range
<1>5. Range(writes') \subseteq Range(writes) \ {writes[i] : i \in 1 .. n}
  <2> SUFFICES ASSUME NEW i \in DOMAIN writes'
               PROVE  writes'[i] \in Range(writes) /\ writes'[i] \notin {writes[k] : k \in 1 .. n}
    BY DEF Range
  <2>1. i + n \in DOMAIN writes /\ writes'[i] = writes[i + n] /\ i \in Nat \ {0}
    BY <1>1, <1>2
  <2>2. \A k \in 1 .. n : k \in DOMAIN writes /\ k # i + n
    BY <1>1, <2>1
  <2> QED BY <1>3, <2>1, <2>2 DEF Range
<1>6. {writes[i] : i \in 1 .. n} \subseteq Range(writes)
  BY SMTT(60), <1>1 DEF Range
<1>7. \A i \in DOMAIN writes' : Kind[writes'[i]] = "write"
  BY <1>1, <1>2 DEF SocketInv, Progress
<1>8. \A i, j \in DOMAIN writes' : writes'[i] = writes'[j] => i = j
  BY <1>1, <1>2, <1>3
<1> QED BY <1>2, <1>4, <1>5, <1>6, <1>7, <1>8

LEMMA WriteReadyKeeps == ASSUME Callers, SocketInv, WriteReady PROVE SocketInv'
<1>0. ~closed.all /\ calls' = calls /\ begun' = begun
  BY DEF WriteReady
<1>1. CASE CloseAnd({})
  BY <1>0, <1>1, SourceCloses
<1>2. ASSUME NEW n \in 0 .. Len(writes),
             connecting' = "none" /\ writes' = SubSeq(writes, n + 1, Len(writes)),
             Answer({writes[i] : i \in 1 .. n} \cup ({connecting} \ {"none"})),
             Watching(reading, writes' # <<>>), UNCHANGED <<reading, closed>>, Same
      PROVE  SocketInv'
  <2> DEFINE sent == {writes[i] : i \in 1 .. n}
  <2>1. /\ writes' \in Seq(Ops) /\ Range(writes') = Range(writes) \ sent /\ sent \subseteq Range(writes)
        /\ \A i \in DOMAIN writes' : Kind[writes'[i]] = "write"
        /\ \A i, j \in DOMAIN writes' : writes'[i] = writes'[j] => i = j
    BY <1>2, WritesLeave
  <2>2. \A o \in Range(writes) : Kind[o] = "write" /\ o \in Ops
    BY DEF SocketInv, Progress, Range, Types
  <2>3. reading # "none" => Kind[reading] = "read"
    BY DEF SocketInv, Progress
  <2>4. connecting # "none" => Kind[connecting] = "connect"
    BY DEF SocketInv, Progress
  <2> HIDE DEF sent
  <2> DEFINE S == sent \cup ({connecting} \ {"none"})
  <2>5. S \subseteq Holding /\ Holding' = Holding \ S
    BY <1>2, <2>1, <2>2, <2>3, <2>4 DEF Holding, Callers
  <2>6. Answer(S)
    BY <1>2 DEF sent
  <2> HIDE DEF S
  <2>7. Holding' \cup Handed' = (Holding \cup Handed) \ S
    BY <1>0, <2>5, SourceFrame DEF SocketInv, Progress
  <2>8. Answered' /\ answers' \in [Ops -> Nat]
    BY <1>0, <2>5, <2>6, <2>7, Settle
  <2>9. Types'
    BY <1>0, <1>2, <2>1, <2>8 DEF Same, Watching, SocketInv, Types
  <2>10. Progress' /\ Closing'
    BY <1>0, <1>2, <2>1, <2>5, SourceFrame DEF Same, SocketInv, Progress, Closing
  <2>11. WatchedWhileWaiting'
    BY <1>2 DEF Watching, WatchedWhileWaiting
  <2> QED BY <1>0, <2>8, <2>9, <2>10, <2>11, SourceFrame DEF SocketInv
<1> QED BY <1>1, <1>2 DEF WriteReady

---------------------------------------------------------------------------
\* The blocks of the queue, for an operation that has just left it.

LEMMA BeginReadKeeps ==
  ASSUME Callers, SocketInv, NEW o \in Handed, Kind[o] = "read", BeginRead(o),
         calls' \in Seq(Blocks), Queue', Handed' = Handed \ {o}, begun' = begun
  PROVE  SocketInv'
<1>1. CASE closed.all \/ reading # "none" \/ closed.input
  BY <1>1, FailKeeps DEF BeginRead
<1>2. CASE ~(closed.all \/ reading # "none" \/ closed.input) /\ o \in late
  BY <1>2, ClosesKeeps, CloseAndCloses DEF BeginRead
<1>3. CASE ~(closed.all \/ reading # "none" \/ closed.input) /\ o \notin late
  <2>1. /\ reading' = o /\ Watching(o, "write" \in watched) /\ reading = "none" /\ ~closed.all
        /\ UNCHANGED <<connecting, writes, closed, answers>> /\ Same
    BY <1>3 DEF BeginRead
  <2>2. o \in begun /\ o \in Ops /\ o # "none"
    BY DEF SocketInv, Queue, Handed, Orders, Types
  <2>3. Holding' = Holding \cup {o}
    BY <2>1, <2>2 DEF Holding
  <2>4. Answered'
    BY <2>1, <2>2, <2>3 DEF SocketInv, Answered, Progress
  <2>5. Types'
    BY <2>1, <2>2 DEF Same, Watching, SocketInv, Types
  <2>6. Progress' /\ Closing'
    BY <2>1, <2>2, <2>3 DEF Same, SocketInv, Progress, Closing
  <2>7. WatchedWhileWaiting'
    BY <2>1, <2>2 DEF Watching, SocketInv, WatchedWhileWaiting
  <2> QED BY <2>4, <2>5, <2>6, <2>7 DEF SocketInv
<1> QED BY <1>1, <1>2, <1>3

LEMMA BeginConnectKeeps ==
  ASSUME Callers, SocketInv, NEW o \in Handed, Kind[o] = "connect", BeginConnect(o),
         calls' \in Seq(Blocks), Queue', Handed' = Handed \ {o}, begun' = begun
  PROVE  SocketInv'
<1>1. CASE Fail(o)
  BY <1>1, FailKeeps
<1>2. CASE /\ ~closed.all /\ o \notin late /\ connecting' = o /\ Watching(reading, TRUE)
           /\ UNCHANGED <<reading, writes, reserved, closed, answers>> /\ Same
  <2>2. o \in begun /\ o \in Ops /\ o # "none"
    BY DEF SocketInv, Queue, Handed, Orders, Types
  <2>1. connecting = "none"
    <3>1. connecting # "none" => connecting = o /\ connecting \in Holding
      BY <2>2 DEF SocketInv, Progress, Callers, Types, Holding
    <3> QED BY <3>1 DEF SocketInv, Progress
  <2>3. Holding' = Holding \cup {o}
    BY <1>2, <2>1, <2>2 DEF Holding
  <2>4. Answered'
    BY <1>2, <2>2, <2>3 DEF SocketInv, Answered, Progress
  <2>5. Types'
    BY <1>2, <2>2 DEF Same, Watching, SocketInv, Types
  <2>6. Progress' /\ Closing'
    BY <1>2, <2>2, <2>3 DEF Same, SocketInv, Progress, Closing
  <2>7. WatchedWhileWaiting'
    BY <1>2, <2>2 DEF Watching, SocketInv, WatchedWhileWaiting
  <2> QED BY <2>4, <2>5, <2>6, <2>7 DEF SocketInv
<1> QED BY <1>1, <1>2 DEF BeginConnect

LEMMA BeginWriteKeeps ==
  ASSUME Callers, SocketInv, NEW o \in Handed, Kind[o] = "write", BeginWrite(o),
         calls' \in Seq(Blocks), Queue', Handed' = Handed \ {o}, begun' = begun
  PROVE  SocketInv'
<1>1. CASE closed.all \/ closed.output
  <2>1. Holding' = Holding /\ Answer({o})
    BY <1>1 DEF BeginWrite, Holding
  <2>2. Holding' \cup Handed' = (Holding \cup Handed) \ {o}
    BY <2>1 DEF SocketInv, Progress
  <2>3. Answered' /\ answers' \in [Ops -> Nat]
    BY <2>1, <2>2, Settle
  <2>4. Types'
    BY <1>1, <2>3 DEF BeginWrite, Same, SocketInv, Types
  <2>5. Progress' /\ Closing' /\ WatchedWhileWaiting'
    BY <1>1, <2>1 DEF BeginWrite, Same, SocketInv, Progress, Closing, WatchedWhileWaiting
  <2> QED BY <2>3, <2>4, <2>5 DEF SocketInv
<1>2. CASE ~(closed.all \/ closed.output) /\ o \in late
  <2>1. Closes({o})
    BY <1>2 DEF BeginWrite, Closes, CloseAnswers
  <2> QED BY <1>2, <2>1, ClosesKeeps
<1>3. CASE ~(closed.all \/ closed.output) /\ o \notin late
  <2>1. /\ writes' = Append(writes, o) /\ Watching(reading, TRUE) /\ ~closed.all
        /\ UNCHANGED <<reading, connecting, closed, answers>> /\ Same
    BY <1>3 DEF BeginWrite
  <2>2. o \in begun /\ o \in Ops /\ o # "none"
    BY DEF SocketInv, Queue, Handed, Orders, Types
  <2>3. /\ writes' \in Seq(Ops) /\ writes' # <<>> /\ DOMAIN writes' = 1 .. Len(writes) + 1
        /\ DOMAIN writes = 1 .. Len(writes) /\ Len(writes) \in Nat
        /\ writes'[Len(writes) + 1] = o /\ \A i \in 1 .. Len(writes) : writes'[i] = writes[i]
    BY <2>1, <2>2 DEF SocketInv, Types
  <2>4. Range(writes') = Range(writes) \cup {o}
    BY <2>3 DEF Range
  <2>5. Holding' = Holding \cup {o}
    BY <2>1, <2>2, <2>4 DEF Holding
  <2>6. o \notin Range(writes)
    BY <2>2 DEF SocketInv, Progress, Holding
  <2>7. Answered'
    BY <2>1, <2>2, <2>5 DEF SocketInv, Answered, Progress
  <2>8. Types'
    BY <2>1, <2>3 DEF Same, Watching, SocketInv, Types
  <2>9. \A i \in DOMAIN writes' : Kind[writes'[i]] = "write"
    BY <2>3 DEF SocketInv, Progress
  <2>10. \A i, j \in DOMAIN writes' : writes'[i] = writes'[j] => i = j
    BY <2>3, <2>6 DEF SocketInv, Progress, Range
  <2>11. Progress' /\ Closing'
    BY <2>1, <2>2, <2>5, <2>9, <2>10 DEF Same, SocketInv, Progress, Closing
  <2>12. WatchedWhileWaiting'
    BY <2>1, <2>3 DEF Watching, SocketInv, WatchedWhileWaiting
  <2> QED BY <2>7, <2>8, <2>11, <2>12 DEF SocketInv
<1> QED BY <1>1, <1>2, <1>3

\* A block that is no operation's.
LEMMA OrderKeeps ==
  ASSUME Callers, SocketInv, FinishReading \/ FinishWriting \/ Close,
         calls' \in Seq(Blocks), Queue', Handed' = Handed, begun' = begun
  PROVE  SocketInv'
<1>1. CASE UNCHANGED <<reading, connecting, writes, watched, closed, answers>> /\ Same
  BY <1>1 DEF Same, SocketInv, Types, Progress, Answered, Closing, WatchedWhileWaiting, Holding
<1>2. CASE ~closed.all /\ CloseAnd({})
  BY <1>2, ClosesKeeps, CloseAndCloses
<1>3. CASE /\ ~closed.all /\ closed' = [closed EXCEPT !.output = TRUE]
           /\ UNCHANGED <<reading, connecting, writes, watched, reserved, answers>> /\ Same
  <2>1. closed' \in [all : BOOLEAN, input : BOOLEAN, output : BOOLEAN] /\ ~closed'.all
    BY <1>3 DEF SocketInv, Types
  <2> QED BY <1>3, <2>1 DEF Same, SocketInv, Types, Progress, Answered, Closing, WatchedWhileWaiting, Holding
<1>4. CASE /\ ~closed.all /\ closed' = [closed EXCEPT !.input = TRUE] /\ reading' = "none"
           /\ Answer({reading} \ {"none"}) /\ Watching("none", "write" \in watched)
           /\ UNCHANGED <<connecting, writes, reserved>> /\ Same
  <2> DEFINE S == {reading} \ {"none"}
  <2>1. closed' \in [all : BOOLEAN, input : BOOLEAN, output : BOOLEAN] /\ ~closed'.all
    BY <1>4 DEF SocketInv, Types
  <2>2. S \subseteq Holding /\ Holding' = Holding \ S
    <3>1. reading # "none" => reading # connecting /\ reading \notin Range(writes)
      BY DEF SocketInv, Progress, Range, Callers, Types
    <3> QED BY <1>4, <3>1 DEF Holding
  <2>3. Holding' \cup Handed' = (Holding \cup Handed) \ S
    BY <2>2 DEF SocketInv, Progress
  <2>4. Answered' /\ answers' \in [Ops -> Nat]
    BY <1>4, <2>2, <2>3, Settle
  <2>5. Types'
    BY <1>4, <2>1, <2>4 DEF Same, Watching, SocketInv, Types
  <2>6. Progress' /\ Closing'
    BY <1>4, <2>1, <2>2 DEF Same, SocketInv, Progress, Closing
  <2>7. WatchedWhileWaiting'
    BY <1>4, <2>1 DEF Watching, SocketInv, WatchedWhileWaiting
  <2> QED BY <2>4, <2>5, <2>6, <2>7 DEF SocketInv
<1> QED BY <1>1, <1>2, <1>3, <1>4 DEF FinishReading, FinishWriting, Close

LEMMA RunKeeps == ASSUME Callers, SocketInv, Run PROVE SocketInv'
<1> DEFINE c == Head(calls)
<1>1. /\ calls' \in Seq(Blocks) /\ Queue' /\ begun' = begun
      /\ c \in Blocks /\ Handed' = Handed \ {c.op}
      /\ IF c.do \in Orders THEN c.op = "none"
         ELSE c.op \in Handed \cup {"none"} /\ (c.do = Kind[c.op] \/ (c.do = "refuse" /\ Kind[c.op] = "write"))
  BY RunKeepsQueue DEF Run, SocketInv
<1>2. c.do \notin Orders => c.op \in Handed
  <2>1. Queue /\ calls[1] = c /\ 1 \in DOMAIN calls /\ begun \subseteq Ops
    BY RunBlock DEF Run, SocketInv, Types
  <2> QED BY <2>1 DEF Queue, Handed, Callers
<1>3. \/ c.do = "read" /\ BeginRead(c.op)
      \/ c.do = "connect" /\ BeginConnect(c.op)
      \/ c.do = "write" /\ BeginWrite(c.op)
      \/ c.do = "refuse" /\ IF closed.all THEN Fail(c.op) ELSE CloseAnd({c.op})
      \/ c.do = "detach" /\ Detach(c.op)
      \/ c.do = "finishReading" /\ FinishReading
      \/ c.do = "finishWriting" /\ FinishWriting
      \/ c.do = "close" /\ Close
  BY DEF Run
<1> HIDE DEF c
<1>4. CASE c.do = "read" /\ BeginRead(c.op)
  BY <1>1, <1>2, <1>4, BeginReadKeeps DEF Orders
<1>5. CASE c.do = "connect" /\ BeginConnect(c.op)
  BY <1>1, <1>2, <1>5, BeginConnectKeeps DEF Orders
<1>6. CASE c.do = "write" /\ BeginWrite(c.op)
  BY <1>1, <1>2, <1>6, BeginWriteKeeps DEF Orders
<1>7. CASE \/ c.do = "refuse" /\ IF closed.all THEN Fail(c.op) ELSE CloseAnd({c.op})
           \/ c.do = "detach" /\ Detach(c.op)
  <2>1. c.op \in Handed
    BY <1>2, <1>7 DEF Orders
  <2>2. CASE Fail(c.op)
    BY <1>1, <2>1, <2>2, FailKeeps
  <2>3. CASE ~closed.all /\ CloseAnd({c.op})
    BY <1>1, <2>1, <2>3, ClosesKeeps, CloseAndCloses
  <2> QED BY <1>7, <2>2, <2>3 DEF Detach
<1>8. CASE c.do \in Orders /\ (FinishReading \/ FinishWriting \/ Close)
  <2>1. Handed' = Handed
    BY <1>1, <1>8 DEF Handed
  <2> QED BY <1>1, <1>8, <2>1, OrderKeeps
<1> QED BY <1>3, <1>4, <1>5, <1>6, <1>7, <1>8 DEF Orders

LEMMA NextKeeps == ASSUME Callers, SocketInv, [Next]_vars PROVE SocketInv'
<1>1. ASSUME NEW o \in Ops, Begin(o) \/ Late(o) PROVE SocketInv'
  BY <1>1, BeginKeeps, QuietKeeps DEF Late
<1>2. CASE \E w \in Orders : Ask(w)
  BY <1>2, AskKeeps
<1>3. CASE Run \/ ReadReady \/ WriteReady \/ Timer
  BY <1>3, RunKeeps, ReadReadyKeeps, WriteReadyKeeps, TimerKeeps
<1>4. CASE \E s \in {"read", "write"} : Cancelled(s)
  BY <1>4, CancelledKeeps
<1>5. CASE UNCHANGED vars
  BY <1>5, QuietKeeps DEF vars
<1> QED BY <1>1, <1>2, <1>3, <1>4, <1>5 DEF Next, Orders

\* For any operations callers start: each continuation is resumed exactly once, the
\* descriptor is open as long as a source or an operation may use it, and a
\* source is resumed exactly while something waits for it.
THEOREM OperationsEndOnce == ASSUME Callers PROVE Spec => []SocketSafe
<1>1. Init => SocketInv
  BY InitIsSafe
<1>2. SocketInv /\ [Next]_vars => SocketInv'
  BY NextKeeps
<1>3. SocketInv => SocketSafe
  BY SafeFollows
<1> QED BY <1>1, <1>2, <1>3, PTL DEF Spec
=============================================================================
