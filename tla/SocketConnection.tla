--------------------------- MODULE SocketConnection ---------------------------
(***************************************************************************)
(* A duplex nonblocking stream owned by one dispatch queue: a read, queued  *)
(* writes with reserved memory, deadlines, half close, detach and close.    *)
(* Callers' calls wait in the queue (`calls`); the descriptor is closed     *)
(* when both dispatch sources have been cancelled.  (SocketConnection.swift)*)
(***************************************************************************)
EXTENDS Integers, Sequences, FiniteSets, SequencesExt, FiniteSetsExt

CONSTANTS
  Ops,          \* operations callers may start, each once
  Size,         \* bytes of each write, zero for other operations
  Kind,         \* "connect", "read", "write", "detach"
  MaxQueued,    \* maximumQueuedBytes
  MaxCalls      \* bound: blocks waiting in the dispatch queue

VARIABLES
  calls,      \* blocks in the dispatch queue
  reading,    \* the read in progress, or "none"
  connecting, \* the connect in progress, or "none"
  writes,     \* queued writes
  late,       \* operations whose deadline has passed
  watched,    \* sources that are resumed
  reserved,   \* reservedOutputBytes
  accepts,    \* acceptsOutput
  closed,     \* closed, inputEnded, outputEnded
  cancels,    \* sources whose cancel handler has not run
  fd,         \* the descriptor is open
  answers,    \* how often each operation's continuation was resumed
  begun       \* operations callers have started

vars == <<calls, reading, connecting, writes, late, watched, reserved, accepts, closed,
          cancels, fd, answers, begun>>

Init ==
  /\ calls = <<>> /\ reading = "none" /\ connecting = "none" /\ writes = <<>> /\ late = {}
  /\ watched = {} /\ reserved = 0 /\ accepts = TRUE
  /\ closed = [all |-> FALSE, input |-> FALSE, output |-> FALSE]
  /\ cancels = {} /\ fd = TRUE /\ answers = [o \in Ops |-> 0] /\ begun = {}

Answer(S) == answers' = [o \in Ops |-> IF o \in S THEN answers[o] + 1 ELSE answers[o]]
Total(S) == FoldSet(LAMBDA o, n : n + Size[o], 0, S)
Holding == (({reading, connecting} \cup Range(writes)) \ {"none"})

\* Mutant of Released: a closed connection keeps the memory of its writes.
ReleasedNever(S) == reserved

\* releaseOutput
Released(S) == reserved - Total(S)

\* Mutant of CloseAnswers: queued writes are dropped.
CloseAnswersReads == {reading, connecting} \ {"none"}

\* The continuations close resumes.
CloseAnswers == Holding

\* close: everything pending fails; both sources are resumed and cancelled.
CloseAnd(also) ==
  /\ closed' = [closed EXCEPT !.all = TRUE] /\ accepts' = FALSE
  /\ reading' = "none" /\ connecting' = "none" /\ writes' = <<>>
  /\ watched' = {"read", "write"} /\ cancels' = {"read", "write"}
  /\ Answer(CloseAnswers \cup also) /\ reserved' = Released(Range(writes))
  /\ UNCHANGED <<fd, late>>

Expired(S) == S \cap late # {}
\* Mutant of Watching: a source is never suspended again.
WatchingKept(r, w) == watched' = watched \cup {x \in {"read", "write"} : IF x = "read" THEN r # "none" ELSE w}

\* watchRead, watchWrite
Watching(r, w) == watched' = {x \in {"read", "write"} : IF x = "read" THEN r # "none" ELSE w}
Same == UNCHANGED <<late, cancels, fd, accepts>>
Queued(c) == calls' = Append(calls, c)

---------------------------------------------------------------------------
\* Callers.

\* reserveOutput
Fits(o) == Size[o] <= MaxQueued - reserved

\* read, write, connect, detachFileHandle; a write reserves its bytes first.
Begin(o) ==
  /\ Len(calls) < MaxCalls /\ o \notin begun /\ begun' = begun \cup {o}
  /\ IF Kind[o] # "write" THEN Queued([do |-> Kind[o], op |-> o]) /\ UNCHANGED <<reserved, accepts>>
     ELSE IF accepts /\ Fits(o)
     THEN Queued([do |-> "write", op |-> o]) /\ reserved' = reserved + Size[o] /\ UNCHANGED accepts
     ELSE Queued([do |-> "refuse", op |-> o]) /\ accepts' = FALSE /\ UNCHANGED reserved
  /\ UNCHANGED <<reading, connecting, writes, late, watched, closed, cancels, fd, answers>>

\* finishReading, finishWriting, close, a cancelled task
Ask(what) ==
  /\ Len(calls) < MaxCalls /\ \A i \in DOMAIN calls : calls[i].do # what
  /\ ~closed.all /\ Queued([do |-> what, op |-> "none"])
  /\ UNCHANGED <<reading, connecting, writes, late, watched, reserved, accepts, closed, cancels, fd, answers, begun>>

\* A deadline passes while its operation waits or is in progress.
Late(o) ==
  /\ o \in begun \ late /\ answers[o] = 0 /\ late' = late \cup {o}
  /\ UNCHANGED <<calls, reading, connecting, writes, watched, reserved, accepts, closed, cancels, fd, answers, begun>>

---------------------------------------------------------------------------
\* The dispatch queue.

Fail(o) == /\ Answer({o}) /\ UNCHANGED <<reading, connecting, writes, watched, reserved, closed>> /\ Same

BeginRead(o) ==
  IF closed.all \/ reading # "none" \/ closed.input THEN Fail(o)
  ELSE IF o \in late THEN CloseAnd({o})
  ELSE /\ reading' = o /\ Watching(o, "write" \in watched)
       /\ UNCHANGED <<connecting, writes, reserved, closed, answers>> /\ Same

BeginConnect(o) ==
  \/ Fail(o)
  \/ /\ ~closed.all /\ o \notin late /\ connecting' = o /\ Watching(reading, TRUE)
     /\ UNCHANGED <<reading, writes, reserved, closed, answers>> /\ Same

BeginWrite(o) ==
  IF closed.all \/ closed.output
  THEN /\ reserved' = Released({o}) /\ Answer({o})
       /\ UNCHANGED <<reading, connecting, writes, watched, closed>> /\ Same
  ELSE IF o \in late
  THEN /\ closed' = [closed EXCEPT !.all = TRUE] /\ accepts' = FALSE
       /\ reading' = "none" /\ connecting' = "none" /\ writes' = <<>>
       /\ watched' = {"read", "write"} /\ cancels' = {"read", "write"}
       /\ Answer(CloseAnswers \cup {o}) /\ reserved' = Released(Range(writes) \cup {o}) /\ UNCHANGED <<fd, late>>
  ELSE /\ writes' = Append(writes, o) /\ Watching(reading, TRUE)
       /\ UNCHANGED <<reading, connecting, reserved, closed, answers>> /\ Same

\* detach: an idle connection gives up a duplicate of its descriptor.
Detach(o) == IF closed.all \/ Holding # {} THEN Fail(o) ELSE CloseAnd({o})

FinishReading ==
  IF closed.all \/ closed.input THEN UNCHANGED <<reading, connecting, writes, watched, reserved, closed, answers>> /\ Same
  ELSE /\ closed' = [closed EXCEPT !.input = TRUE] /\ reading' = "none"
       /\ Answer({reading} \ {"none"}) /\ Watching("none", "write" \in watched)
       /\ UNCHANGED <<connecting, writes, reserved>> /\ Same

FinishWriting ==
  IF closed.all \/ closed.output THEN UNCHANGED <<reading, connecting, writes, watched, reserved, closed, answers>> /\ Same
  ELSE IF writes # <<>> THEN CloseAnd({})
  ELSE /\ closed' = [closed EXCEPT !.output = TRUE]
       /\ UNCHANGED <<reading, connecting, writes, watched, reserved, answers>> /\ Same

Close == IF closed.all THEN UNCHANGED <<reading, connecting, writes, watched, reserved, closed, answers>> /\ Same
         ELSE CloseAnd({})

\* The next block of the queue.
Run ==
  /\ calls # <<>> /\ calls' = Tail(calls) /\ UNCHANGED begun
  /\ LET c == Head(calls) IN
     \/ c.do = "read" /\ BeginRead(c.op)
     \/ c.do = "connect" /\ BeginConnect(c.op)
     \/ c.do = "write" /\ BeginWrite(c.op)
     \/ c.do = "refuse" /\ IF closed.all THEN Fail(c.op) ELSE CloseAnd({c.op})
     \/ c.do = "detach" /\ Detach(c.op)
     \/ c.do = "finishReading" /\ FinishReading
     \/ c.do = "finishWriting" /\ FinishWriting
     \/ c.do = "close" /\ Close

\* readReady: data, the end of the stream, or an error.
ReadReady ==
  /\ ~closed.all /\ "read" \in watched /\ reading # "none"
  /\ IF Expired({reading}) THEN CloseAnd({})
     ELSE \/ /\ reading' = "none" /\ Answer({reading}) /\ Watching("none", "write" \in watched)
             /\ \E e \in BOOLEAN : closed' = [closed EXCEPT !.input = e]
             /\ UNCHANGED <<connecting, writes, reserved>> /\ Same
          \/ CloseAnd({})
  /\ UNCHANGED <<calls, begun>>

\* writeReady: the connect completes, some writes leave, or it fails.
WriteReady ==
  /\ ~closed.all /\ "write" \in watched
  /\ IF Expired({connecting} \cup Range(writes)) THEN CloseAnd({})
     ELSE \/ CloseAnd({})
          \/ \E n \in 0 .. Len(writes) :
               LET sent == {writes[i] : i \in 1 .. n} IN
               /\ n > 0 \/ connecting # "none"
               /\ connecting' = "none" /\ writes' = SubSeq(writes, n + 1, Len(writes))
               /\ Answer(sent \cup ({connecting} \ {"none"})) /\ reserved' = Released(sent)
               /\ Watching(reading, writes' # <<>>)
               /\ UNCHANGED <<reading, closed>> /\ Same
  /\ UNCHANGED <<calls, begun>>

\* expired: the timer is set to the nearest deadline.
Timer ==
  /\ ~closed.all /\ Expired(Holding) /\ CloseAnd({})
  /\ UNCHANGED <<calls, begun>>

\* Mutant of LastCancelled: the first cancelled source closes the descriptor.
FirstCancelled(s) == TRUE

LastCancelled(s) == cancels = {s}

\* cancelledSource
Cancelled(s) ==
  /\ s \in cancels /\ cancels' = cancels \ {s}
  /\ fd' = (fd /\ ~LastCancelled(s))
  /\ UNCHANGED <<calls, reading, connecting, writes, late, watched, reserved, accepts, closed, answers, begun>>

Next == \/ \E o \in Ops : Begin(o) \/ Late(o)
        \/ \E w \in {"finishReading", "finishWriting", "close"} : Ask(w)
        \/ Run \/ ReadReady \/ WriteReady \/ Timer
        \/ \E s \in {"read", "write"} : Cancelled(s)

Spec == Init /\ [][Next]_vars
\* The queue runs and cancel handlers are called (the timer has a fairness of its own).
Steps == Run \/ \E s \in {"read", "write"} : Cancelled(s)

---------------------------------------------------------------------------
\* Properties.

TypeOK == reserved \in 0 .. MaxQueued /\ begun \subseteq Ops /\ late \subseteq begun

\* Every continuation is resumed once, and only after it was handed over:
\* whatever ends an operation, nothing is resumed twice or forgotten.
AnsweredOnce == \A o \in Ops :
  answers[o] = IF o \in begun /\ o \notin Holding /\ \A i \in DOMAIN calls : calls[i].op # o THEN 1 ELSE 0

\* Reserved memory is what waits in the dispatch queue or in `writes`.
ReservedIsQueued ==
  reserved = Total(Range(writes) \cup {calls[i].op : i \in {j \in DOMAIN calls : calls[j].do = "write"}})

\* The descriptor is open while a source or an operation could still use it.
DescriptorHeld == Holding # {} \/ cancels # {} \/ ~closed.all => fd

\* A source is resumed exactly while something waits for it.
WatchedWhileWaiting == ~closed.all =>
  (("read" \in watched) <=> reading # "none") /\ (("write" \in watched) <=> (connecting # "none" \/ writes # <<>>))

\* Operations, sources and the descriptor end together, and once.
SocketSafe == AnsweredOnce /\ DescriptorHeld /\ WatchedWhileWaiting

\* Who waits: an operation whose deadline has passed, a closed connection for
\* its descriptor to be closed.
Waits(k) ==
  \/ k = 1 /\ \E o \in late : answers[o] = 0
  \/ k = 2 /\ closed.all /\ fd
=============================================================================
