------------------------------- MODULE DropCalls -------------------------------
(***************************************************************************)
(* Requests of the drop file system on their way to the host: a call uses    *)
(* the session it found, a reconnecting host replaces the session, blocking  *)
(* lock requests wait on threads of their own and may be interrupted before  *)
(* they have begun to wait.  (np_drop_fs.c, np_drop_service.c)              *)
(***************************************************************************)
EXTENDS Integers, Sequences, FiniteSets, SequencesExt

CONSTANTS
  Plain, Locks,  \* requests of the kernel, each made once: ordinary and SETLKW
  Sessions,      \* sessions 1 .. Sessions the host opens, one after the other
  Ring           \* remembered interrupts

Requests == Plain \cup Locks
VARIABLES
  session, generation, users,  \* of np_drop_fs
  owned,      \* service->session, which the acceptor closes
  state,      \* of each session
  acceptor,   \* what the acceptor does
  call,       \* each request
  waits,      \* waiters, by request
  ring, sent  \* interrupts[]; requests the kernel has interrupted

vars == <<session, generation, users, owned, state, acceptor, call, waits, ring, sent>>

Idle == [phase |-> "new", sess |-> 0, gen |-> 0, interrupted |-> FALSE, cancelled |-> FALSE, answer |-> "none"]

Init ==
  /\ session = 0 /\ generation = 0 /\ users = [g \in {0, 1} |-> 0] /\ owned = 0
  /\ state = [s \in 1 .. Sessions |-> "none"] /\ acceptor = [phase |-> "poll", new |-> 0, gen |-> 0]
  /\ call = [q \in Requests |-> Idle] /\ waits = {} /\ ring = <<>> /\ sent = {}

Parity(g) == g % 2
Set(q, c) == call' = [call EXCEPT ![q] = c]

---------------------------------------------------------------------------
\* accept_host and np_drop_fs_set_session.

\* The host opens its next connection; it has given up the one before.  When the
\* guest cannot tell it where drops are mounted, the guest keeps its old session.
Accept(s) ==
  /\ acceptor.phase = "poll" /\ state[s] = "none" /\ \A t \in 1 .. s - 1 : state[t] # "none"
  /\ \/ /\ state' = [state EXCEPT ![s] = "live"]
        /\ acceptor' = [phase |-> "notified", new |-> s, gen |-> 0]
     \/ state' = [state EXCEPT ![s] = "closed"] /\ UNCHANGED acceptor
  /\ UNCHANGED <<session, generation, users, owned, call, waits, ring, sent>>

SetSession ==
  /\ acceptor.phase = "notified"
  /\ session' = acceptor.new /\ generation' = generation + 1
  /\ acceptor' = [acceptor EXCEPT !.phase = "idle", !.gen = Parity(generation)]
  /\ UNCHANGED <<users, owned, state, call, waits, ring, sent>>

\* Mutant of NobodyUses: the previous session is closed at once.
NobodyUsesNow(g) == TRUE

NobodyUses(g) == users[g] = 0

\* set_session returns, and the previous session is closed.
ClosePrevious ==
  /\ acceptor.phase = "idle" /\ NobodyUses(acceptor.gen)
  /\ state' = IF owned = 0 THEN state ELSE [state EXCEPT ![owned] = "closed"]
  /\ owned' = acceptor.new /\ acceptor' = [phase |-> "poll", new |-> 0, gen |-> 0]
  /\ UNCHANGED <<session, generation, users, call, waits, ring, sent>>

\* The connection breaks, as it does when the host replaces it.
Break(s) ==
  /\ state[s] = "live" /\ state' = [state EXCEPT ![s] = "failed"]
  /\ UNCHANGED <<session, generation, users, owned, acceptor, call, waits, ring, sent>>

---------------------------------------------------------------------------
\* call_host_full

Begin(q) ==
  /\ call[q].phase = "new"
  /\ \/ session = 0 /\ Set(q, [call[q] EXCEPT !.phase = "done", !.answer = "EIO"]) /\ UNCHANGED users
     \/ /\ session # 0 /\ users' = [users EXCEPT ![Parity(generation)] = @ + 1]
        /\ Set(q, [call[q] EXCEPT !.phase = "begun", !.sess = session, !.gen = Parity(generation)])
  /\ UNCHANGED <<session, generation, owned, state, acceptor, waits, ring, sent>>

\* Mutant of Early: an interrupt that came first is not looked for.
EarlyNever(q) == FALSE

Early(q) == q \in Range(ring)

\* The stream is opened; a lock request starts to wait.
Ask(q) ==
  LET c == call[q] IN
  /\ c.phase = "begun"
  /\ IF state[c.sess] # "live"
     THEN Set(q, [c EXCEPT !.phase = "ended", !.answer = "EIO"]) /\ UNCHANGED waits
     ELSE /\ Set(q, [c EXCEPT !.phase = "asked", !.interrupted = q \in Locks /\ Early(q), !.cancelled = q \in Locks /\ Early(q)])
          /\ waits' = IF q \in Locks THEN waits \cup {q} ELSE waits
  /\ UNCHANGED <<session, generation, users, owned, state, acceptor, ring, sent>>

Fails(q) == state[call[q].sess] # "live"

\* np_file2_receive returns: with the host's answer, or because the stream was
\* cancelled or its session failed.
Receive(q) ==
  LET c == call[q] IN
  /\ c.phase = "asked"
  /\ \/ c.cancelled /\ Set(q, [c EXCEPT !.phase = "ended", !.answer = "EINTR"])
     \/ ~c.cancelled /\ Fails(q) /\ Set(q, [c EXCEPT !.phase = "ended", !.answer = "EIO"])
  /\ waits' = waits \ {q} /\ UNCHANGED <<session, generation, users, owned, state, acceptor, ring, sent>>
Answered(q) ==
  /\ call[q].phase = "asked" /\ ~call[q].cancelled /\ state[call[q].sess] = "live"
  /\ Set(q, [call[q] EXCEPT !.phase = "ended", !.answer = "ok"])
  /\ waits' = waits \ {q} /\ UNCHANGED <<session, generation, users, owned, state, acceptor, ring, sent>>

\* Mutant of UserGone: the user of another generation is counted out.
UserGoneNow(q) == Parity(generation)

UserGone(q) == call[q].gen

\* The stream is released and the user counted out.
Leave(q) ==
  /\ call[q].phase = "ended" /\ Set(q, [call[q] EXCEPT !.phase = "done"])
  /\ users' = [users EXCEPT ![UserGone(q)] = @ - 1]
  /\ UNCHANGED <<session, generation, owned, state, acceptor, waits, ring, sent>>

\* The ring overwrites its oldest entry.
Remember(all) == IF Len(all) > Ring THEN Tail(all) ELSE all

\* interrupt: the kernel may interrupt any request it has sent.
Interrupt(q) ==
  /\ q \notin sent /\ sent' = sent \cup {q}
  /\ IF q \in waits
     THEN Set(q, [call[q] EXCEPT !.interrupted = TRUE, !.cancelled = TRUE]) /\ UNCHANGED ring
     ELSE ring' = Remember(Append(ring, q)) /\ UNCHANGED call
  /\ UNCHANGED <<session, generation, users, owned, state, acceptor, waits>>

---------------------------------------------------------------------------
Worker(q) == Begin(q) \/ Ask(q) \/ Receive(q) \/ Leave(q)
Next ==
  \/ (\E s \in 1 .. Sessions : Accept(s) \/ Break(s)) \/ SetSession \/ ClosePrevious
  \/ \E q \in Requests : Worker(q) \/ Answered(q) \/ Interrupt(q)
Spec == Init /\ [][Next]_vars

\* Threads run.  The host answers ordinary requests of a live session; it may
\* never grant a lock.  A connection it has replaced breaks.
Steps ==
  \/ SetSession \/ ClosePrevious
  \/ \E q \in Requests : Worker(q)
  \/ \E p \in Plain : Answered(p)
  \/ \E s \in 1 .. Sessions : session > s /\ Break(s)

---------------------------------------------------------------------------
\* Properties.

TypeOK ==
  /\ waits \subseteq Locks /\ Len(ring) <= Ring
  /\ \A g \in {0, 1} : users[g] \in 0 .. Cardinality(Requests)

\* The session a request uses is not closed under it.
SessionHeld == \A q \in Requests : call[q].phase \in {"begun", "asked", "ended"} => state[call[q].sess] # "closed"

\* Only the requests of a generation are counted in it.
UsersCounted == \A g \in {0, 1} :
  users[g] = Cardinality({q \in Requests : call[q].phase \in {"begun", "asked", "ended"} /\ call[q].gen = g})

\* Sessions are held by their requests and by nobody else.
SessionsHeld == SessionHeld /\ UsersCounted

\* Who waits: an interrupted lock request, which ends although nobody grants the
\* lock, in whatever order the interrupt and the request reach the guest's
\* threads; and a reconnected host, which a waiting lock does not keep from
\* replacing its session.
Waits(k) ==
  \/ k = 1 /\ \E q \in sent \cap Locks : call[q].phase # "done"
  \/ k = 2 /\ acceptor.phase = "idle"
=============================================================================
