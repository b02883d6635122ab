---------------------------- MODULE DropCalls_proofs ----------------------------
(***************************************************************************)
(* A request of the drop file system never finds its session closed, for     *)
(* any number of requests and sessions.  The acceptor trusts the count of     *)
(* users, so the proof keeps two facts together: what the counts mean, and    *)
(* which of the two sessions that exist at once the users of each            *)
(* generation have.                                                       *)
(***************************************************************************)
EXTENDS DropCalls, FiniteSetTheorems, TLAPS

\* What a deployment gives: some requests, some sessions, a ring.
Deployment == IsFiniteSet(Requests) /\ Sessions \in Nat /\ Ring \in Nat

InUse == {"begun", "asked", "ended"}
Users(g) == {q \in Requests : call[q].phase \in InUse /\ call[q].gen = g}

Types ==
  /\ session \in 0 .. Sessions /\ owned \in 0 .. Sessions /\ generation \in Nat
  /\ users \in [{0, 1} -> Nat]
  /\ state \in [1 .. Sessions -> {"none", "live", "failed", "closed"}]
  /\ acceptor \in [phase : {"poll", "notified", "idle"}, new : 0 .. Sessions, gen : {0, 1}]
  /\ call \in [Requests -> [phase : {"new", "done"} \cup InUse, sess : 0 .. Sessions, gen : {0, 1},
                            interrupted : BOOLEAN, cancelled : BOOLEAN, answer : {"none", "EIO", "EINTR", "ok"}]]
  /\ waits \subseteq Locks /\ ring \in Seq(Requests) /\ Len(ring) <= Ring

Usable(s) == state[s] \in {"live", "failed"}

\* While the acceptor waits for old users, the previous session, which it owns, is
\* theirs; otherwise it owns the session everybody has.
Custody ==
  /\ session # 0 => Usable(session)
  /\ owned # 0 => Usable(owned)
  /\ acceptor.phase # "poll" => acceptor.new # 0 /\ Usable(acceptor.new)
  /\ acceptor.phase = "idle" => session = acceptor.new /\ session # owned /\ acceptor.gen = 1 - Parity(generation)
  /\ acceptor.phase # "idle" => session = owned
  /\ acceptor.phase = "notified" => acceptor.new # session
  /\ \A q \in Requests : call[q].phase \in InUse =>
       /\ call[q].sess # 0
       /\ call[q].gen = Parity(generation) => call[q].sess = session
       /\ call[q].gen # Parity(generation) => acceptor.phase = "idle" /\ call[q].sess = owned

CallInv == Types /\ UsersCounted /\ Custody

LEMMA ParityIsBit == ASSUME NEW g \in Nat PROVE Parity(g) \in {0, 1} /\ Parity(g + 1) = 1 - Parity(g)
BY DEF Parity

LEMMA CountedMeans == UsersCounted <=> \A g \in {0, 1} : users[g] = Cardinality(Users(g))
BY DEF UsersCounted, Users, InUse

LEMMA UsersAreFinite ==
  ASSUME Deployment, NEW g
  PROVE  IsFiniteSet(Users(g)) /\ Cardinality(Users(g)) \in Nat /\ Cardinality(Users(g)) <= Cardinality(Requests)
<1>1. Users(g) \subseteq Requests
  BY DEF Users
<1> QED BY <1>1, FS_Subset, FS_CardinalityType DEF Deployment

\* Nobody uses a generation whose count is zero.
LEMMA ZeroMeansNobody ==
  ASSUME Deployment, UsersCounted, NEW g \in {0, 1}, users[g] = 0
  PROVE  Users(g) = {}
BY CountedMeans, UsersAreFinite, FS_EmptySet

\* The step of a request that neither takes nor gives up its session.
LEMMA SameUsers ==
  ASSUME UsersCounted, users' = users,
         \A q \in Requests : (call'[q].phase \in InUse <=> call[q].phase \in InUse) /\ call'[q].gen = call[q].gen
  PROVE  UsersCounted'
<1> \A g \in {0, 1} : {q \in Requests : call'[q].phase \in InUse /\ call'[q].gen = g}
                     = {q \in Requests : call[q].phase \in InUse /\ call[q].gen = g}
  OBVIOUS
<1> QED BY DEF UsersCounted, InUse

\* A step of one request that keeps its session and its generation.
LEMMA SameCustody ==
  ASSUME CallInv, UNCHANGED <<session, generation, users, owned, state, acceptor>>,
         NEW q \in Requests, NEW c \in [phase : {"new", "done"} \cup InUse, sess : 0 .. Sessions, gen : {0, 1},
                            interrupted : BOOLEAN, cancelled : BOOLEAN, answer : {"none", "EIO", "EINTR", "ok"}],
         call' = [call EXCEPT ![q] = c], c.phase \in InUse <=> call[q].phase \in InUse,
         c.sess = call[q].sess, c.gen = call[q].gen,
         waits' \subseteq Locks, ring' \in Seq(Requests), Len(ring') <= Ring
  PROVE  CallInv'
<1>1. Types'
  BY DEF CallInv, Types
<1>2. \A p \in Requests : (call'[p].phase \in InUse <=> call[p].phase \in InUse)
                          /\ call'[p].gen = call[p].gen /\ call'[p].sess = call[p].sess
  BY DEF CallInv, Types
<1>3. UsersCounted'
  BY <1>2, SameUsers DEF CallInv
<1>4. Custody'
  BY <1>2 DEF CallInv, Custody, Usable
<1> QED BY <1>1, <1>3, <1>4 DEF CallInv

LEMMA InitCalls == ASSUME Deployment, Init PROVE CallInv
<1>1. Types
  BY DEF Deployment, Init, Types, Idle, InUse
<1>2. UsersCounted
  <2>1. \A g : {q \in Requests : call[q].phase \in {"begun", "asked", "ended"} /\ call[q].gen = g} = {}
    BY DEF Init, Idle
  <2> QED BY <2>1, FS_EmptySet DEF Init, UsersCounted
<1>3. Custody
  BY DEF Init, Idle, Custody, Parity, InUse
<1> QED BY <1>1, <1>2, <1>3 DEF CallInv

LEMMA AcceptKeeps == ASSUME CallInv, NEW s \in 1 .. Sessions, Accept(s) PROVE CallInv'
<1>1. Types'
  BY DEF CallInv, Accept, Types
<1>2. UsersCounted'
  BY SameUsers DEF CallInv, Accept
<1>3. Custody'
  <2>1. \A t \in 1 .. Sessions : Usable(t) => state'[t] = state[t]
    BY DEF CallInv, Types, Accept, Usable
  <2>2. CASE acceptor' = acceptor
    BY <2>1, <2>2 DEF CallInv, Types, Accept, Custody, Usable
  <2>3. CASE acceptor' = [phase |-> "notified", new |-> s, gen |-> 0] /\ state' = [state EXCEPT ![s] = "live"]
    BY <2>1, <2>3 DEF CallInv, Types, Accept, Custody, Usable
  <2> QED BY <2>2, <2>3 DEF Accept
<1> QED BY <1>1, <1>2, <1>3 DEF CallInv

LEMMA SetSessionKeeps ==
  ASSUME Deployment, CallInv, SetSession PROVE CallInv'
<1>1. Types'
  <2>1. generation' \in Nat /\ Parity(generation) \in {0, 1}
    BY ParityIsBit DEF CallInv, SetSession, Types
  <2>2. acceptor' \in [phase : {"poll", "notified", "idle"}, new : 0 .. Sessions, gen : {0, 1}]
    BY <2>1 DEF CallInv, SetSession, Types
  <2> QED BY <2>1, <2>2 DEF CallInv, SetSession, Types
<1>2. UsersCounted'
  BY SameUsers DEF CallInv, SetSession
<1>3. Custody'
  <2>1. Parity(generation) \in {0, 1} /\ Parity(generation') = 1 - Parity(generation)
    BY ParityIsBit DEF CallInv, Types, SetSession
  <2>2. \A q \in Requests : call[q].phase \in InUse => call[q].gen = Parity(generation) /\ call[q].sess = owned
    BY DEF CallInv, Types, Custody, SetSession
  <2> QED BY <2>1, <2>2 DEF CallInv, Types, Custody, SetSession, Usable
<1> QED BY <1>1, <1>2, <1>3 DEF CallInv

LEMMA ClosePreviousKeeps ==
  ASSUME Deployment, CallInv, ClosePrevious PROVE CallInv'
<1>1. Types'
  <2>1. state' \in [1 .. Sessions -> {"none", "live", "failed", "closed"}]
    BY DEF CallInv, ClosePrevious, Types
  <2>2. owned' \in 0 .. Sessions
    BY DEF CallInv, ClosePrevious, Types
  <2>3. acceptor' \in [phase : {"poll", "notified", "idle"}, new : 0 .. Sessions, gen : {0, 1}]
    BY DEF ClosePrevious, Deployment
  <2> QED BY <2>1, <2>2, <2>3 DEF CallInv, ClosePrevious, Types
<1>2. UsersCounted'
  BY SameUsers DEF CallInv, ClosePrevious
<1>3. Parity(generation) \in {0, 1} /\ acceptor.gen = 1 - Parity(generation) /\ acceptor.gen \in {0, 1}
  BY ParityIsBit DEF CallInv, Types, Custody, ClosePrevious
<1>4. Users(acceptor.gen) = {}
  BY <1>3, ZeroMeansNobody DEF CallInv, ClosePrevious, NobodyUses
<1>5. \A q \in Requests : call[q].phase \in InUse => call[q].gen = Parity(generation) /\ call[q].sess = session
  BY <1>3, <1>4 DEF CallInv, Types, Custody, Users
<1>6. Custody'
  BY <1>3, <1>5 DEF CallInv, Types, Custody, ClosePrevious, Usable
<1> QED BY <1>1, <1>2, <1>6 DEF CallInv

LEMMA BreakKeeps == ASSUME CallInv, NEW s \in 1 .. Sessions, Break(s) PROVE CallInv'
<1>1. Types'
  <2>1. state' \in [1 .. Sessions -> {"none", "live", "failed", "closed"}]
    BY DEF CallInv, Break, Types
  <2> QED BY <2>1 DEF CallInv, Break, Types
<1>2. UsersCounted'
  BY SameUsers DEF CallInv, Break
<1>3. \A x \in 0 .. Sessions : x # 0 /\ Usable(x) => Usable(x)'
  BY DEF CallInv, Types, Break, Usable
<1>4. Custody'
  BY <1>3 DEF CallInv, Types, Break, Custody
<1> QED BY <1>1, <1>2, <1>4 DEF CallInv

LEMMA BeginKeeps == ASSUME Deployment, CallInv, NEW q \in Requests, Begin(q) PROVE CallInv'
<1> DEFINE g == Parity(generation)
<1>0. g \in {0, 1} /\ call[q].phase \notin InUse
  BY ParityIsBit DEF CallInv, Types, Begin, InUse
<1>1. CASE session = 0 /\ Set(q, [call[q] EXCEPT !.phase = "done", !.answer = "EIO"]) /\ UNCHANGED users
  BY ZenonT(60), <1>0, <1>1, SameCustody DEF CallInv, Types, Begin, Set, InUse
<1>2. CASE /\ session # 0 /\ users' = [users EXCEPT ![g] = @ + 1]
           /\ Set(q, [call[q] EXCEPT !.phase = "begun", !.sess = session, !.gen = g])
  <2> DEFINE c == [call[q] EXCEPT !.phase = "begun", !.sess = session, !.gen = g]
  <2>0. c.phase = "begun" /\ c.sess = session /\ c.gen = g /\ call' = [call EXCEPT ![q] = c]
    BY <1>2 DEF CallInv, Types, Set
  <2>1. Types'
    <3>1. c \in [phase : {"new", "done"} \cup InUse, sess : 0 .. Sessions, gen : {0, 1},
                 interrupted : BOOLEAN, cancelled : BOOLEAN, answer : {"none", "EIO", "EINTR", "ok"}]
      BY ZenonT(60), <1>0 DEF CallInv, Types, InUse
    <3>2. users' \in [{0, 1} -> Nat]
      BY <1>0, <1>2 DEF CallInv, Types
    <3> HIDE DEF c
    <3> QED BY <2>0, <3>1, <3>2 DEF CallInv, Types, Begin
  <2> HIDE DEF c
  <2>2. \A p \in Requests : call'[p] = IF p = q THEN c ELSE call[p]
    BY <2>0 DEF CallInv, Types
  <2>3. Users(1 - g) = {p \in Requests : call'[p].phase \in InUse /\ call'[p].gen = 1 - g}
    <3> HIDE DEF g
    <3> QED BY <1>0, <2>0, <2>2 DEF Users, InUse
  <2>4. Users(g) \cup {q} = {p \in Requests : call'[p].phase \in InUse /\ call'[p].gen = g} /\ q \notin Users(g)
    <3> HIDE DEF g
    <3> QED BY <1>0, <2>0, <2>2 DEF Users, InUse
  <2>6. UsersCounted'
    <3>1. Cardinality(Users(g) \cup {q}) = Cardinality(Users(g)) + 1
      BY <2>4, UsersAreFinite, FS_AddElement
    <3>2. users[g] = Cardinality(Users(g)) /\ users[1 - g] = Cardinality(Users(1 - g))
      BY <1>0, CountedMeans DEF CallInv
    <3>3. users'[g] = Cardinality(Users(g) \cup {q}) /\ users'[1 - g] = Cardinality(Users(1 - g))
      BY <1>0, <1>2, <3>1, <3>2 DEF CallInv, Types
    <3>4. \A b \in {0, 1} : b = g \/ b = 1 - g
      BY <1>0
    <3> HIDE DEF g
    <3>5. \A b \in {0, 1} : users'[b] = Cardinality({p \in Requests : call'[p].phase \in InUse /\ call'[p].gen = b})
      BY <2>3, <2>4, <3>3, <3>4
    <3> QED BY <3>5 DEF UsersCounted, InUse
  <2>5. Custody'
    BY <1>0, <1>2 DEF CallInv, Types, Custody, Begin, Set, Usable, InUse
  <2> QED BY <2>1, <2>5, <2>6 DEF CallInv
<1> QED BY <1>1, <1>2 DEF Begin

\* What a request may become while it keeps its session.
Records == [phase : {"new", "done"} \cup InUse, sess : 0 .. Sessions, gen : {0, 1},
            interrupted : BOOLEAN, cancelled : BOOLEAN, answer : {"none", "EIO", "EINTR", "ok"}]

LEMMA AskKeeps == ASSUME CallInv, NEW q \in Requests, Ask(q) PROVE CallInv'
<1>0. call[q] \in Records /\ call[q].phase = "begun"
  BY DEF CallInv, Types, Records, Ask
<1>1. waits' \subseteq Locks
  BY DEF CallInv, Types, Ask
<1>2. CASE Set(q, [call[q] EXCEPT !.phase = "ended", !.answer = "EIO"])
  <2> DEFINE c == [call[q] EXCEPT !.phase = "ended", !.answer = "EIO"]
  <2>1. c \in Records /\ c.phase = "ended" /\ c.sess = call[q].sess /\ c.gen = call[q].gen
    BY <1>0 DEF Records, InUse
  <2>2. call' = [call EXCEPT ![q] = c]
    BY <1>2 DEF Set
  <2> HIDE DEF c
  <2> QED BY <1>0, <1>1, <2>1, <2>2, SameCustody DEF Ask, Records, CallInv, Types, InUse
<1>3. CASE Set(q, [call[q] EXCEPT !.phase = "asked", !.interrupted = q \in Locks /\ Early(q), !.cancelled = q \in Locks /\ Early(q)])
  <2> DEFINE c == [call[q] EXCEPT !.phase = "asked", !.interrupted = q \in Locks /\ Early(q), !.cancelled = q \in Locks /\ Early(q)]
  <2>1. c \in Records /\ c.phase = "asked" /\ c.sess = call[q].sess /\ c.gen = call[q].gen
    <3> DEFINE e == q \in Locks /\ Early(q)
    <3>1. e \in BOOLEAN
      OBVIOUS
    <3> HIDE DEF e
    <3> QED BY <1>0, <3>1 DEF Records, InUse
  <2>2. call' = [call EXCEPT ![q] = c]
    BY <1>3 DEF Set
  <2> HIDE DEF c
  <2> QED BY <1>0, <1>1, <2>1, <2>2, SameCustody DEF Ask, Records, CallInv, Types, InUse
<1> QED BY <1>2, <1>3 DEF Ask

LEMMA EndKeeps ==
  ASSUME CallInv, NEW q \in Requests, call[q].phase = "asked", NEW a \in {"EIO", "EINTR", "ok"},
         Set(q, [call[q] EXCEPT !.phase = "ended", !.answer = a]), waits' = waits \ {q},
         UNCHANGED <<session, generation, users, owned, state, acceptor, ring, sent>>
  PROVE  CallInv'
<1> DEFINE c == [call[q] EXCEPT !.phase = "ended", !.answer = a]
<1>0. call[q] \in Records
  BY DEF CallInv, Types, Records
<1>1. c \in Records /\ c.phase = "ended" /\ c.sess = call[q].sess /\ c.gen = call[q].gen
  BY <1>0 DEF Records, InUse
<1>2. call' = [call EXCEPT ![q] = c]
  BY DEF Set
<1> HIDE DEF c
<1> QED BY <1>0, <1>1, <1>2, SameCustody DEF Records, CallInv, Types, InUse

LEMMA ReceiveKeeps == ASSUME CallInv, NEW q \in Requests, Receive(q) \/ Answered(q) PROVE CallInv'
BY EndKeeps DEF Receive, Answered

LEMMA InterruptKeeps == ASSUME Deployment, CallInv, NEW q \in Requests, Interrupt(q) PROVE CallInv'
<1>1. CASE Set(q, [call[q] EXCEPT !.interrupted = TRUE, !.cancelled = TRUE]) /\ UNCHANGED ring
  <2> DEFINE c == [call[q] EXCEPT !.interrupted = TRUE, !.cancelled = TRUE]
  <2>0. call[q] \in Records
    BY DEF CallInv, Types, Records
  <2>1. c \in Records /\ c.phase = call[q].phase /\ c.sess = call[q].sess /\ c.gen = call[q].gen
    BY <2>0 DEF Records, InUse
  <2>2. call' = [call EXCEPT ![q] = c]
    BY <1>1 DEF Set
  <2> HIDE DEF c
  <2> QED BY <1>1, <2>1, <2>2, SameCustody DEF Interrupt, Records, CallInv, Types
<1>2. CASE ring' = Remember(Append(ring, q)) /\ UNCHANGED call
  <2>1. ring' \in Seq(Requests) /\ Len(ring') <= Ring
    <3> DEFINE all == Append(ring, q)
    <3>0. ring \in Seq(Requests) /\ Len(ring) \in Nat /\ Len(ring) <= Ring
      BY DEF CallInv, Types
    <3>1. all \in Seq(Requests) /\ Len(all) = Len(ring) + 1 /\ all # << >>
      BY <3>0
    <3> HIDE DEF all
    <3>2. Tail(all) \in Seq(Requests) /\ Len(Tail(all)) = Len(all) - 1
      BY <3>1
    <3>3. ring' = IF Len(all) > Ring THEN Tail(all) ELSE all
      BY <1>2 DEF Remember, all
    <3> QED BY <3>0, <3>1, <3>2, <3>3 DEF Deployment
  <2>2. Types' /\ Custody'
    BY <1>2, <2>1 DEF CallInv, Types, Custody, Usable, Interrupt
  <2>3. UsersCounted'
    BY <1>2, SameUsers DEF CallInv, Interrupt
  <2> QED BY <2>2, <2>3 DEF CallInv
<1> QED BY <1>1, <1>2 DEF Interrupt

LEMMA LeaveKeeps == ASSUME Deployment, CallInv, NEW q \in Requests, Leave(q) PROVE CallInv'
<1> DEFINE g == call[q].gen
           c == [call[q] EXCEPT !.phase = "done"]
<1>0. call[q] \in Records /\ g \in {0, 1} /\ call[q].phase = "ended"
  BY DEF CallInv, Types, Records, Leave
<1>1. c \in Records /\ c.phase = "done" /\ call' = [call EXCEPT ![q] = c]
  BY <1>0 DEF Records, Leave, Set, InUse
<1>2. users' = [users EXCEPT ![g] = @ - 1]
  BY DEF Leave, UserGone
<1>3. q \in Users(g)
  BY <1>0 DEF Users, InUse
<1> HIDE DEF c, g
<1>4. \A p \in Requests : call'[p] = IF p = q THEN c ELSE call[p]
  BY <1>1 DEF CallInv, Types
<1>5. Users(1 - g) = {p \in Requests : call'[p].phase \in InUse /\ call'[p].gen = 1 - g}
  <2>1. q \notin Users(1 - g)
    BY <1>0 DEF Users, g
  <2> QED BY <1>1, <1>4, <2>1 DEF Users, InUse
<1>6. Users(g) \ {q} = {p \in Requests : call'[p].phase \in InUse /\ call'[p].gen = g}
  BY <1>1, <1>4 DEF Users, InUse
<1>7. Cardinality(Users(g) \ {q}) = Cardinality(Users(g)) - 1 /\ Cardinality(Users(g) \ {q}) \in Nat
  <2>1. IsFiniteSet(Users(g) \ {q})
    BY UsersAreFinite, FS_RemoveElement
  <2> QED BY <1>3, <2>1, UsersAreFinite, FS_RemoveElement, FS_CardinalityType
<1>8. users[g] = Cardinality(Users(g)) /\ users[1 - g] = Cardinality(Users(1 - g))
  BY <1>0, CountedMeans DEF CallInv
<1>9. Types'
  <2>1. users' \in [{0, 1} -> Nat]
    BY <1>0, <1>2, <1>7, <1>8 DEF CallInv, Types
  <2>2. call' \in [Requests -> Records]
    BY <1>1 DEF CallInv, Types, Records
  <2> QED BY <2>1, <2>2 DEF CallInv, Types, Leave, Records
<1>10. UsersCounted'
  <2>1. users'[g] = Cardinality(Users(g) \ {q}) /\ users'[1 - g] = Cardinality(Users(1 - g))
    BY <1>0, <1>2, <1>7, <1>8 DEF CallInv, Types
  <2>2. \A b \in {0, 1} : b = g \/ b = 1 - g
    BY <1>0
  <2>3. \A b \in {0, 1} : users'[b] = Cardinality({p \in Requests : call'[p].phase \in InUse /\ call'[p].gen = b})
    BY <1>5, <1>6, <2>1, <2>2
  <2> QED BY <2>3 DEF UsersCounted, InUse
<1>11. Custody'
  BY <1>1, <1>4 DEF CallInv, Types, Custody, Leave, Usable, InUse
<1> QED BY <1>9, <1>10, <1>11 DEF CallInv

LEMMA NextKeeps == ASSUME Deployment, CallInv, [Next]_vars PROVE CallInv'
<1>1. CASE \E s \in 1 .. Sessions : Accept(s) \/ Break(s)
  BY <1>1, AcceptKeeps, BreakKeeps
<1>2. CASE SetSession \/ ClosePrevious
  BY <1>2, SetSessionKeeps, ClosePreviousKeeps
<1>3. CASE \E q \in Requests : Worker(q) \/ Answered(q) \/ Interrupt(q)
  BY <1>3, BeginKeeps, AskKeeps, ReceiveKeeps, LeaveKeeps, InterruptKeeps DEF Worker
<1>4. CASE UNCHANGED vars
  BY <1>4 DEF vars, CallInv, Types, UsersCounted, Custody, Usable
<1> QED BY <1>1, <1>2, <1>3, <1>4 DEF Next

LEMMA HeldFollows == ASSUME Deployment, CallInv PROVE SessionsHeld
<1>1. SessionHeld
  BY DEF CallInv, Types, Custody, Usable, SessionHeld, InUse
<1> QED BY <1>1 DEF CallInv, SessionsHeld

LEMMA BoundsFollow == ASSUME Deployment, CallInv PROVE TypeOK
<1>1. IsFiniteSet(Requests) => Cardinality(Requests) \in Nat
  BY FS_CardinalityType
<1>2. \A g \in {0, 1} : users[g] \in 0 .. Cardinality(Requests)
  BY <1>1, UsersAreFinite, CountedMeans DEF CallInv, Deployment
<1> QED BY <1>2 DEF CallInv, Types, TypeOK

\* Whatever requests are made and however often the host reconnects, the session of
\* a request in progress has not been closed, and a generation's count is
\* the number of requests that hold its session.
THEOREM SessionsAreHeld == ASSUME Deployment PROVE Spec => [](SessionsHeld /\ TypeOK)
<1>1. CallInv => SessionsHeld /\ TypeOK
  BY HeldFollows, BoundsFollow
<1>2. Init => CallInv
  BY InitCalls
<1>3. CallInv /\ [Next]_vars => CallInv'
  BY NextKeeps
<1> QED BY <1>1, <1>2, <1>3, PTL DEF Spec
=============================================================================
