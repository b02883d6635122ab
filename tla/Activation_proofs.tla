--------------------------- MODULE Activation_proofs ---------------------------
(***************************************************************************)
(* A press of the user is worth one activation, of the client and the window  *)
(* it was made in, for any surfaces, clients, presses and ring.              *)
(*                                                                         *)
(* Presses carry their number from the Mac to the token and back.  They reach *)
(* the compositor in order (Queued), so that each is remembered once           *)
(* (Remembered); until a token claims it nothing was sent for it, and a token  *)
(* is gone before its request is (Worth).  On the Mac the authority names a    *)
(* press that has raised no window yet (Authorised).                          *)
(***************************************************************************)
EXTENDS Activation, SequenceTheorems, TLAPS

\* What a seat has: surfaces in the trees of their toplevels, and a ring for presses.
Seat ==
  /\ 0 \notin Surfaces /\ Top \in [Surfaces -> Surfaces]
  /\ \A s \in Surfaces : Top[Top[s]] = Top[s]
  /\ Ring \in Nat \ {0} /\ MaxPresses \in Nat

---------------------------------------------------------------------------
\* The invariant.

Places  == Surfaces \cup {0}
Message == [t : {"focus", "press"}, s : Places, p : Nat]
Memory  == [s : Places, origin : Places, press : Nat, time : Nat, claimed : BOOLEAN]
Touch   == [s : Surfaces, time : Nat, key : Toplevels \cup {0}]
Request == [w : Toplevels, origin : Toplevels, age : Int]

Types ==
  /\ now \in Nat /\ serial \in Nat /\ alive \subseteq Surfaces
  /\ in \in Seq(Message) /\ out \in Seq(Request) /\ inputs \in Seq(Memory)
  /\ presses \in Seq(Touch) /\ Len(presses) <= MaxPresses
  /\ sent \in [1 .. MaxPresses -> Nat] /\ \A t \in grants : t.time \in Nat
  /\ key \in [w : Toplevels \cup {0}, active : BOOLEAN]

\* Presses on their way are newer than those delivered, and in order.
Queued ==
  /\ serial <= Len(presses)
  /\ \A k \in DOMAIN in : in[k].t = "press" =>
       serial < in[k].p /\ in[k].p <= Len(presses) /\ in[k].s = presses[in[k].p].s
  /\ \A j, k \in DOMAIN in : j < k /\ in[j].t = "press" /\ in[k].t = "press" => in[j].p < in[k].p

\* The ring remembers a press once, with its surface and its window.
Remembered ==
  /\ \A k \in DOMAIN inputs : 1 <= inputs[k].press /\ inputs[k].press <= serial
  /\ \A k \in DOMAIN inputs : inputs[k].s # 0 =>
       inputs[k].s = presses[inputs[k].press].s /\ inputs[k].origin = Top[inputs[k].s]
  /\ \A j, k \in DOMAIN inputs : inputs[j].press = inputs[k].press => j = k

\* A press is unclaimed, or in one token, or one request was sent for it.
Worth ==
  /\ \A t \in grants : /\ t.press \in 1 .. serial /\ sent[t.press] = 0
                       /\ t.by = Client[presses[t.press].s] /\ t.origin = Top[presses[t.press].s]
  /\ \A t, u \in grants : t.press = u.press => t = u
  /\ \A k \in DOMAIN inputs : ~inputs[k].claimed =>
       sent[inputs[k].press] = 0 /\ \A t \in grants : t.press # inputs[k].press
  /\ \A p \in 1 .. MaxPresses : sent[p] <= 1 /\ (p > serial => sent[p] = 0)

\* The Mac's authority is that of a press in the key window that raised nothing yet.
Authorised ==
  /\ auth.w # 0 =>
       /\ auth.press \in 1 .. Len(presses) /\ Top[presses[auth.press].s] = auth.w
       /\ presses[auth.press].key = auth.w /\ presses[auth.press].time = auth.time
       /\ \A a \in raised : a.press # auth.press
  /\ \A a \in raised : a.press \in 1 .. Len(presses)
  /\ \A a, b \in raised : a.press = b.press => a = b

Seated == Types /\ Queued /\ Remembered /\ Worth /\ Authorised

---------------------------------------------------------------------------
\* Operators of the model.

LEMMA Origins ==
  ASSUME Seat, Types, NEW s, Origin(s) # 0
  PROVE  s \in Surfaces /\ Origin(s) = Top[s] /\ Origin(s) \in Toplevels
<1>1. s \in alive /\ Top[s] \in alive \cap mapped /\ Origin(s) = Top[s]
  BY DEF Origin
<1>2. s \in Surfaces
  BY <1>1 DEF Types
<1> QED BY <1>1, <1>2 DEF Seat, Toplevels

LEMMA Elements ==
  ASSUME NEW S, NEW q \in Seq(S)
  PROVE  /\ Len(q) \in Nat /\ DOMAIN q = 1 .. Len(q)
         /\ \A k \in DOMAIN q : q[k] \in S
BY LenProperties, ElementOfSeq

LEMMA Typed ==
  ASSUME Types
  PROVE  /\ \A k \in DOMAIN in : in[k] \in Message /\ in[k].p \in Nat /\ in[k].s \in Places
                                /\ (in[k].t = "focus" \/ in[k].t = "press")
         /\ \A k \in DOMAIN inputs : inputs[k] \in Memory /\ inputs[k].press \in Nat
<1>1. \A k \in DOMAIN in : in[k] \in Message
  BY Elements DEF Types
<1>2. \A k \in DOMAIN inputs : inputs[k] \in Memory
  BY Elements DEF Types
<1> QED BY <1>1, <1>2 DEF Message, Memory

LEMMA Appended ==
  ASSUME NEW S, NEW q \in Seq(S), NEW e \in S
  PROVE  /\ Append(q, e) \in Seq(S) /\ Len(Append(q, e)) = Len(q) + 1
         /\ DOMAIN q = 1 .. Len(q) /\ DOMAIN Append(q, e) = 1 .. (Len(q) + 1)
         /\ \A k \in DOMAIN q : Append(q, e)[k] = q[k]
         /\ Append(q, e)[Len(q) + 1] = e
         /\ Len(q) \in Nat
OBVIOUS

LEMMA Popped ==
  ASSUME NEW S, NEW q \in Seq(S), q # <<>>
  PROVE  /\ Tail(q) \in Seq(S) /\ Head(q) \in S /\ Head(q) = q[1] /\ Len(q) \in Nat \ {0}
         /\ DOMAIN q = 1 .. Len(q) /\ DOMAIN Tail(q) = 1 .. (Len(q) - 1)
         /\ \A k \in DOMAIN Tail(q) : k + 1 \in DOMAIN q /\ Tail(q)[k] = q[k + 1]
<1>1. Len(q) \in Nat \ {0} /\ DOMAIN q = 1 .. Len(q)
  BY EmptySeq, LenProperties
<1>2. Tail(q) \in Seq(S) /\ Head(q) \in S /\ Len(Tail(q)) = Len(q) - 1
  BY HeadTailProperties
<1>3. DOMAIN Tail(q) = 1 .. (Len(q) - 1)
  BY <1>2, LenProperties
<1>4. \A k \in 1 .. (Len(q) - 1) : Tail(q)[k] = q[k + 1]
  BY <1>2, HeadTailProperties
<1> QED BY <1>1, <1>2, <1>3, <1>4

---------------------------------------------------------------------------
\* The Mac's steps.

LEMMA KeyWindowSeated ==
  ASSUME Seat, Seated, NEW w \in Toplevels \cup {0}, KeyWindow(w)
  PROVE  Seated'
<1> DEFINE m == [t |-> "focus", s |-> w, p |-> 0]
<1>1. /\ in' = Append(in, m) /\ key' = [key EXCEPT !.w = w] /\ auth' = IF w = 0 THEN None ELSE auth
      /\ UNCHANGED <<now, alive, inputs, serial, grants, out, presses, sent, raised>>
  BY DEF KeyWindow
<1>2. m \in Message /\ m.t = "focus" /\ m.s = w
  BY DEF Message, Places, Toplevels
<1> HIDE DEF m
<1>3. /\ in' \in Seq(Message) /\ DOMAIN in = 1 .. Len(in) /\ DOMAIN in' = 1 .. (Len(in) + 1) /\ Len(in) \in Nat
      /\ \A k \in DOMAIN in : in'[k] = in[k]
      /\ in'[Len(in) + 1] = m
  BY <1>1, <1>2, Appended DEF Seated, Types
<1>4. Types'
  BY <1>1, <1>3 DEF Seated, Types
<1>5. Queued'
  <2>1. \A k \in DOMAIN in' : k \in DOMAIN in \/ in'[k] = m
    BY <1>3
  <2> QED BY <1>1, <1>2, <1>3, <2>1 DEF Seated, Queued
<1>6. Authorised'
  BY <1>1 DEF Seated, Authorised, None
<1> QED BY <1>1, <1>4, <1>5, <1>6 DEF Seated, Remembered, Worth

LEMMA PressSeated ==
  ASSUME Seat, Seated, NEW s \in Surfaces, Press(s)
  PROVE  Seated'
<1> DEFINE p == Len(presses) + 1
           m == [t |-> "press", s |-> s, p |-> p]
           e == [s |-> s, time |-> now, key |-> key.w]
<1>1. /\ p <= MaxPresses /\ presses' = Append(presses, e) /\ in' = Append(in, m)
      /\ auth' = IF key.active /\ key.w = Top[s] THEN [w |-> Top[s], time |-> now, press |-> p] ELSE auth
      /\ UNCHANGED <<now, alive, inputs, serial, grants, out, key, sent, raised>>
  BY DEF Press
<1>2. e \in Touch /\ e.s = s /\ e.time = now /\ e.key = key.w
  BY DEF Touch, Seated, Types
<1>3. /\ presses' \in Seq(Touch) /\ Len(presses') = p /\ Len(presses) \in Nat
      /\ \A k \in 1 .. Len(presses) : presses'[k] = presses[k]
      /\ presses'[p] = e
  BY <1>1, <1>2, Appended DEF Seated, Types
<1>4. m \in Message /\ m.t = "press" /\ m.s = s /\ m.p = p
  BY <1>3 DEF Message, Places
<1> HIDE DEF m, e
<1>5. /\ in' \in Seq(Message) /\ DOMAIN in = 1 .. Len(in) /\ DOMAIN in' = 1 .. (Len(in) + 1) /\ Len(in) \in Nat
      /\ \A k \in DOMAIN in : in'[k] = in[k]
      /\ in'[Len(in) + 1] = m
  BY <1>1, <1>4, Appended DEF Seated, Types
<1>6. Types'
  BY <1>1, <1>3, <1>5 DEF Seated, Types
<1>7. Queued'
  <2>1. serial \in Nat /\ serial <= Len(presses)
    BY DEF Seated, Types, Queued
  <2>2. ASSUME NEW k \in DOMAIN in', in'[k].t = "press"
        PROVE  serial < in'[k].p /\ in'[k].p <= p /\ in'[k].s = presses'[in'[k].p].s
    <3>1. CASE k \in DOMAIN in
      <4>1. in'[k] = in[k] /\ in[k] \in Message /\ in[k].p \in Nat
        BY <1>5, <3>1, Typed DEF Seated
      <4>2. serial < in[k].p /\ in[k].p <= Len(presses) /\ in[k].s = presses[in[k].p].s
        BY <2>2, <3>1, <4>1 DEF Seated, Queued
      <4>3. in[k].p \in 1 .. Len(presses)
        BY <1>3, <2>1, <4>1, <4>2
      <4> QED BY <1>3, <4>1, <4>2, <4>3
    <3>2. CASE k = Len(in) + 1
      BY <1>2, <1>3, <1>4, <1>5, <2>1, <3>2
    <3> QED BY <1>5, <3>1, <3>2
  <2>4. ASSUME NEW j \in DOMAIN in', NEW k \in DOMAIN in', j < k, in'[j].t = "press", in'[k].t = "press"
        PROVE  in'[j].p < in'[k].p
    <3>1. j \in DOMAIN in /\ in'[j] = in[j] /\ in[j].p \in Nat
      <4>1. j \in Int /\ k \in Int /\ j < k /\ j \in 1 .. (Len(in) + 1) /\ k \in 1 .. (Len(in) + 1)
        BY <1>5, <2>4
      <4>2. j \in DOMAIN in
        BY <1>5, <4>1
      <4> QED BY <1>5, <4>2, Typed DEF Seated
    <3>2. CASE k \in DOMAIN in
      BY <1>5, <2>4, <3>1, <3>2 DEF Seated, Queued
    <3>3. CASE k = Len(in) + 1
      <4>1. in[j].p <= Len(presses)
        BY <2>4, <3>1 DEF Seated, Queued
      <4> QED BY <1>3, <1>4, <1>5, <3>1, <3>3, <4>1
    <3> QED BY <1>5, <3>2, <3>3
  <2>5. serial <= Len(presses')
    BY <1>3, <2>1
  <2> QED BY <1>1, <1>3, <2>5, <2>2, <2>4 DEF Queued
<1>8. serial \in Nat /\ serial <= Len(presses)
  BY DEF Seated, Types, Queued
<1>9. Remembered'
  <2>1. \A k \in DOMAIN inputs : inputs[k].press \in 1 .. Len(presses)
    <3>1. \A k \in DOMAIN inputs : inputs[k] \in Memory
      BY Elements DEF Seated, Types
    <3> QED BY <1>3, <1>8, <3>1 DEF Seated, Memory, Remembered
  <2> QED BY <1>1, <1>3, <2>1 DEF Seated, Remembered
<1>10. Worth'
  <2>1. \A t \in grants : t.press \in 1 .. Len(presses)
    BY <1>3, <1>8 DEF Seated, Worth
  <2> QED BY <1>1, <1>3, <2>1 DEF Seated, Worth
<1>11. Authorised'
  <2>1. \A a \in raised : a.press \in 1 .. Len(presses') /\ a.press # p
    BY <1>3 DEF Seated, Authorised
  <2>2. CASE key.active /\ key.w = Top[s]
    <3>1. auth'.w = Top[s] /\ auth'.time = now /\ auth'.press = p /\ p \in 1 .. p
      BY <1>1, <1>3, <2>2
    <3>2. presses'[p].s = s /\ presses'[p].key = Top[s] /\ presses'[p].time = now
      BY <1>2, <1>3, <2>2
    <3> QED BY <1>1, <1>3, <2>1, <3>1, <3>2 DEF Seated, Authorised
  <2>3. CASE ~(key.active /\ key.w = Top[s])
    <3>1. auth' = auth /\ (auth.w # 0 => auth.press \in 1 .. Len(presses) /\ auth.press \in 1 .. Len(presses'))
      BY <1>1, <1>3, <2>3 DEF Seated, Authorised
    <3> QED BY <1>1, <1>3, <2>1, <3>1 DEF Seated, Authorised
  <2> QED BY <2>2, <2>3
<1> QED BY <1>1, <1>6, <1>7, <1>9, <1>10, <1>11 DEF Seated


LEMMA RaiseSeated ==
  ASSUME Seat, Seated, Raise
  PROVE  /\ Seated'
         /\ \A a \in raised' \ raised : /\ a.press # 0 /\ Top[presses[a.press].s] = a.origin
                                         /\ presses[a.press].key = a.origin
                                         /\ now - presses[a.press].time <= Timeout
                                         /\ key.w = a.origin /\ key.active
<1> DEFINE m == Head(out)
           new == [w |-> m.w, origin |-> m.origin, press |-> auth.press, time |-> now, n |-> Cardinality(raised)]
<1>1. /\ out # <<>> /\ out' = Tail(out)
      /\ \/ auth' = None /\ raised' = raised \cup {new} /\ Consumes(m)
         \/ auth' \in {None, auth} /\ raised' = raised
      /\ UNCHANGED <<now, alive, inputs, serial, grants, in, key, presses, sent>>
  BY DEF Raise, Spent
<1>2. out' \in Seq(Request) /\ m.origin \in Toplevels
  <2>1. m \in Request /\ Tail(out) \in Seq(Request)
    BY <1>1, Popped DEF Seated, Types
  <2> QED BY <1>1, <2>1 DEF Request
<1>3. m.origin # 0
  BY <1>2 DEF Seat, Toplevels
<1>4. new.press = auth.press /\ new.origin = m.origin
  OBVIOUS
<1> HIDE DEF m, new
<1>5. ASSUME Consumes(m)
      PROVE  /\ auth.press \in 1 .. Len(presses) /\ Top[presses[auth.press].s] = m.origin
             /\ presses[auth.press].key = m.origin /\ now - presses[auth.press].time <= Timeout
             /\ key.w = m.origin /\ key.active
             /\ \A a \in raised : a.press # auth.press
  BY <1>3, <1>5 DEF Consumes, Seated, Authorised
<1>6. Authorised'
  BY <1>1, <1>4, <1>5 DEF Seated, Authorised, None
<1>7. Seated'
  BY <1>1, <1>2, <1>6 DEF Seated, Types, Queued, Remembered, Worth
<1> QED BY <1>1, <1>4, <1>5, <1>7

---------------------------------------------------------------------------
\* The compositor's steps.

LEMMA InputSeated ==
  ASSUME Seat, Seated, Input
  PROVE  Seated'
<1>1. /\ in # <<>> /\ in' = Tail(in) /\ M = Head(in)
      /\ UNCHANGED <<now, alive, out, key, auth, presses, sent, raised>>
  BY DEF Input, M
<1>2. /\ in' \in Seq(Message) /\ M \in Message /\ M = in[1] /\ 1 \in DOMAIN in
      /\ DOMAIN in = 1 .. Len(in) /\ Len(in) \in Nat \ {0} /\ DOMAIN in' = 1 .. (Len(in) - 1)
      /\ \A k \in DOMAIN in' : k + 1 \in DOMAIN in /\ in'[k] = in[k + 1] /\ 1 < k + 1
  <2>1. in \in Seq(Message)
    BY DEF Seated, Types
  <2> QED BY <1>1, <2>1, Popped
<1>3. serial \in Nat /\ Len(presses) \in Nat
  BY LenProperties DEF Seated, Types
<1>4. CASE M.t = "focus"
  <2>1. UNCHANGED <<inputs, serial, grants>>
    BY <1>4 DEF Input
  <2>2. Queued'
    <3>1. ASSUME NEW j \in DOMAIN in', NEW k \in DOMAIN in', j < k, in'[j].t = "press", in'[k].t = "press"
          PROVE  in'[j].p < in'[k].p
      <4>1. j + 1 < k + 1 /\ j + 1 \in DOMAIN in /\ k + 1 \in DOMAIN in
        BY <1>2, <3>1
      <4> QED BY <1>2, <3>1, <4>1 DEF Seated, Queued
    <3> QED BY <1>1, <1>2, <2>1, <3>1 DEF Seated, Queued
  <2> QED BY <1>1, <1>2, <2>1, <2>2 DEF Seated, Types, Remembered, Worth, Authorised
<1>5. CASE M.t = "press"
  <2>1. /\ serial' = M.p
        /\ IF Origin(M.s) = 0 THEN UNCHANGED <<inputs, grants>>
           ELSE inputs' = Recorded(M.s, M.p) /\ grants' = Pruned
    BY <1>5 DEF Input
  <2>2. /\ serial < M.p /\ M.p <= Len(presses) /\ M.s = presses[M.p].s /\ M.p \in Nat /\ M.p \in 1 .. Len(presses)
    BY <1>2, <1>3, <1>5 DEF Seated, Queued, Message
  <2>3. Queued'
    <3>1. ASSUME NEW j \in DOMAIN in', NEW k \in DOMAIN in', j < k, in'[j].t = "press", in'[k].t = "press"
          PROVE  in'[j].p < in'[k].p
      <4>1. j + 1 < k + 1 /\ j + 1 \in DOMAIN in /\ k + 1 \in DOMAIN in
        BY <1>2, <3>1
      <4> QED BY <1>2, <3>1, <4>1 DEF Seated, Queued
    <3>2. \A k \in DOMAIN in' : in'[k].t = "press" => M.p < in'[k].p
      BY <1>2, <1>5 DEF Seated, Queued
    <3> QED BY <1>1, <1>2, <2>1, <2>2, <3>1, <3>2 DEF Seated, Queued
  <2>4. grants' \subseteq grants /\ serial' \in Nat /\ serial < serial'
    BY <2>1, <2>2 DEF Pruned
  <2> DEFINE r == IF Len(inputs) < Ring THEN inputs ELSE Tail(inputs)
             e == [s |-> M.s, origin |-> Origin(M.s), press |-> M.p, time |-> now, claimed |-> FALSE]
  <2>5. /\ inputs' = inputs \/ inputs' = Append(r, e)
        /\ inputs' # inputs => Origin(M.s) # 0
    BY <2>1 DEF Recorded
  <2>6. /\ r \in Seq(Memory)
        /\ \A k \in DOMAIN r : \E i \in DOMAIN inputs : r[k] = inputs[i]
        /\ \A j, k \in DOMAIN r : r[j].press = r[k].press => j = k
    <3>1. inputs \in Seq(Memory) /\ Ring \in Nat \ {0} /\ Len(inputs) \in Nat
      BY LenProperties DEF Seated, Types, Seat
    <3>2. CASE Len(inputs) < Ring
      BY <3>1, <3>2 DEF Seated, Remembered
    <3>3. CASE ~(Len(inputs) < Ring)
      <4>1. inputs # <<>>
        BY <3>1, <3>3
      <4>2. /\ r \in Seq(Memory) /\ DOMAIN r = 1 .. (Len(inputs) - 1)
            /\ \A k \in DOMAIN r : k + 1 \in DOMAIN inputs /\ r[k] = inputs[k + 1]
        BY <3>1, <3>3, <4>1, Popped
      <4> HIDE DEF r
      <4>3. ASSUME NEW j \in DOMAIN r, NEW k \in DOMAIN r, r[j].press = r[k].press
            PROVE  j = k
        <5>1. j + 1 = k + 1
          BY <4>2, <4>3 DEF Seated, Remembered
        <5> QED BY <3>1, <4>2, <5>1
      <4> QED BY <4>2, <4>3
    <3> QED BY <3>2, <3>3
  <2>7. Origin(M.s) # 0 => e \in Memory /\ e.s = M.s /\ e.origin = Top[M.s] /\ e.press = M.p /\ e.claimed = FALSE
    <3>1. ASSUME Origin(M.s) # 0
          PROVE  M.s \in Surfaces /\ Origin(M.s) = Top[M.s] /\ Origin(M.s) \in Surfaces
      BY <3>1, Origins DEF Seated, Toplevels
    <3> QED BY <1>3, <2>2, <3>1 DEF Memory, Places, Seated, Types
  <2> HIDE DEF r, e
  <2>8. inputs' = inputs \/
        (/\ inputs' \in Seq(Memory) /\ Origin(M.s) # 0 /\ DOMAIN inputs' = 1 .. (Len(r) + 1) /\ DOMAIN r = 1 .. Len(r)
         /\ Len(r) \in Nat /\ inputs'[Len(r) + 1] = e
         /\ \A k \in DOMAIN r : inputs'[k] = r[k])
    BY <2>5, <2>6, <2>7, Appended
  <2>9. ASSUME NEW k \in DOMAIN inputs'
        PROVE  (\E i \in DOMAIN inputs : inputs'[k] = inputs[i]) \/ inputs'[k] = e
    BY <2>6, <2>8
  <2>10. \A i \in DOMAIN inputs : inputs[i].press \in Nat /\ 1 <= inputs[i].press /\ inputs[i].press <= serial
    BY Typed DEF Seated, Remembered
  <2>11. Remembered'
    <3>1. ASSUME NEW k \in DOMAIN inputs'
          PROVE  /\ 1 <= inputs'[k].press /\ inputs'[k].press <= serial'
                 /\ inputs'[k].s # 0 => inputs'[k].s = presses[inputs'[k].press].s /\ inputs'[k].origin = Top[inputs'[k].s]
      <4>1. CASE \E i \in DOMAIN inputs : inputs'[k] = inputs[i]
        <5>1. PICK i \in DOMAIN inputs : inputs'[k] = inputs[i]
          BY <4>1
        <5>2. inputs[i].press <= serial'
          BY <1>3, <2>4, <2>10
        <5> QED BY <2>10, <5>1, <5>2 DEF Seated, Remembered
      <4>2. CASE inputs'[k] = e /\ Origin(M.s) # 0
        BY <1>3, <2>1, <2>2, <2>7, <4>2
      <4> QED BY <2>8, <2>9, <4>1, <4>2
    <3>2. ASSUME NEW j \in DOMAIN inputs', NEW k \in DOMAIN inputs', inputs'[j].press = inputs'[k].press
          PROVE  j = k
      <4>1. CASE inputs' = inputs
        BY <3>2, <4>1 DEF Seated, Remembered
      <4>2. CASE inputs' # inputs
        <5>1. \A i \in DOMAIN r : r[i].press <= serial /\ r[i].press \in Nat
          BY <2>6, <2>10
        <5>2. \A i \in DOMAIN r : r[i].press # e.press
          BY <1>3, <2>2, <2>7, <2>8, <4>2, <5>1
        <5> QED BY <2>6, <2>8, <3>2, <4>2, <5>2
      <4> QED BY <4>1, <4>2
    <3> QED BY <1>1, <3>1, <3>2 DEF Remembered
  <2>12. Worth'
    <3>1. \A t \in grants' : t.press \in 1 .. serial' /\ t.press <= serial
      BY <1>3, <2>4 DEF Seated, Worth
    <3>2. ASSUME NEW k \in DOMAIN inputs', ~inputs'[k].claimed
          PROVE  sent[inputs'[k].press] = 0 /\ \A t \in grants' : t.press # inputs'[k].press
      <4>1. CASE \E i \in DOMAIN inputs : inputs'[k] = inputs[i]
        BY <2>4, <3>2, <4>1 DEF Seated, Worth
      <4>2. CASE inputs'[k] = e /\ Origin(M.s) # 0
        <5>1. M.p \in 1 .. MaxPresses
          <6>1. Len(presses) <= MaxPresses /\ MaxPresses \in Nat
            BY DEF Seated, Types, Seat
          <6> QED BY <1>3, <2>2, <6>1
        <5>2. sent[M.p] = 0
          BY <2>2, <5>1 DEF Seated, Worth
        <5>3. \A t \in grants' : t.press # M.p
          BY <1>3, <2>2, <3>1
        <5> QED BY <2>7, <4>2, <5>2, <5>3
      <4> QED BY <2>8, <2>9, <4>1, <4>2
    <3>3. \A p \in 1 .. MaxPresses : p > serial' => p > serial
      BY <1>3, <2>4
    <3> QED BY <1>1, <2>4, <3>1, <3>2, <3>3 DEF Seated, Worth
  <2>13. Types'
    BY <1>1, <1>2, <2>4, <2>8 DEF Seated, Types
  <2> QED BY <1>1, <2>1, <2>3, <2>11, <2>12, <2>13 DEF Seated, Authorised
<1> QED BY <1>2, <1>4, <1>5 DEF Message

\* token_commit claims the one remembered press that allows it.
LEMMA CommitSeated ==
  ASSUME Seat, Seated, NEW c \in Clients, NEW p \in 1 .. MaxPresses, NEW s \in Places, Commit(c, p, s)
  PROVE  Seated'
<1>1. PICK k \in DOMAIN inputs :
        /\ Allows(inputs[k], c, p, s) /\ inputs' = [inputs EXCEPT ![k].claimed = TRUE]
        /\ grants' = Pruned \cup {[id |-> minted + 1, s |-> IF s = 0 THEN inputs[k].s ELSE s,
                                   origin |-> inputs[k].origin, time |-> inputs[k].time, press |-> p, by |-> c]}
  BY DEF Commit, Claim
<1> DEFINE t == [id |-> minted + 1, s |-> IF s = 0 THEN inputs[k].s ELSE s,
                 origin |-> inputs[k].origin, time |-> inputs[k].time, press |-> p, by |-> c]
<1>2. UNCHANGED <<now, alive, serial, out, in, key, auth, presses, sent, raised>>
  BY DEF Commit
<1>3. /\ inputs[k].s # 0 /\ ~inputs[k].claimed /\ inputs[k].press = p /\ Client[inputs[k].s] = c
  BY <1>1 DEF Allows
<1>4. inputs[k] \in Memory /\ inputs[k].time \in Nat
  BY Typed DEF Seated, Memory
<1>5. /\ t.press = p /\ t.by = c /\ t.origin = inputs[k].origin /\ t.time = inputs[k].time
      /\ grants' = Pruned \cup {t}
  BY <1>1
<1> HIDE DEF t
<1>6. inputs \in Seq(Memory)
  BY DEF Seated, Types
<1>7. /\ DOMAIN inputs' = DOMAIN inputs
      /\ inputs'[k] = [inputs[k] EXCEPT !.claimed = TRUE]
      /\ \A j \in DOMAIN inputs : j # k => inputs'[j] = inputs[j]
  BY <1>1, <1>6, Elements
<1>8. /\ inputs'[k].claimed /\ inputs'[k].press = p /\ inputs'[k].s = inputs[k].s
      /\ inputs'[k].origin = inputs[k].origin /\ inputs'[k] \in Memory
  BY <1>3, <1>4, <1>7 DEF Memory
<1>9. inputs' \in Seq(Memory)
  <2>1. DOMAIN inputs' = 1 .. Len(inputs) /\ Len(inputs) \in Nat
    BY <1>6, <1>7, Elements
  <2>2. ASSUME NEW j \in 1 .. Len(inputs)
        PROVE  inputs'[j] \in Memory
    <3>1. j \in DOMAIN inputs
      BY <1>6, Elements
    <3>2. CASE j = k
      BY <1>8, <3>2
    <3>3. CASE j # k
      <4>1. inputs'[j] = inputs[j]
        BY <1>7, <3>1, <3>3
      <4>2. inputs[j] \in Memory
        BY <3>1, Typed DEF Seated
      <4> QED BY <4>1, <4>2
    <3> QED BY <3>2, <3>3
  <2>3. inputs' \in [1 .. Len(inputs) -> Memory]
    BY <1>1, <2>1, <2>2
  <2> QED BY <2>1, <2>3, SeqDef
<1>10. /\ sent[p] = 0 /\ (\A u \in grants : u.press # p) /\ 1 <= p /\ p <= serial /\ p \in 1 .. serial
       /\ inputs[k].s = presses[p].s /\ inputs[k].origin = Top[inputs[k].s]
       /\ \A j \in DOMAIN inputs : j # k => inputs[j].press # p
  <2>1. serial \in Nat /\ p \in Nat
    BY DEF Seated, Types
  <2> QED BY <1>3, <2>1 DEF Seated, Remembered, Worth
<1>11. Pruned \subseteq grants
  BY DEF Pruned
<1>12. Types'
  BY <1>2, <1>4, <1>5, <1>9, <1>11 DEF Seated, Types
<1>13. Remembered'
  <2>1. ASSUME NEW j \in DOMAIN inputs'
        PROVE  /\ inputs'[j].press = inputs[j].press /\ inputs'[j].s = inputs[j].s
               /\ inputs'[j].origin = inputs[j].origin
    BY <1>3, <1>7, <1>8
  <2> QED BY <1>2, <1>7, <2>1 DEF Seated, Remembered
<1>14. Worth'
  <2>1. t.by = Client[presses[t.press].s] /\ t.origin = Top[presses[t.press].s]
    BY <1>3, <1>5, <1>10
  <2>2. ASSUME NEW u \in grants'
        PROVE  /\ u.press \in 1 .. serial /\ sent[u.press] = 0
               /\ u.by = Client[presses[u.press].s] /\ u.origin = Top[presses[u.press].s]
    BY <1>5, <1>10, <1>11, <2>1 DEF Seated, Worth
  <2>3. ASSUME NEW u \in grants', NEW v \in grants', u.press = v.press
        PROVE  u = v
    BY <1>5, <1>10, <1>11, <2>3 DEF Seated, Worth
  <2>4. ASSUME NEW j \in DOMAIN inputs', ~inputs'[j].claimed
        PROVE  sent[inputs'[j].press] = 0 /\ \A u \in grants' : u.press # inputs'[j].press
    <3>1. j # k /\ inputs'[j] = inputs[j]
      BY <1>7, <1>8, <2>4
    <3> QED BY <1>5, <1>7, <1>10, <1>11, <2>4, <3>1 DEF Seated, Worth
  <2> QED BY <1>2, <2>2, <2>3, <2>4 DEF Seated, Worth
<1> QED BY <1>2, <1>12, <1>13, <1>14 DEF Seated, Queued, Authorised

\* activate_request uses a token up; only one of the focused window asks the Mac.
LEMMA ActivateSeated ==
  ASSUME Seat, Seated, NEW t \in grants, NEW w \in Toplevels, Activate(t, w)
  PROVE  /\ Seated'
         /\ Len(out') > Len(out) => out'[Len(out')].origin = Focused
<1> DEFINE m == [w |-> w, origin |-> t.origin, age |-> now - t.time]
<1>1. /\ grants' = Pruned \ {t}
      /\ UNCHANGED <<now, alive, inputs, serial, in, key, auth, presses, raised>>
      /\ \/ Valid(t, w) /\ out' = Append(out, m) /\ sent' = [sent EXCEPT ![t.press] = @ + 1]
         \/ UNCHANGED <<out, sent>>
  BY DEF Activate
<1>2. grants' \subseteq grants /\ t \notin grants'
  BY <1>1 DEF Pruned
<1>3. /\ t.press \in 1 .. serial /\ sent[t.press] = 0 /\ t.press \in 1 .. MaxPresses
  <2>1. serial \in Nat /\ serial <= Len(presses) /\ Len(presses) \in Nat /\ Len(presses) <= MaxPresses /\ MaxPresses \in Nat
    BY LenProperties DEF Seated, Types, Queued, Seat
  <2>2. t.press \in 1 .. serial /\ sent[t.press] = 0
    BY DEF Seated, Worth
  <2> QED BY <2>1, <2>2
<1>4. CASE UNCHANGED <<out, sent>>
  <2>1. Types' /\ Worth'
    BY <1>1, <1>2, <1>4 DEF Seated, Types, Worth
  <2>2. Len(out) \in Nat /\ Len(out') = Len(out)
    BY <1>4, LenProperties DEF Seated, Types
  <2> QED BY <1>1, <1>4, <2>1, <2>2 DEF Seated, Queued, Remembered, Authorised
<1>5. CASE Valid(t, w) /\ out' = Append(out, m) /\ sent' = [sent EXCEPT ![t.press] = @ + 1]
  <2>1. t.origin \in Toplevels /\ t.origin = Focused
    <3>1. t.origin = Focused /\ Origin(t.origin) = t.origin
      BY <1>5 DEF Valid
    <3>2. t.origin \in Surfaces
      <4>1. presses[t.press] \in Touch
        <5>1. t.press \in DOMAIN presses
          <6>1. serial \in Nat /\ serial <= Len(presses) /\ Len(presses) \in Nat /\ DOMAIN presses = 1 .. Len(presses)
            BY Elements DEF Seated, Types, Queued
          <6> QED BY <1>3, <6>1
        <5> QED BY <5>1, Elements DEF Seated, Types
      <4>2. t.origin = Top[presses[t.press].s]
        BY DEF Seated, Worth
      <4> QED BY <4>1, <4>2 DEF Touch, Seat
    <3>3. Origin(t.origin) # 0
      BY <3>1, <3>2 DEF Seat
    <3> QED BY <3>1, <3>3, Origins DEF Seated
  <2>2. m \in Request
    <3>1. now \in Nat /\ t.time \in Nat
      BY DEF Seated, Types
    <3> QED BY <2>1, <3>1 DEF Request
  <2>3. m.origin = Focused
    BY <2>1
  <2> HIDE DEF m
  <2>4. out' \in Seq(Request) /\ out'[Len(out')] = m
    <3>1. out \in Seq(Request)
      BY DEF Seated, Types
    <3> QED BY <1>5, <2>2, <3>1, Appended
  <2>5. /\ sent' \in [1 .. MaxPresses -> Nat] /\ sent'[t.press] = 1
        /\ \A p \in 1 .. MaxPresses : p # t.press => sent'[p] = sent[p]
    BY <1>3, <1>5 DEF Seated, Types
  <2>6. \A u \in grants' : u.press # t.press
    BY <1>2 DEF Seated, Worth
  <2>7. \A k \in DOMAIN inputs : ~inputs[k].claimed => inputs[k].press # t.press
    BY DEF Seated, Worth
  <2>8. Worth'
    <3>1. serial \in Nat /\ serial <= MaxPresses
      <4>1. serial \in Nat /\ serial <= Len(presses) /\ Len(presses) \in Nat /\ Len(presses) <= MaxPresses /\ MaxPresses \in Nat
        BY LenProperties DEF Seated, Types, Queued, Seat
      <4> QED BY <4>1
    <3>2. ASSUME NEW u \in grants'
          PROVE  /\ u.press \in 1 .. serial /\ sent'[u.press] = 0
                 /\ u.by = Client[presses[u.press].s] /\ u.origin = Top[presses[u.press].s]
      <4>1. u.press \in 1 .. serial /\ sent[u.press] = 0
        BY <1>2 DEF Seated, Worth
      <4>2. u.press \in 1 .. MaxPresses
        BY <3>1, <4>1 DEF Seat
      <4> QED BY <1>2, <2>5, <2>6, <4>1, <4>2 DEF Seated, Worth
    <3>3. ASSUME NEW k \in DOMAIN inputs, ~inputs[k].claimed
          PROVE  sent'[inputs[k].press] = 0 /\ \A u \in grants' : u.press # inputs[k].press
      <4>1. inputs[k].press \in 1 .. MaxPresses
        <5>1. inputs[k].press \in Nat /\ 1 <= inputs[k].press /\ inputs[k].press <= serial
          BY Typed DEF Seated, Remembered
        <5> QED BY <3>1, <5>1 DEF Seat
      <4> QED BY <1>2, <2>5, <2>7, <3>3, <4>1 DEF Seated, Worth
    <3>4. ASSUME NEW p \in 1 .. MaxPresses
          PROVE  sent'[p] <= 1 /\ (p > serial => sent'[p] = 0)
      <4>1. CASE p = t.press
        BY <1>3, <2>5, <3>1, <4>1
      <4>2. CASE p # t.press
        BY <2>5, <4>2 DEF Seated, Worth
      <4> QED BY <4>1, <4>2
    <3> QED BY <1>1, <1>2, <3>2, <3>3, <3>4 DEF Seated, Worth
  <2>9. Types'
    BY <1>1, <1>2, <2>4, <2>5 DEF Seated, Types
  <2> QED BY <1>1, <2>3, <2>4, <2>8, <2>9 DEF Seated, Queued, Remembered, Authorised
<1> QED BY <1>1, <1>4, <1>5

\* np_activation_revoke_surface: what is left was there before.
LEMMA RevokedSeated ==
  ASSUME Seat, Seated, NEW s \in Surfaces, Revoked(s), alive' \subseteq alive,
         UNCHANGED <<now, serial, out, in, key, auth, presses, sent, raised>>
  PROVE  Seated'
<1> DEFINE gone(k) == s \in {inputs[k].s, inputs[k].origin}
<1>1. /\ inputs' = [k \in DOMAIN inputs |-> IF gone(k) THEN [inputs[k] EXCEPT !.s = 0, !.origin = 0] ELSE inputs[k]]
      /\ grants' \subseteq grants /\ alive' \subseteq alive
      /\ UNCHANGED <<now, serial, out, in, key, auth, presses, sent, raised>>
  BY DEF Revoked
<1>2. \A k \in DOMAIN inputs : inputs[k] \in Memory
  BY Typed DEF Seated
<1>3. DOMAIN inputs' = DOMAIN inputs
  BY <1>1
<1>4. ASSUME NEW k \in DOMAIN inputs
      PROVE  /\ inputs'[k] \in Memory /\ inputs'[k].press = inputs[k].press /\ inputs'[k].claimed = inputs[k].claimed
             /\ inputs'[k].s # 0 => inputs'[k] = inputs[k]
  <2>1. CASE gone(k)
    <3>1. inputs'[k] = [inputs[k] EXCEPT !.s = 0, !.origin = 0]
      BY <1>1, <2>1
    <3> QED BY <1>2, <3>1 DEF Memory, Places
  <2>2. CASE ~gone(k)
    <3>1. inputs'[k] = inputs[k]
      BY <1>1, <2>2
    <3> QED BY <1>2, <3>1
  <2> QED BY <2>1, <2>2
<1>5. inputs' \in Seq(Memory)
  <2>1. DOMAIN inputs = 1 .. Len(inputs) /\ Len(inputs) \in Nat
    BY Elements DEF Seated, Types
  <2>2. inputs' \in [1 .. Len(inputs) -> Memory]
    BY <1>1, <1>4, <2>1
  <2> QED BY <2>1, <2>2, SeqDef
<1>6. Types'
  BY <1>1, <1>5 DEF Seated, Types
<1> HIDE DEF gone
<1>7. Remembered'
  <2>1. ASSUME NEW k \in DOMAIN inputs'
        PROVE  /\ 1 <= inputs'[k].press /\ inputs'[k].press <= serial
               /\ inputs'[k].s # 0 => inputs'[k].s = presses[inputs'[k].press].s /\ inputs'[k].origin = Top[inputs'[k].s]
    BY <1>3, <1>4 DEF Seated, Remembered
  <2>2. ASSUME NEW j \in DOMAIN inputs', NEW k \in DOMAIN inputs', inputs'[j].press = inputs'[k].press
        PROVE  j = k
    BY <1>3, <1>4, <2>2 DEF Seated, Remembered
  <2>3. serial' = serial /\ presses' = presses
    BY <1>1
  <2> QED BY <2>1, <2>2, <2>3 DEF Remembered
<1>8. Worth'
  <2>1. ASSUME NEW k \in DOMAIN inputs', ~inputs'[k].claimed
        PROVE  sent[inputs'[k].press] = 0 /\ \A t \in grants' : t.press # inputs'[k].press
    <3>1. k \in DOMAIN inputs /\ inputs'[k].press = inputs[k].press /\ ~inputs[k].claimed
      BY <1>3, <1>4, <2>1
    <3>2. sent[inputs[k].press] = 0 /\ \A t \in grants : t.press # inputs[k].press
      BY <3>1 DEF Seated, Worth
    <3> QED BY <1>1, <3>1, <3>2
  <2>2. serial' = serial /\ presses' = presses /\ sent' = sent /\ grants' \subseteq grants
    BY <1>1
  <2>3. /\ \A t \in grants' : /\ t.press \in 1 .. serial /\ sent[t.press] = 0
                             /\ t.by = Client[presses[t.press].s] /\ t.origin = Top[presses[t.press].s]
        /\ \A t, u \in grants' : t.press = u.press => t = u
        /\ \A p \in 1 .. MaxPresses : sent[p] <= 1 /\ (p > serial => sent[p] = 0)
    BY <2>2 DEF Seated, Worth
  <2> QED BY <2>1, <2>2, <2>3 DEF Worth
<1> QED BY <1>1, <1>6, <1>7, <1>8 DEF Seated, Queued, Authorised

---------------------------------------------------------------------------
\* All steps.

LEMMA InitSeated ==
  ASSUME Seat, Init
  PROVE  Seated
<1>1. Types
  <2>1. /\ in = <<>> /\ out = <<>> /\ inputs = <<>> /\ presses = <<>> /\ grants = {} /\ alive = Surfaces
        /\ now = 0 /\ serial = 0 /\ key = [w |-> 0, active |-> TRUE] /\ sent = [p \in 1 .. MaxPresses |-> 0]
    BY DEF Init
  <2>2. /\ <<>> \in Seq(Message) /\ <<>> \in Seq(Request) /\ <<>> \in Seq(Memory) /\ <<>> \in Seq(Touch)
        /\ Len(<<>>) = 0
    OBVIOUS
  <2> QED BY <2>1, <2>2 DEF Types, Seat
<1>2. /\ DOMAIN in = {} /\ DOMAIN inputs = {} /\ serial = 0 /\ Len(presses) = 0
  BY DEF Init
<1> QED BY <1>1, <1>2 DEF Init, Seat, Seated, Queued, Remembered, Worth, Authorised, None

LEMMA StepSeated ==
  ASSUME Seat, Seated, [Next]_vars
  PROVE  Seated'
<1>1. ASSUME NEW c \in Clients, NEW p \in 1 .. MaxPresses, NEW s \in Surfaces \cup {0}, Commit(c, p, s)
      PROVE  Seated'
  BY <1>1, CommitSeated DEF Places
<1>2. ASSUME \/ Tick \/ AppActive \/ UNCHANGED vars
             \/ \E w \in Toplevels : Remap(w) \/ Follow(w)
             \/ \E s \in Surfaces : Grab(s)
      PROVE  Seated'
  <2>1. /\ now' \in {now, now + 1} /\ key' \in {key, [key EXCEPT !.active = ~@]}
        /\ UNCHANGED <<alive, inputs, serial, grants, out, in, auth, presses, sent, raised>>
    BY <1>2 DEF Tick, AppActive, Remap, Follow, Grab, vars
  <2>2. now' \in Nat
    BY <2>1 DEF Seated, Types
  <2>3. key' \in [w : Toplevels \cup {0}, active : BOOLEAN]
    <3>1. key \in [w : Toplevels \cup {0}, active : BOOLEAN]
      BY DEF Seated, Types
    <3>2. (~key.active) \in BOOLEAN
      OBVIOUS
    <3>3. CASE key' = key
      BY <3>1, <3>3
    <3>4. CASE key' = [key EXCEPT !.active = ~@]
      BY <3>1, <3>2, <3>4
    <3> QED BY <2>1, <3>3, <3>4
  <2>4. Types'
    BY <2>1, <2>2, <2>3 DEF Seated, Types
  <2> QED BY <2>1, <2>4 DEF Seated, Queued, Remembered, Worth, Authorised
<1>3. ASSUME NEW s \in Surfaces, Destroy(s) \/ Unmap(s)
      PROVE  Seated'
  <2>1. Revoked(s) /\ alive' \subseteq alive /\ UNCHANGED <<now, serial, out, in, key, auth, presses, sent, raised>>
    BY <1>3 DEF Destroy, Unmap
  <2> QED BY <2>1, RevokedSeated
<1>4. Toplevels \subseteq Surfaces
  BY DEF Toplevels
<1> QED BY <1>1, <1>2, <1>3, <1>4, KeyWindowSeated, PressSeated, InputSeated, ActivateSeated, RaiseSeated DEF Next

\* A press is worth one activation, of the client it was made in (TokensOnce).
THEOREM PressesAreSpentOnce ==
  ASSUME Seat
  PROVE  Spec => []TokensOnce
<1>1. Init => Seated
  BY InitSeated
<1>2. Seated /\ [Next]_vars => Seated'
  BY StepSeated
<1>3. Seated => TokensOnce
  BY DEF Seated, Types, Worth, Authorised, TokensOnce, OncePerPress, TokenOwner
<1> QED BY <1>1, <1>2, <1>3, PTL DEF Spec

\* A window is raised only for a recent press of the user in that window, while it
\* is the key window of the active app (UserActed).
THEOREM RaisesAreTheUsers ==
  ASSUME Seat
  PROVE  Spec => UserActed
<1>1. Init => Seated
  BY InitSeated
<1>2. Seated /\ [Next]_vars => Seated'
  BY StepSeated
<1>3. ASSUME Seated, [Next]_vars
      PROVE  [UserActs]_vars
  <2>1. CASE Raise
    BY <1>3, <2>1, RaiseSeated DEF UserActs
  <2>2. CASE ~Raise
    <3>1. raised' = raised
      BY <1>3, <2>2 DEF Next, Tick, AppActive, KeyWindow, Press, Input, Commit, Activate, Destroy, Unmap, Remap, Follow, Grab, vars
    <3> QED BY <3>1 DEF UserActs
  <2> QED BY <2>1, <2>2
<1>4. Seated /\ [Next]_vars => [UserActs]_vars
  BY <1>3
<1> QED BY <1>1, <1>2, <1>4, PTL DEF Spec, UserActed

\* A request goes to the Mac only from the window that has focus (OnlyFocused).
THEOREM RequestsComeFromTheFocus ==
  ASSUME Seat
  PROVE  Spec => OnlyFocused
<1>1. Init => Seated
  BY InitSeated
<1>2. Seated /\ [Next]_vars => Seated'
  BY StepSeated
<1>3. ASSUME Seated, [Next]_vars
      PROVE  FocusAsks
  <2>1. ASSUME NEW t \in grants, NEW w \in Toplevels, Activate(t, w)
        PROVE  FocusAsks
    BY <1>3, <2>1, ActivateSeated DEF FocusAsks
  <2>2. ASSUME Raise
        PROVE  FocusAsks
    <3>1. out \in Seq(Request) /\ out # <<>> /\ out' = Tail(out)
      BY <1>3, <2>2 DEF Raise, Seated, Types
    <3>2. Len(out) \in Nat /\ Len(out') = Len(out) - 1
      BY <3>1, HeadTailProperties
    <3> QED BY <3>2 DEF FocusAsks
  <2>3. CASE ~Raise /\ ~\E t \in grants, w \in Toplevels : Activate(t, w)
    <3>1. out' = out
      BY <1>3, <2>3 DEF Next, Tick, AppActive, KeyWindow, Press, Input, Commit, Destroy, Unmap, Remap, Follow, Grab, vars
    <3>2. Len(out) \in Nat
      BY <1>3, LenProperties DEF Seated, Types
    <3> QED BY <3>1, <3>2 DEF FocusAsks
  <2> QED BY <2>1, <2>2, <2>3
<1>4. Seated /\ [Next]_vars => [FocusAsks]_vars
  BY <1>3
<1> QED BY <1>1, <1>2, <1>4, PTL DEF Spec, OnlyFocused
=============================================================================
