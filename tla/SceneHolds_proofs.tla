--------------------------- MODULE SceneHolds_proofs ---------------------------
(***************************************************************************)
(* Buffers go back exactly once and after their last reader, for any         *)
(* surfaces, buffers, scenes and sessions.                                  *)
(*                                                                         *)
(* The proof follows the counters of one buffer: every handler changes them  *)
(* by as many as it changes the surfaces, holds and blocked commits they     *)
(* count (Counted).  A buffer with a reader is therefore never taken for     *)
(* unread, and a release point that a scene sampled is signalled only when   *)
(* its hold is gone (Held, Lit).                                            *)
(***************************************************************************)
EXTENDS SceneHolds, FiniteSetTheorems, SequenceTheorems, TLAPS

\* What a compositor has: some surfaces, numbered, each in the tree of a window.
Deployment ==
  /\ IsFiniteSet(Surfaces) /\ Surfaces \subseteq Int
  /\ RootOf \in [Surfaces -> Surfaces]
  /\ None \notin Buffers \cup Surfaces /\ MaxId \in Nat

\* Clients commit a buffer again after it came back.
Courteous == Repeats = {}

---------------------------------------------------------------------------
\* The record of a buffer.

Blockable == {u \in Update : u.kind = "attach" <=> u.buffer \in Buffers}
SurfaceRecord == [alive : BOOLEAN, current : Buffers \cup {None}, point : Ids \cup {0},
                  blocked : Seq(Blockable), barrier : Ids \cup {0}, callbacks : SUBSET Ids,
                  unbound : SUBSET (Ids \cup {0})]
BufferRecord  == [currents : Nat, reads : Nat, refs : Nat, pending : BOOLEAN, queued : SUBSET Ids,
                  resource : BOOLEAN, given : BOOLEAN, owed : SUBSET Ids]
HoldRecord    == [id : Ids, sources : SUBSET Buffers]
WindowRecord  == [scene : Ids \cup {0}, holds : SUBSET HoldRecord]
SceneRecord   == [at : {"none", "lane", "queued", "reading", "orphaned"},
                  layers : SUBSET (Buffers \X (Ids \cup {0})), latches : SUBSET Ids,
                  root : Roots \cup {None}]

\* Some users of a buffer have gone, and points in P were queued on the way: owed
\* points go only with the last reader, and only those that were queued.
Yields(g, h, P) ==
  /\ h \in BufferRecord /\ h.resource = g.resource
  /\ h.owed \subseteq g.owed /\ g.owed \ h.owed \subseteq g.queued \cup P
  /\ h.queued \subseteq g.queued \cup P /\ h.queued \subseteq h.owed
  /\ h.currents > 0 \/ h.reads > 0 => h.owed = g.owed
  /\ h.given => g.given \/ (h.currents = 0 /\ h.reads = 0)
  /\ g.given => h.given

LEMMA YieldsItself ==
  ASSUME NEW g \in BufferRecord, g.queued \subseteq g.owed
  PROVE  Yields(g, g, {})
BY DEF Yields

LEMMA GivesBack ==
  ASSUME NEW g \in BufferRecord, g.queued \subseteq g.owed
  PROVE  /\ Yields(g, GiveBack(g), {})
         /\ GiveBack(g).currents = g.currents /\ GiveBack(g).reads = g.reads
         /\ GiveBack(g).refs = g.refs
         /\ ~Unread(g) => GiveBack(g) = g
<1>1. CASE ~Unread(g)
  <2>1. GiveBack(g) = g
    BY <1>1 DEF GiveBack
  <2> QED BY <1>1, <2>1, YieldsItself
<1>2. CASE Unread(g)
  <2> DEFINE h == GiveBack(g)
  <2>1. h \in BufferRecord
    BY <1>2 DEF GiveBack, BufferRecord
  <2>2. h.currents = g.currents /\ h.reads = g.reads /\ h.refs = g.refs /\ h.resource = g.resource
    BY <1>2 DEF GiveBack, BufferRecord
  <2>3. h.owed = g.owed \ g.queued /\ h.queued = {} /\ (g.given => h.given)
    BY <1>2 DEF GiveBack, BufferRecord
  <2>4. h.currents = 0 /\ h.reads = 0
    BY <1>2, <2>2 DEF Unread
  <2> HIDE DEF h
  <2>5. Yields(g, h, {})
    BY <2>1, <2>2, <2>3, <2>4 DEF Yields
  <2> QED BY <1>2, <2>2, <2>5 DEF h
<1> QED BY <1>1, <1>2

LEMMA Unreferences ==
  ASSUME NEW g \in BufferRecord, g.queued \subseteq g.owed, NEW n \in Nat, n <= g.refs,
         g.refs = n => g.currents = 0 /\ g.reads = 0
  PROVE  /\ Yields(g, Unrefs(g, n), {})
         /\ Unrefs(g, n).currents = g.currents /\ Unrefs(g, n).reads = g.reads
         /\ Unrefs(g, n).refs = g.refs - n /\ Unrefs(g, n).given = g.given
         /\ g.refs > n => Unrefs(g, n).owed = g.owed /\ Unrefs(g, n).queued = g.queued
<1> DEFINE h == Unrefs(g, n)
<1>0. g.refs - n \in Nat
  BY DEF BufferRecord
<1>1. /\ h.currents = g.currents /\ h.reads = g.reads /\ h.resource = g.resource
  BY DEF Unrefs, BufferRecord
<1>2. h.given = g.given
  BY DEF Unrefs, BufferRecord
<1>3. h.refs = g.refs - n
  BY DEF Unrefs, BufferRecord
<1>4. CASE g.refs > n
  <2>1. h.owed = g.owed /\ h.queued = g.queued
    BY <1>4 DEF Unrefs, BufferRecord
  <2>2. h \in BufferRecord
    BY <1>0, <1>4 DEF Unrefs, BufferRecord
  <2> HIDE DEF h
  <2>3. Yields(g, h, {})
    BY <1>1, <1>2, <2>1, <2>2 DEF Yields
  <2> QED BY <1>1, <1>2, <1>3, <2>1, <2>3 DEF h
<1>5. CASE g.refs = n
  <2>1. h.owed = g.owed \ g.queued /\ h.queued = {} /\ h.currents = 0 /\ h.reads = 0
    BY <1>1, <1>5 DEF Unrefs, BufferRecord
  <2>2. ~(g.refs > n) /\ ~(h.reads > 0) /\ ~(h.currents > 0)
    BY <2>1, <1>5
  <2>3. h \in BufferRecord
    <3>1. h = [g EXCEPT !.refs = 0, !.owed = g.owed \ g.queued, !.queued = {}]
      BY <2>2 DEF Unrefs
    <3>2. 0 \in Nat /\ g.owed \ g.queued \in SUBSET Ids /\ {} \in SUBSET Ids
      BY DEF BufferRecord
    <3> HIDE DEF h
    <3> QED BY <3>1, <3>2 DEF BufferRecord
  <2> HIDE DEF h
  <2>4. Yields(g, h, {})
    BY <1>1, <1>2, <2>1, <2>2, <2>3 DEF Yields
  <2> QED BY <1>1, <1>2, <1>3, <2>2, <2>4 DEF h
<1>6. g.refs > n \/ g.refs = n
  BY DEF BufferRecord
<1> QED BY <1>4, <1>5, <1>6

\* np_gpu_buffer_queue_release and np_gpu_buffer_release_current, of a surface that
\* shows the buffer.
LEMMA ReleasesShown ==
  ASSUME NEW g \in BufferRecord, g.queued \subseteq g.owed, g.currents >= 1,
         g.refs >= g.currents + g.reads, NEW p \in Ids \cup {0}, p # 0 => p \in g.owed
  PROVE  LET h == ReleaseCurrent(QueueRelease(g, p)) IN
         /\ Yields(g, h, {p} \ {0})
         /\ h.currents = g.currents - 1 /\ h.reads = g.reads /\ h.refs = g.refs - 1
<1> DEFINE a == QueueRelease(g, p)
           b == [a EXCEPT !.currents = @ - 1, !.pending = TRUE]
           c == GiveBack(b)
<1>1. a = IF p = 0 THEN g ELSE [g EXCEPT !.queued = @ \cup {p}]
  BY DEF QueueRelease, GiveBack, Unread, BufferRecord
<1>2. /\ a \in BufferRecord /\ a.queued \subseteq a.owed /\ a.queued = g.queued \cup ({p} \ {0})
      /\ a.currents = g.currents /\ a.reads = g.reads /\ a.refs = g.refs /\ a.resource = g.resource
      /\ a.owed = g.owed /\ a.given = g.given
  BY <1>1 DEF BufferRecord
<1>3. /\ b \in BufferRecord /\ b.queued = a.queued /\ b.owed = a.owed /\ b.given = a.given
      /\ b.currents = g.currents - 1 /\ b.reads = g.reads /\ b.refs = g.refs /\ b.resource = g.resource
  <2> HIDE DEF a
  <2>0. a.currents - 1 \in Nat
    BY <1>2 DEF BufferRecord
  <2>1. b \in BufferRecord
    BY <1>2, <2>0 DEF BufferRecord
  <2>2. b.currents = g.currents - 1 /\ b.reads = g.reads /\ b.refs = g.refs
    BY <1>2 DEF BufferRecord
  <2>3. b.queued = a.queued /\ b.owed = a.owed
    BY <1>2 DEF BufferRecord
  <2>4. b.given = a.given /\ b.resource = a.resource
    BY <1>2 DEF BufferRecord
  <2> QED BY <1>2, <2>1, <2>2, <2>3, <2>4
<1> HIDE DEF a, b
<1>4. /\ Yields(b, c, {}) /\ c.currents = b.currents /\ c.reads = b.reads /\ c.refs = b.refs
  BY <1>2, <1>3, GivesBack
<1>5. c \in BufferRecord /\ c.queued \subseteq c.owed /\ 1 <= c.refs /\ (c.refs = 1 => c.currents = 0 /\ c.reads = 0)
  <2>1. c \in BufferRecord /\ c.queued \subseteq c.owed
    BY <1>4 DEF Yields
  <2>2. /\ g.currents \in Nat /\ g.reads \in Nat /\ g.refs \in Nat
        /\ c.refs = g.refs /\ c.reads = g.reads /\ c.currents = g.currents - 1
    BY <1>3, <1>4 DEF BufferRecord
  <2> QED BY <2>1, <2>2
<1> HIDE DEF c
<1>6. /\ Yields(c, Unrefs(c, 1), {}) /\ Unrefs(c, 1).currents = c.currents
      /\ Unrefs(c, 1).reads = c.reads /\ Unrefs(c, 1).refs = c.refs - 1
      /\ Unrefs(c, 1).given = c.given
  BY <1>5, Unreferences
<1>7. ReleaseCurrent(QueueRelease(g, p)) = Unrefs(c, 1)
  BY DEF ReleaseCurrent, Unref, a, b, c
<1>8. Yields(g, Unrefs(c, 1), {p} \ {0})
  BY <1>2, <1>3, <1>4, <1>6 DEF Yields
<1> QED BY <1>2, <1>3, <1>4, <1>6, <1>7, <1>8

\* n of its scenes end.
LEMMA EndsReads ==
  ASSUME NEW g \in BufferRecord, g.queued \subseteq g.owed, NEW n \in Nat, n <= g.reads,
         g.refs >= g.currents + g.reads
  PROVE  LET h == EndReads(g, n) IN
         /\ Yields(g, h, {}) /\ h.currents = g.currents /\ h.reads = g.reads - n /\ h.refs = g.refs - n
<1>1. CASE n = 0
  <2>1. EndReads(g, n) = g
    BY <1>1 DEF EndReads
  <2>2. g.reads - n = g.reads /\ g.refs - n = g.refs
    BY <1>1 DEF BufferRecord
  <2> QED BY <2>1, <2>2, YieldsItself
<1>2. CASE n # 0
  <2> DEFINE b == [g EXCEPT !.reads = @ - n]
             c == GiveBack(b)
  <2>1. /\ b \in BufferRecord /\ b.queued = g.queued /\ b.owed = g.owed /\ b.given = g.given
        /\ b.currents = g.currents /\ b.reads = g.reads - n /\ b.refs = g.refs /\ b.resource = g.resource
    BY DEF BufferRecord
  <2> HIDE DEF b
  <2>2. /\ Yields(b, c, {}) /\ c.currents = b.currents /\ c.reads = b.reads /\ c.refs = b.refs
    BY <2>1, GivesBack
  <2>3. /\ c \in BufferRecord /\ c.queued \subseteq c.owed /\ n <= c.refs /\ (c.refs = n => c.currents = 0 /\ c.reads = 0)
    <3>1. c \in BufferRecord /\ c.queued \subseteq c.owed
      BY <2>2 DEF Yields
    <3>2. /\ g.currents \in Nat /\ g.reads \in Nat /\ g.refs \in Nat
          /\ c.refs = g.refs /\ c.reads = g.reads - n /\ c.currents = g.currents
      BY <2>1, <2>2 DEF BufferRecord
    <3> QED BY <3>1, <3>2
  <2> HIDE DEF c
  <2>4. /\ Yields(c, Unrefs(c, n), {}) /\ Unrefs(c, n).currents = c.currents
        /\ Unrefs(c, n).reads = c.reads /\ Unrefs(c, n).refs = c.refs - n
        /\ Unrefs(c, n).given = c.given
    BY <2>3, Unreferences
  <2>5. EndReads(g, n) = Unrefs(c, n)
    BY <1>2 DEF EndReads, b, c
  <2>6. Yields(g, Unrefs(c, n), {})
    BY <2>1, <2>2, <2>4 DEF Yields
  <2> QED BY <2>1, <2>2, <2>4, <2>5, <2>6
<1> QED BY <1>1, <1>2

\* np_surface_update_destroy of every blocked commit of a surface that attaches it.
LEMMA DropsAttached ==
  ASSUME NEW g \in BufferRecord, g.queued \subseteq g.owed, NEW ids \in SUBSET Ids, NEW n \in Nat,
         n = Cardinality(ids), IsFiniteSet(ids), g.refs >= g.currents + g.reads + n, g.queued \cap ids = {}
  PROVE  LET h == DropAttached(g, ids) IN
         /\ h \in BufferRecord /\ h.resource = g.resource
         /\ h.currents = g.currents /\ h.reads = g.reads /\ h.refs = g.refs - n
         /\ h.owed \subseteq g.owed /\ g.owed \ h.owed \subseteq g.queued \cup ids
         /\ h.queued \subseteq g.queued /\ h.queued \subseteq h.owed
         /\ g.currents > 0 \/ g.reads > 0 => h.owed = g.owed \ ids
         /\ h.given => g.given \/ ids # {}
         /\ g.given => h.given
<1>1. CASE ids = {}
  <2>1. DropAttached(g, ids) = g /\ n = 0
    BY <1>1, FS_EmptySet DEF DropAttached
  <2>2. g.refs - n = g.refs
    BY <2>1 DEF BufferRecord
  <2> QED BY <1>1, <2>1, <2>2
<1>2. CASE ids # {}
  <2> DEFINE b == [g EXCEPT !.given = @ \/ g.resource, !.owed = @ \ ids]
  <2>1. /\ b.currents = g.currents /\ b.reads = g.reads /\ b.refs = g.refs /\ b.resource = g.resource
    BY DEF BufferRecord
  <2>2. b.queued = g.queued /\ b.owed = g.owed \ ids
    BY DEF BufferRecord
  <2>3. b.given = (g.given \/ g.resource)
    BY DEF BufferRecord
  <2>4. b \in BufferRecord
    BY DEF BufferRecord
  <2>5. b.queued \subseteq b.owed
    BY <2>2
  <2>6. n <= b.refs /\ (b.refs = n => b.currents = 0 /\ b.reads = 0)
    BY <2>1 DEF BufferRecord
  <2> HIDE DEF b
  <2>7. /\ Yields(b, Unrefs(b, n), {}) /\ Unrefs(b, n).currents = b.currents
        /\ Unrefs(b, n).reads = b.reads /\ Unrefs(b, n).refs = b.refs - n
        /\ Unrefs(b, n).given = b.given
    BY <2>4, <2>5, <2>6, Unreferences
  <2>8. DropAttached(g, ids) = Unrefs(b, n)
    BY <1>2 DEF DropAttached, b
  <2> DEFINE h == Unrefs(b, n)
  <2> HIDE DEF h
  <2>9. /\ h \in BufferRecord /\ h.resource = g.resource
        /\ h.currents = g.currents /\ h.reads = g.reads /\ h.refs = g.refs - n
    BY <2>1, <2>7 DEF Yields, h
  <2>10. /\ h.owed \subseteq g.owed /\ g.owed \ h.owed \subseteq g.queued \cup ids
         /\ h.queued \subseteq g.queued /\ h.queued \subseteq h.owed
    BY <2>2, <2>7 DEF Yields, h
  <2>11. g.currents > 0 \/ g.reads > 0 => h.owed = g.owed \ ids
    BY <2>1, <2>2, <2>7 DEF Yields, h
  <2>12. g.given => h.given
    BY <2>3, <2>7 DEF h
  <2> QED BY <1>2, <2>8, <2>9, <2>10, <2>11, <2>12 DEF h
<1> QED BY <1>1, <1>2

LEMMA Acquires ==
  ASSUME NEW g \in BufferRecord
  PROVE  /\ AcquireCurrent(g) \in BufferRecord /\ AcquireRead(g) \in BufferRecord
         /\ AcquireCurrent(g).currents = g.currents + 1 /\ AcquireCurrent(g).reads = g.reads
         /\ AcquireCurrent(g).refs = g.refs + 1 /\ AcquireCurrent(g).resource = g.resource
         /\ AcquireCurrent(g).owed = g.owed /\ AcquireCurrent(g).queued = g.queued
         /\ AcquireCurrent(g).given = g.given
         /\ AcquireRead(g).currents = g.currents /\ AcquireRead(g).reads = g.reads + 1
         /\ AcquireRead(g).refs = g.refs + 1 /\ AcquireRead(g).resource = g.resource
         /\ AcquireRead(g).owed = g.owed /\ AcquireRead(g).queued = g.queued
         /\ AcquireRead(g).given = g.given
<1>1. g.currents + 1 \in Nat /\ g.reads + 1 \in Nat /\ g.refs + 1 \in Nat
  BY DEF BufferRecord
<1>2. AcquireCurrent(g) \in BufferRecord /\ AcquireRead(g) \in BufferRecord
  BY <1>1 DEF AcquireCurrent, AcquireRead, BufferRecord
<1>3. /\ AcquireCurrent(g).currents = g.currents + 1 /\ AcquireCurrent(g).reads = g.reads
      /\ AcquireCurrent(g).refs = g.refs + 1 /\ AcquireRead(g).currents = g.currents
      /\ AcquireRead(g).reads = g.reads + 1 /\ AcquireRead(g).refs = g.refs + 1
  BY DEF AcquireCurrent, AcquireRead, BufferRecord
<1>4. /\ AcquireCurrent(g).owed = g.owed /\ AcquireCurrent(g).queued = g.queued
      /\ AcquireRead(g).owed = g.owed /\ AcquireRead(g).queued = g.queued
  BY DEF AcquireCurrent, AcquireRead, BufferRecord
<1>5. /\ AcquireCurrent(g).resource = g.resource /\ AcquireCurrent(g).given = g.given
      /\ AcquireRead(g).resource = g.resource /\ AcquireRead(g).given = g.given
  BY DEF AcquireCurrent, AcquireRead, BufferRecord
<1> QED BY <1>2, <1>3, <1>4, <1>5

\* Two records with the same fields.
LEMMA SameRecord ==
  ASSUME NEW g \in BufferRecord, NEW h \in BufferRecord,
         g.currents = h.currents, g.reads = h.reads, g.refs = h.refs, g.pending = h.pending,
         g.queued = h.queued, g.resource = h.resource, g.given = h.given, g.owed = h.owed
  PROVE  g = h
BY DEF BufferRecord

\* A scene that the transport refuses leaves a shown buffer as it was.
LEMMA HeldInVain ==
  ASSUME NEW g \in BufferRecord, g.currents >= 1, g.refs >= g.currents
  PROVE  EndReads(AcquireRead(g), 1) = g
<1> DEFINE a == AcquireRead(g)
           b == [a EXCEPT !.reads = @ - 1]
           c == [b EXCEPT !.refs = @ - 1]
<1>1. /\ a \in BufferRecord /\ a.currents = g.currents /\ a.reads = g.reads + 1 /\ a.refs = g.refs + 1
      /\ a.queued = g.queued /\ a.resource = g.resource /\ a.given = g.given /\ a.owed = g.owed
  BY Acquires
<1>2. a.pending = g.pending
  BY DEF AcquireRead, BufferRecord
<1> HIDE DEF a
<1>3. a.reads - 1 = g.reads /\ a.refs - 1 = g.refs /\ g.reads \in Nat /\ g.refs \in Nat
  BY <1>1 DEF BufferRecord
<1>4. b.currents = g.currents /\ b.reads = g.reads /\ b.refs = g.refs + 1
  BY <1>1, <1>3 DEF BufferRecord
<1>5. b.queued = g.queued /\ b.owed = g.owed
  BY <1>1 DEF BufferRecord
<1>6. b.pending = g.pending /\ b.resource = g.resource /\ b.given = g.given
  BY <1>1, <1>2 DEF BufferRecord
<1>7. b \in BufferRecord
  BY <1>1, <1>3 DEF BufferRecord
<1> HIDE DEF b
<1>8. GiveBack(b) = b
  BY <1>4 DEF GiveBack, Unread, BufferRecord
<1>9. EndReads(a, 1) = Unrefs(b, 1)
  BY <1>8 DEF EndReads, b
<1>10. b.refs > 1 /\ b.refs - 1 = g.refs
  BY <1>3, <1>4 DEF BufferRecord
<1>11. Unrefs(b, 1) = c
  BY <1>10 DEF Unrefs
<1>12. c.currents = g.currents /\ c.reads = g.reads /\ c.refs = g.refs
  BY <1>4, <1>7, <1>10 DEF BufferRecord
<1>13. c.queued = g.queued /\ c.owed = g.owed
  BY <1>5, <1>7 DEF BufferRecord
<1>14. c.pending = g.pending /\ c.resource = g.resource /\ c.given = g.given
  BY <1>6, <1>7 DEF BufferRecord
<1>15. c \in BufferRecord
  BY <1>3, <1>7, <1>10 DEF BufferRecord
<1> HIDE DEF c
<1>16. c = g
  BY <1>12, <1>13, <1>14, <1>15, SameRecord
<1> QED BY <1>9, <1>11, <1>16 DEF a

---------------------------------------------------------------------------
\* Queues of blocked commits.

IdsIn(q)        == {q[k].id : k \in DOMAIN q}
AttachesIn(q, b) == {q[k].id : k \in {j \in DOMAIN q : q[j].kind = "attach" /\ q[j].buffer = b}}
NoTwice(q)      == \A j, k \in DOMAIN q : q[j].id = q[k].id => j = k

LEMMA Queued ==
  ASSUME NEW q \in Seq(Blockable)
  PROVE  /\ IdsIn(q) \subseteq Ids /\ IsFiniteSet(IdsIn(q))
         /\ \A b \in Buffers : AttachesIn(q, b) \subseteq IdsIn(q)
<1>1. q \in [1 .. Len(q) -> Blockable] /\ DOMAIN q = 1 .. Len(q) /\ Len(q) \in Nat
  BY LenProperties
<1>2. \A k \in DOMAIN q : q[k].id \in Ids
  BY <1>1 DEF Blockable, Update
<1>3. IsFiniteSet(1 .. Len(q))
  BY <1>1, FS_Interval
<1> DEFINE f == [k \in 1 .. Len(q) |-> q[k].id]
<1>4. f \in Surjection(1 .. Len(q), IdsIn(q))
  BY <1>1 DEF Surjection, IdsIn
<1>5. IsFiniteSet(IdsIn(q))
  BY <1>3, <1>4, FS_Surjection
<1> QED BY <1>2, <1>5 DEF IdsIn, AttachesIn

LEMMA Appended ==
  ASSUME NEW q \in Seq(Blockable), NEW u \in Blockable, u.id \notin IdsIn(q)
  PROVE  /\ Append(q, u) \in Seq(Blockable)
         /\ IdsIn(Append(q, u)) = IdsIn(q) \cup {u.id}
         /\ \A b \in Buffers : AttachesIn(Append(q, u), b) =
              AttachesIn(q, b) \cup (IF u.kind = "attach" /\ u.buffer = b THEN {u.id} ELSE {})
         /\ NoTwice(q) => NoTwice(Append(q, u))
<1> DEFINE r == Append(q, u)
           n == Len(q)
<1>1. n \in Nat /\ DOMAIN q = 1 .. n
  BY LenProperties
<1>2. r \in Seq(Blockable) /\ DOMAIN r = 1 .. (n + 1)
  BY <1>1
<1>3. /\ \A k \in DOMAIN q : k \in DOMAIN r /\ r[k] = q[k]
      /\ n + 1 \in DOMAIN r /\ r[n + 1] = u
      /\ \A k \in DOMAIN r : k \in DOMAIN q \/ k = n + 1
  BY <1>1, <1>2
<1> HIDE DEF r, n
<1>4. IdsIn(r) = IdsIn(q) \cup {u.id}
  BY <1>3 DEF IdsIn
<1>5. ASSUME NEW b \in Buffers
      PROVE  AttachesIn(r, b) = AttachesIn(q, b) \cup (IF u.kind = "attach" /\ u.buffer = b THEN {u.id} ELSE {})
  BY <1>3 DEF AttachesIn
<1>7. NoTwice(q) => NoTwice(r)
  BY <1>3 DEF NoTwice, IdsIn
<1> QED BY <1>2, <1>4, <1>5, <1>7 DEF r

LEMMA Popped ==
  ASSUME NEW q \in Seq(Blockable), q # <<>>, NoTwice(q)
  PROVE  /\ Head(q) \in Blockable /\ Tail(q) \in Seq(Blockable) /\ NoTwice(Tail(q))
         /\ Head(q).id \in IdsIn(q) /\ IdsIn(Tail(q)) = IdsIn(q) \ {Head(q).id}
         /\ \A b \in Buffers :
              /\ AttachesIn(Tail(q), b) = AttachesIn(q, b) \ {Head(q).id}
              /\ Head(q).id \in AttachesIn(q, b) <=> Head(q).kind = "attach" /\ Head(q).buffer = b
<1> DEFINE n == Len(q)
           t == Tail(q)
           u == Head(q)
<1>1. n \in Nat /\ n # 0 /\ DOMAIN q = 1 .. n
  BY LenProperties, EmptySeq
<1>2. t \in Seq(Blockable) /\ u \in Blockable /\ Len(t) = n - 1
  BY HeadTailProperties
<1>3. DOMAIN t = 1 .. (n - 1)
  BY <1>2, LenProperties
<1>4. \A i \in 1 .. (n - 1) : t[i] = q[i + 1]
  BY <1>2, HeadTailProperties
<1>5. u = q[1]
  BY <1>1
<1> HIDE DEF t, u
<1>6. /\ \A k \in DOMAIN t : k + 1 \in DOMAIN q /\ k + 1 # 1 /\ t[k] = q[k + 1]
      /\ \A k \in DOMAIN q : k = 1 \/ (k - 1 \in DOMAIN t /\ t[k - 1] = q[k])
      /\ 1 \in DOMAIN q /\ u = q[1]
  <2>1. \A k \in DOMAIN t : k + 1 \in DOMAIN q /\ k + 1 # 1 /\ t[k] = q[k + 1]
    BY <1>1, <1>3, <1>4
  <2>2. ASSUME NEW k \in DOMAIN q, k # 1
        PROVE  k - 1 \in DOMAIN t /\ t[k - 1] = q[k]
    <3>1. k - 1 \in 1 .. (n - 1) /\ (k - 1) + 1 = k
      BY <1>1, <2>2
    <3> QED BY <1>3, <1>4, <3>1
  <2> QED BY <1>1, <1>5, <2>1, <2>2
<1>7. NoTwice(t)
  <2> SUFFICES ASSUME NEW j \in DOMAIN t, NEW k \in DOMAIN t, t[j].id = t[k].id
               PROVE  j = k
    BY DEF NoTwice
  <2>1. j + 1 = k + 1
    BY <1>6 DEF NoTwice
  <2> QED BY <1>1, <1>3, <2>1
<1>8. IdsIn(t) = IdsIn(q) \ {u.id}
  BY <1>6 DEF IdsIn, NoTwice
<1>9. ASSUME NEW b \in Buffers
      PROVE  AttachesIn(t, b) = AttachesIn(q, b) \ {u.id}
  BY <1>6 DEF AttachesIn, NoTwice
<1>10. u.id \in IdsIn(q)
  BY <1>6 DEF IdsIn
<1>11. ASSUME NEW b \in Buffers
       PROVE  u.id \in AttachesIn(q, b) <=> u.kind = "attach" /\ u.buffer = b
  BY <1>6 DEF AttachesIn, NoTwice
<1> QED BY <1>2, <1>7, <1>8, <1>9, <1>10, <1>11 DEF t, u

---------------------------------------------------------------------------
\* The invariant.

Types ==
  /\ surface \in [Surfaces -> SurfaceRecord]
  /\ gpu \in [Buffers -> BufferRecord]
  /\ window \in [Roots -> WindowRecord]
  /\ nextId \in Ids \cup {0} /\ retry \subseteq Surfaces /\ rendered \subseteq Ids
  /\ host \in [Ids -> SceneRecord]
  /\ released \subseteq Ids /\ presented \subseteq Ids

\* Every blocked commit has an id of its own, and ids do not run out.
Numbered ==
  /\ nextId + Cardinality(AllBlocked) <= MaxId
  /\ \A i \in AllBlocked : i <= nextId
  /\ \A s \in Surfaces : NoTwice(surface[s].blocked)
  /\ \A s, t \in Surfaces : s # t => BlockedIds(s) \cap BlockedIds(t) = {}

\* The id of a dirty window has not been used for a scene.
UsedIds == {i \in Ids : host[i].at # "none"} \cup released \cup {h.id : h \in AllHolds}
Fresh ==
  /\ \A i \in UsedIds : i <= nextId
  /\ \A r \in Roots : window[r].scene <= nextId /\ window[r].scene \notin UsedIds
  /\ \A r, q \in Roots : r # q /\ window[r].scene # 0 => window[r].scene # window[q].scene

\* A hold belongs to one window.
Apart ==
  /\ IsFiniteSet(AllHolds)
  /\ \A r, q \in Roots : r # q => window[r].holds \cap window[q].holds = {}

Showing(b) == {s \in Surfaces : surface[s].current = b}
Counted == \A b \in Buffers :
  /\ gpu[b].currents = Cardinality(Showing(b))
  /\ gpu[b].reads = Cardinality(Holders(b))
  /\ gpu[b].refs = gpu[b].currents + gpu[b].reads + (IF gpu[b].resource THEN 1 ELSE 0)
                   + Cardinality(Blockers(b))

\* A release point is owed while its commit is blocked or shown, and queued only
\* afterwards.
Points ==
  /\ \A b \in Buffers : /\ gpu[b].queued \subseteq gpu[b].owed /\ gpu[b].queued \cap AllBlocked = {}
                        /\ \A p \in gpu[b].owed : p <= nextId
  /\ \A s \in Surfaces : surface[s].point # 0 =>
       /\ surface[s].current # None /\ surface[s].point \in gpu[surface[s].current].owed
       /\ surface[s].point \notin AllBlocked
  /\ \A s \in Surfaces : surface[s].current \in Buffers \cap Explicit => surface[s].point # 0
  /\ \A b \in Buffers \cap Explicit : Blockers(b) \subseteq gpu[b].owed

Shape == Types /\ Numbered /\ Fresh /\ Apart /\ Counted /\ Points

\* The sets the counters count are finite.
LEMMA Finite ==
  ASSUME Deployment, Types
  PROVE  /\ IsFiniteSet(AllBlocked) /\ AllBlocked \subseteq Ids
         /\ \A s \in Surfaces : IsFiniteSet(BlockedIds(s)) /\ BlockedIds(s) \subseteq AllBlocked
         /\ \A b \in Buffers : IsFiniteSet(Showing(b)) /\ IsFiniteSet(Blockers(b)) /\ Blockers(b) \subseteq AllBlocked
<1>1. \A s \in Surfaces : BlockedIds(s) = IdsIn(surface[s].blocked) /\ surface[s].blocked \in Seq(Blockable)
  BY DEF BlockedIds, IdsIn, Types, SurfaceRecord
<1>2. \A s \in Surfaces : IsFiniteSet(BlockedIds(s)) /\ BlockedIds(s) \subseteq Ids
  BY <1>1, Queued
<1> DEFINE f == [s \in Surfaces |-> BlockedIds(s)]
           R == {BlockedIds(s) : s \in Surfaces}
<1>3. f \in Surjection(Surfaces, R)
  BY DEF Surjection
<1>4. IsFiniteSet(R)
  BY <1>3, FS_Surjection DEF Deployment
<1>5. IsFiniteSet(AllBlocked)
  BY <1>2, <1>4, FS_UNION DEF AllBlocked
<1>6. \A b \in Buffers : Blockers(b) \subseteq AllBlocked
  BY <1>1 DEF Blockers, Attached, AllBlocked, BlockedIds
<1>7. \A b \in Buffers : IsFiniteSet(Blockers(b))
  BY <1>5, <1>6, FS_Subset
<1>8. \A b \in Buffers : IsFiniteSet(Showing(b))
  BY FS_Subset DEF Showing, Deployment
<1> QED BY <1>2, <1>5, <1>6, <1>7, <1>8 DEF AllBlocked

LEMMA FiniteHolds ==
  ASSUME Apart
  PROVE  \A b \in Buffers : IsFiniteSet(Holders(b)) /\ Holders(b) \subseteq AllHolds
BY FS_Subset DEF Apart, Holders

\* What the counters say about one buffer.
LEMMA Numbers ==
  ASSUME Deployment, Shape, NEW b \in Buffers
  PROVE  /\ gpu[b] \in BufferRecord /\ gpu[b].queued \subseteq gpu[b].owed
         /\ Cardinality(Showing(b)) \in Nat /\ Cardinality(Holders(b)) \in Nat
         /\ Cardinality(Blockers(b)) \in Nat
         /\ gpu[b].currents > 0 <=> Showing(b) # {}
         /\ gpu[b].reads > 0 <=> Holders(b) # {}
         /\ gpu[b].refs >= gpu[b].currents + gpu[b].reads + Cardinality(Blockers(b))
<1>1. gpu[b] \in BufferRecord /\ gpu[b].queued \subseteq gpu[b].owed
  BY DEF Shape, Types, Points
<1>2. IsFiniteSet(Showing(b)) /\ IsFiniteSet(Holders(b)) /\ IsFiniteSet(Blockers(b))
  BY Finite, FiniteHolds DEF Shape
<1>3. /\ Cardinality(Showing(b)) \in Nat /\ Cardinality(Holders(b)) \in Nat /\ Cardinality(Blockers(b)) \in Nat
  BY <1>2, FS_CardinalityType
<1>4. (Cardinality(Showing(b)) = 0 <=> Showing(b) = {}) /\ (Cardinality(Holders(b)) = 0 <=> Holders(b) = {})
  BY <1>2, FS_EmptySet
<1>5. /\ gpu[b].currents = Cardinality(Showing(b)) /\ gpu[b].reads = Cardinality(Holders(b))
      /\ gpu[b].refs = gpu[b].currents + gpu[b].reads + (IF gpu[b].resource THEN 1 ELSE 0)
                       + Cardinality(Blockers(b))
  BY DEF Shape, Counted
<1> QED BY <1>1, <1>3, <1>4, <1>5

---------------------------------------------------------------------------
\* Steps in which users of buffers only go, or move from a blocked commit to its
\* surface: the surfaces M show something else, and the blocked commits D are
\* dropped.

\* A surface or a scene that still uses buffer b after the step.
Kept(b, M) == \/ \E t \in Surfaces \ M : surface[t].current = b
              \/ \E h \in AllHolds' : h \in AllHolds /\ b \in h.sources

\* The points the surfaces M leave behind.
PointsLeft(b, M) == {surface[t].point : t \in {m \in M : surface[m].current = b}} \ {0}

Passes(g, h, keep, P, D) ==
  /\ h.owed \subseteq g.owed /\ g.owed \ h.owed \subseteq g.queued \cup P \cup D
  /\ h.queued \subseteq g.queued \cup P /\ h.queued \subseteq h.owed
  /\ keep => h.owed = g.owed \ D
  /\ h.given => g.given \/ D # {} \/ (~keep /\ (g.currents > 0 \/ g.reads > 0))

Passing(M, D) ==
  /\ \A t \in Surfaces \ M : surface'[t].current = surface[t].current /\ surface'[t].point = surface[t].point
  /\ AllHolds' \subseteq AllHolds /\ nextId <= nextId'
  /\ D \subseteq AllBlocked /\ AllBlocked' \subseteq AllBlocked \ D
  /\ \A b \in Buffers : Blockers(b)' \subseteq Blockers(b)
  /\ \A b \in Buffers : Passes(gpu[b], gpu'[b], Kept(b, M), PointsLeft(b, M), D \cap Blockers(b))
  /\ \A t \in M, b \in Buffers : surface'[t].current = b => \E i \in Blockers(b) \ D : i \notin Blockers(b)'

\* What clients have got stays theirs.
Generous == \A b \in Buffers : gpu[b].given => gpu'[b].given

\* The points survive such a step.
LEMMA PointsPass ==
  ASSUME Deployment, Shape, Types', NEW M \in SUBSET Surfaces, NEW D, Passing(M, D),
         \A t \in M : surface'[t].point # 0 =>
           /\ surface'[t].current \in Buffers /\ surface'[t].point \in gpu'[surface'[t].current].owed
           /\ surface'[t].point \notin AllBlocked',
         \A t \in M : surface'[t].current \in Buffers \cap Explicit => surface'[t].point # 0
  PROVE  Points'
<1>1. \A b \in Buffers : PointsLeft(b, M) \cap AllBlocked = {}
  BY DEF PointsLeft, Shape, Points
<1>2. ASSUME NEW b \in Buffers
      PROVE  /\ gpu'[b].queued \subseteq gpu'[b].owed /\ gpu'[b].queued \cap AllBlocked' = {}
             /\ \A p \in gpu'[b].owed : p <= nextId'
  <2>1. Passes(gpu[b], gpu'[b], Kept(b, M), PointsLeft(b, M), D \cap Blockers(b))
    BY DEF Passing
  <2>2. gpu'[b].queued \subseteq gpu[b].queued \cup PointsLeft(b, M) /\ AllBlocked' \subseteq AllBlocked
    BY <2>1 DEF Passes, Passing
  <2>3. gpu[b].queued \cap AllBlocked = {}
    BY DEF Shape, Points
  <2>4. \A p \in gpu'[b].owed : p \in Ids /\ p <= nextId
    BY <2>1 DEF Passes, Shape, Points, Types, BufferRecord
  <2>5. nextId \in Int /\ nextId' \in Int /\ nextId <= nextId' /\ Ids \subseteq Int
    BY DEF Shape, Types, Ids, Passing
  <2>6. gpu'[b].queued \subseteq gpu'[b].owed
    BY <2>1 DEF Passes
  <2>7. gpu'[b].queued \cap AllBlocked' = {}
    BY <1>1, <2>2, <2>3
  <2>8. ASSUME NEW p \in gpu'[b].owed
        PROVE  p <= nextId'
    <3>1. p \in Int /\ p <= nextId
      BY <2>4, <2>5
    <3> QED BY <2>5, <3>1
  <2> QED BY <2>6, <2>7, <2>8
<1>3. ASSUME NEW s \in Surfaces, surface'[s].point # 0
      PROVE  /\ surface'[s].current # None /\ surface'[s].point \in gpu'[surface'[s].current].owed
             /\ surface'[s].point \notin AllBlocked'
  <2>1. CASE s \in M
    BY <1>3, <2>1 DEF Deployment
  <2>2. CASE s \notin M
    <3> DEFINE b == surface[s].current
    <3>1. surface'[s].current = b /\ surface'[s].point = surface[s].point
      BY <2>2 DEF Passing
    <3>2. b # None /\ surface[s].point \in gpu[b].owed /\ surface[s].point \notin AllBlocked
      BY <1>3, <3>1 DEF Shape, Points
    <3>3. b \in Buffers
      BY <3>2 DEF Shape, Types, SurfaceRecord
    <3>4. Passes(gpu[b], gpu'[b], Kept(b, M), PointsLeft(b, M), D \cap Blockers(b))
      BY <3>3 DEF Passing
    <3>5. Kept(b, M)
      BY <2>2 DEF Kept
    <3>6. D \subseteq AllBlocked /\ AllBlocked' \subseteq AllBlocked
      BY DEF Passing
    <3> HIDE DEF b
    <3>7. surface[s].point \in gpu'[b].owed
      BY <3>2, <3>4, <3>5, <3>6 DEF Passes
    <3> QED BY <3>1, <3>2, <3>6, <3>7
  <2> QED BY <2>1, <2>2
<1>4. ASSUME NEW b \in Buffers \cap Explicit
      PROVE  Blockers(b)' \subseteq gpu'[b].owed
  <2>1. Passes(gpu[b], gpu'[b], Kept(b, M), PointsLeft(b, M), D \cap Blockers(b))
    BY DEF Passing
  <2>2. /\ Blockers(b) \subseteq gpu[b].owed /\ gpu[b].queued \cap AllBlocked = {}
        /\ Blockers(b) \subseteq AllBlocked
    BY Finite DEF Shape, Points
  <2>3. Blockers(b)' \subseteq Blockers(b) /\ AllBlocked' \subseteq AllBlocked \ D
    BY DEF Passing
  <2>4. Blockers(b)' \subseteq AllBlocked'
    BY DEF Blockers, Attached, AllBlocked, BlockedIds
  <2> QED BY <1>1, <2>1, <2>2, <2>3, <2>4 DEF Passes
<1>5. ASSUME NEW s \in Surfaces, surface'[s].current \in Buffers \cap Explicit
      PROVE  surface'[s].point # 0
  BY <1>5 DEF Passing, Shape, Points
<1> QED BY <1>2, <1>3, <1>4, <1>5 DEF Points

\* Steps that leave buffers, queues, holds and what surfaces show as they are.
Quiet ==
  /\ gpu' = gpu /\ nextId <= nextId'
  /\ \A s \in Surfaces : /\ surface'[s].current = surface[s].current /\ surface'[s].point = surface[s].point
                         /\ surface'[s].blocked = surface[s].blocked
  /\ \A r \in Roots : window'[r].holds = window[r].holds

LEMMA QuietSets ==
  ASSUME Quiet
  PROVE  /\ AllBlocked' = AllBlocked /\ AllHolds' = AllHolds
         /\ \A s \in Surfaces : BlockedIds(s)' = BlockedIds(s)
         /\ \A b \in Buffers : /\ Showing(b)' = Showing(b) /\ Holders(b)' = Holders(b)
                               /\ Blockers(b)' = Blockers(b)
<1>1. \A s \in Surfaces : BlockedIds(s)' = BlockedIds(s)
  BY DEF Quiet, BlockedIds
<1>2. AllBlocked' = AllBlocked
  BY <1>1 DEF AllBlocked
<1>3. AllHolds' = AllHolds
  BY DEF Quiet, AllHolds
<1>4. \A b \in Buffers : Showing(b)' = Showing(b) /\ Holders(b)' = Holders(b)
  BY <1>3 DEF Quiet, Showing, Holders
<1>5. \A b \in Buffers, s \in Surfaces : Attached(s, b)' = Attached(s, b)
  BY DEF Quiet, Attached
<1>6. \A b \in Buffers : Blockers(b)' = Blockers(b)
  BY <1>5 DEF Blockers
<1> QED BY <1>1, <1>2, <1>3, <1>4, <1>6

LEMMA QuietPasses ==
  ASSUME Deployment, Shape, Quiet
  PROVE  Passing({}, {})
<1>1. \A b \in Buffers : Passes(gpu[b], gpu'[b], Kept(b, {}), PointsLeft(b, {}), {} \cap Blockers(b))
  BY DEF Quiet, Passes, Shape, Points
<1> QED BY <1>1, QuietSets DEF Passing, Quiet

LEMMA QuietShape ==
  ASSUME Deployment, Shape, Quiet, Types', Fresh', nextId' + Cardinality(AllBlocked) <= MaxId
  PROVE  Shape'
<1>1. Numbered'
  <2>1. \A i \in AllBlocked : i <= nextId /\ i \in Int
    BY Finite DEF Shape, Numbered, Ids
  <2>2. nextId \in Int /\ nextId' \in Int /\ nextId <= nextId'
    BY DEF Shape, Types, Ids, Quiet
  <2>3. \A s \in Surfaces : NoTwice(surface'[s].blocked)
    BY DEF Quiet, Shape, Numbered
  <2>4. \A s, t \in Surfaces : s # t => BlockedIds(s)' \cap BlockedIds(t)' = {}
    BY QuietSets DEF Shape, Numbered
  <2> QED BY QuietSets, <2>1, <2>2, <2>3, <2>4 DEF Numbered
<1>2. Apart'
  BY QuietSets DEF Shape, Apart, Quiet
<1>3. Counted'
  BY QuietSets DEF Shape, Counted, Quiet
<1>4. Points'
  BY QuietPasses, PointsPass
<1> QED BY <1>1, <1>2, <1>3, <1>4 DEF Shape

---------------------------------------------------------------------------
\* Ids of scenes.

LEMMA FreshStays ==
  ASSUME Types, Types', Fresh, UsedIds' \subseteq UsedIds, nextId <= nextId',
         \A r \in Roots : window'[r].scene = window[r].scene \/ window'[r].scene = 0
  PROVE  Fresh'
<1>1. UsedIds \subseteq Ids
  BY DEF Types, UsedIds, AllHolds, WindowRecord, HoldRecord
<1>2. nextId \in Int /\ nextId' \in Int /\ Ids \subseteq Int /\ 0 \notin Ids /\ (\A i \in Ids : i > 0) /\ nextId' >= 0
  BY DEF Types, Ids
<1>3. ASSUME NEW i \in UsedIds'
      PROVE  i <= nextId'
  <2>1. i \in Int /\ i <= nextId
    BY <1>1, <1>2, <1>3 DEF Fresh
  <2> QED BY <1>2, <2>1
<1>4. ASSUME NEW r \in Roots
      PROVE  window'[r].scene <= nextId' /\ window'[r].scene \notin UsedIds'
  <2>0. window[r].scene \in Ids \cup {0}
    BY DEF Types, WindowRecord
  <2>1. window[r].scene \in Int
    BY <2>0 DEF Ids
  <2>2. window[r].scene <= nextId /\ window[r].scene \notin UsedIds
    BY DEF Fresh
  <2>3. window'[r].scene <= nextId'
    BY <1>2, <2>1, <2>2
  <2>4. window'[r].scene \notin UsedIds'
    BY <1>1, <1>2, <2>2
  <2> QED BY <2>3, <2>4
<1>5. \A r, q \in Roots : r # q /\ window'[r].scene # 0 => window'[r].scene # window'[q].scene
  BY DEF Fresh
<1> QED BY <1>3, <1>4, <1>5 DEF Fresh

\* A window becomes dirty under a new id.
LEMMA FreshGains ==
  ASSUME Types, Types', Fresh, UsedIds' \subseteq UsedIds, NEW n \in Int, nextId < n, n <= nextId',
         NEW root \in Roots, window'[root].scene = n,
         \A r \in Roots \ {root} : window'[r].scene = window[r].scene
  PROVE  Fresh'
<1>1. UsedIds \subseteq Ids
  BY DEF Types, UsedIds, AllHolds, WindowRecord, HoldRecord
<1>2. nextId \in Int /\ nextId' \in Int /\ Ids \subseteq Int /\ 0 \notin Ids /\ nextId >= 0
  BY DEF Types, Ids
<1>3. ASSUME NEW i \in UsedIds'
      PROVE  i <= nextId' /\ i # n
  <2>1. i \in Int /\ i <= nextId
    BY <1>1, <1>2, <1>3 DEF Fresh
  <2> QED BY <1>2, <2>1
<1>4. ASSUME NEW r \in Roots \ {root}
      PROVE  window'[r].scene <= nextId' /\ window'[r].scene \notin UsedIds' /\ window'[r].scene # n
  <2>0. window[r].scene \in Ids \cup {0}
    BY DEF Types, WindowRecord
  <2>1. window[r].scene \in Int
    BY <2>0 DEF Ids
  <2>2. window[r].scene <= nextId /\ window[r].scene \notin UsedIds
    BY DEF Fresh
  <2>3. window'[r].scene = window[r].scene
    BY <1>4
  <2>4. window'[r].scene <= nextId' /\ window'[r].scene # n
    BY <1>2, <2>1, <2>2, <2>3
  <2> QED BY <2>2, <2>3, <2>4
<1>5. \A r, q \in Roots : r # q /\ window'[r].scene # 0 => window'[r].scene # window'[q].scene
  BY <1>4 DEF Fresh
<1> QED BY <1>3, <1>4, <1>5 DEF Fresh

---------------------------------------------------------------------------
\* The quiet handlers.

LEMMA FeedbackIsQuiet ==
  ASSUME Deployment, Shape, NEW i \in Ids, Rendered(i) \/ OnPresented(i)
  PROVE  Shape' /\ Quiet /\ UNCHANGED host /\ UNCHANGED released
<1>1. Types'
  <2>1. CASE Rendered(i)
    BY <2>1 DEF Rendered, Shape, Types, Woken, Alive, hostVars
  <2>2. CASE OnPresented(i)
    <3>1. ASSUME NEW s \in Surfaces
          PROVE  surface'[s] \in SurfaceRecord
      <4>1. surface[s] \in SurfaceRecord
        BY DEF Shape, Types
      <4>2. surface'[s] = [surface[s] EXCEPT !.callbacks = @ \ {i}, !.barrier = IF @ = i THEN 0 ELSE @]
        BY <2>2 DEF OnPresented
      <4> QED BY <4>1, <4>2 DEF SurfaceRecord
    <3>2. surface' \in [Surfaces -> SurfaceRecord]
      BY <2>2, <3>1 DEF OnPresented
    <3> QED BY <2>2, <3>2 DEF OnPresented, Shape, Types, Woken, Alive
  <2> QED BY <2>1, <2>2
<1>2. Quiet
  <2>1. nextId <= nextId
    BY DEF Shape, Types, Ids
  <2>2. \A s \in Surfaces : /\ surface'[s].current = surface[s].current
                            /\ surface'[s].point = surface[s].point /\ surface'[s].blocked = surface[s].blocked
    <3>1. CASE Rendered(i)
      BY <3>1 DEF Rendered
    <3>2. CASE OnPresented(i)
      <4>1. ASSUME NEW s \in Surfaces
            PROVE  surface'[s] = [surface[s] EXCEPT !.callbacks = @ \ {i}, !.barrier = IF @ = i THEN 0 ELSE @]
        BY <3>2 DEF OnPresented
      <4>2. \A s \in Surfaces : surface[s] \in SurfaceRecord
        BY DEF Shape, Types
      <4> QED BY <4>1, <4>2 DEF SurfaceRecord
    <3> QED BY <3>1, <3>2
  <2>3. UNCHANGED <<gpu, nextId, window>>
    BY DEF Rendered, OnPresented
  <2> QED BY <2>1, <2>2, <2>3 DEF Quiet
<1>3. UNCHANGED <<host, released, window, nextId>>
  BY DEF Rendered, OnPresented, hostVars
<1>4. Fresh'
  <2>1. UsedIds' = UsedIds
    BY <1>3 DEF UsedIds, AllHolds
  <2> QED BY <1>1, <1>2, <1>3, <2>1, FreshStays DEF Shape, Quiet
<1>5. nextId' + Cardinality(AllBlocked) <= MaxId
  BY <1>3 DEF Shape, Numbered
<1> QED BY <1>1, <1>2, <1>3, <1>4, <1>5, QuietShape

LEMMA HostIsQuiet ==
  ASSUME Deployment, Shape, NEW i \in Ids, Take(i) \/ Submit(i) \/ Discard(i) \/ ReadComplete(i)
  PROVE  Shape' /\ Quiet
<1>1. UNCHANGED guestVars
  BY DEF Take, Submit, Discard, ReadComplete
<1>2. NoScene \in SceneRecord
  BY DEF NoScene, SceneRecord
<1>3. host' \in [Ids -> SceneRecord] /\ released' \subseteq Ids /\ presented' \subseteq Ids
  <2>1. CASE Take(i)
    <3> DEFINE older == {j \in Ids : host[j].at = "queued" /\ host[j].root = host[i].root}
               taken == [host[i] EXCEPT !.at = "queued", !.latches = @ \cup Inherited(older)]
    <3>1. /\ host' = [j \in Ids |-> IF j = i THEN taken ELSE IF j \in older THEN NoScene ELSE host[j]]
          /\ released' = released \cup older /\ presented' = presented
      BY <2>1 DEF Take
    <3>2. \A o \in older : host[o].latches \subseteq Ids
      BY DEF Shape, Types, SceneRecord
    <3>3. Inherited(older) \subseteq Ids
      BY <3>2 DEF Inherited
    <3>4. host[i] \in SceneRecord
      BY DEF Shape, Types
    <3>5. taken \in SceneRecord
      <4> HIDE DEF older
      <4> QED BY <3>3, <3>4 DEF SceneRecord
    <3>6. released' \subseteq Ids /\ presented' \subseteq Ids
      BY <3>1 DEF Shape, Types
    <3> HIDE DEF taken, older
    <3>7. host' \in [Ids -> SceneRecord]
      BY <1>2, <3>1, <3>5 DEF Shape, Types
    <3> QED BY <3>6, <3>7
  <2>2. CASE Submit(i)
    <3>1. /\ host' = [host EXCEPT ![i] = [@ EXCEPT !.at = "reading", !.latches = {}]]
          /\ presented' = presented \cup host[i].latches /\ released' = released
      BY <2>2 DEF Submit
    <3>2. host[i] \in SceneRecord
      BY DEF Shape, Types
    <3>3. host[i].latches \subseteq Ids /\ [host[i] EXCEPT !.at = "reading", !.latches = {}] \in SceneRecord
      BY <3>2 DEF SceneRecord
    <3>4. host' \in [Ids -> SceneRecord]
      BY <3>1, <3>3 DEF Shape, Types
    <3> QED BY <3>1, <3>3, <3>4 DEF Shape, Types
  <2>3. CASE Discard(i)
    BY <1>2, <2>3 DEF Discard, Shape, Types, SceneRecord
  <2>4. CASE ReadComplete(i)
    BY <1>2, <2>4 DEF ReadComplete, Shape, Types, SceneRecord
  <2> QED BY <2>1, <2>2, <2>3, <2>4
<1>4. Types'
  BY <1>1, <1>3 DEF guestVars, Shape, Types
<1>5. Quiet
  BY <1>1 DEF guestVars, Quiet, Shape, Types, Ids
<1>6. UsedIds' \subseteq UsedIds
  <2>1. AllHolds' = AllHolds
    BY <1>1 DEF AllHolds, guestVars
  <2>2. host \in [Ids -> SceneRecord] /\ NoScene.at = "none"
    BY DEF Shape, Types, NoScene
  <2>3. \A j \in Ids : host'[j].at # "none" => host[j].at # "none"
    BY <2>2 DEF Take, Submit, Discard, ReadComplete, SceneRecord
  <2>4. \A j \in released' : j \in released \/ (j \in Ids /\ host[j].at # "none")
    BY <2>2 DEF Take, Submit, Discard, ReadComplete
  <2> QED BY <2>1, <2>3, <2>4 DEF UsedIds
<1>7. Fresh'
  BY <1>1, <1>4, <1>5, <1>6, FreshStays DEF Shape, guestVars, Quiet
<1>8. nextId' + Cardinality(AllBlocked) <= MaxId
  BY <1>1 DEF Shape, Numbered, guestVars
<1> QED BY <1>4, <1>5, <1>7, <1>8, QuietShape

LEMMA RetireIsQuiet ==
  ASSUME Deployment, Shape, NEW r \in Roots, Retire(r)
  PROVE  Shape' /\ Quiet /\ UNCHANGED host /\ UNCHANGED released
<1>1. UNCHANGED <<surface, gpu, nextId, retry, rendered, host, released>>
  BY DEF Retire
<1>2. window' = [window EXCEPT ![r].scene = 0] /\ window[r].scene # 0 /\ presented' = presented \cup {window[r].scene}
  BY DEF Retire
<1>3. /\ window' \in [Roots -> WindowRecord] /\ presented' \subseteq Ids
      /\ \A q \in Roots : window'[q].holds = window[q].holds
      /\ \A q \in Roots : window'[q].scene = window[q].scene \/ window'[q].scene = 0
  BY <1>2 DEF Shape, Types, WindowRecord
<1>4. Types'
  BY <1>1, <1>3 DEF Shape, Types
<1>5. Quiet
  BY <1>1, <1>3 DEF Quiet, Shape, Types, Ids
<1>6. UsedIds' = UsedIds
  BY <1>1, <1>3 DEF UsedIds, AllHolds
<1>7. Fresh'
  BY <1>3, <1>4, <1>5, <1>6, FreshStays DEF Shape, Quiet
<1>8. nextId' + Cardinality(AllBlocked) <= MaxId
  BY <1>1 DEF Shape, Numbered
<1> QED BY <1>1, <1>4, <1>5, <1>7, <1>8, QuietShape

\* A scene that the transport refuses leaves nothing behind.
LEMMA RejectIsNothing ==
  ASSUME Deployment, Shape, NEW r \in Roots, Reject(r)
  PROVE  UNCHANGED vars
<1> DEFINE id == window[r].scene
           hold == [id |-> id, sources |-> Sources(Layers(r))]
<1>1. gpu' = [b \in Buffers |-> EndReads(HoldSources(gpu, r)[b], Cardinality({h \in {hold} : b \in h.sources}))]
  BY DEF Reject, Rejected, DropHolds
<1>2. ASSUME NEW b \in Buffers
      PROVE  gpu'[b] = gpu[b]
  <2>1. CASE b \in Sources(Layers(r))
    <3>1. {h \in {hold} : b \in h.sources} = {hold}
      BY <2>1
    <3>2. Cardinality({h \in {hold} : b \in h.sources}) = 1
      BY <3>1, FS_Singleton
    <3>3. gpu'[b] = EndReads(AcquireRead(gpu[b]), 1)
      BY <1>1, <2>1, <3>2 DEF HoldSources
    <3>4. Showing(b) # {}
      BY <2>1 DEF Sources, Layers, Members, Alive, Showing
    <3>5. gpu[b] \in BufferRecord /\ gpu[b].currents >= 1 /\ gpu[b].refs >= gpu[b].currents
      BY <3>4, Numbers DEF BufferRecord
    <3> QED BY <3>3, <3>5, HeldInVain
  <2>2. CASE b \notin Sources(Layers(r))
    <3>1. {h \in {hold} : b \in h.sources} = {}
      BY <2>2
    <3>2. Cardinality({h \in {hold} : b \in h.sources}) = 0
      BY <3>1, FS_EmptySet
    <3> QED BY <1>1, <2>2, <3>2 DEF HoldSources, EndReads
  <2> QED BY <2>1, <2>2
<1>3. gpu' = gpu
  <2>1. gpu = [b \in Buffers |-> gpu[b]]
    BY DEF Shape, Types
  <2>2. gpu' = [b \in Buffers |-> gpu'[b]]
    BY <1>1
  <2> QED BY <1>2, <2>1, <2>2
<1> QED BY <1>3 DEF Reject, vars, hostVars

\* Ranks in a finite set of numbers.
LEMMA Ranked ==
  ASSUME NEW S \in SUBSET Int, IsFiniteSet(S), NEW r \in S
  PROVE  /\ Cardinality({q \in S : q <= r}) \in 1 .. Cardinality(S)
         /\ \A t \in S : t < r => Cardinality({q \in S : q <= t}) < Cardinality({q \in S : q <= r})
<1> DEFINE Upto(t) == {q \in S : q <= t}
<1>1. \A t \in S : IsFiniteSet(Upto(t)) /\ Cardinality(Upto(t)) \in Nat /\ Cardinality(Upto(t)) <= Cardinality(S)
  BY FS_Subset, FS_CardinalityType
<1>2. Upto(r) # {}
  OBVIOUS
<1>3. Cardinality(Upto(r)) # 0
  BY <1>1, <1>2, FS_EmptySet
<1>4. ASSUME NEW t \in S, t < r
      PROVE  Cardinality(Upto(t)) < Cardinality(Upto(r))
  <2>0. r \in Int /\ t \in Int /\ \A q \in S : q \in Int
    OBVIOUS
  <2>1. Upto(t) \in SUBSET Upto(r) /\ r \in Upto(r) /\ r \notin Upto(t)
    <3>1. \A q \in S : q <= t => q <= r
      BY <1>4, <2>0
    <3>2. r <= r /\ ~(r <= t)
      BY <1>4, <2>0
    <3> QED BY <3>1, <3>2
  <2>2. Upto(t) # Upto(r)
    BY <2>1
  <2> HIDE DEF Upto
  <2>3. Cardinality(Upto(t)) <= Cardinality(Upto(r)) /\ Cardinality(Upto(t)) # Cardinality(Upto(r))
    BY <1>1, <2>1, <2>2, FS_Subset
  <2> QED BY <1>1, <2>3
<1> HIDE DEF Upto
<1>5. Cardinality(Upto(r)) \in 1 .. Cardinality(S)
  <2>1. Cardinality(S) \in Nat
    BY FS_CardinalityType
  <2> QED BY <1>1, <1>3, <2>1
<1> QED BY <1>4, <1>5 DEF Upto

LEMMA RootsAreSurfaces ==
  ASSUME Deployment
  PROVE  Roots \subseteq Surfaces /\ IsFiniteSet(Roots) /\ Roots \subseteq Int
<1>1. Roots \subseteq Surfaces
  BY DEF Roots, Deployment
<1> QED BY <1>1, FS_Subset DEF Deployment

LEMMA ReconnectIsQuiet ==
  ASSUME Deployment, Shape, Reconnect
  PROVE  Shape' /\ Quiet /\ UNCHANGED host /\ UNCHANGED released
<1> DEFINE shown == {r \in Roots \cap Alive : HasContent(r)}
           fresh == [r \in shown |-> nextId + Cardinality({q \in shown : q <= r})]
           n == Cardinality(shown)
<1>1. /\ nextId + n + Cardinality(AllBlocked) <= MaxId /\ nextId' = nextId + n
      /\ window' = [r \in Roots |-> IF r \in shown THEN [window[r] EXCEPT !.scene = fresh[r]] ELSE window[r]]
      /\ surface' = [s \in Surfaces |->
           IF s \notin Alive THEN surface[s]
           ELSE IF RootOf[s] \notin shown
           THEN [surface[s] EXCEPT !.unbound = @ \cup (Outstanding(s) \ {window[RootOf[s]].scene})]
           ELSE [surface[s] EXCEPT !.callbacks = IF @ = {} THEN @ ELSE {fresh[RootOf[s]]},
                                   !.barrier   = IF @ = 0 THEN 0 ELSE fresh[RootOf[s]]]]
      /\ UNCHANGED <<gpu, retry, rendered, host, released, presented>>
  BY DEF Reconnect, IdsLeft
<1>2. shown \in SUBSET Int /\ IsFiniteSet(shown) /\ shown \subseteq Roots
  BY RootsAreSurfaces, FS_Subset
<1>3. n \in Nat
  BY <1>2, FS_CardinalityType
<1>4. nextId \in Int /\ nextId >= 0 /\ MaxId \in Int /\ Cardinality(AllBlocked) \in Nat
  BY Finite, FS_CardinalityType DEF Shape, Types, Ids, Deployment
<1> DEFINE rank == [r \in shown |-> Cardinality({q \in shown : q <= r})]
<1> HIDE DEF n
<1>5. \A r \in shown : rank[r] \in 1 .. n /\ (\A t \in shown : t < r => rank[t] < rank[r])
  <2> HIDE DEF shown
  <2> QED BY <1>2, Ranked DEF n
<1>6. \A r \in shown : fresh[r] = nextId + rank[r]
  OBVIOUS
<1> HIDE DEF shown, fresh, rank
<1> DEFINE c == Cardinality(AllBlocked)
<1> HIDE DEF c
<1>0. nextId + n + c <= MaxId /\ nextId' = nextId + n /\ c \in Nat
  BY <1>1, <1>4 DEF c
<1>7. ASSUME NEW r \in shown
      PROVE  fresh[r] \in Ids /\ nextId < fresh[r] /\ fresh[r] <= nextId'
  <2>1. rank[r] \in Int /\ 1 <= rank[r] /\ rank[r] <= n
    BY <1>3, <1>5
  <2>2. fresh[r] = nextId + rank[r]
    BY <1>6
  <2> QED BY <1>0, <1>3, <1>4, <2>1, <2>2 DEF Ids
<1>8. \A r, q \in shown : r # q => fresh[r] # fresh[q]
  <2> SUFFICES ASSUME NEW r \in shown, NEW q \in shown, r < q
               PROVE  fresh[r] # fresh[q]
    BY <1>2
  <2> QED BY <1>3, <1>4, <1>5, <1>6
<1>9. window' \in [Roots -> WindowRecord] /\ (\A r \in Roots : window'[r].holds = window[r].holds)
  BY <1>1, <1>7 DEF Shape, Types, WindowRecord
<1>10. \A r \in Roots : window'[r].scene = IF r \in shown THEN fresh[r] ELSE window[r].scene
  BY <1>1 DEF Shape, Types, WindowRecord
<1>11. surface' \in [Surfaces -> SurfaceRecord]
  <2> SUFFICES ASSUME NEW s \in Surfaces
               PROVE  surface'[s] \in SurfaceRecord
    BY <1>1
  <2>1. surface[s] \in SurfaceRecord
    BY DEF Shape, Types
  <2>2. CASE s \notin Alive
    BY <1>1, <2>1, <2>2
  <2>3. CASE s \in Alive /\ RootOf[s] \notin shown
    <3>1. Outstanding(s) \subseteq Ids \cup {0}
      BY <2>1 DEF Outstanding, SurfaceRecord
    <3>2. surface'[s] = [surface[s] EXCEPT !.unbound = @ \cup (Outstanding(s) \ {window[RootOf[s]].scene})]
      BY <1>1, <2>3
    <3> QED BY <2>1, <3>1, <3>2 DEF SurfaceRecord
  <2>4. CASE s \in Alive /\ RootOf[s] \in shown
    BY <1>1, <1>7, <2>1, <2>4 DEF SurfaceRecord
  <2> QED BY <2>2, <2>3, <2>4
<1>12. \A s \in Surfaces : /\ surface'[s].current = surface[s].current
                           /\ surface'[s].point = surface[s].point /\ surface'[s].blocked = surface[s].blocked
  BY <1>1 DEF Shape, Types, SurfaceRecord
<1>13. nextId' \in Ids \cup {0} /\ nextId <= nextId' /\ nextId' \in Int
  BY <1>0, <1>3, <1>4 DEF Ids
<1>14. Types'
  BY <1>1, <1>9, <1>11, <1>13 DEF Shape, Types
<1>15. Quiet
  BY <1>1, <1>9, <1>12, <1>13 DEF Quiet
<1>16. UsedIds' = UsedIds /\ (\A i \in UsedIds : i <= nextId /\ i \in Int)
  <2>0. AllHolds' = AllHolds
    BY <1>15, QuietSets
  <2>1. UsedIds' = UsedIds
    BY <1>1, <2>0 DEF UsedIds
  <2>2. UsedIds \subseteq Ids
    BY DEF Shape, Types, UsedIds, AllHolds, WindowRecord, HoldRecord
  <2>3. \A i \in UsedIds : i <= nextId
    BY DEF Shape, Fresh
  <2>4. \A i \in UsedIds : i \in Int
    BY <2>2 DEF Ids
  <2> QED BY <2>1, <2>3, <2>4
<1>17. Fresh'
  <2>1. \A i \in UsedIds' : i <= nextId'
    BY <1>4, <1>13, <1>16
  <2>2. ASSUME NEW r \in Roots
        PROVE  window'[r].scene <= nextId' /\ window'[r].scene \notin UsedIds'
    <3>1. CASE r \in shown
      <4>1. window'[r].scene = fresh[r] /\ fresh[r] \in Int /\ nextId < fresh[r] /\ fresh[r] <= nextId'
        BY <1>7, <1>10, <3>1 DEF Ids
      <4> QED BY <1>4, <1>16, <4>1
    <3>2. CASE r \notin shown
      <4>1. window[r].scene \in Ids \cup {0} /\ window[r].scene <= nextId /\ window[r].scene \notin UsedIds
        BY DEF Shape, Types, WindowRecord, Fresh
      <4>2. window[r].scene \in Int
        BY <4>1 DEF Ids
      <4> QED BY <1>4, <1>10, <1>13, <1>16, <3>2, <4>1, <4>2
    <3> QED BY <3>1, <3>2
  <2>3. ASSUME NEW r \in Roots, NEW q \in Roots, r # q, window'[r].scene # 0
        PROVE  window'[r].scene # window'[q].scene
    <3>1. window[r].scene \in Int /\ window[q].scene \in Int /\ window[r].scene <= nextId /\ window[q].scene <= nextId
      <4>1. window[r].scene \in Ids \cup {0} /\ window[q].scene \in Ids \cup {0}
        BY DEF Shape, Types, WindowRecord
      <4> QED BY <4>1 DEF Ids, Shape, Fresh
    <3>2. CASE r \in shown /\ q \in shown
      BY <1>8, <1>10, <2>3, <3>2
    <3>3. CASE r \in shown /\ q \notin shown
      <4>1. fresh[r] \in Int /\ nextId < fresh[r]
        BY <1>7, <3>3 DEF Ids
      <4> QED BY <1>4, <1>10, <3>1, <3>3, <4>1
    <3>4. CASE r \notin shown /\ q \in shown
      <4>1. fresh[q] \in Int /\ nextId < fresh[q]
        BY <1>7, <3>4 DEF Ids
      <4> QED BY <1>4, <1>10, <3>1, <3>4, <4>1
    <3>5. CASE r \notin shown /\ q \notin shown
      BY <1>10, <2>3, <3>5 DEF Shape, Fresh
    <3> QED BY <3>2, <3>3, <3>4, <3>5
  <2> QED BY <2>1, <2>2, <2>3 DEF Fresh
<1>18. nextId' + Cardinality(AllBlocked) <= MaxId
  BY <1>1, <1>3, <1>4
<1> QED BY <1>1, <1>14, <1>15, <1>17, <1>18, QuietShape

---------------------------------------------------------------------------
\* The head of a queue is applied.

LEMMA PopQueue ==
  ASSUME Types, Numbered, NEW s \in Surfaces, surface[s].blocked # <<>>,
         surface'[s].blocked = Tail(surface[s].blocked),
         \A t \in Surfaces \ {s} : surface'[t].blocked = surface[t].blocked
  PROVE  LET u == Head(surface[s].blocked) IN
         /\ u \in Blockable /\ surface'[s].blocked \in Seq(Blockable)
         /\ u.id \in AllBlocked /\ AllBlocked' = AllBlocked \ {u.id}
         /\ \A b \in Buffers : /\ Blockers(b)' = Blockers(b) \ {u.id}
                               /\ u.id \in Blockers(b) <=> u.kind = "attach" /\ u.buffer = b
         /\ \A t \in Surfaces : NoTwice(surface'[t].blocked)
         /\ \A r, t \in Surfaces : r # t => BlockedIds(r)' \cap BlockedIds(t)' = {}
<1> DEFINE q == surface[s].blocked
           u == Head(q)
<1>1. q \in Seq(Blockable) /\ q # <<>> /\ NoTwice(q)
  BY DEF Types, SurfaceRecord, Numbered
<1>2. /\ u \in Blockable /\ Tail(q) \in Seq(Blockable) /\ NoTwice(Tail(q))
      /\ u.id \in IdsIn(q) /\ IdsIn(Tail(q)) = IdsIn(q) \ {u.id}
      /\ \A b \in Buffers : /\ AttachesIn(Tail(q), b) = AttachesIn(q, b) \ {u.id}
                            /\ u.id \in AttachesIn(q, b) <=> u.kind = "attach" /\ u.buffer = b
  BY <1>1, Popped
<1>3. BlockedIds(s) = IdsIn(q) /\ BlockedIds(s)' = IdsIn(Tail(q))
  BY DEF BlockedIds, IdsIn
<1>4. \A b \in Buffers : Attached(s, b) = AttachesIn(q, b) /\ Attached(s, b)' = AttachesIn(Tail(q), b)
  BY DEF Attached, AttachesIn
<1>5. \A t \in Surfaces \ {s} : BlockedIds(t)' = BlockedIds(t) /\ (\A b \in Buffers : Attached(t, b)' = Attached(t, b))
  BY DEF BlockedIds, Attached
<1> HIDE DEF q, u
<1>6. \A t \in Surfaces \ {s} : u.id \notin BlockedIds(t)
  BY <1>2, <1>3 DEF Numbered
<1>7. \A t \in Surfaces : BlockedIds(t)' = BlockedIds(t) \ {u.id}
  BY <1>2, <1>3, <1>5, <1>6
<1>8. AllBlocked' = AllBlocked \ {u.id} /\ u.id \in AllBlocked
  BY <1>2, <1>3, <1>7 DEF AllBlocked
<1>9. \A t \in Surfaces \ {s}, b \in Buffers : u.id \notin Attached(t, b)
  BY <1>6 DEF Attached, BlockedIds
<1>10. ASSUME NEW b \in Buffers
       PROVE  /\ Blockers(b)' = Blockers(b) \ {u.id}
              /\ u.id \in Blockers(b) <=> u.kind = "attach" /\ u.buffer = b
  <2>1. \A t \in Surfaces : Attached(t, b)' = Attached(t, b) \ {u.id}
    BY <1>2, <1>4, <1>5, <1>9
  <2>2. u.id \in Blockers(b) <=> u.id \in Attached(s, b)
    BY <1>9 DEF Blockers
  <2> QED BY <1>2, <1>4, <2>1, <2>2 DEF Blockers
<1>11. \A t \in Surfaces : NoTwice(surface'[t].blocked)
  BY <1>2 DEF q, Numbered
<1>12. \A r, t \in Surfaces : r # t => BlockedIds(r)' \cap BlockedIds(t)' = {}
  BY <1>7 DEF Numbered
<1> QED BY <1>2, <1>8, <1>10, <1>11, <1>12 DEF q, u

\* What happens to a buffer when a surface applies a commit: the surface leaves it
\* with its point, arrives at it, and the commit drops its reference.
AfterCommit(g, leaves, arrives, drops, p) ==
  LET a == IF leaves THEN ReleaseCurrent(QueueRelease(g, p)) ELSE g
      c == IF arrives THEN AcquireCurrent(a) ELSE a
  IN  IF drops THEN Unref(c) ELSE c

One(x) == IF x THEN 1 ELSE 0
Follows(g, d, leaves, arrives, drops, p) ==
  /\ d \in BufferRecord /\ d.resource = g.resource /\ d.reads = g.reads
  /\ d.currents = g.currents - One(leaves) + One(arrives)
  /\ d.refs = g.refs - One(leaves) + One(arrives) - One(drops)
  /\ Passes(g, d, g.reads > 0 \/ g.currents > One(leaves), IF leaves THEN {p} \ {0} ELSE {}, {})
  /\ g.given => d.given

LEMMA Applied ==
  ASSUME NEW g \in BufferRecord, g.queued \subseteq g.owed,
         NEW leaves \in BOOLEAN, NEW arrives \in BOOLEAN, NEW drops \in BOOLEAN,
         NEW p \in Ids \cup {0},
         leaves => g.currents >= 1 /\ (p # 0 => p \in g.owed),
         arrives => drops, g.refs >= g.currents + g.reads + (IF drops THEN 1 ELSE 0)
  PROVE  Follows(g, AfterCommit(g, leaves, arrives, drops, p), leaves, arrives, drops, p)
<1> DEFINE a == IF leaves THEN ReleaseCurrent(QueueRelease(g, p)) ELSE g
           c == IF arrives THEN AcquireCurrent(a) ELSE a
           d == IF drops THEN Unref(c) ELSE c
           L == IF leaves THEN 1 ELSE 0
           A == IF arrives THEN 1 ELSE 0
           P == IF leaves THEN {p} \ {0} ELSE {}
<1>0. g.currents \in Nat /\ g.reads \in Nat /\ g.refs \in Nat /\ L \in {0, 1} /\ A \in {0, 1}
  BY DEF BufferRecord
<1>1. Yields(g, a, P) /\ a.currents = g.currents - L /\ a.reads = g.reads /\ a.refs = g.refs - L
  <2>1. CASE leaves
    <3>1. g.refs >= g.currents + g.reads
      BY <1>0
    <3> QED BY <2>1, <3>1, ReleasesShown
  <2>2. CASE ~leaves
    <3>1. Yields(g, g, {})
      BY YieldsItself
    <3> QED BY <1>0, <2>2, <3>1
  <2> QED BY <2>1, <2>2
<1>2. ~leaves => a = g
  OBVIOUS
<1> HIDE DEF a
<1>3. a \in BufferRecord /\ a.resource = g.resource /\ a.queued \subseteq a.owed
  BY <1>1 DEF Yields
<1>4. /\ c \in BufferRecord /\ c.resource = g.resource /\ c.currents = g.currents - L + A /\ c.reads = g.reads
      /\ c.refs = g.refs - L + A /\ c.owed = a.owed /\ c.queued = a.queued /\ c.given = a.given
  <2>1. CASE arrives
    BY <1>1, <1>3, <2>1, Acquires
  <2>2. CASE ~arrives
    BY <1>0, <1>1, <1>3, <2>2
  <2> QED BY <2>1, <2>2
<1> HIDE DEF c
<1>5. /\ d \in BufferRecord /\ d.resource = g.resource /\ d.currents = c.currents /\ d.reads = c.reads
      /\ d.refs = c.refs - (IF drops THEN 1 ELSE 0) /\ d.given = c.given
      /\ d.owed \subseteq c.owed /\ c.owed \ d.owed \subseteq c.queued /\ d.queued \subseteq c.queued
      /\ d.queued \subseteq d.owed /\ (c.currents > 0 \/ c.reads > 0 => d.owed = c.owed)
  <2>1. CASE drops
    <3>1. c.queued \subseteq c.owed
      BY <1>3, <1>4
    <3>2. 1 <= c.refs /\ (c.refs = 1 => c.currents = 0 /\ c.reads = 0)
      BY <1>0, <1>4, <2>1
    <3>3. /\ Yields(c, Unrefs(c, 1), {}) /\ Unrefs(c, 1).currents = c.currents
          /\ Unrefs(c, 1).reads = c.reads /\ Unrefs(c, 1).refs = c.refs - 1 /\ Unrefs(c, 1).given = c.given
      BY <1>4, <3>1, <3>2, Unreferences
    <3>4. d = Unrefs(c, 1)
      BY <2>1 DEF Unref
    <3> HIDE DEF d
    <3>5. c.queued \cup {} = c.queued
      OBVIOUS
    <3>6. /\ d \in BufferRecord /\ d.resource = g.resource /\ d.owed \subseteq c.owed
          /\ c.owed \ d.owed \subseteq c.queued /\ d.queued \subseteq c.queued
          /\ d.queued \subseteq d.owed /\ (c.currents > 0 \/ c.reads > 0 => d.owed = c.owed)
      BY <1>4, <3>3, <3>4 DEF Yields
    <3> QED BY <2>1, <3>3, <3>4, <3>6
  <2>2. CASE ~drops
    <3>1. d = c
      BY <2>2
    <3>2. c.refs - 0 = c.refs
      BY <1>4 DEF BufferRecord
    <3> HIDE DEF d
    <3> QED BY <1>3, <1>4, <2>2, <3>1, <3>2
  <2> QED BY <2>1, <2>2
<1> HIDE DEF d
<1>6. d.owed \subseteq g.owed /\ g.owed \ d.owed \subseteq g.queued \cup P \cup {}
  <2>1. a.owed \subseteq g.owed /\ g.owed \ a.owed \subseteq g.queued \cup P /\ a.queued \subseteq g.queued \cup P
    BY <1>1 DEF Yields
  <2> QED BY <1>4, <1>5, <2>1
<1>7. d.queued \subseteq g.queued \cup P /\ d.queued \subseteq d.owed
  BY <1>1, <1>4, <1>5 DEF Yields
<1>8. g.reads > 0 \/ g.currents > L => d.owed = g.owed \ {}
  <2> SUFFICES ASSUME g.reads > 0 \/ g.currents > L
               PROVE  d.owed = g.owed \ {}
    OBVIOUS
  <2>1. (a.currents > 0 \/ a.reads > 0) /\ (c.currents > 0 \/ c.reads > 0)
    BY <1>0, <1>1, <1>4
  <2>2. a.owed = g.owed
    BY <1>1, <2>1 DEF Yields
  <2> QED BY <1>4, <1>5, <2>1, <2>2
<1>9. d.given => g.given \/ (~(g.reads > 0 \/ g.currents > L) /\ (g.currents > 0 \/ g.reads > 0))
  <2> SUFFICES ASSUME d.given, ~g.given
               PROVE  ~(g.reads > 0 \/ g.currents > L) /\ (g.currents > 0 \/ g.reads > 0)
    OBVIOUS
  <2>1. a.given
    BY <1>4, <1>5
  <2>2. leaves
    BY <1>2, <2>1
  <2>3. a.currents = 0 /\ a.reads = 0
    BY <1>1, <2>1 DEF Yields
  <2>4. g.currents >= 1
    BY <2>2
  <2> QED BY <1>0, <1>1, <2>2, <2>3, <2>4 DEF L
<1>10. g.given => d.given
  BY <1>1, <1>4, <1>5 DEF Yields
<1> HIDE DEF L, P
<1>11. Passes(g, d, g.reads > 0 \/ g.currents > L, P, {})
  BY <1>6, <1>7, <1>8, <1>9 DEF Passes
<1> HIDE DEF A
<1>12. /\ d \in BufferRecord /\ d.resource = g.resource /\ d.reads = g.reads
       /\ d.currents = g.currents - L + A
       /\ d.refs = g.refs - L + A - (IF drops THEN 1 ELSE 0)
  <2>1. d \in BufferRecord /\ d.resource = g.resource /\ d.reads = g.reads
    BY <1>4, <1>5
  <2>2. d.currents = g.currents - L + A
    BY <1>4, <1>5
  <2>3. d.refs = g.refs - L + A - (IF drops THEN 1 ELSE 0)
    <3>1. c.refs = g.refs - L + A /\ d.refs = c.refs - (IF drops THEN 1 ELSE 0)
      BY <1>4, <1>5
    <3> QED BY <1>0, <3>1
  <2> QED BY <2>1, <2>2, <2>3
<1>13. d = AfterCommit(g, leaves, arrives, drops, p)
  BY DEF a, c, d, AfterCommit
<1> HIDE DEF d
<1> QED BY <1>10, <1>11, <1>12, <1>13 DEF Follows, One, L, A, P

\* Whether applying u moves surface s: np_presentation_set_current_buffer ignores a
\* buffer that the surface shows and that has no points.
Moves(s, u) == /\ u.kind \in {"attach", "detach"}
               /\ ~(Point(u) = 0 /\ u.buffer # None /\ u.buffer = surface[s].current)

LEMMA VisitGpu ==
  ASSUME Deployment, Shape, NEW s \in Surfaces, NEW u \in Blockable, NEW x \in Buffers,
         LET after == IF u.kind \in {"attach", "detach"} THEN SetCurrent(gpu, s, u.buffer, Point(u)) ELSE gpu
         IN  gpu' = IF u.kind = "attach" THEN [after EXCEPT ![u.buffer] = Unref(@)] ELSE after
  PROVE  LET leaves  == Moves(s, u) /\ surface[s].current = x
             arrives == Moves(s, u) /\ u.buffer = x
             drops   == u.kind = "attach" /\ u.buffer = x
         IN  gpu'[x] = AfterCommit(gpu[x], leaves, arrives, drops, surface[s].point)
<1> DEFINE old == surface[s].current
           pt == surface[s].point
           b == u.buffer
           moved == u.kind \in {"attach", "detach"}
           left == IF old = None THEN gpu
                   ELSE [gpu EXCEPT ![old] = ReleaseCurrent(QueueRelease(@, pt))]
           after == IF moved THEN SetCurrent(gpu, s, b, Point(u)) ELSE gpu
           leaves(y)  == Moves(s, u) /\ old = y
           arrives(y) == Moves(s, u) /\ b = y
           a(y) == IF leaves(y) THEN ReleaseCurrent(QueueRelease(gpu[y], pt)) ELSE gpu[y]
           c(y) == IF arrives(y) THEN AcquireCurrent(a(y)) ELSE a(y)
<1>1. /\ old \in Buffers \cup {None} /\ b \in Buffers \cup {None} /\ None \notin Buffers
      /\ gpu = [y \in Buffers |-> gpu[y]] /\ (u.kind = "attach" <=> b \in Buffers)
  BY DEF Shape, Types, SurfaceRecord, Deployment, Blockable, Update
<1>2. gpu' = IF u.kind = "attach" THEN [after EXCEPT ![b] = Unref(@)] ELSE after
  OBVIOUS
<1>3. Moves(s, u) <=> moved /\ ~(Point(u) = 0 /\ b # None /\ b = old)
  BY DEF Moves
<1>4. SetCurrent(gpu, s, b, Point(u)) =
        IF Point(u) = 0 /\ b # None /\ b = old THEN gpu
        ELSE IF b = None THEN left ELSE [left EXCEPT ![b] = AcquireCurrent(@)]
  BY DEF SetCurrent
<1> HIDE DEF old, pt, b
<1>5. CASE ~Moves(s, u)
  <2>1. after = gpu
    BY <1>3, <1>4, <1>5
  <2>2. c(x) = gpu[x]
    BY <1>5
  <2> HIDE DEF after, c
  <2>3. gpu'[x] = IF u.kind = "attach" /\ b = x THEN Unref(gpu[x]) ELSE gpu[x]
    BY <1>1, <1>2, <2>1
  <2> QED BY <2>2, <2>3 DEF b, c, old, pt, AfterCommit
<1>6. CASE Moves(s, u)
  <2>1. left = [y \in Buffers |-> a(y)]
    <3>1. \A y \in Buffers : a(y) = IF y = old THEN ReleaseCurrent(QueueRelease(gpu[y], pt)) ELSE gpu[y]
      BY <1>6
    <3>2. CASE old = None
      BY <1>1, <3>1, <3>2
    <3>3. CASE old \in Buffers
      <4>1. left = [gpu EXCEPT ![old] = ReleaseCurrent(QueueRelease(@, pt))]
        BY <1>1, <3>3
      <4> QED BY <1>1, <3>1, <3>3, <4>1
    <3> QED BY <1>1, <3>2, <3>3
  <2>2. after = [y \in Buffers |-> c(y)]
    <3>1. after = IF b = None THEN left ELSE [left EXCEPT ![b] = AcquireCurrent(@)]
      BY <1>3, <1>4, <1>6
    <3>2. \A y \in Buffers : c(y) = IF y = b THEN AcquireCurrent(a(y)) ELSE a(y)
      BY <1>6
    <3> HIDE DEF left, after, a, c
    <3> QED BY <1>1, <2>1, <3>1, <3>2
  <2> HIDE DEF after, c
  <2>3. gpu'[x] = IF u.kind = "attach" /\ b = x THEN Unref(c(x)) ELSE c(x)
    BY <1>1, <1>2, <2>2
  <2> QED BY <2>3 DEF b, c, old, pt, AfterCommit
<1> QED BY <1>5, <1>6

\* One element leaves a set and comes back, or one of the two.
LEMMA InAndOut ==
  ASSUME NEW S, IsFiniteSet(S), NEW s, NEW leaves \in BOOLEAN, NEW arrives \in BOOLEAN,
         leaves => s \in S, s \in S => leaves
  PROVE  Cardinality((IF leaves THEN S \ {s} ELSE S) \cup (IF arrives THEN {s} ELSE {}))
           = Cardinality(S) - (IF leaves THEN 1 ELSE 0) + (IF arrives THEN 1 ELSE 0)
<1> DEFINE T == S \ {s}
<1>1. IsFiniteSet(T) /\ Cardinality(T) = (IF s \in S THEN Cardinality(S) - 1 ELSE Cardinality(S))
      /\ Cardinality(S) \in Nat
  BY FS_RemoveElement, FS_CardinalityType
<1>2. (IF leaves THEN S \ {s} ELSE S) = T /\ s \notin T
  OBVIOUS
<1> HIDE DEF T
<1>3. IsFiniteSet(T \cup {s}) /\ Cardinality(T \cup {s}) = Cardinality(T) + 1
  BY <1>1, <1>2, FS_AddElement
<1>4. T \cup {} = T /\ Cardinality(T) \in Nat
  BY <1>1, FS_CardinalityType
<1>5. Cardinality(T) = Cardinality(S) - (IF leaves THEN 1 ELSE 0)
  BY <1>1
<1>6. CASE arrives
  BY <1>1, <1>2, <1>3, <1>5, <1>6
<1>7. CASE ~arrives
  <2>1. Cardinality(T) = Cardinality(S) - (IF leaves THEN 1 ELSE 0) + 0
    BY <1>1, <1>5
  <2> QED BY <1>2, <1>4, <1>7, <2>1
<1> QED BY <1>6, <1>7

\* Head(surface[s].blocked) is applied: np_surface_apply_unblocked.
Applies(s) == Visit(s) /\ surface[s].blocked # <<>> /\ CanApply(s, Head(surface[s].blocked))

LEMMA VisitSurface ==
  ASSUME Deployment, Shape, NEW s \in Surfaces, Applies(s)
  PROVE  LET u == Head(surface[s].blocked)
             root == RootOf[s]
             scene == IF window[root].scene # 0 THEN window[root].scene ELSE nextId + 1
             moved == u.kind \in {"attach", "detach"}
         IN  /\ surface'[s].blocked = Tail(surface[s].blocked)
             /\ surface'[s].current = IF moved THEN u.buffer ELSE surface[s].current
             /\ surface'[s].point =
                  IF moved /\ ~(u.kind = "attach" /\ Point(u) = 0 /\ u.buffer = surface[s].current)
                  THEN Point(u) ELSE surface[s].point
             /\ surface'[s].alive = surface[s].alive /\ surface'[s].unbound = surface[s].unbound
             /\ surface'[s].callbacks = IF Queues(s, u) THEN Rebound(surface[s].callbacks, u.id, scene)
                                        ELSE surface[s].callbacks
             /\ surface'[s].barrier = IF ~u.sets THEN surface[s].barrier
                                      ELSE IF window[root].scene # 0 \/ Queues(s, u) THEN scene ELSE u.id
             /\ surface'[s].callbacks \subseteq surface[s].callbacks \cup {scene}
             /\ surface'[s].barrier \in {surface[s].barrier, scene, u.id}
             /\ surface' = [surface EXCEPT ![s] = surface'[s]]
             /\ \A t \in Surfaces \ {s} : surface'[t] = surface[t]
             /\ surface'[s].point \in Ids \cup {0} /\ surface'[s] \in SurfaceRecord
<1> DEFINE u == Head(surface[s].blocked)
           root == RootOf[s]
           dirty == window[root].scene # 0
           scene == IF dirty THEN window[root].scene ELSE nextId + 1
           moved == u.kind \in {"attach", "detach"}
           current == IF moved THEN u.buffer ELSE surface[s].current
           point == IF moved /\ ~(u.kind = "attach" /\ Point(u) = 0 /\ u.buffer = surface[s].current)
                    THEN Point(u) ELSE surface[s].point
           callbacks == IF Queues(s, u) THEN Rebound(surface[s].callbacks, u.id, scene) ELSE surface[s].callbacks
           barrier == IF ~u.sets THEN surface[s].barrier
                      ELSE IF dirty \/ Queues(s, u) THEN scene ELSE u.id
           r == surface'[s]
<1>1. surface' = [surface EXCEPT
                    ![s].current = current, ![s].point = point, ![s].blocked = Tail(surface[s].blocked),
                    ![s].callbacks = callbacks, ![s].barrier = barrier]
  BY DEF Applies, Visit
<1>2. surface[s] \in SurfaceRecord /\ surface \in [Surfaces -> SurfaceRecord]
  BY DEF Shape, Types
<1> HIDE DEF current, point, callbacks, barrier
<1>3. r = [surface[s] EXCEPT !.current = current, !.point = point, !.blocked = Tail(surface[s].blocked),
                             !.callbacks = callbacks, !.barrier = barrier]
  BY <1>1, <1>2
<1>4. /\ r.blocked = Tail(surface[s].blocked) /\ r.current = current /\ r.point = point
      /\ r.alive = surface[s].alive /\ r.unbound = surface[s].unbound
      /\ r.callbacks = callbacks /\ r.barrier = barrier
      /\ \A t \in Surfaces \ {s} : surface'[t] = surface[t]
      /\ surface' = [surface EXCEPT ![s] = r]
  BY <1>1, <1>2, <1>3 DEF SurfaceRecord
<1> HIDE DEF r
<1>5. r.callbacks \subseteq surface[s].callbacks \cup {scene}
  BY <1>4 DEF callbacks, Rebound
<1>6. r.barrier \in {surface[s].barrier, scene, u.id}
  BY <1>4 DEF barrier
<1>7. u \in Blockable /\ Tail(surface[s].blocked) \in Seq(Blockable) /\ u.id \in AllBlocked
  BY <1>4, PopQueue DEF Applies, Shape, r
<1>8. scene \in Ids
  <2>1. Cardinality(AllBlocked) \in Nat /\ Cardinality(AllBlocked) # 0
    BY <1>7, Finite, FS_CardinalityType, FS_EmptySet DEF Shape
  <2>2. nextId \in Int /\ nextId >= 0 /\ MaxId \in Int /\ nextId + Cardinality(AllBlocked) <= MaxId
    BY DEF Shape, Types, Ids, Numbered, Deployment
  <2>3. nextId + 1 \in Ids
    BY <2>1, <2>2 DEF Ids
  <2>4. root \in Roots
    BY DEF Roots
  <2>5. window[root].scene \in Ids \cup {0}
    BY <2>4 DEF Shape, Types, WindowRecord
  <2> QED BY <2>3, <2>5
<1>9. r \in SurfaceRecord
  <2>1. u.id \in Ids /\ u.buffer \in Buffers \cup {None} /\ Point(u) \in Ids \cup {0}
    BY <1>7 DEF Blockable, Update, Point
  <2>2. current \in Buffers \cup {None} /\ point \in Ids \cup {0}
    BY <1>2, <2>1 DEF current, point, SurfaceRecord
  <2>3. barrier \in Ids \cup {0}
    BY <1>2, <1>4, <1>6, <1>8, <2>1 DEF SurfaceRecord
  <2>4. callbacks \subseteq Ids
    BY <1>2, <1>4, <1>5, <1>8 DEF SurfaceRecord
  <2> HIDE DEF scene
  <2> QED BY <1>2, <1>3, <1>7, <2>2, <2>3, <2>4 DEF SurfaceRecord
<1>10. r.point \in Ids \cup {0}
  BY <1>9 DEF SurfaceRecord
<1> QED BY <1>4, <1>5, <1>6, <1>9, <1>10 DEF current, point, callbacks, barrier, r

LEMMA VisitCounts ==
  ASSUME Deployment, Shape, NEW s \in Surfaces, Applies(s), NEW x \in Buffers
  PROVE  LET u == Head(surface[s].blocked)
             M == IF Moves(s, u) THEN {s} ELSE {}
         IN  /\ gpu'[x] \in BufferRecord /\ gpu'[x].resource = gpu[x].resource
             /\ gpu[x].given => gpu'[x].given
             /\ gpu'[x].currents = Cardinality(Showing(x)') /\ gpu'[x].reads = gpu[x].reads
             /\ gpu'[x].refs = gpu'[x].currents + gpu'[x].reads + (IF gpu'[x].resource THEN 1 ELSE 0)
                               + Cardinality(Blockers(x)')
             /\ AllHolds' = AllHolds => Passes(gpu[x], gpu'[x], Kept(x, M), PointsLeft(x, M), {})
<1> DEFINE u == Head(surface[s].blocked)
           old == surface[s].current
           pt == surface[s].point
           M == IF Moves(s, u) THEN {s} ELSE {}
           leaves  == Moves(s, u) /\ old = x
           arrives == Moves(s, u) /\ u.buffer = x
           drops   == u.kind = "attach" /\ u.buffer = x
           L == IF leaves THEN 1 ELSE 0
           A == IF arrives THEN 1 ELSE 0
           D == IF drops THEN 1 ELSE 0
<1>1. /\ surface'[s].blocked = Tail(surface[s].blocked)
      /\ surface'[s].current = IF u.kind \in {"attach", "detach"} THEN u.buffer ELSE old
      /\ \A t \in Surfaces \ {s} : surface'[t] = surface[t]
  BY VisitSurface
<1>2. /\ u \in Blockable /\ Blockers(x)' = Blockers(x) \ {u.id} /\ (u.id \in Blockers(x) <=> drops)
  BY <1>1, PopQueue DEF Applies, Shape
<1>3. gpu'[x] = AfterCommit(gpu[x], leaves, arrives, drops, pt)
  <2>1. LET after == IF u.kind \in {"attach", "detach"} THEN SetCurrent(gpu, s, u.buffer, Point(u)) ELSE gpu
        IN  gpu' = IF u.kind = "attach" THEN [after EXCEPT ![u.buffer] = Unref(@)] ELSE after
    BY DEF Applies, Visit
  <2> HIDE DEF u
  <2> QED BY <1>2, <2>1, VisitGpu
<1>4. /\ x # None /\ (u.kind = "attach" <=> u.buffer \in Buffers) /\ u.buffer \in Buffers \cup {None}
      /\ old \in Buffers \cup {None}
  BY <1>2 DEF Deployment, Blockable, Update, Shape, Types, SurfaceRecord
<1> HIDE DEF u
<1>5. (arrives => drops) /\ leaves \in BOOLEAN /\ arrives \in BOOLEAN /\ drops \in BOOLEAN
  BY <1>4
<1>6. IsFiniteSet(Showing(x)) /\ IsFiniteSet(Blockers(x))
  BY Finite DEF Shape
<1> DEFINE k == Cardinality(Blockers(x))
<1>7. /\ gpu[x] \in BufferRecord /\ gpu[x].queued \subseteq gpu[x].owed
      /\ k \in Nat /\ gpu[x].refs >= gpu[x].currents + gpu[x].reads + k
      /\ (gpu[x].currents > 0 <=> Showing(x) # {}) /\ (gpu[x].reads > 0 <=> Holders(x) # {})
  BY Numbers
<1>8. (old = x <=> s \in Showing(x)) /\ (leaves => gpu[x].currents >= 1)
  <2>1. old = x <=> s \in Showing(x)
    BY DEF Showing
  <2>2. gpu[x].currents \in Nat
    BY <1>7 DEF BufferRecord
  <2> QED BY <1>7, <2>1, <2>2
<1>9. pt \in Ids \cup {0} /\ (leaves /\ pt # 0 => pt \in gpu[x].owed)
  BY DEF Shape, Points, Types, SurfaceRecord
<1>10. Cardinality(Blockers(x)') = k - D /\ (drops => k >= 1)
  <2>1. Cardinality(Blockers(x) \ {u.id}) = IF u.id \in Blockers(x) THEN k - 1 ELSE k
    BY <1>6, FS_RemoveElement
  <2>2. drops => k # 0
    BY <1>2, <1>6, FS_EmptySet
  <2> QED BY <1>2, <1>7, <2>1, <2>2
<1> HIDE DEF leaves, arrives, drops, pt, k
<1>11. /\ gpu'[x] \in BufferRecord /\ gpu'[x].resource = gpu[x].resource /\ gpu'[x].reads = gpu[x].reads
       /\ gpu'[x].currents = gpu[x].currents - L + A
       /\ gpu'[x].refs = gpu[x].refs - L + A - D
       /\ Passes(gpu[x], gpu'[x], gpu[x].reads > 0 \/ gpu[x].currents > L, IF leaves THEN {pt} \ {0} ELSE {}, {})
       /\ (gpu[x].given => gpu'[x].given)
  <2> DEFINE d == AfterCommit(gpu[x], leaves, arrives, drops, pt)
  <2>1. gpu[x].refs >= gpu[x].currents + gpu[x].reads + D
    <3>1. gpu[x].refs \in Nat /\ gpu[x].currents \in Nat /\ gpu[x].reads \in Nat
      BY <1>7 DEF BufferRecord
    <3> QED BY <1>5, <1>7, <1>10, <3>1
  <2>2. leaves => gpu[x].currents >= 1 /\ (pt # 0 => pt \in gpu[x].owed)
    BY <1>8, <1>9
  <2>3. pt \in Ids \cup {0}
    BY <1>9
  <2>4. Follows(gpu[x], d, leaves, arrives, drops, pt)
    BY <1>5, <1>7, <2>1, <2>2, <2>3, Applied
  <2> HIDE DEF d
  <2> QED BY <1>3, <2>4 DEF Follows, One, d
<1>12. Cardinality(Showing(x)') = gpu[x].currents - L + A
  <2>1. CASE Moves(s, u)
    <3>1. Showing(x)' = (IF leaves THEN Showing(x) \ {s} ELSE Showing(x)) \cup (IF arrives THEN {s} ELSE {})
      BY <1>1, <2>1 DEF Showing, Moves, leaves, arrives
    <3>2. (leaves => s \in Showing(x)) /\ (s \in Showing(x) => leaves)
      BY <1>8, <2>1 DEF leaves
    <3>3. Cardinality(Showing(x)') = Cardinality(Showing(x)) - L + A
      BY <1>5, <1>6, <3>1, <3>2, InAndOut
    <3> QED BY <3>3 DEF Shape, Counted
  <2>2. CASE ~Moves(s, u)
    <3>1. surface'[s].current = surface[s].current
      BY <1>1, <2>2 DEF Moves
    <3>2. Showing(x)' = Showing(x)
      BY <1>1, <3>1 DEF Showing
    <3>3. L = 0 /\ A = 0 /\ gpu[x].currents \in Nat
      BY <1>7, <2>2 DEF leaves, arrives, BufferRecord
    <3> QED BY <3>2, <3>3 DEF Shape, Counted
  <2> QED BY <2>1, <2>2
<1>13. gpu'[x].refs = gpu'[x].currents + gpu'[x].reads + (IF gpu'[x].resource THEN 1 ELSE 0) + Cardinality(Blockers(x)')
  <2>1. gpu[x].refs = gpu[x].currents + gpu[x].reads + (IF gpu[x].resource THEN 1 ELSE 0) + k
    BY DEF Shape, Counted, k
  <2>2. gpu[x].currents \in Nat /\ gpu[x].reads \in Nat /\ gpu[x].refs \in Nat
    BY <1>7 DEF BufferRecord
  <2> QED BY <1>7, <1>10, <1>11, <2>1, <2>2
<1>14. ASSUME AllHolds' = AllHolds
       PROVE  Passes(gpu[x], gpu'[x], Kept(x, M), PointsLeft(x, M), {})
  <2>1. Holders(x) # {} <=> \E h \in AllHolds' : h \in AllHolds /\ x \in h.sources
    BY <1>14 DEF Holders
  <2>2. gpu[x].currents > L <=> \E t \in Surfaces \ M : surface[t].current = x
    <3>1. CASE leaves
      <4>1. Cardinality(Showing(x) \ {s}) = gpu[x].currents - 1 /\ IsFiniteSet(Showing(x) \ {s})
        BY <1>6, <1>8, <3>1, FS_RemoveElement DEF Shape, Counted, leaves
      <4>2. Showing(x) \ {s} # {} <=> gpu[x].currents - 1 # 0
        BY <4>1, FS_EmptySet
      <4>3. Showing(x) \ {s} # {} <=> \E t \in Surfaces \ M : surface[t].current = x
        BY <3>1 DEF Showing, leaves
      <4>4. gpu[x].currents \in Nat /\ gpu[x].currents >= 1
        BY <1>7, <1>8, <3>1 DEF BufferRecord
      <4> QED BY <3>1, <4>2, <4>3, <4>4
    <3>2. CASE ~leaves
      <4>1. Showing(x) # {} <=> \E t \in Surfaces \ M : surface[t].current = x
        BY <3>2 DEF Showing, leaves
      <4> QED BY <1>7, <3>2, <4>1
    <3> QED BY <3>1, <3>2
  <2>3. (gpu[x].reads > 0 \/ gpu[x].currents > L) <=> Kept(x, M)
    BY <1>7, <2>1, <2>2 DEF Kept
  <2>4. (IF leaves THEN {pt} \ {0} ELSE {}) = PointsLeft(x, M)
    BY DEF PointsLeft, leaves, pt
  <2> HIDE DEF M
  <2>5. Passes(gpu[x], gpu'[x], gpu[x].reads > 0 \/ gpu[x].currents > L, PointsLeft(x, M), {})
    BY <1>11, <2>4
  <2> QED BY <2>3, <2>5 DEF Passes
<1> QED BY <1>11, <1>12, <1>13, <1>14 DEF u

LEMMA SkipIsQuiet ==
  ASSUME Deployment, Shape, NEW s \in Surfaces, Visit(s), ~Applies(s)
  PROVE  Shape' /\ Quiet /\ UNCHANGED host /\ UNCHANGED released
<1>1. retry' = retry \ {s} /\ UNCHANGED <<surface, gpu, window, nextId, rendered, presented, host, released>>
  BY DEF Visit, Applies
<1>2. Types'
  BY <1>1 DEF Shape, Types
<1>3. Quiet
  BY <1>1 DEF Quiet, Shape, Types, Ids
<1>4. Fresh'
  BY <1>1 DEF Shape, Fresh, UsedIds, AllHolds
<1>5. nextId' + Cardinality(AllBlocked) <= MaxId
  BY <1>1 DEF Shape, Numbered
<1> QED BY <1>1, <1>2, <1>3, <1>4, <1>5, QuietShape

LEMMA VisitShape ==
  ASSUME Deployment, Shape, NEW s \in Surfaces, Applies(s)
  PROVE  LET M == IF Moves(s, Head(surface[s].blocked)) THEN {s} ELSE {}
         IN  Shape' /\ Passing(M, {}) /\ Generous /\ AllHolds' = AllHolds /\ UNCHANGED <<host, released>>
<1> DEFINE u == Head(surface[s].blocked)
           root == RootOf[s]
           dirty == window[root].scene # 0
           scene == IF dirty THEN window[root].scene ELSE nextId + 1
           M == IF Moves(s, u) THEN {s} ELSE {}
<1>1. /\ window' = IF Queues(s, u) THEN [window EXCEPT ![root].scene = scene] ELSE window
      /\ nextId' = IF Queues(s, u) /\ ~dirty THEN nextId + 1 ELSE nextId
      /\ presented' = IF Queues(s, u) \/ ~session THEN presented ELSE presented \cup {u.id}
      /\ rendered' = rendered \ {u.id}
      /\ UNCHANGED <<retry, host, released>>
  BY DEF Applies, Visit
<1>2. root \in Roots /\ window \in [Roots -> WindowRecord] /\ window[root].scene \in Ids \cup {0}
  <2>1. root \in Roots
    BY DEF Roots
  <2> QED BY <2>1 DEF Shape, Types, WindowRecord
<1>3. /\ surface'[s].blocked = Tail(surface[s].blocked)
      /\ surface' = [surface EXCEPT ![s] = surface'[s]] /\ surface'[s] \in SurfaceRecord
      /\ \A t \in Surfaces \ {s} : surface'[t] = surface[t]
  BY VisitSurface
<1>4. surface'[s].current = IF u.kind \in {"attach", "detach"} THEN u.buffer ELSE surface[s].current
  BY VisitSurface
<1>5. surface'[s].point = IF u.kind \in {"attach", "detach"} /\ ~(u.kind = "attach" /\ Point(u) = 0 /\ u.buffer = surface[s].current)
                          THEN Point(u) ELSE surface[s].point
  BY VisitSurface
<1>6. /\ u \in Blockable /\ u.id \in AllBlocked /\ AllBlocked' = AllBlocked \ {u.id}
      /\ \A b \in Buffers : /\ Blockers(b)' = Blockers(b) \ {u.id}
                            /\ u.id \in Blockers(b) <=> u.kind = "attach" /\ u.buffer = b
  BY <1>3, PopQueue DEF Applies, Shape
<1>7. /\ \A t \in Surfaces : NoTwice(surface'[t].blocked)
      /\ \A r, t \in Surfaces : r # t => BlockedIds(r)' \cap BlockedIds(t)' = {}
  BY <1>3, PopQueue DEF Applies, Shape
<1> DEFINE c == Cardinality(AllBlocked)
<1>8. c \in Nat /\ c # 0 /\ Cardinality(AllBlocked') = c - 1
  <2>1. IsFiniteSet(AllBlocked)
    BY Finite DEF Shape
  <2>2. u.id \in AllBlocked /\ AllBlocked' = AllBlocked \ {u.id}
    BY <1>6
  <2> HIDE DEF u
  <2>3. c \in Nat
    BY <2>1, FS_CardinalityType
  <2>4. Cardinality(AllBlocked \ {u.id}) = c - 1
    BY <2>1, <2>2, FS_RemoveElement
  <2>5. c # 0
    BY <2>1, <2>2, FS_EmptySet
  <2> QED BY <2>2, <2>3, <2>4, <2>5
<1> HIDE DEF c, u
<1>9. nextId \in Int /\ nextId >= 0 /\ MaxId \in Int /\ nextId + c <= MaxId
  BY DEF Shape, Types, Ids, Numbered, Deployment, c
<1>10. nextId + 1 \in Ids /\ scene \in Ids
  <2>1. nextId + 1 \in Ids
    BY <1>8, <1>9 DEF Ids
  <2> QED BY <1>2, <2>1
<1> HIDE DEF root
<1>11. nextId' \in Ids \cup {0} /\ nextId' \in Int /\ nextId <= nextId' /\ nextId' <= nextId + 1
  <2>1. nextId \in Ids \cup {0}
    BY DEF Shape, Types
  <2> QED BY <1>1, <1>9, <1>10, <2>1
<1> HIDE DEF scene
<1>12. window' \in [Roots -> WindowRecord] /\ \A r \in Roots : window'[r].holds = window[r].holds
  BY <1>1, <1>2, <1>10 DEF WindowRecord
<1>13. AllHolds' = AllHolds
  BY <1>12 DEF AllHolds
<1>14. ASSUME NEW x \in Buffers
       PROVE  /\ gpu'[x] \in BufferRecord
              /\ gpu'[x].currents = Cardinality(Showing(x)') /\ gpu'[x].reads = gpu[x].reads
              /\ gpu'[x].refs = gpu'[x].currents + gpu'[x].reads + (IF gpu'[x].resource THEN 1 ELSE 0)
                                + Cardinality(Blockers(x)')
              /\ Passes(gpu[x], gpu'[x], Kept(x, M), PointsLeft(x, M), {})
              /\ (gpu[x].given => gpu'[x].given)
  BY <1>13, VisitCounts DEF u
<1>15. gpu' \in [Buffers -> BufferRecord]
  <2>1. gpu' = [x \in Buffers |-> gpu'[x]]
    <3>1. LET after == IF u.kind \in {"attach", "detach"} THEN SetCurrent(gpu, s, u.buffer, Point(u)) ELSE gpu
          IN  gpu' = IF u.kind = "attach" THEN [after EXCEPT ![u.buffer] = Unref(@)] ELSE after
      BY DEF Applies, Visit, u
    <3>2. gpu = [x \in Buffers |-> gpu[x]]
      BY DEF Shape, Types
    <3> QED BY <3>1, <3>2 DEF SetCurrent
  <2> QED BY <1>14, <2>1
<1>16. Types'
  <2>1. surface' \in [Surfaces -> SurfaceRecord]
    BY <1>3 DEF Shape, Types
  <2>2. u.id \in Ids
    BY <1>6 DEF Blockable, Update
  <2>3. retry' \subseteq Surfaces /\ rendered' \subseteq Ids /\ host' \in [Ids -> SceneRecord]
        /\ released' \subseteq Ids /\ presented' \subseteq Ids
    BY <1>1, <2>2 DEF Shape, Types
  <2> QED BY <1>11, <1>12, <1>15, <2>1, <2>3 DEF Types
<1>17. Numbered'
  <2>1. nextId' + Cardinality(AllBlocked') <= MaxId
    <3> DEFINE d == Cardinality(AllBlocked')
    <3>1. d \in Int /\ d = c - 1
      BY <1>8
    <3> HIDE DEF d
    <3>2. nextId' \in Int /\ nextId' <= nextId + 1
      BY <1>11
    <3>3. nextId \in Int /\ c \in Int /\ MaxId \in Int /\ nextId + c <= MaxId
      BY <1>8, <1>9
    <3>4. \A n, k \in Int : n <= nextId + 1 /\ k = c - 1 => n + k <= MaxId
      BY <3>3
    <3>5. nextId' + d <= MaxId
      BY <3>1, <3>2, <3>4
    <3> QED BY <3>5 DEF d
  <2>2. \A i \in AllBlocked : i \in Int /\ i <= nextId
    BY Finite DEF Shape, Numbered, Ids
  <2>3. \A i \in AllBlocked' : i <= nextId'
    BY <1>6, <1>9, <1>11, <2>2
  <2> QED BY <1>7, <2>1, <2>3 DEF Numbered
<1>18. Fresh'
  <2>1. UsedIds' = UsedIds
    BY <1>1, <1>13 DEF UsedIds
  <2>2. Types /\ Fresh
    BY DEF Shape
  <2>3. CASE Queues(s, u) /\ ~dirty
    <3>1. scene = nextId + 1
      BY <2>3 DEF scene
    <3>2. window'[root].scene = nextId + 1 /\ \A r \in Roots \ {root} : window'[r].scene = window[r].scene
      BY <1>1, <1>2, <2>3, <3>1 DEF WindowRecord
    <3> QED BY <1>1, <1>2, <1>9, <1>16, <2>1, <2>2, <2>3, <3>2, FreshGains
  <2>4. CASE ~(Queues(s, u) /\ ~dirty)
    <3>1. \A r \in Roots : window'[r].scene = window[r].scene
      <4>1. Queues(s, u) => scene = window[root].scene
        BY <2>4 DEF scene
      <4> QED BY <1>1, <1>2, <4>1 DEF WindowRecord
    <3> QED BY <1>11, <1>16, <2>1, <2>2, <3>1, FreshStays
  <2> QED BY <2>3, <2>4
<1>19. Apart'
  BY <1>12, <1>13 DEF Shape, Apart
<1>20. Counted'
  <2>1. \A x \in Buffers : Holders(x)' = Holders(x)
    BY <1>13 DEF Holders
  <2>2. \A x \in Buffers : gpu'[x].reads = Cardinality(Holders(x)')
    BY <1>14, <2>1 DEF Shape, Counted
  <2> QED BY <1>14, <2>2 DEF Counted
<1>21. Passing(M, {})
  <2>1. \A t \in Surfaces \ M : surface'[t].current = surface[t].current /\ surface'[t].point = surface[t].point
    <3>1. u.buffer \in Buffers \cup {None} /\ (u.kind = "attach" <=> u.buffer \in Buffers)
      BY <1>6 DEF Blockable, Update
    <3> QED BY <1>3, <1>4, <1>5, <3>1 DEF Moves
  <2>2. \A t \in M, b \in Buffers : surface'[t].current = b => \E i \in Blockers(b) \ {} : i \notin Blockers(b)'
    <3> SUFFICES ASSUME NEW b \in Buffers, Moves(s, u), surface'[s].current = b
                 PROVE  u.id \in Blockers(b) /\ u.id \notin Blockers(b)'
      OBVIOUS
    <3>1. u.buffer = b /\ u.kind = "attach"
      BY <1>4, <1>6 DEF Moves, Blockable
    <3> QED BY <1>6, <3>1
  <2>3. \A b \in Buffers : Blockers(b)' \subseteq Blockers(b)
    BY <1>6
  <2>4. \A b \in Buffers : Passes(gpu[b], gpu'[b], Kept(b, M), PointsLeft(b, M), {} \cap Blockers(b))
    BY <1>14
  <2> HIDE DEF M
  <2> QED BY <1>6, <1>11, <1>13, <2>1, <2>2, <2>3, <2>4 DEF Passing
<1>22. Points'
  <2>1. ASSUME Moves(s, u), u.kind = "attach", u.buffer \in Explicit
        PROVE  /\ surface'[s].current = u.buffer /\ u.buffer \in Buffers /\ surface'[s].point = u.id
               /\ u.id \in gpu'[u.buffer].owed /\ u.id \notin AllBlocked' /\ u.id # 0
    <3> DEFINE b == u.buffer
    <3>1. b \in Buffers /\ u.id \in Ids
      BY <1>6, <2>1 DEF Blockable, Update
    <3>2. u.id \in Blockers(b)
      BY <1>6, <2>1, <3>1
    <3>3. Point(u) = u.id /\ u.id # 0
      BY <2>1, <3>1 DEF Point, Ids
    <3>4. surface'[s].current = b /\ surface'[s].point = u.id
      BY <1>4, <1>5, <2>1, <3>3
    <3>5. u.id \in gpu[b].owed /\ u.id \notin gpu[b].queued
      BY <1>6, <2>1, <3>1, <3>2 DEF Shape, Points
    <3>6. u.id \notin PointsLeft(b, M)
      <4>1. \A t \in Surfaces : surface[t].point # 0 => surface[t].point # u.id
        BY <1>6 DEF Shape, Points
      <4> QED BY <4>1 DEF PointsLeft
    <3>7. u.id \in gpu'[b].owed
      <4> HIDE DEF M, b
      <4>1. Passes(gpu[b], gpu'[b], Kept(b, M), PointsLeft(b, M), {})
        BY <1>14, <3>1
      <4> QED BY <3>5, <3>6, <4>1 DEF Passes
    <3> QED BY <1>6, <3>1, <3>3, <3>4, <3>7
  <2>2. Moves(s, u) /\ surface'[s].point # 0 => u.kind = "attach" /\ u.buffer \in Explicit
    <3>1. u.kind = "attach" => u.buffer # None
      BY <1>6 DEF Blockable, Update, Deployment
    <3> QED BY <1>5, <3>1 DEF Moves, Point
  <2>3. Moves(s, u) /\ surface'[s].current \in Buffers => u.kind = "attach" /\ surface'[s].current = u.buffer
    BY <1>4, <1>6 DEF Moves, Blockable
  <2>4. \A t \in M : surface'[t].point # 0 =>
           /\ surface'[t].current \in Buffers /\ surface'[t].point \in gpu'[surface'[t].current].owed
           /\ surface'[t].point \notin AllBlocked'
    BY <2>1, <2>2
  <2>5. \A t \in M : surface'[t].current \in Buffers \cap Explicit => surface'[t].point # 0
    BY <2>1, <2>3
  <2>6. M \in SUBSET Surfaces
    OBVIOUS
  <2> HIDE DEF M
  <2> QED BY <1>16, <1>21, <2>4, <2>5, <2>6, PointsPass
<1> HIDE DEF M
<1>23. Shape'
  BY <1>16, <1>17, <1>18, <1>19, <1>20, <1>22 DEF Shape
<1>24. Generous
  BY <1>14 DEF Generous
<1> QED BY <1>1, <1>13, <1>21, <1>23, <1>24 DEF M, u

---------------------------------------------------------------------------
\* A client commits.

LEMMA AppendQueue ==
  ASSUME Types, Numbered, NEW s \in Surfaces, NEW u \in Blockable, u.id \notin AllBlocked,
         surface'[s].blocked = Append(surface[s].blocked, u),
         \A t \in Surfaces \ {s} : surface'[t].blocked = surface[t].blocked
  PROVE  /\ surface'[s].blocked \in Seq(Blockable)
         /\ AllBlocked' = AllBlocked \cup {u.id}
         /\ \A b \in Buffers : Blockers(b)' = Blockers(b) \cup (IF u.kind = "attach" /\ u.buffer = b THEN {u.id} ELSE {})
         /\ \A t \in Surfaces : NoTwice(surface'[t].blocked)
         /\ \A r, t \in Surfaces : r # t => BlockedIds(r)' \cap BlockedIds(t)' = {}
<1> DEFINE q == surface[s].blocked
           New(b) == IF u.kind = "attach" /\ u.buffer = b THEN {u.id} ELSE {}
<1>1. q \in Seq(Blockable) /\ NoTwice(q)
  BY DEF Types, SurfaceRecord, Numbered
<1>2. BlockedIds(s) = IdsIn(q) /\ BlockedIds(s)' = IdsIn(Append(q, u))
  BY DEF BlockedIds, IdsIn
<1>3. \A t \in Surfaces : u.id \notin BlockedIds(t)
  BY DEF AllBlocked
<1>4. /\ Append(q, u) \in Seq(Blockable) /\ NoTwice(Append(q, u))
      /\ IdsIn(Append(q, u)) = IdsIn(q) \cup {u.id}
      /\ \A b \in Buffers : AttachesIn(Append(q, u), b) = AttachesIn(q, b) \cup New(b)
  BY <1>1, <1>2, <1>3, Appended
<1>5. \A b \in Buffers : Attached(s, b) = AttachesIn(q, b) /\ Attached(s, b)' = AttachesIn(Append(q, u), b)
  BY DEF Attached, AttachesIn
<1>6. \A t \in Surfaces \ {s} : BlockedIds(t)' = BlockedIds(t) /\ (\A b \in Buffers : Attached(t, b)' = Attached(t, b))
  BY DEF BlockedIds, Attached
<1> HIDE DEF q, New
<1>7. AllBlocked' = AllBlocked \cup {u.id}
  BY <1>2, <1>4, <1>6 DEF AllBlocked
<1>8. \A b \in Buffers : Blockers(b)' = Blockers(b) \cup New(b)
  BY <1>4, <1>5, <1>6 DEF Blockers
<1>9. \A t \in Surfaces : NoTwice(surface'[t].blocked)
  BY <1>4 DEF q, Numbered
<1>10. \A r, t \in Surfaces : r # t => BlockedIds(r)' \cap BlockedIds(t)' = {}
  BY <1>2, <1>3, <1>4, <1>6 DEF Numbered
<1> QED BY <1>4, <1>7, <1>8, <1>9, <1>10 DEF q, New

\* What a commit does to a buffer.
Handed(g, id, b) == [g EXCEPT !.refs = g.refs + 1, !.given = FALSE,
                              !.owed = IF b \in Explicit THEN g.owed \cup {id} ELSE g.owed]

LEMMA Hands ==
  ASSUME NEW g \in BufferRecord, NEW id \in Ids, NEW b \in Buffers
  PROVE  /\ Handed(g, id, b) \in BufferRecord
         /\ Handed(g, id, b).currents = g.currents /\ Handed(g, id, b).reads = g.reads
         /\ Handed(g, id, b).refs = g.refs + 1 /\ Handed(g, id, b).resource = g.resource
         /\ Handed(g, id, b).queued = g.queued /\ ~Handed(g, id, b).given
         /\ Handed(g, id, b).owed = g.owed \cup (IF b \in Explicit THEN {id} ELSE {})
<1> DEFINE o == IF b \in Explicit THEN g.owed \cup {id} ELSE g.owed
<1>1. g.refs + 1 \in Nat /\ o \in SUBSET Ids /\ o = g.owed \cup (IF b \in Explicit THEN {id} ELSE {})
  BY DEF BufferRecord
<1>2. Handed(g, id, b) = [g EXCEPT !.refs = g.refs + 1, !.given = FALSE, !.owed = o]
  BY DEF Handed
<1> HIDE DEF o
<1>3. Handed(g, id, b) \in BufferRecord
  BY <1>1, <1>2 DEF BufferRecord
<1>4. /\ Handed(g, id, b).currents = g.currents /\ Handed(g, id, b).reads = g.reads
      /\ Handed(g, id, b).refs = g.refs + 1 /\ Handed(g, id, b).resource = g.resource
  BY <1>1, <1>2 DEF BufferRecord
<1>5. Handed(g, id, b).queued = g.queued /\ Handed(g, id, b).given = FALSE /\ Handed(g, id, b).owed = o
  BY <1>2 DEF BufferRecord
<1> QED BY <1>1, <1>3, <1>4, <1>5

LEMMA CommitShape ==
  ASSUME Deployment, Shape, NEW s \in Surfaces, NEW kind \in {"attach", "detach", "redraw", "state"},
         NEW b \in Buffers \cup {None}, NEW sets \in BOOLEAN, NEW waits \in BOOLEAN, NEW ready \in BOOLEAN,
         Commit(s, kind, b, sets, waits, ready)
  PROVE  /\ Shape' /\ AllHolds' = AllHolds /\ UNCHANGED <<host, released>>
         /\ AllBlocked' = AllBlocked \cup {nextId + 1} /\ nextId + 1 \in Ids
         /\ \A x \in Buffers : gpu'[x] = IF kind = "attach" /\ x = b THEN Handed(gpu[x], nextId + 1, x) ELSE gpu[x]
         /\ \A x \in Buffers : Blockers(x)' = Blockers(x) \cup (IF kind = "attach" /\ b = x THEN {nextId + 1} ELSE {})
         /\ \A t \in Surfaces : surface'[t].current = surface[t].current
<1> DEFINE id == nextId + 1
           u == [kind |-> kind, buffer |-> b, id |-> id, sets |-> sets, waits |-> waits]
           c == Cardinality(AllBlocked)
<1>1. /\ nextId' = id /\ nextId + 2 + c <= MaxId
      /\ surface' = [surface EXCEPT ![s].blocked = Append(@, u), ![s].callbacks = @ \cup {id}]
      /\ gpu' = IF kind # "attach" THEN gpu
                ELSE [gpu EXCEPT ![b].refs = @ + 1, ![b].given = FALSE,
                                 ![b].owed = IF b \in Explicit THEN @ \cup {id} ELSE @]
      /\ rendered' = (IF ready THEN rendered \cup {id} ELSE rendered)
      /\ retry' = (IF surface[s].blocked = <<>> THEN {s} ELSE {})
      /\ UNCHANGED <<window, host, released, presented>>
  BY DEF Commit, IdsLeft, hostVars
<1>2. kind = "attach" <=> b \in Buffers
  BY DEF Commit, Deployment
<1>3. IsFiniteSet(AllBlocked) /\ AllBlocked \subseteq Ids /\ c \in Nat
  BY Finite, FS_CardinalityType DEF Shape
<1> HIDE DEF c
<1>4. nextId \in Int /\ nextId >= 0 /\ MaxId \in Int
  BY DEF Shape, Types, Ids, Deployment
<1>5. id \in Ids /\ id \in Int /\ id > nextId /\ id <= MaxId
  BY <1>1, <1>3, <1>4 DEF Ids
<1>6. id \notin AllBlocked
  <2>1. \A i \in AllBlocked : i \in Int /\ i <= nextId
    BY <1>3 DEF Ids, Shape, Numbered
  <2> QED BY <1>4, <1>5, <2>1
<1> HIDE DEF id
<1>7. u \in Blockable
  BY <1>2, <1>5 DEF Blockable, Update
<1>8. u.id = id /\ u.kind = kind /\ u.buffer = b
  OBVIOUS
<1> HIDE DEF u
<1>9. /\ surface[s] \in SurfaceRecord /\ surface \in [Surfaces -> SurfaceRecord] /\ gpu \in [Buffers -> BufferRecord]
  BY DEF Shape, Types
<1>10. /\ surface'[s].blocked = Append(surface[s].blocked, u)
       /\ surface'[s].callbacks = surface[s].callbacks \cup {id}
       /\ surface'[s].current = surface[s].current /\ surface'[s].point = surface[s].point
       /\ surface'[s] = [surface[s] EXCEPT !.blocked = Append(surface[s].blocked, u),
                                           !.callbacks = surface[s].callbacks \cup {id}]
       /\ \A t \in Surfaces \ {s} : surface'[t] = surface[t]
  BY <1>1, <1>9 DEF SurfaceRecord
<1>11. /\ surface'[s].blocked \in Seq(Blockable)
       /\ AllBlocked' = AllBlocked \cup {id}
       /\ \A x \in Buffers : Blockers(x)' = Blockers(x) \cup (IF kind = "attach" /\ b = x THEN {id} ELSE {})
       /\ \A t \in Surfaces : NoTwice(surface'[t].blocked)
       /\ \A r, t \in Surfaces : r # t => BlockedIds(r)' \cap BlockedIds(t)' = {}
  <2>1. Types /\ Numbered /\ u.id \notin AllBlocked /\ \A t \in Surfaces \ {s} : surface'[t].blocked = surface[t].blocked
    BY <1>6, <1>8, <1>10 DEF Shape
  <2>2. /\ surface'[s].blocked \in Seq(Blockable)
        /\ AllBlocked' = AllBlocked \cup {u.id}
        /\ \A x \in Buffers : Blockers(x)' = Blockers(x) \cup (IF u.kind = "attach" /\ u.buffer = x THEN {u.id} ELSE {})
        /\ \A t \in Surfaces : NoTwice(surface'[t].blocked)
        /\ \A r, t \in Surfaces : r # t => BlockedIds(r)' \cap BlockedIds(t)' = {}
    BY <1>7, <1>10, <2>1, AppendQueue
  <2> QED BY <1>8, <2>2
<1>12. ASSUME NEW x \in Buffers
       PROVE  gpu'[x] = IF kind = "attach" /\ x = b THEN Handed(gpu[x], id, x) ELSE gpu[x]
  <2>1. CASE kind = "attach" /\ x = b
    <3>1. gpu[b] \in BufferRecord /\ b \in DOMAIN gpu
      BY <1>2, <1>9, <2>1
    <3>2. gpu' = [gpu EXCEPT ![b].refs = gpu[b].refs + 1, ![b].given = FALSE,
                             ![b].owed = IF b \in Explicit THEN gpu[b].owed \cup {id} ELSE gpu[b].owed]
      BY <1>1, <2>1
    <3>3. gpu'[b] = Handed(gpu[b], id, b)
      BY <3>1, <3>2 DEF Handed, BufferRecord
    <3> QED BY <2>1, <3>3
  <2>2. CASE ~(kind = "attach" /\ x = b)
    BY <1>1, <1>9, <2>2
  <2> QED BY <2>1, <2>2
<1>13. ASSUME NEW x \in Buffers
       PROVE  LET mine == kind = "attach" /\ x = b IN
              /\ gpu'[x] \in BufferRecord
              /\ gpu'[x].currents = gpu[x].currents /\ gpu'[x].reads = gpu[x].reads
              /\ gpu'[x].refs = gpu[x].refs + One(mine) /\ gpu'[x].resource = gpu[x].resource
              /\ gpu'[x].queued = gpu[x].queued
              /\ gpu'[x].owed = gpu[x].owed \cup (IF mine /\ x \in Explicit THEN {id} ELSE {})
  <2>1. CASE kind = "attach" /\ x = b
    BY <1>5, <1>9, <1>12, <2>1, Hands DEF One
  <2>2. CASE ~(kind = "attach" /\ x = b)
    BY <1>9, <1>12, <2>2 DEF One, BufferRecord
  <2> QED BY <2>1, <2>2
<1>14. AllHolds' = AllHolds /\ UsedIds' = UsedIds
  <2>1. AllHolds' = AllHolds
    BY <1>1 DEF AllHolds
  <2> QED BY <1>1, <2>1 DEF UsedIds
<1>15. \A t \in Surfaces : surface'[t].current = surface[t].current /\ surface'[t].point = surface[t].point
  BY <1>10
<1>16. Types'
  <2>1. surface'[s] \in SurfaceRecord
    <3>1. surface[s].callbacks \cup {id} \subseteq Ids
      BY <1>5, <1>9 DEF SurfaceRecord
    <3> QED BY <1>9, <1>10, <1>11, <3>1 DEF SurfaceRecord
  <2>2. surface' \in [Surfaces -> SurfaceRecord]
    <3>1. surface' = [t \in Surfaces |-> surface'[t]]
      BY <1>1, <1>9
    <3> QED BY <1>9, <1>10, <2>1, <3>1
  <2>3. gpu' \in [Buffers -> BufferRecord]
    <3>1. gpu' = [x \in Buffers |-> gpu'[x]]
      BY <1>1, <1>9
    <3> QED BY <1>13, <3>1
  <2>4. nextId' \in Ids \cup {0} /\ rendered' \subseteq Ids /\ retry' \subseteq Surfaces
    BY <1>1, <1>5 DEF Shape, Types
  <2> QED BY <1>1, <2>2, <2>3, <2>4 DEF Shape, Types
<1>17. Numbered'
  <2>1. Cardinality(AllBlocked \cup {id}) = c + 1
    BY <1>3, <1>6, FS_AddElement DEF c
  <2>2. nextId' + Cardinality(AllBlocked') <= MaxId
    <3>1. nextId + 1 + (c + 1) <= MaxId
      BY <1>1, <1>3, <1>4
    <3>2. nextId' = nextId + 1 /\ Cardinality(AllBlocked') = c + 1
      BY <1>1, <1>11, <2>1 DEF id
    <3> QED BY <3>1, <3>2
  <2>3. \A i \in AllBlocked : i \in Int /\ i <= nextId
    BY <1>3 DEF Ids, Shape, Numbered
  <2>4. \A i \in AllBlocked' : i <= nextId'
    BY <1>1, <1>4, <1>5, <1>11, <2>3
  <2> QED BY <1>11, <2>2, <2>4 DEF Numbered
<1>18. Fresh'
  <2>1. nextId <= nextId'
    BY <1>1, <1>4, <1>5
  <2> QED BY <1>1, <1>14, <1>16, <2>1, FreshStays DEF Shape
<1>19. Apart'
  BY <1>1, <1>14 DEF Shape, Apart
<1>20. Counted'
  <2> SUFFICES ASSUME NEW x \in Buffers
               PROVE  /\ gpu'[x].currents = Cardinality(Showing(x)') /\ gpu'[x].reads = Cardinality(Holders(x)')
                      /\ gpu'[x].refs = gpu'[x].currents + gpu'[x].reads + (IF gpu'[x].resource THEN 1 ELSE 0)
                                        + Cardinality(Blockers(x)')
    BY DEF Counted
  <2> DEFINE mine == kind = "attach" /\ x = b
  <2>1. Showing(x)' = Showing(x) /\ Holders(x)' = Holders(x)
    BY <1>14, <1>15 DEF Showing, Holders
  <2>2. /\ gpu[x].currents \in Nat /\ gpu[x].reads \in Nat /\ gpu[x].refs \in Nat
    BY <1>9 DEF BufferRecord
  <2>3. IsFiniteSet(Blockers(x)) /\ id \notin Blockers(x) /\ Cardinality(Blockers(x)) \in Nat
    BY <1>6, Finite, FS_CardinalityType DEF Shape
  <2>4. Cardinality(Blockers(x) \cup {id}) = Cardinality(Blockers(x)) + 1
    BY <2>3, FS_AddElement
  <2>5. Cardinality(Blockers(x)') = Cardinality(Blockers(x)) + One(mine)
    <3>1. Blockers(x)' = Blockers(x) \cup (IF mine THEN {id} ELSE {})
      BY <1>11
    <3>2. CASE mine
      <4>1. Blockers(x)' = Blockers(x) \cup {id}
        BY <3>1, <3>2
      <4> QED BY <2>4, <3>2, <4>1 DEF One
    <3>3. CASE ~mine
      <4>1. Blockers(x)' = Blockers(x)
        BY <3>1, <3>3
      <4> QED BY <2>3, <3>3, <4>1 DEF One
    <3> QED BY <3>2, <3>3
  <2>6. /\ gpu'[x].currents = gpu[x].currents /\ gpu'[x].reads = gpu[x].reads
        /\ gpu'[x].refs = gpu[x].refs + One(mine) /\ gpu'[x].resource = gpu[x].resource
    BY <1>13
  <2>7. One(mine) \in Nat
    BY DEF One
  <2> HIDE DEF mine
  <2>8. /\ gpu[x].currents = Cardinality(Showing(x)) /\ gpu[x].reads = Cardinality(Holders(x))
        /\ gpu[x].refs = gpu[x].currents + gpu[x].reads + (IF gpu[x].resource THEN 1 ELSE 0)
                         + Cardinality(Blockers(x))
    BY DEF Shape, Counted
  <2> QED BY <2>1, <2>2, <2>3, <2>5, <2>6, <2>7, <2>8
<1>21. Points'
  <2>1. ASSUME NEW x \in Buffers
        PROVE  id \notin gpu[x].owed /\ \A p \in gpu[x].owed : p \in Int /\ p <= nextId
    <3>1. \A p \in gpu[x].owed : p \in Int /\ p <= nextId
      BY <1>9 DEF Shape, Points, Ids, BufferRecord
    <3> QED BY <1>4, <1>5, <3>1
  <2>2. ASSUME NEW x \in Buffers
        PROVE  /\ gpu'[x].queued \subseteq gpu'[x].owed /\ gpu'[x].queued \cap AllBlocked' = {}
               /\ \A p \in gpu'[x].owed : p <= nextId'
               /\ x \in Explicit => Blockers(x)' \subseteq gpu'[x].owed
    <3>1. gpu[x].queued \subseteq gpu[x].owed /\ gpu[x].queued \cap AllBlocked = {}
      BY DEF Shape, Points
    <3>2. /\ gpu'[x].queued = gpu[x].queued /\ gpu[x].owed \subseteq gpu'[x].owed
          /\ gpu'[x].owed \subseteq gpu[x].owed \cup {id}
          /\ (kind = "attach" /\ x = b /\ x \in Explicit => id \in gpu'[x].owed)
      BY <1>13
    <3>3. gpu'[x].queued \subseteq gpu'[x].owed /\ gpu'[x].queued \cap AllBlocked' = {}
      BY <1>11, <2>1, <3>1, <3>2
    <3>4. \A p \in gpu'[x].owed : p <= nextId'
      <4> SUFFICES ASSUME NEW p \in gpu'[x].owed
                   PROVE  p <= nextId'
        OBVIOUS
      <4>1. (p \in Int /\ p <= nextId) \/ p = id
        BY <2>1, <3>2
      <4>2. nextId' = id
        BY <1>1
      <4> QED BY <1>4, <1>5, <4>1, <4>2
    <3>5. x \in Explicit => Blockers(x)' \subseteq gpu'[x].owed
      BY <1>11, <3>2 DEF Shape, Points
    <3> QED BY <3>3, <3>4, <3>5
  <2>3. ASSUME NEW t \in Surfaces, surface'[t].point # 0
        PROVE  /\ surface'[t].current # None /\ surface'[t].point \in gpu'[surface'[t].current].owed
               /\ surface'[t].point \notin AllBlocked'
    <3> DEFINE x == surface[t].current
    <3>1. x # None /\ surface[t].point \in gpu[x].owed /\ surface[t].point \notin AllBlocked
      BY <1>15, <2>3 DEF Shape, Points
    <3>2. x \in Buffers
      BY <1>9, <3>1 DEF SurfaceRecord
    <3> HIDE DEF x
    <3>3. surface[t].point # id /\ gpu[x].owed \subseteq gpu'[x].owed
      BY <1>13, <2>1, <3>1, <3>2
    <3> QED BY <1>11, <1>15, <3>1, <3>3 DEF x
  <2>4. \A t \in Surfaces : surface'[t].current \in Buffers \cap Explicit => surface'[t].point # 0
    BY <1>15 DEF Shape, Points
  <2> QED BY <2>2, <2>3, <2>4 DEF Points
<1> QED BY <1>1, <1>5, <1>11, <1>12, <1>14, <1>15, <1>16, <1>17, <1>18, <1>19, <1>20, <1>21 DEF Shape, id

---------------------------------------------------------------------------
\* A scene takes holds, and gives them up.

LEMMA AdmitShape ==
  ASSUME Deployment, Shape, NEW root \in Roots, Admit(root)
  PROVE  LET id == window[root].scene
             hold == [id |-> id, sources |-> Sources(Layers(root))]
         IN  /\ Shape' /\ AllHolds' = AllHolds \cup {hold} /\ AllBlocked' = AllBlocked
             /\ id \in Ids /\ id \notin UsedIds /\ Layers(root) \subseteq Buffers \X (Ids \cup {0})
             /\ \A b \in Buffers : /\ gpu'[b].owed = gpu[b].owed /\ gpu'[b].given = gpu[b].given
                                   /\ gpu'[b].resource = gpu[b].resource
<1> DEFINE id == window[root].scene
           S == Sources(Layers(root))
           hold == [id |-> id, sources |-> S]
<1>1. /\ id # 0 /\ gpu' = HoldSources(gpu, root)
      /\ window' = [window EXCEPT ![root] = [scene |-> 0, holds |-> @.holds \cup {hold}]]
      /\ host' = [host EXCEPT ![id] = [at |-> "lane", layers |-> Layers(root), latches |-> {id}, root |-> root]]
      /\ UNCHANGED <<surface, nextId, retry, rendered, released, presented>>
  BY DEF Admit
<1>2. /\ surface \in [Surfaces -> SurfaceRecord] /\ gpu \in [Buffers -> BufferRecord]
      /\ window \in [Roots -> WindowRecord] /\ window[root] \in WindowRecord
      /\ host \in [Ids -> SceneRecord]
  BY DEF Shape, Types
<1>3. id \in Ids /\ id \notin UsedIds
  BY <1>1, <1>2 DEF WindowRecord, Shape, Fresh
<1>4. Layers(root) \subseteq Buffers \X (Ids \cup {0})
  <2>1. \A t \in Surfaces : surface[t].current # None => surface[t].current \in Buffers /\ surface[t].point \in Ids \cup {0}
    BY <1>2 DEF SurfaceRecord
  <2> QED BY <2>1 DEF Layers, Members, Alive, HasContent
<1>5. S \subseteq Buffers
  BY <1>4 DEF Sources
<1> DEFINE layers == Layers(root)
<1> HIDE DEF S, id, layers
<1>6. hold \in HoldRecord /\ hold.id = id /\ hold.sources = S
  BY <1>3, <1>5 DEF HoldRecord
<1> HIDE DEF hold
<1>7. hold \notin AllHolds
  BY <1>3, <1>6 DEF UsedIds
<1>8. /\ window'[root].scene = 0 /\ window'[root].holds = window[root].holds \cup {hold}
      /\ \A r \in Roots \ {root} : window'[r] = window[r]
      /\ window' \in [Roots -> WindowRecord]
  <2>1. /\ window'[root] = [scene |-> 0, holds |-> window[root].holds \cup {hold}]
        /\ \A r \in Roots \ {root} : window'[r] = window[r]
        /\ window' = [window EXCEPT ![root] = window'[root]]
    BY <1>1, <1>2
  <2>2. window'[root] \in WindowRecord
    BY <1>2, <1>6, <2>1 DEF WindowRecord
  <2> QED BY <1>2, <2>1, <2>2
<1>9. AllHolds' = AllHolds \cup {hold}
  BY <1>8 DEF AllHolds
<1>10. ASSUME NEW b \in Buffers
       PROVE  /\ gpu'[b] \in BufferRecord /\ gpu'[b].currents = gpu[b].currents
              /\ gpu'[b].reads = gpu[b].reads + One(b \in S) /\ gpu'[b].refs = gpu[b].refs + One(b \in S)
              /\ gpu'[b].resource = gpu[b].resource /\ gpu'[b].owed = gpu[b].owed
              /\ gpu'[b].queued = gpu[b].queued /\ gpu'[b].given = gpu[b].given
  <2>1. gpu'[b] = IF b \in S THEN AcquireRead(gpu[b]) ELSE gpu[b]
    BY <1>1 DEF HoldSources, S
  <2>2. gpu[b] \in BufferRecord
    BY <1>2
  <2>3. gpu[b].reads + 0 = gpu[b].reads /\ gpu[b].refs + 0 = gpu[b].refs
    BY <2>2 DEF BufferRecord
  <2>4. CASE b \in S
    BY <2>1, <2>2, <2>4, Acquires DEF One
  <2>5. CASE b \notin S
    BY <2>1, <2>2, <2>3, <2>5 DEF One
  <2> QED BY <2>4, <2>5
<1>11. host' \in [Ids -> SceneRecord]
  <2>1. [at |-> "lane", layers |-> layers, latches |-> {id}, root |-> root] \in SceneRecord
    BY <1>3, <1>4 DEF SceneRecord, layers
  <2> QED BY <1>1, <1>2, <2>1 DEF layers
<1>12. Types'
  <2>1. gpu' \in [Buffers -> BufferRecord]
    BY <1>1, <1>10 DEF HoldSources
  <2> QED BY <1>1, <1>8, <1>11, <2>1 DEF Shape, Types
<1>13. /\ AllBlocked' = AllBlocked /\ \A t \in Surfaces : BlockedIds(t)' = BlockedIds(t)
       /\ \A b \in Buffers : Blockers(b)' = Blockers(b) /\ Showing(b)' = Showing(b)
  BY <1>1 DEF AllBlocked, BlockedIds, Blockers, Attached, Showing
<1>14. Numbered'
  BY <1>1, <1>13 DEF Shape, Numbered
<1>15. Fresh'
  <2>1. UsedIds' \subseteq UsedIds \cup {id}
    <3>1. {h.id : h \in AllHolds'} = {h.id : h \in AllHolds} \cup {id}
      BY <1>6, <1>9
    <3>2. \A i \in Ids : host'[i].at # "none" => host[i].at # "none" \/ i = id
      BY <1>1, <1>2
    <3> QED BY <1>1, <3>1, <3>2 DEF UsedIds
  <2>2. id <= nextId
    BY DEF Shape, Fresh, id
  <2>3. \A i \in UsedIds' : i <= nextId'
    BY <1>1, <2>1, <2>2 DEF Shape, Fresh
  <2>4. ASSUME NEW r \in Roots
        PROVE  window'[r].scene <= nextId' /\ window'[r].scene \notin UsedIds'
    <3>1. CASE r = root
      <4>1. 0 \notin UsedIds'
        <5>1. UsedIds \subseteq Ids
          BY DEF Shape, Types, UsedIds, AllHolds, WindowRecord, HoldRecord
        <5> QED BY <1>3, <2>1, <5>1 DEF Ids
      <4>2. 0 <= nextId
        BY DEF Shape, Types, Ids
      <4> QED BY <1>1, <1>8, <3>1, <4>1, <4>2
    <3>2. CASE r # root
      <4>1. window'[r].scene = window[r].scene /\ window[r].scene # id
        BY <1>1, <1>8, <3>2 DEF Shape, Fresh, id
      <4> QED BY <1>1, <2>1, <4>1 DEF Shape, Fresh
    <3> QED BY <3>1, <3>2
  <2>5. \A r, q \in Roots : r # q /\ window'[r].scene # 0 => window'[r].scene # window'[q].scene
    BY <1>8 DEF Shape, Fresh
  <2> QED BY <2>3, <2>4, <2>5 DEF Fresh
<1>16. Apart'
  <2>1. IsFiniteSet(AllHolds')
    BY <1>9, FS_AddElement DEF Shape, Apart
  <2>2. \A r \in Roots : hold \notin window[r].holds
    BY <1>7 DEF AllHolds
  <2>3. \A r, q \in Roots : r # q => window'[r].holds \cap window'[q].holds = {}
    BY <1>8, <2>2 DEF Shape, Apart
  <2> QED BY <2>1, <2>3 DEF Apart
<1>17. Counted'
  <2> SUFFICES ASSUME NEW b \in Buffers
               PROVE  /\ gpu'[b].currents = Cardinality(Showing(b)') /\ gpu'[b].reads = Cardinality(Holders(b)')
                      /\ gpu'[b].refs = gpu'[b].currents + gpu'[b].reads + (IF gpu'[b].resource THEN 1 ELSE 0)
                                        + Cardinality(Blockers(b)')
    BY DEF Counted
  <2> DEFINE n == Cardinality(Holders(b))
             m == Cardinality(Blockers(b))
  <2>1. Holders(b)' = Holders(b) \cup (IF b \in S THEN {hold} ELSE {})
    BY <1>6, <1>9 DEF Holders
  <2>2. IsFiniteSet(Holders(b)) /\ hold \notin Holders(b) /\ n \in Nat /\ m \in Nat
    BY <1>7, Finite, FiniteHolds, FS_CardinalityType DEF Shape
  <2>3. Cardinality(Holders(b)') = n + One(b \in S)
    <3>1. CASE b \in S
      BY <2>1, <2>2, <3>1, FS_AddElement DEF One
    <3>2. CASE b \notin S
      <4>1. Holders(b)' = Holders(b)
        BY <2>1, <3>2
      <4> QED BY <2>2, <3>2, <4>1 DEF One
    <3> QED BY <3>1, <3>2
  <2>4. /\ gpu[b].currents = Cardinality(Showing(b)) /\ gpu[b].reads = n
        /\ gpu[b].refs = gpu[b].currents + gpu[b].reads + (IF gpu[b].resource THEN 1 ELSE 0) + m
    BY DEF Shape, Counted
  <2>5. gpu[b].currents \in Nat /\ One(b \in S) \in Nat
    BY <1>2 DEF BufferRecord, One
  <2> HIDE DEF n
  <2> QED BY <1>10, <1>13, <2>2, <2>3, <2>4, <2>5
<1>18. Points'
  BY <1>1, <1>10, <1>13 DEF Shape, Points, Types, SurfaceRecord
<1>19. Shape'
  BY <1>12, <1>14, <1>15, <1>16, <1>17, <1>18 DEF Shape
<1> QED BY <1>3, <1>4, <1>9, <1>10, <1>13, <1>19 DEF hold, id, S

\* Holds of scenes go, and nothing else changes for a buffer.
LEMMA HoldsDrop ==
  ASSUME Deployment, Shape, NEW D \in SUBSET AllHolds, gpu' = DropHolds(gpu, D),
         window' = [r \in Roots |-> [window[r] EXCEPT !.holds = @ \ D]],
         UNCHANGED <<surface, nextId, rendered>>, retry' \subseteq Surfaces,
         host' \in [Ids -> SceneRecord], \A i \in Ids : host'[i].at # "none" => host[i].at # "none",
         released' \subseteq released, presented' \subseteq presented
  PROVE  Shape' /\ AllHolds' = AllHolds \ D /\ Passing({}, {}) /\ Generous
<1>1. window' \in [Roots -> WindowRecord] /\ \A r \in Roots : window'[r].scene = window[r].scene
      /\ window'[r].holds = window[r].holds \ D
  BY DEF Shape, Types, WindowRecord
<1>2. AllHolds' = AllHolds \ D
  BY <1>1 DEF AllHolds
<1>3. ASSUME NEW b \in Buffers
      PROVE  /\ gpu'[b] \in BufferRecord /\ gpu'[b].currents = gpu[b].currents /\ gpu'[b].resource = gpu[b].resource
             /\ gpu'[b].reads = Cardinality(Holders(b)') /\ gpu'[b].refs = gpu[b].refs - (gpu[b].reads - gpu'[b].reads)
             /\ Yields(gpu[b], gpu'[b], {})
  <2> DEFINE G == {h \in D : b \in h.sources}
             n == Cardinality(G)
             k == Cardinality(Holders(b))
  <2>1. gpu'[b] = EndReads(gpu[b], n)
    BY DEF DropHolds
  <2>2. IsFiniteSet(Holders(b)) /\ G \subseteq Holders(b)
    BY FiniteHolds DEF Shape, Holders
  <2>3. IsFiniteSet(G) /\ n \in Nat /\ k \in Nat /\ n <= k
    BY <2>2, FS_Subset, FS_CardinalityType
  <2>4. Holders(b)' = Holders(b) \ G
    BY <1>2 DEF Holders
  <2>5. Cardinality(Holders(b)') = k - n
    <3>1. G \in SUBSET Holders(b)
      BY <2>2
    <3>2. Cardinality(Holders(b) \ G) = Cardinality(Holders(b)) - Cardinality(Holders(b) \cap G)
      BY <2>2, FS_Difference
    <3>3. Holders(b) \cap G = G
      BY <3>1
    <3> HIDE DEF G
    <3> QED BY <2>4, <3>2, <3>3
  <2>6. /\ gpu[b] \in BufferRecord /\ gpu[b].queued \subseteq gpu[b].owed
        /\ gpu[b].refs >= gpu[b].currents + gpu[b].reads + Cardinality(Blockers(b))
        /\ Cardinality(Blockers(b)) \in Nat
    BY Numbers
  <2>7. gpu[b].reads = k
    BY DEF Shape, Counted
  <2>8. gpu[b].currents \in Nat /\ gpu[b].refs \in Nat
    BY <2>6 DEF BufferRecord
  <2> HIDE DEF n, k
  <2>9. /\ Yields(gpu[b], EndReads(gpu[b], n), {}) /\ EndReads(gpu[b], n).currents = gpu[b].currents
        /\ EndReads(gpu[b], n).reads = gpu[b].reads - n /\ EndReads(gpu[b], n).refs = gpu[b].refs - n
    <3>1. gpu[b].refs >= gpu[b].currents + gpu[b].reads /\ n <= gpu[b].reads
      BY <2>3, <2>6, <2>7, <2>8
    <3> QED BY <2>3, <2>6, <3>1, EndsReads
  <2>10. gpu[b].refs - n = gpu[b].refs - (gpu[b].reads - (gpu[b].reads - n))
    BY <2>3, <2>7, <2>8
  <2> QED BY <2>1, <2>5, <2>7, <2>9, <2>10 DEF Yields
<1>4. gpu' \in [Buffers -> BufferRecord]
  BY <1>3 DEF DropHolds
<1>5. Types'
  BY <1>1, <1>4 DEF Shape, Types
<1>6. /\ AllBlocked' = AllBlocked /\ \A t \in Surfaces : BlockedIds(t)' = BlockedIds(t)
      /\ \A b \in Buffers : Blockers(b)' = Blockers(b) /\ Showing(b)' = Showing(b)
  BY DEF AllBlocked, BlockedIds, Blockers, Attached, Showing
<1>7. Numbered'
  BY <1>6 DEF Shape, Numbered
<1>8. Fresh'
  <2>1. UsedIds' \subseteq UsedIds
    BY <1>2 DEF UsedIds
  <2>2. nextId <= nextId'
    BY DEF Shape, Types, Ids
  <2> QED BY <1>1, <1>5, <2>1, <2>2, FreshStays DEF Shape
<1>9. Apart'
  <2>1. IsFiniteSet(AllHolds')
    BY <1>2, FS_Subset DEF Shape, Apart
  <2> QED BY <1>1, <2>1 DEF Shape, Apart
<1>10. Counted'
  <2> SUFFICES ASSUME NEW b \in Buffers
               PROVE  /\ gpu'[b].currents = Cardinality(Showing(b)') /\ gpu'[b].reads = Cardinality(Holders(b)')
                      /\ gpu'[b].refs = gpu'[b].currents + gpu'[b].reads + (IF gpu'[b].resource THEN 1 ELSE 0)
                                        + Cardinality(Blockers(b)')
    BY DEF Counted
  <2> DEFINE m == Cardinality(Blockers(b))
  <2>1. m \in Nat /\ gpu[b] \in BufferRecord
    BY Numbers
  <2>2. /\ gpu[b].currents = Cardinality(Showing(b))
        /\ gpu[b].refs = gpu[b].currents + gpu[b].reads + (IF gpu[b].resource THEN 1 ELSE 0) + m
    BY DEF Shape, Counted
  <2>3. gpu[b].currents \in Nat /\ gpu[b].reads \in Nat /\ gpu'[b].reads \in Nat /\ gpu[b].refs \in Nat
    BY <1>3, <2>1 DEF BufferRecord
  <2> HIDE DEF m
  <2>4. Cardinality(Blockers(b)') = m
    BY <1>6 DEF m
  <2>5. gpu'[b].refs = gpu'[b].currents + gpu'[b].reads + (IF gpu'[b].resource THEN 1 ELSE 0) + m
    BY <1>3, <2>1, <2>2, <2>3
  <2> QED BY <1>3, <1>6, <2>2, <2>4, <2>5
<1>11. Passing({}, {})
  <2>1. ASSUME NEW b \in Buffers
        PROVE  Passes(gpu[b], gpu'[b], Kept(b, {}), PointsLeft(b, {}), {} \cap Blockers(b))
    <3>1. Yields(gpu[b], gpu'[b], {})
      BY <1>3
    <3>2. Kept(b, {}) => gpu'[b].currents > 0 \/ gpu'[b].reads > 0
      <4> SUFFICES ASSUME Kept(b, {})
                   PROVE  gpu'[b].currents > 0 \/ gpu'[b].reads > 0
        OBVIOUS
      <4>1. CASE \E t \in Surfaces : surface[t].current = b
        <5>1. Showing(b) # {}
          BY <4>1 DEF Showing
        <5> QED BY <1>3, <5>1, Numbers
      <4>2. CASE \E h \in AllHolds' : h \in AllHolds /\ b \in h.sources
        <5>1. Holders(b)' # {}
          BY <4>2 DEF Holders
        <5>2. IsFiniteSet(Holders(b)')
          BY <1>9, FS_Subset DEF Apart, Holders
        <5>3. Cardinality(Holders(b)') \in Nat /\ Cardinality(Holders(b)') # 0
          BY <5>1, <5>2, FS_CardinalityType, FS_EmptySet
        <5> QED BY <1>3, <5>3
      <4> QED BY <4>1, <4>2 DEF Kept
    <3>3. gpu'[b].given => gpu[b].given \/ (~Kept(b, {}) /\ (gpu[b].currents > 0 \/ gpu[b].reads > 0))
      <4> SUFFICES ASSUME gpu'[b].given, ~gpu[b].given
                   PROVE  ~Kept(b, {}) /\ (gpu[b].currents > 0 \/ gpu[b].reads > 0)
        OBVIOUS
      <4>1. gpu'[b].currents = 0 /\ gpu'[b].reads = 0
        BY <3>1 DEF Yields
      <4>2. ~Kept(b, {})
        BY <3>2, <4>1
      <4>3. CASE gpu[b].reads = 0
        <5>1. Holders(b) = {}
          BY <4>3, Numbers
        <5>2. {h \in D : b \in h.sources} = {}
          BY <5>1 DEF Holders
        <5>3. gpu'[b] = EndReads(gpu[b], 0)
          BY <5>2, FS_EmptySet DEF DropHolds
        <5> QED BY <4>3, <5>3 DEF EndReads
      <4>4. CASE gpu[b].reads # 0
        <5>1. gpu[b].reads \in Nat
          BY Numbers DEF BufferRecord
        <5> QED BY <4>2, <4>4, <5>1
      <4> QED BY <4>3, <4>4
    <3>4. PointsLeft(b, {}) = {}
      BY DEF PointsLeft
    <3> QED BY <3>1, <3>2, <3>3, <3>4 DEF Yields, Passes
  <2>2. nextId <= nextId'
    BY DEF Shape, Types, Ids
  <2> QED BY <1>2, <1>6, <2>1, <2>2 DEF Passing
<1>12. Points'
  BY <1>5, <1>11, PointsPass
<1>13. Generous
  BY <1>3 DEF Generous, Yields
<1> QED BY <1>2, <1>5, <1>7, <1>8, <1>9, <1>10, <1>11, <1>12, <1>13 DEF Shape

LEMMA ReleasedShape ==
  ASSUME Deployment, Shape, NEW i \in Ids, OnReleased(i)
  PROVE  /\ Shape' /\ Passing({}, {}) /\ Generous /\ AllHolds' = {h \in AllHolds : h.id # i}
         /\ host' = host /\ released' = released \ {i}
<1> DEFINE D == {h \in AllHolds : h.id = i}
<1>1. gpu' = DropHolds(gpu, D)
  <2>1. UNION {{h \in window[r].holds : h.id = i} : r \in Roots} = D
    BY DEF AllHolds
  <2> QED BY <2>1 DEF OnReleased
<1>2. window' = [r \in Roots |-> [window[r] EXCEPT !.holds = @ \ D]]
  <2>1. \A r \in Roots : window[r].holds \ {h \in window[r].holds : h.id = i} = window[r].holds \ D
    BY DEF AllHolds
  <2>2. window' = [r \in Roots |-> [window[r] EXCEPT !.holds = @ \ {h \in window[r].holds : h.id = i}]]
    BY DEF OnReleased
  <2> QED BY <2>1, <2>2
<1>3. /\ UNCHANGED <<surface, nextId, rendered, host, presented>> /\ retry' \subseteq Surfaces
      /\ released' = released \ {i}
  BY DEF OnReleased, Woken, Alive
<1>4. host' \in [Ids -> SceneRecord]
  BY <1>3 DEF Shape, Types
<1> HIDE DEF D
<1>5. D \in SUBSET AllHolds
  BY DEF D
<1>6. Shape' /\ AllHolds' = AllHolds \ D /\ Passing({}, {}) /\ Generous
  BY <1>1, <1>2, <1>3, <1>4, <1>5, HoldsDrop
<1> QED BY <1>3, <1>6 DEF D

LEMMA DisconnectShape ==
  ASSUME Deployment, Shape, Disconnect
  PROVE  Shape' /\ Passing({}, {}) /\ Generous /\ AllHolds' = {}
<1>1. /\ gpu' = DropHolds(gpu, AllHolds)
      /\ window' = [r \in Roots |-> [window[r] EXCEPT !.holds = {}]]
      /\ host' = [i \in Ids |-> IF host[i].at \in {"reading", "orphaned"}
                                 THEN [host[i] EXCEPT !.at = "orphaned"] ELSE NoScene]
      /\ released' = {} /\ presented' = {} /\ retry' = Woken /\ UNCHANGED <<surface, nextId, rendered>>
  BY DEF Disconnect
<1>2. window' = [r \in Roots |-> [window[r] EXCEPT !.holds = @ \ AllHolds]]
  <2>1. \A r \in Roots : window[r].holds \ AllHolds = {}
    BY DEF AllHolds
  <2> QED BY <1>1, <2>1
<1>3. host' \in [Ids -> SceneRecord] /\ \A i \in Ids : host'[i].at # "none" => host[i].at # "none"
  <2>1. host \in [Ids -> SceneRecord] /\ NoScene \in SceneRecord /\ NoScene.at = "none"
    BY DEF Shape, Types, NoScene, SceneRecord
  <2>2. \A i \in Ids : [host[i] EXCEPT !.at = "orphaned"] \in SceneRecord
    BY <2>1 DEF SceneRecord
  <2> QED BY <1>1, <2>1, <2>2
<1>4. retry' \subseteq Surfaces /\ released' \subseteq released /\ presented' \subseteq presented
  BY <1>1 DEF Woken, Alive
<1>5. AllHolds \in SUBSET AllHolds
  OBVIOUS
<1>6. Shape' /\ AllHolds' = AllHolds \ AllHolds /\ Passing({}, {}) /\ Generous
  BY <1>1, <1>2, <1>3, <1>4, <1>5, HoldsDrop
<1> QED BY <1>6

---------------------------------------------------------------------------
\* A client destroys a surface or a buffer.

\* What happens to a buffer: the blocked commits ids of the surface are dropped,
\* the surface leaves it with its point p, and n scenes of the window end.
AfterDestroy(g, ids, leaves, p, n) ==
  LET a == DropAttached(g, ids)
  IN  EndReads(IF leaves THEN ReleaseCurrent(QueueRelease(a, p)) ELSE a, n)

Abandons(g, h, ids, leaves, p, n) ==
  /\ h \in BufferRecord /\ h.resource = g.resource
  /\ h.currents = g.currents - One(leaves) /\ h.reads = g.reads - n
  /\ h.refs = g.refs - Cardinality(ids) - One(leaves) - n
  /\ Passes(g, h, g.currents > One(leaves) \/ g.reads > n, IF leaves THEN {p} \ {0} ELSE {}, ids)
  /\ g.given => h.given

LEMMA Abandoned ==
  ASSUME NEW g \in BufferRecord, g.queued \subseteq g.owed, NEW ids \in SUBSET Ids, IsFiniteSet(ids),
         g.queued \cap ids = {}, NEW leaves \in BOOLEAN, NEW p \in Ids \cup {0},
         leaves => g.currents >= 1 /\ (p # 0 => p \in g.owed /\ p \notin ids),
         NEW n \in Nat, n <= g.reads, g.refs >= g.currents + g.reads + Cardinality(ids)
  PROVE  Abandons(g, AfterDestroy(g, ids, leaves, p, n), ids, leaves, p, n)
<1> DEFINE k == Cardinality(ids)
           P == IF leaves THEN {p} \ {0} ELSE {}
           a == DropAttached(g, ids)
           b == IF leaves THEN ReleaseCurrent(QueueRelease(a, p)) ELSE a
           c == EndReads(b, n)
           L == One(leaves)
<1>0. /\ k \in Nat /\ g.currents \in Nat /\ g.reads \in Nat /\ g.refs \in Nat /\ L \in {0, 1}
      /\ (ids = {} => k = 0) /\ g.refs >= g.currents + g.reads + k
  BY FS_CardinalityType, FS_EmptySet DEF BufferRecord, One
<1>1. /\ a \in BufferRecord /\ a.resource = g.resource
      /\ a.currents = g.currents /\ a.reads = g.reads /\ a.refs = g.refs - k
      /\ a.owed \subseteq g.owed /\ g.owed \ a.owed \subseteq g.queued \cup ids
      /\ a.queued \subseteq g.queued /\ a.queued \subseteq a.owed
      /\ (g.currents > 0 \/ g.reads > 0 => a.owed = g.owed \ ids)
      /\ (a.given => g.given \/ ids # {}) /\ (g.given => a.given)
  BY <1>0, DropsAttached
<1>2. ids = {} => a = g
  BY DEF DropAttached
<1> HIDE DEF a, k
<1>3. a.refs >= a.currents + a.reads
  BY <1>0, <1>1
<1>4. leaves => a.currents >= 1 /\ (p # 0 => p \in a.owed)
  BY <1>0, <1>1
<1>5. Yields(a, b, P) /\ b.currents = a.currents - L /\ b.reads = a.reads /\ b.refs = a.refs - L
  <2>1. CASE leaves
    <3>1. b = ReleaseCurrent(QueueRelease(a, p)) /\ P = {p} \ {0} /\ L = 1
      BY <2>1 DEF One
    <3>2. /\ Yields(a, ReleaseCurrent(QueueRelease(a, p)), {p} \ {0})
          /\ ReleaseCurrent(QueueRelease(a, p)).currents = a.currents - 1
          /\ ReleaseCurrent(QueueRelease(a, p)).reads = a.reads
          /\ ReleaseCurrent(QueueRelease(a, p)).refs = a.refs - 1
      BY <1>1, <1>3, <1>4, <2>1, ReleasesShown
    <3> QED BY <3>1, <3>2
  <2>2. CASE ~leaves
    <3>1. b = a /\ P = {} /\ L = 0
      BY <2>2 DEF One
    <3>2. a.currents - 0 = a.currents /\ a.refs - 0 = a.refs
      BY <1>1 DEF BufferRecord
    <3> QED BY <1>1, <3>1, <3>2, YieldsItself
  <2> QED BY <2>1, <2>2
<1>6. ~leaves => b = a
  OBVIOUS
<1> HIDE DEF b
<1>7. b \in BufferRecord /\ b.queued \subseteq b.owed /\ n <= b.reads /\ b.refs >= b.currents + b.reads
  <2>1. b \in BufferRecord /\ b.queued \subseteq b.owed
    BY <1>5 DEF Yields
  <2>2. b.currents \in Nat /\ b.reads \in Nat /\ b.refs \in Nat /\ a.currents \in Nat /\ a.refs \in Nat
    BY <1>1, <2>1 DEF BufferRecord
  <2>3. b.currents = a.currents - L /\ b.reads = g.reads /\ b.refs = a.refs - L /\ a.reads = g.reads
    BY <1>1, <1>5
  <2> QED BY <1>0, <1>3, <2>1, <2>2, <2>3
<1>8. Yields(b, c, {}) /\ c.currents = b.currents /\ c.reads = b.reads - n /\ c.refs = b.refs - n
  BY <1>7, EndsReads
<1>9. n = 0 => c = b
  BY DEF EndReads
<1> HIDE DEF c, L, P
<1>10. /\ c \in BufferRecord /\ c.resource = g.resource /\ c.currents = g.currents - L /\ c.reads = g.reads - n
       /\ c.refs = g.refs - k - L - n
  <2>1. c \in BufferRecord /\ c.resource = g.resource
    BY <1>1, <1>5, <1>8 DEF Yields
  <2>2. c.currents = g.currents - L /\ c.reads = g.reads - n
    BY <1>1, <1>5, <1>8
  <2>3. c.refs = g.refs - k - L - n
    BY <1>1, <1>5, <1>8
  <2> QED BY <2>1, <2>2, <2>3
<1>11. c.owed \subseteq g.owed /\ g.owed \ c.owed \subseteq g.queued \cup P \cup ids
  <2>1. b.owed \subseteq a.owed /\ a.owed \ b.owed \subseteq a.queued \cup P /\ b.queued \subseteq a.queued \cup P
    BY <1>5 DEF Yields
  <2>2. c.owed \subseteq b.owed /\ b.owed \ c.owed \subseteq b.queued
    BY <1>8 DEF Yields
  <2> QED BY <1>1, <2>1, <2>2
<1>12. c.queued \subseteq g.queued \cup P /\ c.queued \subseteq c.owed
  BY <1>1, <1>5, <1>8 DEF Yields
<1>13. g.currents > L \/ g.reads > n => c.owed = g.owed \ ids
  <2> SUFFICES ASSUME g.currents > L \/ g.reads > n
               PROVE  c.owed = g.owed \ ids
    OBVIOUS
  <2>1. g.currents - L > 0 \/ g.reads - n > 0
    BY <1>0
  <2>2. c.currents > 0 \/ c.reads > 0
    BY <1>10, <2>1
  <2>3. b.currents > 0 \/ b.reads > 0
    BY <1>0, <1>1, <1>5, <2>1
  <2>4. g.currents > 0 \/ g.reads > 0
    BY <1>0, <2>1
  <2>5. c.owed = b.owed
    BY <1>8, <2>2 DEF Yields
  <2>6. b.owed = a.owed
    BY <1>5, <2>3 DEF Yields
  <2> QED BY <1>1, <2>5, <2>4, <2>6
<1>14. c.given => g.given \/ ids # {} \/ (~(g.currents > L \/ g.reads > n) /\ (g.currents > 0 \/ g.reads > 0))
  <2> SUFFICES ASSUME c.given, ~g.given, ids = {}
               PROVE  ~(g.currents > L \/ g.reads > n) /\ (g.currents > 0 \/ g.reads > 0)
    OBVIOUS
  <2>1. ~a.given
    BY <1>2
  <2>2. b # a \/ c # b
    BY <2>1
  <2>3. leaves \/ n # 0
    BY <1>6, <1>9, <2>2
  <2>4. g.currents > 0 \/ g.reads > 0
    BY <1>0, <2>3
  <2>5. c.currents = 0 /\ c.reads = 0
    <3>1. CASE b.given
      <4>1. b.currents = 0 /\ b.reads = 0
        BY <1>5, <2>1, <3>1 DEF Yields
      <4> QED BY <1>0, <1>1, <1>5, <1>8, <4>1, <1>7
    <3>2. CASE ~b.given
      BY <1>8, <3>2 DEF Yields
    <3> QED BY <3>1, <3>2
  <2> QED BY <1>0, <1>10, <2>4, <2>5
<1>15. Passes(g, c, g.currents > L \/ g.reads > n, P, ids)
  BY <1>11, <1>12, <1>13, <1>14 DEF Passes
<1>16. g.given => c.given
  BY <1>1, <1>5, <1>8 DEF Yields
<1>17. c = AfterDestroy(g, ids, leaves, p, n)
  BY DEF a, b, c, AfterDestroy
<1> QED BY <1>10, <1>15, <1>16, <1>17 DEF Abandons, L, P, k

LEMMA DestroyBufferShape ==
  ASSUME Deployment, Shape, NEW b \in Buffers, DestroyBuffer(b)
  PROVE  /\ Shape' /\ Passing({}, {}) /\ AllHolds' = AllHolds /\ UNCHANGED <<host, released>>
         /\ gpu[b].resource /\ ~gpu'[b].resource /\ ~gpu'[b].given
         /\ \A x \in Buffers \ {b} : gpu'[x] = gpu[x]
<1> DEFINE g == [gpu[b] EXCEPT !.resource = FALSE, !.given = FALSE]
<1>1. gpu[b].resource /\ gpu' = [gpu EXCEPT ![b] = Unref(g)] /\ UNCHANGED <<surface, window, nextId, retry, rendered, hostVars>>
  BY DEF DestroyBuffer
<1>2. /\ gpu[b] \in BufferRecord /\ gpu[b].queued \subseteq gpu[b].owed
      /\ Cardinality(Blockers(b)) \in Nat /\ gpu \in [Buffers -> BufferRecord]
  BY Numbers DEF Shape, Types
<1>3. /\ g \in BufferRecord /\ g.queued = gpu[b].queued /\ g.owed = gpu[b].owed
      /\ g.currents = gpu[b].currents /\ g.reads = gpu[b].reads /\ g.refs = gpu[b].refs
      /\ g.resource = FALSE /\ g.given = FALSE
  BY <1>2 DEF BufferRecord
<1> HIDE DEF g
<1>4. gpu[b].refs = gpu[b].currents + gpu[b].reads + 1 + Cardinality(Blockers(b))
  BY <1>1 DEF Shape, Counted
<1>5. gpu[b].currents \in Nat /\ gpu[b].reads \in Nat /\ gpu[b].refs \in Nat
  BY <1>2 DEF BufferRecord
<1>6. 1 <= g.refs /\ (g.refs = 1 => g.currents = 0 /\ g.reads = 0)
  BY <1>2, <1>3, <1>4, <1>5
<1>7. /\ Yields(g, Unrefs(g, 1), {}) /\ Unrefs(g, 1).currents = g.currents /\ Unrefs(g, 1).reads = g.reads
      /\ Unrefs(g, 1).refs = g.refs - 1 /\ Unrefs(g, 1).given = g.given
  BY <1>2, <1>3, <1>6, Unreferences
<1>8. gpu'[b] = Unrefs(g, 1) /\ \A x \in Buffers \ {b} : gpu'[x] = gpu[x]
  BY <1>1, <1>2 DEF Unref
<1>9. /\ gpu'[b] \in BufferRecord /\ gpu'[b].resource = FALSE /\ gpu'[b].given = FALSE
      /\ gpu'[b].currents = gpu[b].currents /\ gpu'[b].reads = gpu[b].reads /\ gpu'[b].refs = gpu[b].refs - 1
  BY <1>3, <1>7, <1>8 DEF Yields
<1>10. gpu' \in [Buffers -> BufferRecord]
  BY <1>1, <1>2, <1>8, <1>9
<1>11. Types'
  BY <1>1, <1>10 DEF Shape, Types, hostVars
<1>12. /\ AllBlocked' = AllBlocked /\ \A t \in Surfaces : BlockedIds(t)' = BlockedIds(t)
       /\ \A x \in Buffers : Blockers(x)' = Blockers(x) /\ Showing(x)' = Showing(x)
  BY <1>1 DEF AllBlocked, BlockedIds, Blockers, Attached, Showing
<1>13. AllHolds' = AllHolds /\ UsedIds' = UsedIds /\ UNCHANGED <<host, released>>
  BY <1>1 DEF AllHolds, UsedIds, hostVars
<1>14. \A x \in Buffers : Holders(x)' = Holders(x)
  BY <1>13 DEF Holders
<1>15. Numbered' /\ Fresh' /\ Apart'
  BY <1>1, <1>12, <1>13 DEF Shape, Numbered, Fresh, Apart
<1>16. Counted'
  <2>1. gpu'[b].refs = gpu'[b].currents + gpu'[b].reads + 0 + Cardinality(Blockers(b))
    BY <1>2, <1>4, <1>5, <1>9
  <2> QED BY <1>8, <1>9, <1>12, <1>14, <2>1 DEF Shape, Counted
<1>17. Passing({}, {})
  <2>1. ASSUME NEW x \in Buffers
        PROVE  Passes(gpu[x], gpu'[x], Kept(x, {}), PointsLeft(x, {}), {} \cap Blockers(x))
    <3>1. CASE x # b
      BY <1>8, <3>1 DEF Passes, Shape, Points
    <3>2. CASE x = b
      <4>1. Kept(b, {}) => gpu'[b].currents > 0 \/ gpu'[b].reads > 0
        <5>1. Kept(b, {}) => Showing(b) # {} \/ Holders(b) # {}
          BY DEF Kept, Showing, Holders
        <5> QED BY <1>9, <5>1, Numbers
      <4>2. PointsLeft(b, {}) = {}
        BY DEF PointsLeft
      <4>3. /\ gpu'[b].owed \subseteq gpu[b].owed /\ gpu[b].owed \ gpu'[b].owed \subseteq gpu[b].queued
            /\ gpu'[b].queued \subseteq gpu[b].queued /\ gpu'[b].queued \subseteq gpu'[b].owed
            /\ (gpu'[b].currents > 0 \/ gpu'[b].reads > 0 => gpu'[b].owed = gpu[b].owed)
        BY <1>3, <1>7, <1>8 DEF Yields
      <4> QED BY <1>9, <3>2, <4>1, <4>2, <4>3 DEF Passes
    <3> QED BY <3>1, <3>2
  <2>2. nextId <= nextId'
    BY <1>1 DEF Shape, Types, Ids
  <2> QED BY <1>1, <1>12, <1>13, <2>1, <2>2 DEF Passing
<1>18. Points'
  BY <1>11, <1>17, PointsPass
<1> QED BY <1>1, <1>8, <1>9, <1>11, <1>13, <1>15, <1>16, <1>17, <1>18 DEF Shape

LEMMA EmptyQueue ==
  ASSUME Types, Numbered, NEW s \in Surfaces, surface'[s].blocked = <<>>,
         \A t \in Surfaces \ {s} : surface'[t].blocked = surface[t].blocked
  PROVE  /\ AllBlocked' = AllBlocked \ BlockedIds(s)
         /\ \A b \in Buffers : /\ Blockers(b)' = Blockers(b) \ Attached(s, b)
                               /\ Attached(s, b) = BlockedIds(s) \cap Blockers(b)
         /\ \A t \in Surfaces : NoTwice(surface'[t].blocked)
         /\ \A r, t \in Surfaces : r # t => BlockedIds(r)' \cap BlockedIds(t)' = {}
<1>1. BlockedIds(s)' = {} /\ \A b \in Buffers : Attached(s, b)' = {}
  BY DEF BlockedIds, Attached
<1>2. \A t \in Surfaces \ {s} : BlockedIds(t)' = BlockedIds(t) /\ (\A b \in Buffers : Attached(t, b)' = Attached(t, b))
  BY DEF BlockedIds, Attached
<1>3. \A t \in Surfaces, b \in Buffers : Attached(t, b) \subseteq BlockedIds(t)
  BY DEF BlockedIds, Attached
<1>4. \A r, t \in Surfaces : r # t => BlockedIds(r) \cap BlockedIds(t) = {}
  BY DEF Numbered
<1>5. AllBlocked' = AllBlocked \ BlockedIds(s)
  BY <1>1, <1>2, <1>4 DEF AllBlocked
<1>6. ASSUME NEW b \in Buffers
      PROVE  Blockers(b)' = Blockers(b) \ Attached(s, b) /\ Attached(s, b) = BlockedIds(s) \cap Blockers(b)
  BY <1>1, <1>2, <1>3, <1>4 DEF Blockers
<1>7. \A t \in Surfaces : NoTwice(surface'[t].blocked)
  BY DEF NoTwice, Numbered
<1>8. \A r, t \in Surfaces : r # t => BlockedIds(r)' \cap BlockedIds(t)' = {}
  BY <1>1, <1>2, <1>4
<1> QED BY <1>5, <1>6, <1>7, <1>8

LEMMA DestroySurfaceShape ==
  ASSUME Deployment, Shape, NEW s \in Surfaces, DestroySurface(s)
  PROVE  /\ Shape' /\ Passing({s}, BlockedIds(s)) /\ Generous /\ UNCHANGED <<host, released>>
         /\ AllHolds' = AllHolds \ (IF s = RootOf[s] THEN window[s].holds ELSE {})
         /\ surface'[s].current = None
<1> DEFINE root == RootOf[s]
           dirty == window[root].scene # 0
           gone == IF s = root THEN window[root].holds ELSE {}
           old == surface[s].current
           pt == surface[s].point
           c == Cardinality(AllBlocked)
           left == SetCurrent(DropBlocked(gpu, s), s, None, 0)
           n(x) == Cardinality({h \in gone : x \in h.sources})
<1>1. /\ s \in Mortal \cap Alive /\ nextId + 2 + c <= MaxId
      /\ gpu' = (IF s = root THEN DropHolds(left, window[root].holds) ELSE left)
      /\ surface' = [surface EXCEPT ![s] = [NewSurface EXCEPT !.alive = FALSE]]
      /\ rendered' = rendered \ BlockedIds(s)
      /\ UNCHANGED <<retry, host, released, presented>>
  BY DEF DestroySurface, IdsLeft, hostVars
<1>2. IF s = root
      THEN window' = [window EXCEPT ![root] = [scene |-> 0, holds |-> {}]] /\ nextId' = nextId
      ELSE /\ window' = IF dirty THEN window ELSE [window EXCEPT ![root].scene = nextId + 2]
           /\ nextId' = IF dirty THEN nextId + 1 ELSE nextId + 2
  BY DEF DestroySurface
<1>3. /\ surface \in [Surfaces -> SurfaceRecord] /\ gpu \in [Buffers -> BufferRecord]
      /\ window \in [Roots -> WindowRecord] /\ root \in Roots /\ surface[s] \in SurfaceRecord
  BY DEF Shape, Types, Roots
<1>4. IsFiniteSet(AllBlocked) /\ AllBlocked \subseteq Ids /\ c \in Nat /\ BlockedIds(s) \subseteq AllBlocked
  BY Finite, FS_CardinalityType DEF Shape
<1>5. /\ surface'[s] = [NewSurface EXCEPT !.alive = FALSE]
      /\ \A t \in Surfaces \ {s} : surface'[t] = surface[t]
      /\ surface' \in [Surfaces -> SurfaceRecord]
  <2>1. [NewSurface EXCEPT !.alive = FALSE] \in SurfaceRecord
    <3>1. <<>> \in Seq(Blockable)
      OBVIOUS
    <3> QED BY <3>1 DEF NewSurface, SurfaceRecord
  <2> QED BY <1>1, <1>3, <2>1
<1>6. surface'[s].current = None /\ surface'[s].point = 0 /\ surface'[s].blocked = <<>>
  BY <1>5 DEF NewSurface
<1>7. /\ AllBlocked' = AllBlocked \ BlockedIds(s)
      /\ \A b \in Buffers : /\ Blockers(b)' = Blockers(b) \ Attached(s, b)
                            /\ Attached(s, b) = BlockedIds(s) \cap Blockers(b)
      /\ \A t \in Surfaces : NoTwice(surface'[t].blocked)
      /\ \A r, t \in Surfaces : r # t => BlockedIds(r)' \cap BlockedIds(t)' = {}
  <2>1. Types /\ Numbered /\ \A t \in Surfaces \ {s} : surface'[t].blocked = surface[t].blocked
    BY <1>5 DEF Shape
  <2> QED BY <1>6, <2>1, EmptyQueue
<1> HIDE DEF c
<1>8. nextId \in Int /\ nextId >= 0 /\ MaxId \in Int /\ nextId + 2 <= MaxId
  <2>1. nextId \in Int /\ nextId >= 0 /\ MaxId \in Int
    BY DEF Shape, Types, Ids, Deployment
  <2> QED BY <1>1, <1>4, <2>1
<1>9. nextId' \in Ids \cup {0} /\ nextId' \in Int /\ nextId <= nextId' /\ nextId' <= nextId + 2
  <2>1. nextId + 1 \in Ids /\ nextId + 2 \in Ids
    BY <1>8 DEF Ids
  <2>2. nextId' \in {nextId, nextId + 1, nextId + 2} /\ nextId \in Ids \cup {0}
    BY <1>2 DEF Shape, Types
  <2> QED BY <1>8, <2>1, <2>2
<1>10. /\ window' \in [Roots -> WindowRecord]
       /\ window'[root].holds = window[root].holds \ gone
       /\ \A r \in Roots \ {root} : window'[r] = window[r]
       /\ window'[root].scene = IF s = root THEN 0 ELSE IF dirty THEN window[root].scene ELSE nextId + 2
  <2>1. nextId + 2 \in Ids
    BY <1>8 DEF Ids
  <2>2. CASE s = root
    BY <1>2, <1>3, <2>2 DEF WindowRecord
  <2>3. CASE s # root
    BY <1>2, <1>3, <2>1, <2>3 DEF WindowRecord
  <2> QED BY <2>2, <2>3
<1>11. /\ AllHolds' = AllHolds \ gone /\ gone \subseteq AllHolds
       /\ \A r, q \in Roots : r # q => window'[r].holds \cap window'[q].holds = {}
  <2>1. \A r \in Roots \ {root} : window[r].holds \cap window[root].holds = {}
    BY <1>3 DEF Shape, Apart
  <2>2. AllHolds' = AllHolds \ gone /\ gone \subseteq AllHolds
    BY <1>3, <1>10, <2>1 DEF AllHolds
  <2> QED BY <1>10, <2>2 DEF Shape, Apart
<1> HIDE DEF left
<1>12. ASSUME NEW x \in Buffers
       PROVE  gpu'[x] = AfterDestroy(gpu[x], Attached(s, x), old = x, pt, n(x))
  <2> DEFINE G == DropBlocked(gpu, s)
             l(y) == IF old = y THEN ReleaseCurrent(QueueRelease(G[y], pt)) ELSE G[y]
  <2>1. G = [b \in Buffers |-> DropAttached(gpu[b], Attached(s, b))]
    BY DEF DropBlocked
  <2>2. left = IF old = None THEN G ELSE [G EXCEPT ![old] = ReleaseCurrent(QueueRelease(@, pt))]
    BY DEF left, SetCurrent
  <2> HIDE DEF G
  <2>3. left[x] = l(x)
    BY <2>1, <2>2 DEF Deployment
  <2>4. l(x) = IF old = x THEN ReleaseCurrent(QueueRelease(DropAttached(gpu[x], Attached(s, x)), pt))
               ELSE DropAttached(gpu[x], Attached(s, x))
    BY <2>1
  <2> HIDE DEF l
  <2>5. CASE s = root
    <3>1. gpu'[x] = EndReads(left[x], n(x))
      BY <1>1, <2>5 DEF DropHolds
    <3> QED BY <2>3, <2>4, <3>1 DEF AfterDestroy
  <2>6. CASE s # root
    <3>1. {h \in gone : x \in h.sources} = {}
      BY <2>6
    <3>2. n(x) = 0
      BY <3>1, FS_EmptySet
    <3>3. gpu'[x] = left[x]
      BY <1>1, <2>6
    <3> HIDE DEF n
    <3> QED BY <2>3, <2>4, <3>2, <3>3 DEF AfterDestroy, EndReads
  <2> QED BY <2>5, <2>6
<1>13. ASSUME NEW x \in Buffers
       PROVE  Abandons(gpu[x], gpu'[x], Attached(s, x), old = x, pt, n(x))
  <2>1. /\ gpu[x] \in BufferRecord /\ gpu[x].queued \subseteq gpu[x].owed
        /\ gpu[x].refs >= gpu[x].currents + gpu[x].reads + Cardinality(Blockers(x))
        /\ Cardinality(Blockers(x)) \in Nat /\ (gpu[x].currents > 0 <=> Showing(x) # {})
    BY Numbers
  <2>2. Attached(s, x) \in SUBSET Blockers(x) /\ IsFiniteSet(Blockers(x)) /\ Blockers(x) \subseteq Ids
    BY <1>4, <1>7, Finite DEF Shape
  <2>3. IsFiniteSet(Attached(s, x)) /\ Cardinality(Attached(s, x)) \in Nat
        /\ Cardinality(Attached(s, x)) <= Cardinality(Blockers(x))
    BY <2>2, FS_Subset, FS_CardinalityType
  <2>4. gpu[x].queued \cap Attached(s, x) = {}
    BY <1>4, <1>7 DEF Shape, Points
  <2>5. pt \in Ids \cup {0}
    BY <1>3 DEF SurfaceRecord
  <2>6. old = x => gpu[x].currents >= 1 /\ (pt # 0 => pt \in gpu[x].owed /\ pt \notin Attached(s, x))
    <3> SUFFICES ASSUME old = x
                 PROVE  gpu[x].currents >= 1 /\ (pt # 0 => pt \in gpu[x].owed /\ pt \notin Attached(s, x))
      OBVIOUS
    <3>1. s \in Showing(x)
      BY DEF Showing
    <3>2. gpu[x].currents \in Nat
      BY <2>1 DEF BufferRecord
    <3>3. pt # 0 => pt \in gpu[x].owed /\ pt \notin AllBlocked
      BY DEF Shape, Points
    <3> QED BY <1>4, <1>7, <2>1, <3>1, <3>2, <3>3
  <2>7. n(x) \in Nat /\ n(x) <= gpu[x].reads
    <3>1. {h \in gone : x \in h.sources} \in SUBSET Holders(x) /\ IsFiniteSet(Holders(x))
      BY <1>11, FiniteHolds DEF Shape, Holders
    <3>2. gpu[x].reads = Cardinality(Holders(x))
      BY DEF Shape, Counted
    <3> QED BY <3>1, <3>2, FS_Subset, FS_CardinalityType
  <2>8. gpu[x].refs >= gpu[x].currents + gpu[x].reads + Cardinality(Attached(s, x))
    <3>1. gpu[x].refs \in Nat /\ gpu[x].currents \in Nat /\ gpu[x].reads \in Nat
      BY <2>1 DEF BufferRecord
    <3> QED BY <2>1, <2>3, <3>1
  <2>9. (old = x) \in BOOLEAN /\ Attached(s, x) \in SUBSET Ids
    BY <2>2
  <2> HIDE DEF old, pt, n
  <2>10. Abandons(gpu[x], AfterDestroy(gpu[x], Attached(s, x), old = x, pt, n(x)), Attached(s, x), old = x, pt, n(x))
    BY <2>1, <2>3, <2>4, <2>5, <2>6, <2>7, <2>8, <2>9, Abandoned
  <2> QED BY <1>12, <2>10
<1>14. gpu' \in [Buffers -> BufferRecord]
  <2>1. gpu' = [x \in Buffers |-> gpu'[x]]
    BY <1>1 DEF left, SetCurrent, DropBlocked, DropHolds
  <2>2. \A x \in Buffers : gpu'[x] \in BufferRecord
    BY <1>13 DEF Abandons
  <2> QED BY <2>1, <2>2
<1>15. Types'
  BY <1>1, <1>5, <1>9, <1>10, <1>14 DEF Shape, Types
<1>16. Numbered'
  <2>1. IsFiniteSet(AllBlocked') /\ Cardinality(AllBlocked') \in Nat /\ Cardinality(AllBlocked') <= c
    BY <1>4, <1>7, FS_Subset, FS_CardinalityType DEF c
  <2> DEFINE d == Cardinality(AllBlocked')
  <2>2. d \in Int /\ d <= c
    BY <2>1, <1>4
  <2> HIDE DEF d
  <2>3. \A i, k \in Int : i <= nextId + 2 /\ k <= c => i + k <= MaxId
    BY <1>1, <1>4, <1>8
  <2>4. nextId' + d <= MaxId
    BY <1>9, <2>2, <2>3
  <2>5. \A i \in AllBlocked : i \in Int /\ i <= nextId
    BY <1>4 DEF Ids, Shape, Numbered
  <2>6. \A i \in AllBlocked' : i <= nextId'
    BY <1>7, <1>8, <1>9, <2>5
  <2> QED BY <1>7, <2>4, <2>6 DEF Numbered, d
<1>17. Fresh'
  <2>1. UsedIds' \subseteq UsedIds
    BY <1>1, <1>11 DEF UsedIds
  <2>2. Types /\ Fresh
    BY DEF Shape
  <2>3. CASE s # root /\ ~dirty
    <3>1. window'[root].scene = nextId + 2 /\ nextId' = nextId + 2
      BY <1>2, <1>10, <2>3
    <3>2. nextId + 2 \in Int /\ nextId < nextId + 2 /\ nextId + 2 <= nextId'
      BY <1>8, <3>1
    <3> HIDE DEF root, dirty
    <3> QED BY <1>3, <1>10, <1>15, <2>1, <2>2, <3>1, <3>2, FreshGains
  <2>4. CASE ~(s # root /\ ~dirty)
    <3>1. \A r \in Roots : window'[r].scene = window[r].scene \/ window'[r].scene = 0
      BY <1>10, <2>4
    <3> QED BY <1>9, <1>15, <2>1, <2>2, <3>1, FreshStays
  <2> QED BY <2>3, <2>4
<1>18. Apart'
  <2>1. IsFiniteSet(AllHolds')
    BY <1>11, FS_Subset DEF Shape, Apart
  <2> QED BY <1>11, <2>1 DEF Apart
<1>19. Counted'
  <2> SUFFICES ASSUME NEW x \in Buffers
               PROVE  /\ gpu'[x].currents = Cardinality(Showing(x)') /\ gpu'[x].reads = Cardinality(Holders(x)')
                      /\ gpu'[x].refs = gpu'[x].currents + gpu'[x].reads + (IF gpu'[x].resource THEN 1 ELSE 0)
                                        + Cardinality(Blockers(x)')
    BY DEF Counted
  <2> DEFINE m == Cardinality(Blockers(x))
             k == Cardinality(Attached(s, x))
             G == {h \in gone : x \in h.sources}
  <2>1. /\ gpu'[x].resource = gpu[x].resource
        /\ gpu'[x].currents = gpu[x].currents - One(old = x) /\ gpu'[x].reads = gpu[x].reads - n(x)
        /\ gpu'[x].refs = gpu[x].refs - k - One(old = x) - n(x)
    BY <1>13 DEF Abandons
  <2>2. /\ IsFiniteSet(Showing(x)) /\ IsFiniteSet(Holders(x)) /\ IsFiniteSet(Blockers(x))
    BY Finite, FiniteHolds DEF Shape
  <2>3. Cardinality(Showing(x)') = gpu[x].currents - One(old = x)
    <3>1. Showing(x)' = Showing(x) \ {s}
      BY <1>5, <1>6 DEF Showing, Deployment
    <3>2. s \in Showing(x) <=> old = x
      BY DEF Showing
    <3>3. Cardinality(Showing(x)) = gpu[x].currents /\ gpu[x].currents \in Nat
      BY <1>3 DEF Shape, Counted, BufferRecord
    <3>4. Cardinality(Showing(x) \ {s}) = IF s \in Showing(x) THEN Cardinality(Showing(x)) - 1 ELSE Cardinality(Showing(x))
      BY <2>2, FS_RemoveElement
    <3> QED BY <3>1, <3>2, <3>3, <3>4 DEF One
  <2>4. Cardinality(Holders(x)') = gpu[x].reads - n(x)
    <3>1. Holders(x)' = Holders(x) \ G /\ Holders(x) \cap G = G
      BY <1>11 DEF Holders
    <3>2. Cardinality(Holders(x) \ G) = Cardinality(Holders(x)) - Cardinality(Holders(x) \cap G)
      BY <2>2, FS_Difference
    <3>3. Cardinality(Holders(x)) = gpu[x].reads
      BY DEF Shape, Counted
    <3> QED BY <3>1, <3>2, <3>3
  <2>5. Cardinality(Blockers(x)') = m - k
    <3>1. Blockers(x)' = Blockers(x) \ Attached(s, x) /\ Blockers(x) \cap Attached(s, x) = Attached(s, x)
      BY <1>7
    <3>2. Cardinality(Blockers(x) \ Attached(s, x)) = Cardinality(Blockers(x)) - Cardinality(Blockers(x) \cap Attached(s, x))
      BY <2>2, FS_Difference
    <3> QED BY <3>1, <3>2
  <2>6. gpu[x].refs = gpu[x].currents + gpu[x].reads + (IF gpu[x].resource THEN 1 ELSE 0) + m
    BY DEF Shape, Counted
  <2>7. m \in Nat /\ k \in Nat /\ n(x) \in Nat
    <3>1. IsFiniteSet(Attached(s, x)) /\ IsFiniteSet(G)
      <4>1. Attached(s, x) \subseteq Blockers(x) /\ G \subseteq Holders(x)
        BY <1>7, <1>11 DEF Holders
      <4> QED BY <2>2, <4>1, FS_Subset
    <3> QED BY <2>2, <3>1, FS_CardinalityType
  <2>8. gpu[x].currents \in Nat /\ gpu[x].reads \in Nat /\ gpu[x].refs \in Nat /\ One(old = x) \in Nat
    BY <1>3 DEF BufferRecord, One
  <2> HIDE DEF m, k, n, old
  <2>9. gpu'[x].refs = gpu'[x].currents + gpu'[x].reads + (IF gpu'[x].resource THEN 1 ELSE 0) + (m - k)
    BY <2>1, <2>6, <2>7, <2>8
  <2> QED BY <2>1, <2>3, <2>4, <2>5, <2>9
<1>20. Passing({s}, BlockedIds(s))
  <2>1. \A t \in Surfaces \ {s} : surface'[t].current = surface[t].current /\ surface'[t].point = surface[t].point
    BY <1>5
  <2>2. ASSUME NEW x \in Buffers
        PROVE  Passes(gpu[x], gpu'[x], Kept(x, {s}), PointsLeft(x, {s}), BlockedIds(s) \cap Blockers(x))
    <3>1. /\ Passes(gpu[x], gpu'[x], gpu[x].currents > One(old = x) \/ gpu[x].reads > n(x),
                    IF old = x THEN {pt} \ {0} ELSE {}, Attached(s, x))
          /\ gpu'[x].currents = gpu[x].currents - One(old = x) /\ gpu'[x].reads = gpu[x].reads - n(x)
      BY <1>13 DEF Abandons
    <3>2. Attached(s, x) = BlockedIds(s) \cap Blockers(x)
      BY <1>7
    <3>3. (IF old = x THEN {pt} \ {0} ELSE {}) = PointsLeft(x, {s})
      BY DEF PointsLeft
    <3>4. gpu[x].currents > One(old = x) <=> \E t \in Surfaces \ {s} : surface[t].current = x
      <4>1. Showing(x)' # {} <=> \E t \in Surfaces \ {s} : surface[t].current = x
        <5>1. x # None
          BY DEF Deployment
        <5>2. \A t \in Surfaces : surface'[t].current = x <=> t # s /\ surface[t].current = x
          BY <2>1, <1>6, <5>1
        <5>3. Showing(x)' = {t \in Surfaces : surface'[t].current = x}
          BY DEF Showing
        <5> QED BY <5>2, <5>3
      <4>2. Showing(x)' # {} <=> Cardinality(Showing(x)') # 0
        <5>1. IsFiniteSet(Showing(x)')
          BY FS_Subset DEF Showing, Deployment
        <5> QED BY <5>1, FS_EmptySet
      <4>3. Cardinality(Showing(x)') = gpu[x].currents - One(old = x)
        BY <1>19, <3>1 DEF Counted
      <4>4. gpu[x].currents \in Nat /\ One(old = x) \in Nat /\ gpu'[x].currents \in Nat
        BY <1>3, <1>14 DEF BufferRecord, One
      <4> QED BY <3>1, <4>1, <4>2, <4>3, <4>4
    <3>5. gpu[x].reads > n(x) <=> \E h \in AllHolds' : h \in AllHolds /\ x \in h.sources
      <4>1. Holders(x)' # {} <=> \E h \in AllHolds' : h \in AllHolds /\ x \in h.sources
        BY <1>11 DEF Holders
      <4>2. Holders(x)' # {} <=> Cardinality(Holders(x)') # 0
        <5>1. IsFiniteSet(Holders(x)')
          BY <1>18, FS_Subset DEF Holders, Apart
        <5> QED BY <5>1, FS_EmptySet
      <4>3. Cardinality(Holders(x)') = gpu[x].reads - n(x)
        BY <1>19, <3>1 DEF Counted
      <4>4. gpu[x].reads \in Nat /\ gpu'[x].reads \in Nat /\ n(x) \in Nat
        <5>1. {h \in gone : x \in h.sources} \in SUBSET AllHolds /\ IsFiniteSet(AllHolds)
          BY <1>11 DEF Shape, Apart
        <5>2. IsFiniteSet({h \in gone : x \in h.sources})
          BY <5>1, FS_Subset
        <5> QED BY <1>3, <1>14, <5>2, FS_CardinalityType DEF BufferRecord
      <4> QED BY <3>1, <4>1, <4>2, <4>3, <4>4
    <3>6. (gpu[x].currents > One(old = x) \/ gpu[x].reads > n(x)) <=> Kept(x, {s})
      BY <3>4, <3>5 DEF Kept
    <3> HIDE DEF old, pt, n
    <3>7. Passes(gpu[x], gpu'[x], gpu[x].currents > One(old = x) \/ gpu[x].reads > n(x),
                 PointsLeft(x, {s}), BlockedIds(s) \cap Blockers(x))
      BY <3>1, <3>2, <3>3
    <3> QED BY <3>6, <3>7 DEF Passes
  <2>3. \A b \in Buffers : Blockers(b)' \subseteq Blockers(b)
    BY <1>7
  <2>4. AllHolds' \subseteq AllHolds /\ BlockedIds(s) \subseteq AllBlocked /\ AllBlocked' \subseteq AllBlocked \ BlockedIds(s)
    BY <1>4, <1>7, <1>11
  <2>5. \A t \in {s}, b \in Buffers : surface'[t].current # b
    BY <1>6 DEF Deployment
  <2> QED BY <1>9, <2>1, <2>2, <2>3, <2>4, <2>5 DEF Passing
<1>21. Points'
  BY <1>6, <1>15, <1>20, PointsPass DEF Deployment
<1>22. Generous
  BY <1>13 DEF Generous, Abandons
<1> QED BY <1>1, <1>6, <1>11, <1>15, <1>16, <1>17, <1>18, <1>19, <1>20, <1>21, <1>22 DEF Shape

---------------------------------------------------------------------------
\* The counters of every buffer, in every state.

LEMMA InitShape ==
  ASSUME Deployment, Init
  PROVE  Shape
<1>1. /\ surface = [s \in Surfaces |-> NewSurface] /\ gpu = [b \in Buffers |-> NewBuffer]
      /\ window = [r \in Roots |-> [scene |-> 0, holds |-> {}]] /\ host = [i \in Ids |-> NoScene]
      /\ nextId = 0 /\ retry = {} /\ rendered = {} /\ released = {} /\ presented = {}
  BY DEF Init
<1>2. /\ AllHolds = {} /\ \A s \in Surfaces : BlockedIds(s) = {} /\ \A b \in Buffers : Attached(s, b) = {}
  BY <1>1 DEF AllHolds, BlockedIds, Attached, NewSurface
<1>3. AllBlocked = {} /\ UsedIds = {} /\ \A b \in Buffers : Blockers(b) = {} /\ Holders(b) = {} /\ Showing(b) = {}
  BY <1>1, <1>2 DEF AllBlocked, UsedIds, NoScene, Blockers, Holders, Showing, NewSurface, Deployment
<1>4. Types
  <2>1. NewSurface \in SurfaceRecord
    <3>1. <<>> \in Seq(Blockable)
      OBVIOUS
    <3> QED BY <3>1 DEF NewSurface, SurfaceRecord
  <2>2. NewBuffer \in BufferRecord /\ NoScene \in SceneRecord /\ [scene |-> 0, holds |-> {}] \in WindowRecord
    BY DEF NewBuffer, BufferRecord, NoScene, SceneRecord, WindowRecord
  <2> QED BY <1>1, <2>1, <2>2 DEF Types
<1>5. Cardinality({}) = 0 /\ IsFiniteSet({})
  BY FS_EmptySet
<1>6. Numbered
  BY <1>1, <1>2, <1>3, <1>5 DEF Numbered, NoTwice, NewSurface, Deployment
<1>7. Fresh
  BY <1>1, <1>3 DEF Fresh
<1>8. Apart
  BY <1>1, <1>2, <1>5 DEF Apart
<1>9. Counted
  <2>1. \A b \in Buffers : /\ gpu[b].currents = 0 /\ gpu[b].reads = 0 /\ gpu[b].refs = 1 /\ gpu[b].resource = TRUE
    BY <1>1 DEF NewBuffer
  <2> QED BY <1>3, <1>5, <2>1 DEF Counted
<1>10. Points
  BY <1>1, <1>3 DEF Points, NewSurface, NewBuffer, Deployment
<1> QED BY <1>4, <1>6, <1>7, <1>8, <1>9, <1>10 DEF Shape

\* The steps in which users of buffers only go.
Departures == \/ \E s \in Surfaces : Visit(s) \/ DestroySurface(s)
              \/ \E b \in Buffers : DestroyBuffer(b)
              \/ \E r \in Roots : Retire(r)
              \/ \E i \in Ids : \/ Rendered(i) \/ OnPresented(i) \/ OnReleased(i)
                                \/ Take(i) \/ Submit(i) \/ Discard(i) \/ ReadComplete(i)
              \/ Disconnect \/ Reconnect

LEMMA QuietIsGenerous ==
  ASSUME Quiet
  PROVE  Generous
BY DEF Quiet, Generous

LEMMA DeparturesPass ==
  ASSUME Deployment, Shape, Departures
  PROVE  /\ Shape'
         /\ \E M \in SUBSET Surfaces, D \in SUBSET AllBlocked : Passing(M, D)
         /\ Generous \/ \E b \in Buffers : DestroyBuffer(b)
<1>1. ASSUME Quiet
      PROVE  (\E M \in SUBSET Surfaces, D \in SUBSET AllBlocked : Passing(M, D)) /\ Generous
  BY <1>1, QuietPasses, QuietIsGenerous
<1>2. ASSUME NEW s \in Surfaces, Visit(s)
      PROVE  Shape' /\ (\E M \in SUBSET Surfaces, D \in SUBSET AllBlocked : Passing(M, D)) /\ Generous
  <2>1. CASE Applies(s)
    <3> DEFINE M == IF Moves(s, Head(surface[s].blocked)) THEN {s} ELSE {}
    <3>1. Shape' /\ Passing(M, {}) /\ Generous /\ M \in SUBSET Surfaces
      BY <2>1, VisitShape
    <3> HIDE DEF M
    <3> QED BY <3>1
  <2>2. CASE ~Applies(s)
    <3>1. Shape' /\ Quiet
      BY <1>2, <2>2, SkipIsQuiet
    <3> QED BY <1>1, <3>1
  <2> QED BY <2>1, <2>2
<1>3. ASSUME NEW s \in Surfaces, DestroySurface(s)
      PROVE  Shape' /\ (\E M \in SUBSET Surfaces, D \in SUBSET AllBlocked : Passing(M, D)) /\ Generous
  <2>1. Shape' /\ Passing({s}, BlockedIds(s)) /\ Generous
    BY <1>3, DestroySurfaceShape
  <2>2. BlockedIds(s) \in SUBSET AllBlocked
    BY DEF AllBlocked
  <2> QED BY <2>1, <2>2
<1>4. ASSUME NEW b \in Buffers, DestroyBuffer(b)
      PROVE  Shape' /\ (\E M \in SUBSET Surfaces, D \in SUBSET AllBlocked : Passing(M, D))
  BY <1>4, DestroyBufferShape
<1>5. ASSUME NEW r \in Roots, Retire(r)
      PROVE  Shape' /\ Quiet
  BY <1>5, RetireIsQuiet
<1>6. ASSUME NEW i \in Ids, Rendered(i) \/ OnPresented(i)
      PROVE  Shape' /\ Quiet
  BY <1>6, FeedbackIsQuiet
<1>7. ASSUME NEW i \in Ids, OnReleased(i)
      PROVE  Shape' /\ (\E M \in SUBSET Surfaces, D \in SUBSET AllBlocked : Passing(M, D)) /\ Generous
  BY <1>7, ReleasedShape
<1>8. ASSUME NEW i \in Ids, Take(i) \/ Submit(i) \/ Discard(i) \/ ReadComplete(i)
      PROVE  Shape' /\ Quiet
  BY <1>8, HostIsQuiet
<1>9. ASSUME Disconnect
      PROVE  Shape' /\ (\E M \in SUBSET Surfaces, D \in SUBSET AllBlocked : Passing(M, D)) /\ Generous
  BY <1>9, DisconnectShape
<1>10. ASSUME Reconnect
       PROVE  Shape' /\ Quiet
  BY <1>10, ReconnectIsQuiet
<1> QED BY <1>1, <1>2, <1>3, <1>4, <1>5, <1>6, <1>7, <1>8, <1>9, <1>10 DEF Departures

LEMMA NextSteps ==
  ASSUME Next
  PROVE  \/ Departures
         \/ \E s \in Surfaces, kind \in {"attach", "detach", "redraw", "state"},
               b \in Buffers \cup {None}, sets, waits, ready \in BOOLEAN : Commit(s, kind, b, sets, waits, ready)
         \/ \E r \in Roots : Admit(r)
         \/ \E r \in Roots : Reject(r)
<1>1. Client => \/ Departures
                \/ \E s \in Surfaces, kind \in {"attach", "detach", "redraw", "state"},
                      b \in Buffers \cup {None}, sets, waits, ready \in BOOLEAN : Commit(s, kind, b, sets, waits, ready)
  BY DEF Client, Departures
<1>2. Compositor => Departures \/ (\E r \in Roots : Admit(r)) \/ \E r \in Roots : Reject(r)
  BY DEF Compositor, Departures
<1>3. Host => Departures
  BY DEF Host, Departures
<1> QED BY <1>1, <1>2, <1>3 DEF Next, Departures

LEMMA StutterShape ==
  ASSUME Deployment, Shape, UNCHANGED vars
  PROVE  Shape'
<1>1. UNCHANGED <<surface, gpu, window, nextId, retry, rendered, host, released, presented>>
  BY DEF vars
<1>2. Types'
  BY <1>1 DEF Shape, Types
<1>3. Quiet
  BY <1>1 DEF Quiet, Shape, Types, Ids
<1>4. Fresh'
  BY <1>1 DEF Shape, Fresh, UsedIds, AllHolds
<1>5. nextId' + Cardinality(AllBlocked) <= MaxId
  BY <1>1 DEF Shape, Numbered
<1> QED BY <1>2, <1>3, <1>4, <1>5, QuietShape

LEMMA StepShape ==
  ASSUME Deployment, Shape, [Next]_vars
  PROVE  Shape'
<1>1. CASE Departures
  BY <1>1, DeparturesPass
<1>2. ASSUME NEW s \in Surfaces, NEW kind \in {"attach", "detach", "redraw", "state"},
             NEW b \in Buffers \cup {None}, NEW sets \in BOOLEAN, NEW waits \in BOOLEAN, NEW ready \in BOOLEAN,
             Commit(s, kind, b, sets, waits, ready)
      PROVE  Shape'
  BY <1>2, CommitShape
<1>3. ASSUME NEW r \in Roots, Admit(r)
      PROVE  Shape'
  BY <1>3, AdmitShape
<1>4. ASSUME NEW r \in Roots, Reject(r)
      PROVE  Shape'
  BY <1>4, RejectIsNothing, StutterShape
<1>5. CASE UNCHANGED vars
  BY <1>5, StutterShape
<1> QED BY <1>1, <1>2, <1>3, <1>4, <1>5, NextSteps

\* The counters of a buffer are the numbers of those that use it (CountsAgree), in
\* every reachable state of any compositor.
THEOREM CountersAreTrue ==
  ASSUME Deployment
  PROVE  Spec => []CountsAgree
<1>1. Init => Shape
  BY InitShape
<1>2. Shape /\ [Next]_vars => Shape'
  BY StepShape
<1>3. Shape => CountsAgree
  BY DEF Shape, Counted, CountsAgree, Showing
<1> QED BY <1>1, <1>2, <1>3, PTL DEF Spec

---------------------------------------------------------------------------
\* Scenes of this session and of a window that is there keep what they read.

Live(i) == i \in Ids /\ host[i].at \in {"lane", "queued", "reading"} /\ host[i].root \in Alive

\* The guest holds every buffer a live scene shows, until the host has read it.
Held == \A i \in Ids : Live(i) =>
  i \notin released /\ [id |-> i, sources |-> Sources(host[i].layers)] \in window[host[i].root].holds

\* The release points of its layers are those of commits that left the queues, and
\* they are still owed.
Lit == \A i \in Ids : Live(i) => \A l \in host[i].layers :
  /\ l[2] # 0 => l[2] \in gpu[l[1]].owed /\ l[2] \notin AllBlocked
  /\ l[1] \in Explicit => l[2] # 0

Reading == Shape /\ Held /\ Lit

LEMMA LiveOrForsaken ==
  ASSUME NEW i \in Ids
  PROVE  host[i].at \in MayRead <=> Live(i) \/ i \in Forsaken
BY DEF MayRead, Live, Forsaken

LEMMA LiveRoots ==
  ASSUME Deployment, Shape, NEW i \in Ids, Live(i)
  PROVE  host[i].root \in Roots /\ window[host[i].root].holds \subseteq AllHolds
<1>1. host[i].root \in Roots \cup {None} /\ host[i].root \in Surfaces
  BY DEF Shape, Types, SceneRecord, Live, Alive
<1>2. host[i].root \in Roots
  BY <1>1 DEF Deployment
<1> QED BY <1>2 DEF AllHolds

\* Steps after which no scene is read that was not read before, and none is waited
\* for again.
Dwindle == \A i \in Ids : host'[i].at \in MayRead =>
  /\ host[i].at \in MayRead /\ host'[i].layers = host[i].layers /\ host'[i].root = host[i].root
  /\ host[i].at = "orphaned" => host'[i].at = "orphaned"

Fewer == \A i \in Ids : Live(i)' =>
  Live(i) /\ host'[i].layers = host[i].layers /\ host'[i].root = host[i].root

LEMMA DwindleLeavesFewer ==
  ASSUME Dwindle, Alive' \subseteq Alive
  PROVE  Fewer /\ \A i \in Forsaken : host'[i].at \in MayRead => i \in Forsaken'
BY DEF Dwindle, Fewer, Live, MayRead, Forsaken

LEMMA HostSteps ==
  ASSUME Shape, NEW i \in Ids, Take(i) \/ Submit(i) \/ Discard(i) \/ ReadComplete(i)
  PROVE  Dwindle /\ \A j \in released' : j \in released \/ ~Live(j)'
<1>1. host \in [Ids -> SceneRecord] /\ NoScene.at = "none"
  BY DEF Shape, Types, NoScene
<1>2. CASE Take(i)
  <2> DEFINE older == {j \in Ids : host[j].at = "queued" /\ host[j].root = host[i].root}
             taken == [host[i] EXCEPT !.at = "queued", !.latches = @ \cup Inherited(older)]
  <2>1. /\ host' = [j \in Ids |-> IF j = i THEN taken ELSE IF j \in older THEN NoScene ELSE host[j]]
        /\ released' = released \cup older /\ host[i].at = "lane"
    BY <1>2 DEF Take
  <2>2. taken.at = "queued" /\ taken.layers = host[i].layers /\ taken.root = host[i].root
    BY <1>1 DEF SceneRecord
  <2>3. i \notin older
    BY <2>1
  <2> HIDE DEF taken
  <2>4. \A j \in Ids : host'[j] = IF j = i THEN taken ELSE IF j \in older THEN NoScene ELSE host[j]
    BY <2>1
  <2> HIDE DEF older
  <2>5. Dwindle
    BY <1>1, <2>1, <2>2, <2>3, <2>4 DEF Dwindle, MayRead
  <2>6. \A j \in older : ~Live(j)'
    BY <1>1, <2>3, <2>4 DEF Live
  <2> QED BY <2>1, <2>5, <2>6
<1>3. CASE Submit(i)
  <2>1. host' = [host EXCEPT ![i] = [host[i] EXCEPT !.at = "reading", !.latches = {}]] /\ host[i].at = "queued"
        /\ released' = released
    BY <1>3 DEF Submit
  <2>2. \A j \in Ids : /\ host'[j].layers = host[j].layers /\ host'[j].root = host[j].root
                        /\ j # i => host'[j] = host[j]
    BY <1>1, <2>1 DEF SceneRecord
  <2> QED BY <2>1, <2>2 DEF Dwindle, MayRead
<1>4. CASE Discard(i) \/ ReadComplete(i)
  <2>1. host' = [host EXCEPT ![i] = NoScene] /\ released' \subseteq released \cup {i}
    BY <1>4 DEF Discard, ReadComplete
  <2> QED BY <1>1, <2>1 DEF Dwindle, MayRead, Live
<1> QED BY <1>2, <1>3, <1>4

LEMMA DisconnectEndsAll ==
  ASSUME Shape, Disconnect
  PROVE  Dwindle /\ \A i \in Ids : ~Live(i)'
<1>1. host' = [i \in Ids |-> IF host[i].at \in {"reading", "orphaned"}
                             THEN [host[i] EXCEPT !.at = "orphaned"] ELSE NoScene]
  BY DEF Disconnect
<1>2. \A i \in Ids : /\ [host[i] EXCEPT !.at = "orphaned"].at = "orphaned"
                      /\ [host[i] EXCEPT !.at = "orphaned"].layers = host[i].layers
                      /\ [host[i] EXCEPT !.at = "orphaned"].root = host[i].root
  BY DEF Shape, Types, SceneRecord
<1> QED BY <1>1, <1>2 DEF Live, NoScene, Dwindle, MayRead

\* A surface that has gone does not come back.
LEMMA NoneComesBack ==
  ASSUME Deployment, Shape, Departures
  PROVE  Alive' \subseteq Alive
<1>0. surface \in [Surfaces -> SurfaceRecord]
  BY DEF Shape, Types
<1>1. ASSUME NEW s \in Surfaces, Visit(s)
      PROVE  \A t \in Surfaces : surface'[t].alive = surface[t].alive
  <2>1. CASE Applies(s)
    BY <2>1, VisitSurface
  <2>2. CASE ~Applies(s)
    BY <1>1, <2>2 DEF Visit, Applies
  <2> QED BY <2>1, <2>2
<1>2. ASSUME NEW s \in Surfaces, DestroySurface(s)
      PROVE  \A t \in Surfaces : t = s \/ surface'[t].alive = surface[t].alive
  <2>1. surface' = [surface EXCEPT ![s] = [NewSurface EXCEPT !.alive = FALSE]]
    BY <1>2 DEF DestroySurface
  <2> QED BY <1>0, <2>1
<1>3. ASSUME NEW s \in Surfaces, DestroySurface(s)
      PROVE  s \in Alive
  BY <1>3 DEF DestroySurface
<1>4. ASSUME NEW i \in Ids, OnPresented(i)
      PROVE  \A t \in Surfaces : surface'[t].alive = surface[t].alive
  <2>1. surface' = [s \in Surfaces |->
          [surface[s] EXCEPT !.callbacks = @ \ {i}, !.barrier = IF @ = i THEN 0 ELSE @]]
    BY <1>4 DEF OnPresented
  <2> QED BY <1>0, <2>1 DEF SurfaceRecord
<1>5. ASSUME Reconnect
      PROVE  \A t \in Surfaces : surface'[t].alive = surface[t].alive
  BY <1>0, <1>5 DEF Reconnect, SurfaceRecord
<1>6. ASSUME UNCHANGED surface
      PROVE  \A t \in Surfaces : surface'[t].alive = surface[t].alive
  BY <1>6
<1>7. ASSUME NEW b \in Buffers, DestroyBuffer(b)
      PROVE  UNCHANGED surface
  BY <1>7 DEF DestroyBuffer
<1>8. ASSUME NEW r \in Roots, Retire(r)
      PROVE  UNCHANGED surface
  BY <1>8 DEF Retire
<1>9. ASSUME NEW i \in Ids, Rendered(i) \/ OnReleased(i)
      PROVE  UNCHANGED surface
  BY <1>9 DEF Rendered, OnReleased
<1>10. ASSUME NEW i \in Ids, Take(i) \/ Submit(i) \/ Discard(i) \/ ReadComplete(i)
       PROVE  UNCHANGED surface
  BY <1>10 DEF Take, Submit, Discard, ReadComplete, guestVars
<1>11. ASSUME Disconnect
       PROVE  UNCHANGED surface
  BY <1>11 DEF Disconnect
<1>12. \A t \in Surfaces : surface'[t].alive => surface[t].alive
  BY <1>1, <1>2, <1>3, <1>4, <1>5, <1>6, <1>7, <1>8, <1>9, <1>10, <1>11 DEF Departures, Alive
<1> QED BY <1>12 DEF Alive

LEMMA DeparturesDwindle ==
  ASSUME Deployment, Shape, Departures
  PROVE  Dwindle
<1>1. ASSUME UNCHANGED host
      PROVE  Dwindle
  BY <1>1 DEF Dwindle
<1>2. ASSUME NEW s \in Surfaces, Visit(s) \/ DestroySurface(s)
      PROVE  UNCHANGED host
  BY <1>2 DEF Visit, DestroySurface, hostVars
<1>3. ASSUME NEW b \in Buffers, DestroyBuffer(b)
      PROVE  UNCHANGED host
  BY <1>3 DEF DestroyBuffer, hostVars
<1>4. ASSUME NEW r \in Roots, Retire(r)
      PROVE  UNCHANGED host
  BY <1>4 DEF Retire
<1>5. ASSUME NEW i \in Ids, Rendered(i) \/ OnPresented(i) \/ OnReleased(i)
      PROVE  UNCHANGED host
  BY <1>5 DEF Rendered, OnPresented, OnReleased, hostVars
<1>6. Reconnect => UNCHANGED host
  BY DEF Reconnect
<1> QED BY <1>1, <1>2, <1>3, <1>4, <1>5, <1>6, HostSteps, DisconnectEndsAll DEF Departures

\* In every departure the live scenes keep their holds.
LEMMA DeparturesHold ==
  ASSUME Deployment, Reading, Departures
  PROVE  Held' /\ Fewer
<1>0. Fewer /\ Shape /\ Alive' \subseteq Alive
  BY DeparturesDwindle, NoneComesBack, DwindleLeavesFewer DEF Reading
<1>1. ASSUME \A r \in Roots \cap Alive' : window'[r].holds = window[r].holds,
             \A j \in released' : j \in released \/ ~Live(j)'
      PROVE  Held'
  <2> SUFFICES ASSUME NEW i \in Ids, Live(i)'
               PROVE  /\ i \notin released'
                      /\ [id |-> i, sources |-> Sources(host'[i].layers)] \in window'[host'[i].root].holds
    BY DEF Held, Sources
  <2>1. Live(i) /\ host'[i].layers = host[i].layers /\ host'[i].root = host[i].root
    BY <1>0 DEF Fewer
  <2>2. host[i].root \in Roots \cap Alive'
    BY <1>0, <2>1, LiveRoots DEF Live
  <2> QED BY <1>1, <2>1, <2>2 DEF Reading, Held
<1>2. ASSUME NEW s \in Surfaces, Visit(s)
      PROVE  (\A r \in Roots : window'[r].holds = window[r].holds) /\ released' = released
  <2>1. window \in [Roots -> WindowRecord]
    BY <1>0 DEF Shape, Types
  <2>2. window' = window \/ \E n : window' = [window EXCEPT ![RootOf[s]].scene = n]
    BY <1>2 DEF Visit
  <2>3. ASSUME NEW n, window' = [window EXCEPT ![RootOf[s]].scene = n], NEW r \in Roots
        PROVE  window'[r].holds = window[r].holds
    <3>1. CASE r = RootOf[s]
      <4>1. window'[r] = [window[r] EXCEPT !.scene = n]
        BY <2>1, <2>3, <3>1
      <4> QED BY <2>1, <4>1 DEF WindowRecord
    <3>2. CASE r # RootOf[s]
      BY <2>1, <2>3, <3>2
    <3> QED BY <3>1, <3>2
  <2>4. \A r \in Roots : window'[r].holds = window[r].holds
    BY <2>2, <2>3
  <2> QED BY <1>2, <2>4 DEF Visit
<1>3. ASSUME NEW s \in Surfaces, DestroySurface(s)
      PROVE  (\A r \in Roots \cap Alive' : window'[r].holds = window[r].holds) /\ released' = released
  <2>1. window \in [Roots -> WindowRecord] /\ surface \in [Surfaces -> SurfaceRecord] /\ RootOf[s] \in Roots
    BY <1>0 DEF Shape, Types, Roots
  <2>2. surface' = [surface EXCEPT ![s] = [NewSurface EXCEPT !.alive = FALSE]] /\ released' = released
    BY <1>3 DEF DestroySurface, hostVars
  <2>3. s \notin Alive'
    BY <2>1, <2>2 DEF Alive, NewSurface
  <2>4. CASE s = RootOf[s]
    <3>1. window' = [window EXCEPT ![s] = [scene |-> 0, holds |-> {}]]
      BY <1>3, <2>4 DEF DestroySurface
    <3> QED BY <2>1, <2>2, <2>3, <3>1
  <2>5. CASE s # RootOf[s]
    <3>1. window' = window \/ window' = [window EXCEPT ![RootOf[s]].scene = nextId + 2]
      BY <1>3, <2>5 DEF DestroySurface
    <3> QED BY <2>1, <2>2, <3>1 DEF WindowRecord
  <2> QED BY <2>4, <2>5
<1>4. ASSUME NEW b \in Buffers, DestroyBuffer(b)
      PROVE  (\A r \in Roots : window'[r].holds = window[r].holds) /\ released' = released
  BY <1>4 DEF DestroyBuffer, hostVars
<1>5. ASSUME NEW r \in Roots, Retire(r)
      PROVE  (\A q \in Roots : window'[q].holds = window[q].holds) /\ released' = released
  BY <1>0, <1>5, RetireIsQuiet DEF Quiet
<1>6. ASSUME NEW i \in Ids, Rendered(i) \/ OnPresented(i)
      PROVE  (\A r \in Roots : window'[r].holds = window[r].holds) /\ released' = released
  BY <1>0, <1>6, FeedbackIsQuiet DEF Quiet
<1>7. ASSUME NEW i \in Ids, OnReleased(i)
      PROVE  Held'
  <2>1. /\ window' = [r \in Roots |-> [window[r] EXCEPT !.holds = @ \ {h \in window[r].holds : h.id = i}]]
        /\ released' = released \ {i} /\ i \in released
    BY <1>7 DEF OnReleased
  <2>2. \A r \in Roots : window'[r].holds = {h \in window[r].holds : h.id # i}
    BY <1>0, <2>1 DEF Shape, Types, WindowRecord
  <2> SUFFICES ASSUME NEW j \in Ids, Live(j)'
               PROVE  /\ j \notin released'
                      /\ [id |-> j, sources |-> Sources(host'[j].layers)] \in window'[host'[j].root].holds
    BY DEF Held, Sources
  <2>3. Live(j) /\ host'[j].layers = host[j].layers /\ host'[j].root = host[j].root
    BY <1>0 DEF Fewer
  <2>4. host[j].root \in Roots
    BY <1>0, <2>3, LiveRoots
  <2>5. j # i /\ j \notin released /\ [id |-> j, sources |-> Sources(host[j].layers)] \in window[host[j].root].holds
    BY <2>1, <2>3 DEF Reading, Held
  <2> QED BY <2>1, <2>2, <2>3, <2>4, <2>5
<1>8. ASSUME NEW i \in Ids, Take(i) \/ Submit(i) \/ Discard(i) \/ ReadComplete(i)
      PROVE  (\A r \in Roots : window'[r].holds = window[r].holds) /\ \A j \in released' : j \in released \/ ~Live(j)'
  BY <1>0, <1>8, HostIsQuiet, HostSteps DEF Quiet
<1>9. ASSUME Disconnect
      PROVE  Held'
  BY <1>0, <1>9, DisconnectEndsAll DEF Held
<1>10. ASSUME Reconnect
       PROVE  (\A r \in Roots : window'[r].holds = window[r].holds) /\ released' = released
  BY <1>0, <1>10, ReconnectIsQuiet DEF Quiet
<1> QED BY <1>0, <1>1, <1>2, <1>3, <1>4, <1>5, <1>6, <1>7, <1>8, <1>9, <1>10 DEF Departures

LEMMA DeparturesReading ==
  ASSUME Deployment, Reading, Departures
  PROVE  Reading'
<1>1. Held' /\ Fewer
  BY DeparturesHold
<1>2. Shape'
  BY DeparturesPass DEF Reading
<1>3. PICK M \in SUBSET Surfaces, D \in SUBSET AllBlocked : Passing(M, D)
  BY DeparturesPass DEF Reading
<1>4. ASSUME NEW i \in Ids, Live(i)', NEW l \in host'[i].layers
      PROVE  /\ l[2] # 0 => l[2] \in gpu'[l[1]].owed /\ l[2] \notin AllBlocked'
             /\ l[1] \in Explicit => l[2] # 0
  <2>1. Live(i) /\ l \in host[i].layers
    BY <1>1, <1>4 DEF Fewer
  <2>2. l[1] \in Buffers
    BY <2>1 DEF Reading, Shape, Types, SceneRecord
  <2> DEFINE b == l[1]
             h == [id |-> i, sources |-> Sources(host[i].layers)]
  <2>3. (l[2] # 0 => l[2] \in gpu[b].owed /\ l[2] \notin AllBlocked) /\ (b \in Explicit => l[2] # 0)
    BY <2>1 DEF Reading, Lit
  <2>4. h \in AllHolds /\ h \in AllHolds'
    <3>1. host'[i].layers = host[i].layers /\ host'[i].root = host[i].root
      BY <1>1, <1>4 DEF Fewer
    <3>2. host[i].root \in Roots
      BY <2>1, LiveRoots DEF Reading
    <3>3. h \in window[host[i].root].holds
      BY <2>1 DEF Reading, Held
    <3>4. h \in window'[host[i].root].holds
      BY <1>1, <1>4, <3>1 DEF Held, Sources
    <3> QED BY <3>2, <3>3, <3>4 DEF AllHolds
  <2>5. b \in h.sources
    BY <2>1 DEF Sources
  <2> HIDE DEF b, h
  <2>6. Kept(b, M)
    BY <2>4, <2>5 DEF Kept
  <2>7. gpu'[b].owed = gpu[b].owed \ (D \cap Blockers(b))
    BY <1>3, <2>2, <2>6 DEF Passing, Passes, b
  <2>8. D \subseteq AllBlocked /\ AllBlocked' \subseteq AllBlocked
    BY <1>3 DEF Passing
  <2> QED BY <2>3, <2>7, <2>8 DEF b
<1>5. Lit'
  BY <1>4 DEF Lit
<1> QED BY <1>1, <1>2, <1>5 DEF Reading

LEMMA CommitAlive ==
  ASSUME Shape, NEW s \in Surfaces, NEW kind \in {"attach", "detach", "redraw", "state"},
         NEW b \in Buffers \cup {None}, NEW sets \in BOOLEAN, NEW waits \in BOOLEAN, NEW ready \in BOOLEAN,
         Commit(s, kind, b, sets, waits, ready)
  PROVE  Alive' = Alive
<1>1. surface' = [surface EXCEPT ![s].blocked = Append(@, [kind |-> kind, buffer |-> b, id |-> nextId + 1,
                     sets |-> sets, waits |-> waits]), ![s].callbacks = @ \cup {nextId + 1}]
  BY DEF Commit
<1>2. \A t \in Surfaces : surface'[t].alive = surface[t].alive
  BY <1>1 DEF Shape, Types, SurfaceRecord
<1> QED BY <1>2 DEF Alive

LEMMA CommitReading ==
  ASSUME Deployment, Reading, NEW s \in Surfaces, NEW kind \in {"attach", "detach", "redraw", "state"},
         NEW b \in Buffers \cup {None}, NEW sets \in BOOLEAN, NEW waits \in BOOLEAN, NEW ready \in BOOLEAN,
         Commit(s, kind, b, sets, waits, ready)
  PROVE  Reading'
<1>0. UNCHANGED window /\ Alive' = Alive
  <2>1. Alive' = Alive
    BY CommitAlive DEF Reading
  <2>2. UNCHANGED window
    BY DEF Commit
  <2> QED BY <2>1, <2>2
<1>1. /\ Shape' /\ UNCHANGED <<host, released>>
      /\ AllBlocked' = AllBlocked \cup {nextId + 1} /\ nextId + 1 \in Ids
      /\ \A x \in Buffers : gpu'[x] = IF kind = "attach" /\ x = b THEN Handed(gpu[x], nextId + 1, x) ELSE gpu[x]
  BY CommitShape DEF Reading
<1>2. Held'
  BY <1>0, <1>1 DEF Reading, Held, Live, Sources
<1>3. \A x \in Buffers : gpu[x].owed \subseteq gpu'[x].owed /\ nextId + 1 \notin gpu[x].owed
  <2> SUFFICES ASSUME NEW x \in Buffers
               PROVE  gpu[x].owed \subseteq gpu'[x].owed /\ nextId + 1 \notin gpu[x].owed
    OBVIOUS
  <2>1. gpu[x] \in BufferRecord
    BY DEF Reading, Shape, Types
  <2>2. Handed(gpu[x], nextId + 1, x).owed = gpu[x].owed \cup (IF x \in Explicit THEN {nextId + 1} ELSE {})
    BY <1>1, <2>1, Hands
  <2>3. gpu[x].owed \subseteq gpu'[x].owed
    BY <1>1, <2>2
  <2>4. \A p \in gpu[x].owed : p <= nextId
    BY DEF Reading, Shape, Points
  <2>5. nextId \in Int /\ ~(nextId + 1 <= nextId)
    BY DEF Reading, Shape, Types, Ids
  <2> QED BY <2>3, <2>4, <2>5
<1>4. Lit'
  <2> SUFFICES ASSUME NEW i \in Ids, Live(i)', NEW l \in host'[i].layers
               PROVE  /\ l[2] # 0 => l[2] \in gpu'[l[1]].owed /\ l[2] \notin AllBlocked'
                      /\ l[1] \in Explicit => l[2] # 0
    BY DEF Lit
  <2>1. Live(i) /\ l \in host[i].layers
    BY <1>0, <1>1 DEF Live
  <2>2. l[1] \in Buffers
    BY <2>1 DEF Reading, Shape, Types, SceneRecord
  <2>3. (l[2] # 0 => l[2] \in gpu[l[1]].owed /\ l[2] \notin AllBlocked) /\ (l[1] \in Explicit => l[2] # 0)
    BY <2>1 DEF Reading, Lit
  <2> QED BY <1>1, <1>3, <2>2, <2>3
<1> QED BY <1>1, <1>2, <1>4 DEF Reading

LEMMA AdmitReading ==
  ASSUME Deployment, Reading, NEW root \in Roots, Admit(root)
  PROVE  Reading'
<1> DEFINE id == window[root].scene
           hold == [id |-> id, sources |-> Sources(Layers(root))]
           layers == Layers(root)
<1>1. /\ Shape' /\ AllBlocked' = AllBlocked
      /\ id \in Ids /\ id \notin UsedIds
      /\ \A b \in Buffers : gpu'[b].owed = gpu[b].owed
  BY AdmitShape DEF Reading
<1>2. /\ host' = [host EXCEPT ![id] = [at |-> "lane", layers |-> layers, latches |-> {id}, root |-> root]]
      /\ released' = released
  BY DEF Admit
<1>3. host \in [Ids -> SceneRecord]
  BY DEF Reading, Shape, Types
<1>4. layers \subseteq Buffers \X (Ids \cup {0})
  BY AdmitShape DEF Reading
<1>5. \A l \in layers : /\ l[2] # 0 => l[2] \in gpu[l[1]].owed /\ l[2] \notin AllBlocked
                        /\ l[1] \in Explicit => l[2] # 0
  <2> SUFFICES ASSUME NEW t \in Surfaces, surface[t].current # None
               PROVE  /\ surface[t].point # 0 => surface[t].point \in gpu[surface[t].current].owed /\ surface[t].point \notin AllBlocked
                      /\ surface[t].current \in Explicit => surface[t].point # 0
    BY DEF Layers, Members, Alive, HasContent
  <2>1. surface[t].current \in Buffers
    BY DEF Reading, Shape, Types, SurfaceRecord
  <2> QED BY <2>1 DEF Reading, Shape, Points
<1> HIDE DEF id, layers
<1>6. /\ host'[id].layers = layers /\ host'[id].root = root /\ \A i \in Ids \ {id} : host'[i] = host[i]
  BY <1>1, <1>2, <1>3
<1>10. /\ Alive' = Alive /\ hold \in window'[root].holds /\ \A r \in Roots : window[r].holds \subseteq window'[r].holds
  <2>1. /\ window' = [window EXCEPT ![root] = [scene |-> 0, holds |-> @.holds \cup {hold}]]
        /\ surface' = surface
    BY DEF Admit, id, layers
  <2>2. window \in [Roots -> WindowRecord]
    BY DEF Reading, Shape, Types
  <2> HIDE DEF hold
  <2> QED BY <2>1, <2>2 DEF Alive, WindowRecord
<1>7. id \notin released
  BY <1>1 DEF UsedIds
<1>8. Held'
  <2> SUFFICES ASSUME NEW i \in Ids, Live(i)'
               PROVE  /\ i \notin released'
                      /\ [id |-> i, sources |-> Sources(host'[i].layers)] \in window'[host'[i].root].holds
    BY DEF Held, Sources
  <2>1. CASE i = id
    BY <1>1, <1>2, <1>6, <1>7, <1>10, <2>1 DEF layers
  <2>2. CASE i # id
    <3>1. Live(i) /\ host'[i] = host[i]
      BY <1>6, <1>10, <2>2 DEF Live
    <3>2. host[i].root \in Roots
      BY <3>1, LiveRoots DEF Reading
    <3> QED BY <1>2, <1>10, <3>1, <3>2 DEF Reading, Held
  <2> QED BY <2>1, <2>2
<1>9. Lit'
  <2> SUFFICES ASSUME NEW i \in Ids, Live(i)', NEW l \in host'[i].layers
               PROVE  /\ l[2] # 0 => l[2] \in gpu'[l[1]].owed /\ l[2] \notin AllBlocked'
                      /\ l[1] \in Explicit => l[2] # 0
    BY DEF Lit
  <2>1. CASE i = id
    <3>1. l \in layers /\ l[1] \in Buffers
      BY <1>4, <1>6, <2>1
    <3> QED BY <1>1, <1>5, <3>1
  <2>2. CASE i # id
    <3>1. Live(i) /\ l \in host[i].layers
      BY <1>6, <1>10, <2>2 DEF Live
    <3>2. l[1] \in Buffers
      BY <1>3, <3>1 DEF SceneRecord
    <3> QED BY <1>1, <3>1, <3>2 DEF Reading, Lit
  <2> QED BY <2>1, <2>2
<1> QED BY <1>1, <1>8, <1>9 DEF Reading

LEMMA StutterReading ==
  ASSUME Deployment, Reading, UNCHANGED vars
  PROVE  Reading'
<1>1. UNCHANGED <<surface, gpu, window, host, released>>
  BY DEF vars
<1>2. Shape'
  BY StutterShape DEF Reading
<1>3. AllBlocked' = AllBlocked /\ Alive' = Alive
  BY <1>1 DEF AllBlocked, BlockedIds, Alive
<1>4. Held' /\ Lit'
  BY <1>1, <1>3 DEF Reading, Held, Lit, Live, Sources
<1> QED BY <1>2, <1>4 DEF Reading

LEMMA StepReading ==
  ASSUME Deployment, Reading, [Next]_vars
  PROVE  Reading'
<1>1. CASE Departures
  BY <1>1, DeparturesReading
<1>2. ASSUME NEW s \in Surfaces, NEW kind \in {"attach", "detach", "redraw", "state"},
             NEW b \in Buffers \cup {None}, NEW sets \in BOOLEAN, NEW waits \in BOOLEAN, NEW ready \in BOOLEAN,
             Commit(s, kind, b, sets, waits, ready)
      PROVE  Reading'
  BY <1>2, CommitReading
<1>3. ASSUME NEW r \in Roots, Admit(r)
      PROVE  Reading'
  BY <1>3, AdmitReading
<1>4. ASSUME NEW r \in Roots, Reject(r)
      PROVE  Reading'
  BY <1>4, RejectIsNothing, StutterReading DEF Reading
<1>5. CASE UNCHANGED vars
  BY <1>5, StutterReading
<1> QED BY <1>1, <1>2, <1>3, <1>4, <1>5, NextSteps

\* A release point is signalled only after every scene with its commit is read
\* (NoSignalWhileRead), those excepted that the compositor forsakes: the scenes of a
\* lost session (host_session.c:169) and of a window that is gone (surface.c:307).
THEOREM PointsOutliveTheirReaders ==
  ASSUME Deployment
  PROVE  Spec => []NoSignalWhileRead
<1>1. Init => Reading
  <2>1. Init => \A i \in Ids : ~Live(i)
    BY DEF Init, Live, NoScene
  <2> QED BY <2>1, InitShape DEF Reading, Held, Lit
<1>2. Reading /\ [Next]_vars => Reading'
  BY StepReading
<1>3. Reading => NoSignalWhileRead
  BY LiveOrForsaken DEF Reading, Lit, NoSignalWhileRead
<1> QED BY <1>1, <1>2, <1>3, PTL DEF Spec

---------------------------------------------------------------------------
\* A buffer is with its client, in one blocked commit, or with its readers.

Alone == \A b \in Buffers \ Explicit :
  /\ gpu[b].given => Showing(b) = {} /\ Holders(b) = {} /\ Blockers(b) = {}
  /\ Blockers(b) # {} => Showing(b) = {} /\ Holders(b) = {}
  /\ \A i, j \in Blockers(b) : i = j

Safe == Reading /\ Alone

LEMMA PassingAlone ==
  ASSUME Deployment, Shape, Shape', Alone, NEW M \in SUBSET Surfaces, NEW D \in SUBSET AllBlocked, Passing(M, D)
  PROVE  Alone'
<1> SUFFICES ASSUME NEW b \in Buffers \ Explicit
             PROVE  /\ gpu'[b].given => Showing(b)' = {} /\ Holders(b)' = {} /\ Blockers(b)' = {}
                    /\ Blockers(b)' # {} => Showing(b)' = {} /\ Holders(b)' = {}
                    /\ \A i, j \in Blockers(b)' : i = j
  BY DEF Alone
<1> DEFINE d == D \cap Blockers(b)
<1>1. /\ \A t \in Surfaces \ M : surface'[t].current = surface[t].current
      /\ AllHolds' \subseteq AllHolds /\ Blockers(b)' \subseteq Blockers(b)
      /\ Passes(gpu[b], gpu'[b], Kept(b, M), PointsLeft(b, M), d)
      /\ \A t \in M : surface'[t].current = b => \E i \in Blockers(b) \ D : i \notin Blockers(b)'
      /\ AllBlocked' \subseteq AllBlocked \ D
  BY DEF Passing
<1>2. /\ gpu[b].given => Showing(b) = {} /\ Holders(b) = {} /\ Blockers(b) = {}
      /\ Blockers(b) # {} => Showing(b) = {} /\ Holders(b) = {}
      /\ \A i, j \in Blockers(b) : i = j
  BY DEF Alone
<1>3. Blockers(b)' \cap D = {}
  <2>1. Blockers(b)' \subseteq AllBlocked'
    BY DEF Blockers, Attached, AllBlocked, BlockedIds
  <2> QED BY <1>1, <2>1
<1>4. Holders(b)' \subseteq Holders(b)
  BY <1>1 DEF Holders
<1>5. \A t \in Showing(b)' : t \in Showing(b) \/ \E i \in Blockers(b) \ D : i \notin Blockers(b)'
  BY <1>1 DEF Showing
<1>6. Blockers(b)' # {} => Showing(b)' = {} /\ Holders(b)' = {}
  BY <1>1, <1>2, <1>4, <1>5
<1>7. ASSUME gpu'[b].given
      PROVE  Showing(b)' = {} /\ Holders(b)' = {} /\ Blockers(b)' = {}
  <2>1. CASE gpu[b].given
    BY <1>1, <1>2, <1>4, <1>5, <2>1
  <2>2. CASE d # {}
    BY <1>1, <1>2, <1>3, <1>4, <1>5, <2>2
  <2>3. CASE ~gpu[b].given /\ d = {}
    <3>1. ~Kept(b, M) /\ (gpu[b].currents > 0 \/ gpu[b].reads > 0)
      BY <1>1, <1>7, <2>3 DEF Passes
    <3>2. Showing(b) # {} \/ Holders(b) # {}
      BY <3>1, Numbers
    <3>3. Blockers(b) = {}
      BY <1>2, <3>2
    <3>4. Holders(b)' = {}
      BY <1>1, <3>1 DEF Kept, Holders
    <3>5. Showing(b)' = {}
      BY <1>1, <3>1, <3>3 DEF Kept, Showing
    <3> QED BY <1>1, <3>3, <3>4, <3>5
  <2> QED BY <2>1, <2>2, <2>3
<1> QED BY <1>1, <1>2, <1>6, <1>7

LEMMA CommitAlone ==
  ASSUME Deployment, Courteous, Shape, Alone,
         NEW s \in Surfaces, NEW kind \in {"attach", "detach", "redraw", "state"},
         NEW b \in Buffers \cup {None}, NEW sets \in BOOLEAN, NEW waits \in BOOLEAN, NEW ready \in BOOLEAN,
         Commit(s, kind, b, sets, waits, ready)
  PROVE  Alone'
<1>1. /\ AllHolds' = AllHolds /\ nextId + 1 \in Ids
      /\ \A x \in Buffers : gpu'[x] = IF kind = "attach" /\ x = b THEN Handed(gpu[x], nextId + 1, x) ELSE gpu[x]
      /\ \A x \in Buffers : Blockers(x)' = Blockers(x) \cup (IF kind = "attach" /\ b = x THEN {nextId + 1} ELSE {})
      /\ \A t \in Surfaces : surface'[t].current = surface[t].current
  BY CommitShape
<1>2. \A x \in Buffers : Showing(x)' = Showing(x) /\ Holders(x)' = Holders(x)
  BY <1>1 DEF Showing, Holders
<1> SUFFICES ASSUME NEW x \in Buffers \ Explicit
             PROVE  /\ gpu'[x].given => Showing(x)' = {} /\ Holders(x)' = {} /\ Blockers(x)' = {}
                    /\ Blockers(x)' # {} => Showing(x)' = {} /\ Holders(x)' = {}
                    /\ \A i, j \in Blockers(x)' : i = j
  BY DEF Alone
<1>3. CASE kind = "attach" /\ x = b
  <2>1. gpu[x].given
    BY <1>3 DEF Commit, Owns, Courteous
  <2>2. Showing(x) = {} /\ Holders(x) = {} /\ Blockers(x) = {}
    BY <2>1 DEF Alone
  <2>3. ~gpu'[x].given
    BY <1>1, <1>3, Hands DEF Shape, Types
  <2>4. Blockers(x)' = {nextId + 1}
    BY <1>1, <1>3, <2>2
  <2> QED BY <1>2, <2>2, <2>3, <2>4
<1>4. CASE ~(kind = "attach" /\ x = b)
  <2>1. gpu'[x] = gpu[x] /\ Blockers(x)' = Blockers(x)
    BY <1>1, <1>4
  <2> QED BY <1>2, <2>1 DEF Alone
<1> QED BY <1>3, <1>4

LEMMA AdmitAlone ==
  ASSUME Deployment, Shape, Alone, NEW root \in Roots, Admit(root)
  PROVE  Alone'
<1> DEFINE hold == [id |-> window[root].scene, sources |-> Sources(Layers(root))]
<1>1. AllHolds' = AllHolds \cup {hold} /\ \A x \in Buffers : gpu'[x].given = gpu[x].given
  BY AdmitShape
<1>2. \A x \in Buffers : Showing(x)' = Showing(x) /\ Blockers(x)' = Blockers(x)
  BY DEF Admit, Showing, Blockers, Attached
<1>3. ASSUME NEW x \in Buffers
      PROVE  Holders(x)' = Holders(x) \/ Showing(x) # {}
  <2>1. CASE x \in Sources(Layers(root))
    BY <2>1 DEF Sources, Layers, Members, Alive, Showing
  <2>2. CASE x \notin Sources(Layers(root))
    BY <1>1, <2>2 DEF Holders
  <2> QED BY <2>1, <2>2
<1> SUFFICES ASSUME NEW x \in Buffers \ Explicit
             PROVE  /\ gpu'[x].given => Showing(x)' = {} /\ Holders(x)' = {} /\ Blockers(x)' = {}
                    /\ Blockers(x)' # {} => Showing(x)' = {} /\ Holders(x)' = {}
                    /\ \A i, j \in Blockers(x)' : i = j
  BY DEF Alone
<1> HIDE DEF hold
<1> QED BY <1>1, <1>2, <1>3 DEF Alone

LEMMA StutterAlone ==
  ASSUME Alone, UNCHANGED vars
  PROVE  Alone'
<1>1. UNCHANGED <<surface, gpu, window>>
  BY DEF vars
<1>2. \A x \in Buffers : Showing(x)' = Showing(x) /\ Blockers(x)' = Blockers(x) /\ Holders(x)' = Holders(x)
  BY <1>1 DEF Showing, Blockers, Attached, Holders, AllHolds
<1> QED BY <1>1, <1>2 DEF Alone

LEMMA StepSafe ==
  ASSUME Deployment, Courteous, Safe, [Next]_vars
  PROVE  Safe'
<1>1. ASSUME Departures
      PROVE  Alone'
  <2>1. PICK M \in SUBSET Surfaces, D \in SUBSET AllBlocked : Passing(M, D)
    BY <1>1, DeparturesPass DEF Safe, Reading
  <2>2. Reading'
    BY StepReading DEF Safe
  <2> QED BY <2>1, <2>2, PassingAlone DEF Safe, Reading
<1>2. ASSUME NEW s \in Surfaces, NEW kind \in {"attach", "detach", "redraw", "state"},
             NEW b \in Buffers \cup {None}, NEW sets \in BOOLEAN, NEW waits \in BOOLEAN, NEW ready \in BOOLEAN,
             Commit(s, kind, b, sets, waits, ready)
      PROVE  Alone'
  BY <1>2, CommitAlone DEF Safe, Reading
<1>3. ASSUME NEW r \in Roots, Admit(r)
      PROVE  Alone'
  BY <1>3, AdmitAlone DEF Safe, Reading
<1>4. ASSUME NEW r \in Roots, Reject(r)
      PROVE  Alone'
  BY <1>4, RejectIsNothing, StutterAlone DEF Safe, Reading
<1>5. ASSUME UNCHANGED vars
      PROVE  Alone'
  BY <1>5, StutterAlone DEF Safe
<1>6. Reading'
  BY StepReading DEF Safe
<1>7. Alone'
  BY <1>1, <1>2, <1>3, <1>4, <1>5, NextSteps
<1> QED BY <1>6, <1>7 DEF Safe

LEMMA InitSafe ==
  ASSUME Deployment, Init
  PROVE  Safe
<1>1. \A i \in Ids : ~Live(i)
  BY DEF Init, Live, NoScene
<1>2. Reading
  BY <1>1, InitShape DEF Reading, Held, Lit
<1>3. /\ AllHolds = {} /\ \A s \in Surfaces, b \in Buffers : Attached(s, b) = {} /\ surface[s].current # b
  BY DEF Init, AllHolds, Attached, NewSurface, Deployment
<1>4. Alone
  BY <1>3 DEF Alone, Showing, Holders, Blockers
<1> QED BY <1>2, <1>4 DEF Safe

\* What the client owns only forsaken scenes read and nobody shows.
LEMMA OwnedIsUnread ==
  ASSUME Deployment, Safe, NEW b \in Buffers, Owns(b)
  PROVE  ReadBy(b) \subseteq Forsaken /\ \A s \in Surfaces : surface[s].current # b
<1>1. CASE b \in Explicit
  <2>1. gpu[b].owed = {}
    BY <1>1 DEF Owns
  <2>2. ASSUME NEW i \in ReadBy(b), i \notin Forsaken
        PROVE  FALSE
    <3>1. Live(i) /\ i \in Ids
      BY <2>2, LiveOrForsaken DEF ReadBy
    <3>2. PICK l \in host[i].layers : l[1] = b
      BY DEF ReadBy, Sources
    <3> QED BY <1>1, <2>1, <3>1, <3>2 DEF Safe, Reading, Lit
  <2>3. ASSUME NEW s \in Surfaces, surface[s].current = b
        PROVE  FALSE
    BY <1>1, <2>1, <2>3 DEF Safe, Reading, Shape, Points
  <2> QED BY <2>2, <2>3
<1>2. CASE b \notin Explicit
  <2>1. Showing(b) = {} /\ Holders(b) = {}
    BY <1>2 DEF Owns, Safe, Alone
  <2>2. ASSUME NEW i \in ReadBy(b), i \notin Forsaken
        PROVE  FALSE
    <3>1. Live(i) /\ i \in Ids /\ b \in Sources(host[i].layers)
      BY <2>2, LiveOrForsaken DEF ReadBy
    <3>2. [id |-> i, sources |-> Sources(host[i].layers)] \in AllHolds
      BY <3>1, LiveRoots DEF Safe, Reading, Held
    <3>3. [id |-> i, sources |-> Sources(host[i].layers)] \in Holders(b)
      BY <3>1, <3>2 DEF Holders
    <3> QED BY <2>1, <3>3
  <2> QED BY <2>1, <2>2 DEF Showing
<1> QED BY <1>1, <1>2

LEMMA SafeIsSafe ==
  ASSUME Deployment, Safe
  PROVE  BuffersSafe
<1>1. CountsAgree
  BY DEF Safe, Reading, Shape, Counted, CountsAgree, Showing
<1>2. NoReuseWhileRead
  BY OwnedIsUnread DEF NoReuseWhileRead
<1>3. NoSignalWhileRead
  BY LiveOrForsaken DEF Safe, Reading, Lit, NoSignalWhileRead
<1> QED BY <1>1, <1>2, <1>3 DEF BuffersSafe

\* A buffer is with its client or with its readers, the scenes of lost sessions and
\* of windows that are gone excepted (BuffersSafe), for clients that commit what they
\* have got back.
THEOREM BuffersAreSafe ==
  ASSUME Deployment, Courteous
  PROVE  Spec => []BuffersSafe
<1>1. Init => Safe
  BY InitSafe
<1>2. Safe /\ [Next]_vars => Safe'
  BY StepSafe
<1>3. Safe => BuffersSafe
  BY SafeIsSafe
<1> QED BY <1>1, <1>2, <1>3, PTL DEF Spec

---------------------------------------------------------------------------
\* The compositor implements BufferLease.

Unused == \A b \in Buffers : Owns(b) => ReadBy(b) \subseteq Forsaken

LEMMA StaysUnused ==
  ASSUME Deployment
  PROVE  Safe' => Unused'
<1>1. Safe => Unused
  BY OwnedIsUnread DEF Unused
<1> QED BY <1>1, PTL

\* The three steps of the lease, and its stuttering, in terms of the compositor.
LEMMA LeaseReturns ==
  ASSUME Dwindle, Alive' \subseteq Alive, \A b \in Buffers : Owns(b) => Owns(b)', Unused'
  PROVE  Lease!Return
<1> DEFINE r == [b \in Buffers |-> ReadBy(b)]
           g == {b \in Buffers : Owns(b)}
<1>1. \A b \in Buffers : ReadBy(b)' \subseteq ReadBy(b)
  BY DEF Dwindle, ReadBy, Sources
<1>2. \A b \in Buffers : ReadBy(b)' \cap Forsaken \subseteq Forsaken'
  BY DwindleLeavesFewer DEF ReadBy
<1>3. r' \in [Buffers -> SUBSET Ids] /\ Forsaken' \subseteq Ids
  BY DEF ReadBy, Forsaken
<1>4. \A b \in Buffers : r[b] = ReadBy(b) /\ r'[b] = ReadBy(b)'
  OBVIOUS
<1>5. g \subseteq g' /\ g' \subseteq Buffers
  OBVIOUS
<1>6. \A b \in g' \ g : ReadBy(b)' \subseteq Forsaken'
  BY DEF Unused
<1> HIDE DEF r, g
<1>7. \A b \in Buffers : r'[b] \subseteq r[b] /\ r'[b] \cap Forsaken \subseteq Forsaken'
  BY <1>1, <1>2, <1>4
<1>8. \A b \in g' \ g : r'[b] \subseteq Forsaken'
  BY <1>4, <1>5, <1>6
<1> QED BY <1>3, <1>5, <1>7, <1>8 DEF Lease!Return, r, g

LEMMA LeaseCommits ==
  ASSUME NEW B \in SUBSET Buffers, \A b \in B : Owns(b),
         \A b \in Buffers : Owns(b)' <=> Owns(b) /\ b \notin B,
         \A b \in Buffers : ReadBy(b)' = ReadBy(b), Forsaken' = Forsaken
  PROVE  Lease!Commit
<1>1. B \in SUBSET {b \in Buffers : Owns(b)}
  OBVIOUS
<1>2. {b \in Buffers : Owns(b)}' = {b \in Buffers : Owns(b)} \ B
  OBVIOUS
<1>3. [b \in Buffers |-> ReadBy(b)]' = [b \in Buffers |-> ReadBy(b)]
  OBVIOUS
<1> QED BY <1>1, <1>2, <1>3 DEF Lease!Commit

LEMMA LeaseReads ==
  ASSUME NEW i \in Ids \ Forsaken, NEW B \in SUBSET Buffers, \A b \in B : ~Owns(b),
         \A b \in Buffers : Owns(b)' <=> Owns(b), Forsaken' = Forsaken,
         \A b \in Buffers : ReadBy(b)' = IF b \in B THEN ReadBy(b) \cup {i} ELSE ReadBy(b)
  PROVE  Lease!Read
<1>1. B \in SUBSET (Buffers \ {b \in Buffers : Owns(b)})
  OBVIOUS
<1>2. {b \in Buffers : Owns(b)}' = {b \in Buffers : Owns(b)}
  OBVIOUS
<1>3. [b \in Buffers |-> ReadBy(b)]' =
        [b \in Buffers |-> IF b \in B THEN [c \in Buffers |-> ReadBy(c)][b] \cup {i}
                           ELSE [c \in Buffers |-> ReadBy(c)][b]]
  OBVIOUS
<1> QED BY <1>1, <1>2, <1>3 DEF Lease!Read

LEMMA LeaseStutters ==
  ASSUME UNCHANGED vars
  PROVE  UNCHANGED Lease!leaseVars
<1>1. \A b \in Buffers : ReadBy(b)' = ReadBy(b) /\ (Owns(b)' <=> Owns(b))
  BY DEF vars, ReadBy, Owns
<1>2. {b \in Buffers : Owns(b)}' = {b \in Buffers : Owns(b)}
  BY <1>1
<1>3. [b \in Buffers |-> ReadBy(b)]' = [b \in Buffers |-> ReadBy(b)]
  BY <1>1
<1>4. Forsaken' = Forsaken
  BY DEF vars, Forsaken, Alive
<1> QED BY <1>2, <1>3, <1>4 DEF Lease!leaseVars

\* A buffer whose resource goes is not its client's any more; everything else that
\* goes gives back.
LEMMA DeparturesReturn ==
  ASSUME Deployment, Safe, Safe', Departures
  PROVE  Lease!Return \/ Lease!Commit
<1>1. Dwindle /\ Alive' \subseteq Alive
  BY DeparturesDwindle, NoneComesBack DEF Safe, Reading
<1>2. PICK M \in SUBSET Surfaces, D \in SUBSET AllBlocked : Passing(M, D)
  BY DeparturesPass DEF Safe, Reading
<1>3. \A b \in Buffers : gpu'[b].owed \subseteq gpu[b].owed
  BY <1>2 DEF Passing, Passes
<1>4. Unused'
  BY StaysUnused
<1>5. CASE Generous
  <2>1. \A b \in Buffers : Owns(b) => Owns(b)'
    BY <1>3, <1>5 DEF Generous, Owns
  <2> QED BY <1>1, <1>4, <2>1, LeaseReturns
<1>6. ASSUME NEW b \in Buffers, DestroyBuffer(b)
      PROVE  Lease!Return \/ Lease!Commit
  <2>1. /\ host' = host /\ ~gpu'[b].given /\ \A x \in Buffers \ {b} : gpu'[x] = gpu[x]
    BY <1>6, DestroyBufferShape DEF Safe, Reading
  <2>2. Forsaken' = Forsaken /\ \A x \in Buffers : ReadBy(x)' = ReadBy(x)
    BY <1>6, <2>1 DEF ReadBy, DestroyBuffer, Forsaken, Alive
  <2>4. \A x \in Buffers \ {b} : Owns(x)' <=> Owns(x)
    BY <2>1 DEF Owns
  <2>5. CASE b \in Explicit
    <3>1. Owns(b) => Owns(b)'
      BY <1>3, <2>5 DEF Owns
    <3>2. \A x \in Buffers : Owns(x) => Owns(x)'
      BY <2>4, <3>1
    <3> QED BY <1>1, <1>4, <3>2, LeaseReturns
  <2>6. CASE b \notin Explicit /\ Owns(b)
    <3>1. ~Owns(b)'
      BY <2>1, <2>6 DEF Owns
    <3>2. \A x \in Buffers : Owns(x)' <=> Owns(x) /\ x \notin {b}
      BY <2>4, <2>6, <3>1
    <3>3. {b} \in SUBSET Buffers /\ \A x \in {b} : Owns(x)
      BY <2>6
    <3> QED BY <2>2, <3>2, <3>3, LeaseCommits
  <2>7. CASE b \notin Explicit /\ ~Owns(b)
    <3>1. \A x \in Buffers : Owns(x) => Owns(x)'
      BY <2>4, <2>7
    <3> QED BY <1>1, <1>4, <3>1, LeaseReturns
  <2> QED BY <2>5, <2>6, <2>7
<1> QED BY <1>5, <1>6, DeparturesPass DEF Safe, Reading

LEMMA CommitHandsOver ==
  ASSUME Deployment, Courteous, Safe, NEW s \in Surfaces, NEW kind \in {"attach", "detach", "redraw", "state"},
         NEW b \in Buffers \cup {None}, NEW sets \in BOOLEAN, NEW waits \in BOOLEAN, NEW ready \in BOOLEAN,
         Commit(s, kind, b, sets, waits, ready)
  PROVE  Lease!Commit
<1>1. /\ host' = host /\ nextId + 1 \in Ids
      /\ \A x \in Buffers : gpu'[x] = IF kind = "attach" /\ x = b THEN Handed(gpu[x], nextId + 1, x) ELSE gpu[x]
  BY CommitShape DEF Safe, Reading
<1>2. Forsaken' = Forsaken /\ \A x \in Buffers : ReadBy(x)' = ReadBy(x)
  <2>1. Alive' = Alive
    BY CommitAlive DEF Safe, Reading
  <2> QED BY <1>1, <2>1 DEF ReadBy, Forsaken
<1>3. CASE kind = "attach"
  <2>1. b \in Buffers /\ Owns(b)
    BY <1>3 DEF Commit, Courteous
  <2>2. ~gpu'[b].given /\ gpu'[b].owed = gpu[b].owed \cup (IF b \in Explicit THEN {nextId + 1} ELSE {})
    BY <1>1, <1>3, <2>1, Hands DEF Safe, Reading, Shape, Types
  <2>3. ~Owns(b)'
    BY <2>2 DEF Owns
  <2>4. \A x \in Buffers \ {b} : Owns(x)' <=> Owns(x)
    BY <1>1 DEF Owns
  <2>5. \A x \in Buffers : Owns(x)' <=> Owns(x) /\ x \notin {b}
    BY <2>1, <2>3, <2>4
  <2>6. {b} \in SUBSET Buffers /\ \A x \in {b} : Owns(x)
    BY <2>1
  <2> QED BY <1>2, <2>5, <2>6, LeaseCommits
<1>4. CASE kind # "attach"
  <2>1. \A x \in Buffers : gpu'[x] = gpu[x]
    BY <1>1, <1>4
  <2>2. \A x \in Buffers : Owns(x)' <=> Owns(x) /\ x \notin {}
    BY <2>1 DEF Owns
  <2>3. {} \in SUBSET Buffers /\ \A x \in {} : Owns(x)
    OBVIOUS
  <2> QED BY <1>2, <2>2, <2>3, LeaseCommits
<1> QED BY <1>3, <1>4

LEMMA AdmitReads ==
  ASSUME Deployment, Safe, NEW root \in Roots, Admit(root)
  PROVE  Lease!Read
<1> DEFINE id == window[root].scene
           layers == Layers(root)
           B == Sources(layers)
<1>1. /\ id \in Ids /\ id \notin UsedIds /\ layers \subseteq Buffers \X (Ids \cup {0})
      /\ \A b \in Buffers : gpu'[b].owed = gpu[b].owed /\ gpu'[b].given = gpu[b].given
  BY AdmitShape DEF Safe, Reading
<1>2. host' = [host EXCEPT ![id] = [at |-> "lane", layers |-> layers, latches |-> {id}, root |-> root]]
  BY DEF Admit
<1>3. \A b \in Buffers : Owns(b)' <=> Owns(b)
  BY <1>1 DEF Owns
<1>4. \A b \in B : \E s \in Surfaces : surface[s].current = b
  BY DEF Sources, Layers, Members, Alive
<1>5. B \subseteq Buffers
  BY <1>1 DEF Sources
<1> HIDE DEF id, layers
<1>6. \A b \in B : ~Owns(b)
  BY <1>4, <1>5, OwnedIsUnread
<1>7. /\ host'[id].at = "lane" /\ host'[id].layers = layers /\ host'[id].root = root
      /\ host[id].at = "none" /\ \A i \in Ids \ {id} : host'[i] = host[i]
  BY <1>1, <1>2 DEF Safe, Reading, Shape, Types, UsedIds
<1>8. \A b \in Buffers : ReadBy(b)' = IF b \in B THEN ReadBy(b) \cup {id} ELSE ReadBy(b)
  BY <1>1, <1>7 DEF ReadBy, MayRead
<1>9. Alive' = Alive /\ root \in Alive
  BY DEF Admit, Alive
<1>10. id \notin Forsaken /\ Forsaken' = Forsaken
  BY <1>1, <1>7, <1>9 DEF Forsaken, MayRead
<1> HIDE DEF B
<1> QED BY <1>1, <1>3, <1>5, <1>6, <1>8, <1>10, LeaseReads

LEMMA StepKeepsLease ==
  ASSUME Deployment, Courteous, Safe, Safe', [Next]_vars
  PROVE  [Lease!LeaseNext]_(Lease!leaseVars)
<1>1. ASSUME Departures
      PROVE  Lease!LeaseNext
  BY <1>1, DeparturesReturn DEF Lease!LeaseNext
<1>2. ASSUME NEW s \in Surfaces, NEW kind \in {"attach", "detach", "redraw", "state"},
             NEW b \in Buffers \cup {None}, NEW sets \in BOOLEAN, NEW waits \in BOOLEAN, NEW ready \in BOOLEAN,
             Commit(s, kind, b, sets, waits, ready)
      PROVE  Lease!LeaseNext
  BY <1>2, CommitHandsOver DEF Lease!LeaseNext
<1>3. ASSUME NEW r \in Roots, Admit(r)
      PROVE  Lease!LeaseNext
  BY <1>3, AdmitReads DEF Lease!LeaseNext
<1>4. ASSUME NEW r \in Roots, Reject(r)
      PROVE  UNCHANGED Lease!leaseVars
  BY <1>4, RejectIsNothing, LeaseStutters DEF Safe, Reading
<1>5. ASSUME UNCHANGED vars
      PROVE  UNCHANGED Lease!leaseVars
  BY <1>5, LeaseStutters
<1> QED BY <1>1, <1>2, <1>3, <1>4, <1>5, NextSteps

LEMMA InitLease ==
  ASSUME Init
  PROVE  Lease!LeaseInit
<1>1. \A b \in Buffers : Owns(b) /\ ReadBy(b) = {}
  BY DEF Init, Owns, ReadBy, NewBuffer, NoScene, MayRead
<1>2. {b \in Buffers : Owns(b)} = Buffers
  BY <1>1
<1>3. [b \in Buffers |-> ReadBy(b)] = [b \in Buffers |-> {}]
  BY <1>1
<1>4. Forsaken = {}
  BY DEF Init, Forsaken, NoScene, MayRead
<1> QED BY <1>2, <1>3, <1>4 DEF Lease!LeaseInit

\* Compositor and host implement BufferLease (ImplementsLease): scenes begin to read
\* only what clients have handed over, and what comes back has no reader but the
\* scenes of lost sessions and of windows that are gone.
THEOREM LeaseIsImplemented ==
  ASSUME Deployment, Courteous
  PROVE  Spec => ImplementsLease
<1>1. Init => Safe /\ Lease!LeaseInit
  BY InitSafe, InitLease
<1>2. Safe /\ [Next]_vars => Safe'
  BY StepSafe
<1>3. Safe /\ Safe' /\ [Next]_vars => [Lease!LeaseNext]_(Lease!leaseVars)
  BY StepKeepsLease
<1> QED BY <1>1, <1>2, <1>3, PTL DEF Spec, ImplementsLease, Lease!LeaseSpec

---------------------------------------------------------------------------
\* Nobody waits in vain.

Latched == UNION {host[i].latches : i \in Ids}

\* What the host was or will be asked to show for the window of s.
Sent(s) == ({window[RootOf[s]].scene} \cup Latched \cup presented) \ {0}

\* Callbacks wait for a blocked commit or for something sent, barriers for something
\* sent, those excepted that a new session found on a window without content.
Attended == \A s \in Alive :
  /\ surface[s].callbacks \subseteq BlockedIds(s) \cup Sent(s) \cup surface[s].unbound
  /\ surface[s].barrier \in Sent(s) \cup {0} \cup surface[s].unbound

\* Only scenes that were not yet drawn have frames to latch.
Emptied == \A i \in Ids : host[i].at \notin {"lane", "queued"} => host[i].latches = {}

\* While the session is lost nothing is promised; a new one makes it good at once.
Waiting == Shape /\ Emptied /\ (session = TRUE => Attended)

\* Steps after which every callback and barrier that is left has something to wait for.
LEMMA StaysAttended ==
  ASSUME Attended,
         \A s \in Alive' :
           /\ s \in Alive /\ surface[s].unbound \subseteq surface'[s].unbound
           /\ surface'[s].callbacks \subseteq surface[s].callbacks \cup BlockedIds(s)' \cup Sent(s)'
           /\ surface'[s].barrier \in {0, surface[s].barrier} \cup Sent(s)'
           /\ (BlockedIds(s) \cup Sent(s)) \cap surface'[s].callbacks \subseteq BlockedIds(s)' \cup Sent(s)'
           /\ Sent(s) \cap {surface'[s].barrier} \subseteq Sent(s)'
  PROVE  Attended'
BY DEF Attended

LEMMA SameSurfaces ==
  ASSUME Attended, UNCHANGED surface, \A s \in Surfaces : Sent(s) \subseteq Sent(s)'
  PROVE  Attended'
<1>1. Alive' = Alive /\ Alive \subseteq Surfaces /\ \A s \in Surfaces : BlockedIds(s)' = BlockedIds(s)
  BY DEF Alive, BlockedIds
<1> QED BY <1>1 DEF Attended

\* Latches go on to the host's answers, or with a newer scene.
LEMMA HostAttends ==
  ASSUME Shape, Emptied, NEW i \in Ids, Take(i) \/ Submit(i) \/ Discard(i) \/ ReadComplete(i)
  PROVE  (Attended => Attended') /\ Emptied' /\ session' = session
<1>1. /\ host \in [Ids -> SceneRecord] /\ NoScene.at = "none" /\ NoScene.latches = {}
      /\ UNCHANGED <<surface, window, session>>
  BY DEF Shape, Types, NoScene, Take, Submit, Discard, ReadComplete, guestVars
<1>2. CASE Take(i)
  <2> DEFINE older == {j \in Ids : host[j].at = "queued" /\ host[j].root = host[i].root}
             taken == [host[i] EXCEPT !.at = "queued", !.latches = @ \cup Inherited(older)]
  <2>1. /\ host' = [j \in Ids |-> IF j = i THEN taken ELSE IF j \in older THEN NoScene ELSE host[j]]
        /\ presented' = presented /\ host[i].at = "lane"
    BY <1>2 DEF Take
  <2>2. taken.at = "queued" /\ taken.latches = host[i].latches \cup Inherited(older)
    BY <1>1 DEF SceneRecord
  <2>3. i \notin older
    BY <2>1
  <2> HIDE DEF taken
  <2>4. \A j \in Ids : host'[j] = IF j = i THEN taken ELSE IF j \in older THEN NoScene ELSE host[j]
    BY <2>1
  <2>5. Emptied'
    BY <1>1, <2>2, <2>4 DEF Emptied
  <2>6. Latched \subseteq Latched'
    <3> SUFFICES ASSUME NEW j \in Ids, NEW l \in host[j].latches
                 PROVE  \E k \in Ids : l \in host'[k].latches
      BY DEF Latched
    <3>1. CASE j = i \/ j \in older
      <4>1. l \in taken.latches
        BY <2>2, <3>1 DEF Inherited
      <4> QED BY <2>4, <4>1
    <3>2. CASE j # i /\ j \notin older
      BY <2>4, <3>2
    <3> QED BY <3>1, <3>2
  <2>7. \A s \in Surfaces : Sent(s) \subseteq Sent(s)'
    BY <1>1, <2>1, <2>6 DEF Sent
  <2> QED BY <1>1, <2>5, <2>7, SameSurfaces
<1>3. CASE Submit(i) \/ Discard(i) \/ ReadComplete(i)
  <2>1. /\ host'[i].at \notin {"lane", "queued"} /\ host'[i].latches = {}
        /\ \A j \in Ids \ {i} : host'[j] = host[j]
        /\ presented' = presented \/ presented' = presented \cup host[i].latches
        /\ host[i].latches \subseteq presented'
    <3>1. CASE Submit(i)
      <4>1. host' = [host EXCEPT ![i] = [host[i] EXCEPT !.at = "reading", !.latches = {}]]
            /\ presented' = presented \cup host[i].latches
        BY <3>1 DEF Submit
      <4> QED BY <1>1, <4>1 DEF SceneRecord
    <3>2. CASE Discard(i)
      BY <1>1, <3>2 DEF Discard
    <3>3. CASE ReadComplete(i)
      <4>1. host[i].latches = {} /\ host' = [host EXCEPT ![i] = NoScene] /\ presented' = presented
        BY <3>3 DEF ReadComplete, Emptied
      <4> QED BY <1>1, <4>1
    <3> QED BY <1>3, <3>1, <3>2, <3>3
  <2>2. Emptied'
    BY <2>1 DEF Emptied
  <2>3. Latched \subseteq Latched' \cup presented'
    BY <2>1 DEF Latched
  <2>4. \A s \in Surfaces : Sent(s) \subseteq Sent(s)'
    BY <1>1, <2>1, <2>3 DEF Sent
  <2> QED BY <1>1, <2>2, <2>4, SameSurfaces
<1> QED BY <1>2, <1>3

LEMMA VisitAttends ==
  ASSUME Deployment, Shape, Attended, session = TRUE, NEW s \in Surfaces, Visit(s)
  PROVE  Attended'
<1>1. CASE ~Applies(s)
  <2>1. UNCHANGED <<surface, window, presented, host>>
    BY <1>1 DEF Visit, Applies
  <2>2. \A t \in Surfaces : Sent(t)' = Sent(t)
    BY <2>1 DEF Sent, Latched
  <2> QED BY <2>1, <2>2, SameSurfaces
<1>2. CASE Applies(s)
  <2> DEFINE u == Head(surface[s].blocked)
             root == RootOf[s]
             dirty == window[root].scene # 0
             scene == IF dirty THEN window[root].scene ELSE nextId + 1
  <2>1. /\ surface'[s].callbacks = IF Queues(s, u) THEN Rebound(surface[s].callbacks, u.id, scene) ELSE surface[s].callbacks
        /\ surface'[s].barrier = IF ~u.sets THEN surface[s].barrier ELSE IF dirty \/ Queues(s, u) THEN scene ELSE u.id
        /\ surface'[s].alive = surface[s].alive /\ surface'[s].unbound = surface[s].unbound
        /\ \A t \in Surfaces \ {s} : surface'[t] = surface[t]
        /\ surface'[s].blocked = Tail(surface[s].blocked)
    BY <1>2, VisitSurface
  <2>2. /\ window' = IF Queues(s, u) THEN [window EXCEPT ![root].scene = scene] ELSE window
        /\ presented' = IF Queues(s, u) THEN presented ELSE presented \cup {u.id}
        /\ host' = host
    BY <1>2 DEF Applies, Visit
  <2>3. root \in Roots /\ window'[root].scene = (IF Queues(s, u) THEN scene ELSE window[root].scene)
    BY <2>2 DEF Roots, Shape, Types, WindowRecord
  <2>4. \A r \in Roots \ {root} : window'[r] = window[r]
    BY <2>2 DEF Shape, Types
  <2>5. BlockedIds(s)' = BlockedIds(s) \ {u.id} /\ \A t \in Surfaces \ {s} : BlockedIds(t)' = BlockedIds(t)
    <3>1. surface[s].blocked \in Seq(Blockable) /\ surface[s].blocked # <<>> /\ NoTwice(surface[s].blocked)
      BY <1>2 DEF Applies, Shape, Types, SurfaceRecord, Numbered
    <3>2. IdsIn(Tail(surface[s].blocked)) = IdsIn(surface[s].blocked) \ {u.id}
      BY <3>1, Popped
    <3>3. BlockedIds(s) = IdsIn(surface[s].blocked) /\ BlockedIds(s)' = IdsIn(Tail(surface[s].blocked))
      BY <2>1 DEF BlockedIds, IdsIn
    <3>4. \A t \in Surfaces \ {s} : BlockedIds(t)' = BlockedIds(t)
      BY <2>1 DEF BlockedIds
    <3> QED BY <3>2, <3>3, <3>4
  <2>6. u.id \in Ids /\ 0 \notin Ids /\ nextId + 1 # 0
    <3>1. u \in Blockable
      BY <1>2, HeadTailProperties DEF Applies, Shape, Types, SurfaceRecord
    <3> QED BY <3>1 DEF Blockable, Update, Ids, Shape, Types
  <2> HIDE DEF u, scene
  <2>7. scene # 0 /\ (dirty => scene = window[root].scene)
    BY <2>6 DEF scene
  <2>8. \A t \in Surfaces : RootOf[t] \in Roots /\ Sent(t) \subseteq Sent(t)'
    BY <2>2, <2>3, <2>4, <2>7 DEF Sent, Latched, Roots
  <2>9. (Queues(s, u) => scene \in Sent(s)') /\ (dirty => scene \in Sent(s)') /\ (~Queues(s, u) => u.id \in Sent(s)')
    BY <2>2, <2>3, <2>6, <2>7 DEF Sent
  <2>10. ASSUME NEW t \in Alive'
         PROVE  /\ t \in Alive /\ surface[t].unbound \subseteq surface'[t].unbound
                /\ surface'[t].callbacks \subseteq surface[t].callbacks \cup BlockedIds(t)' \cup Sent(t)'
                /\ surface'[t].barrier \in {0, surface[t].barrier} \cup Sent(t)'
                /\ (BlockedIds(t) \cup Sent(t)) \cap surface'[t].callbacks \subseteq BlockedIds(t)' \cup Sent(t)'
                /\ Sent(t) \cap {surface'[t].barrier} \subseteq Sent(t)'
    <3>1. CASE t # s
      BY <2>1, <2>5, <2>8, <3>1 DEF Alive
    <3>2. CASE t = s
      <4>1. t \in Alive /\ surface'[t].unbound = surface[t].unbound
        BY <2>1, <3>2 DEF Alive
      <4>2. surface'[s].callbacks \subseteq surface[s].callbacks \cup Sent(s)'
        BY <2>1, <2>9 DEF Rebound
      <4>3. surface'[s].barrier \in {surface[s].barrier} \cup Sent(s)'
        BY <2>1, <2>9
      <4>4. u.id \in surface'[s].callbacks => u.id \in Sent(s)'
        BY <2>1, <2>9 DEF Rebound
      <4> QED BY <2>5, <2>8, <3>2, <4>1, <4>2, <4>3, <4>4
    <3> QED BY <3>1, <3>2
  <2> QED BY <2>10, StaysAttended
<1> QED BY <1>1, <1>2

LEMMA AdmitAttends ==
  ASSUME Deployment, Shape, Emptied, NEW root \in Roots, Admit(root)
  PROVE  (Attended => Attended') /\ Emptied'
<1> DEFINE id == window[root].scene
<1>1. id \in Ids /\ id \notin UsedIds
  BY AdmitShape
<1>2. /\ host' = [host EXCEPT ![id] = [at |-> "lane", layers |-> Layers(root), latches |-> {id}, root |-> root]]
      /\ window' = [window EXCEPT ![root] = [scene |-> 0,
                      holds |-> @.holds \cup {[id |-> id, sources |-> Sources(Layers(root))]}]]
      /\ UNCHANGED <<surface, presented>>
  BY DEF Admit
<1>3. host[id].latches = {}
  BY <1>1 DEF UsedIds, Emptied
<1>4. /\ host'[id].at = "lane" /\ host'[id].latches = {id} /\ \A i \in Ids \ {id} : host'[i] = host[i]
      /\ \A r \in Roots \ {root} : window'[r] = window[r]
  BY <1>1, <1>2 DEF Shape, Types
<1> HIDE DEF id
<1>5. Emptied'
  BY <1>4 DEF Emptied
<1>6. Latched' = Latched \cup {id}
  BY <1>1, <1>3, <1>4 DEF Latched
<1>7. \A s \in Surfaces : RootOf[s] \in Roots /\ Sent(s) \subseteq Sent(s)'
  BY <1>2, <1>4, <1>6 DEF Sent, Roots, id
<1> QED BY <1>2, <1>5, <1>7, SameSurfaces

LEMMA FeedbackAttends ==
  ASSUME Deployment, Shape, Attended, NEW i \in Ids, OnPresented(i)
  PROVE  Attended'
<1>1. /\ presented' = presented \ {i} /\ UNCHANGED <<window, host>>
      /\ surface' = [s \in Surfaces |->
           [surface[s] EXCEPT !.callbacks = @ \ {i}, !.barrier = IF @ = i THEN 0 ELSE @]]
  BY DEF OnPresented
<1>2. ASSUME NEW s \in Surfaces
      PROVE  /\ surface'[s].callbacks = surface[s].callbacks \ {i}
             /\ surface'[s].barrier = IF surface[s].barrier = i THEN 0 ELSE surface[s].barrier
             /\ surface'[s].alive = surface[s].alive /\ surface'[s].blocked = surface[s].blocked
             /\ surface'[s].unbound = surface[s].unbound
  BY <1>1 DEF Shape, Types, SurfaceRecord
<1>3. \A s \in Surfaces : Sent(s) \subseteq Sent(s)' \cup {i} /\ 0 \notin Sent(s) /\ BlockedIds(s)' = BlockedIds(s)
  <2>1. \A s \in Surfaces : BlockedIds(s)' = BlockedIds(s)
    BY <1>2 DEF BlockedIds
  <2>2. Latched' = Latched
    BY <1>1 DEF Latched
  <2>3. \A s \in Surfaces : Sent(s) \subseteq Sent(s)' \cup {i} /\ 0 \notin Sent(s)
    BY <1>1, <2>2 DEF Sent
  <2> QED BY <2>1, <2>3
<1>4. i # 0
  BY DEF Ids
<1> QED BY <1>2, <1>3, <1>4, StaysAttended DEF Alive

LEMMA DestroySurfaceAttends ==
  ASSUME Deployment, Shape, Attended, NEW s \in Surfaces, DestroySurface(s)
  PROVE  Attended'
<1> DEFINE root == RootOf[s]
           dirty == window[root].scene # 0
<1>1. /\ surface' = [surface EXCEPT ![s] = [NewSurface EXCEPT !.alive = FALSE]]
      /\ s = root => Members(root) = {s}
      /\ window' = IF s = root THEN [window EXCEPT ![root] = [scene |-> 0, holds |-> {}]]
                   ELSE IF dirty THEN window ELSE [window EXCEPT ![root].scene = nextId + 2]
      /\ UNCHANGED <<host, presented>>
  BY DEF DestroySurface, hostVars
<1>2. ~surface'[s].alive /\ \A t \in Surfaces \ {s} : surface'[t] = surface[t]
  BY <1>1 DEF NewSurface, Shape, Types
<1>3. ASSUME NEW t \in Alive'
      PROVE  /\ t \in Alive /\ t # s /\ t \in Surfaces /\ surface'[t] = surface[t]
             /\ window'[RootOf[t]].scene = window[RootOf[t]].scene \/ window[RootOf[t]].scene = 0
  <2>1. t \in Alive /\ t # s /\ t \in Surfaces /\ surface'[t] = surface[t]
    BY <1>2 DEF Alive
  <2>2. RootOf[t] \in Roots
    BY <2>1 DEF Roots
  <2>3. CASE s = root
    <3>1. RootOf[t] # root
      BY <1>1, <2>1, <2>3 DEF Members
    <3> QED BY <1>1, <2>1, <2>2, <2>3, <3>1 DEF Shape, Types
  <2>4. CASE s # root
    BY <1>1, <2>1, <2>2, <2>4 DEF Shape, Types, WindowRecord
  <2> QED BY <2>1, <2>3, <2>4
<1>4. \A t \in Alive' : BlockedIds(t)' = BlockedIds(t) /\ Sent(t) \subseteq Sent(t)'
  BY <1>1, <1>3 DEF Sent, Latched, BlockedIds
<1> QED BY <1>3, <1>4, StaysAttended

LEMMA CommitAttends ==
  ASSUME Deployment, Shape, Attended, NEW s \in Surfaces, NEW kind \in {"attach", "detach", "redraw", "state"},
         NEW b \in Buffers \cup {None}, NEW sets \in BOOLEAN, NEW waits \in BOOLEAN, NEW ready \in BOOLEAN,
         Commit(s, kind, b, sets, waits, ready)
  PROVE  Attended'
<1> DEFINE id == nextId + 1
           u == [kind |-> kind, buffer |-> b, id |-> id, sets |-> sets, waits |-> waits]
<1>1. /\ surface' = [surface EXCEPT ![s].blocked = Append(@, u), ![s].callbacks = @ \cup {id}]
      /\ UNCHANGED <<window, host, presented>>
      /\ kind = "attach" => b \in Buffers
      /\ kind # "attach" => b = None
  BY DEF Commit, hostVars
<1>2. id \in Ids /\ id \notin AllBlocked
  <2>1. id \in Ids
    BY CommitShape
  <2>2. nextId \in Int /\ \A i \in AllBlocked : i <= nextId
    BY DEF Shape, Types, Numbered, Ids
  <2> QED BY <2>1, <2>2
<1>3. u \in Blockable
  BY <1>1, <1>2 DEF Blockable, Update, Deployment
<1>4. /\ surface'[s].blocked = Append(surface[s].blocked, u) /\ surface'[s].callbacks = surface[s].callbacks \cup {id}
      /\ surface'[s].alive = surface[s].alive /\ surface'[s].barrier = surface[s].barrier
      /\ surface'[s].unbound = surface[s].unbound
      /\ \A t \in Surfaces \ {s} : surface'[t] = surface[t]
  BY <1>1 DEF Shape, Types, SurfaceRecord
<1> HIDE DEF u
<1>5. BlockedIds(s)' = BlockedIds(s) \cup {id}
  <2>1. surface[s].blocked \in Seq(Blockable) /\ u.id = id
    BY DEF Shape, Types, SurfaceRecord, u
  <2>2. u.id \notin IdsIn(surface[s].blocked)
    BY <1>2, <2>1 DEF AllBlocked, BlockedIds, IdsIn
  <2>3. IdsIn(Append(surface[s].blocked, u)) = IdsIn(surface[s].blocked) \cup {id}
    BY <1>3, <2>1, <2>2, Appended
  <2> QED BY <1>4, <2>3 DEF BlockedIds, IdsIn
<1>6. \A t \in Surfaces : Sent(t)' = Sent(t)
  BY <1>1 DEF Sent, Latched
<1>7. \A t \in Surfaces \ {s} : BlockedIds(t)' = BlockedIds(t)
  BY <1>4 DEF BlockedIds
<1>8. \A t \in Alive' : t \in Alive /\ t \in Surfaces
  BY <1>4 DEF Alive
<1> HIDE DEF id
<1> QED BY <1>4, <1>5, <1>6, <1>7, <1>8, StaysAttended

LEMMA DisconnectEmpties ==
  ASSUME Emptied, Disconnect
  PROVE  Emptied' /\ session' = FALSE
<1>1. host' = [i \in Ids |-> IF host[i].at \in {"reading", "orphaned"}
                             THEN [host[i] EXCEPT !.at = "orphaned"] ELSE NoScene] /\ session' = FALSE
  BY DEF Disconnect
<1>2. ASSUME NEW i \in Ids
      PROVE  host'[i].latches = {}
  <2>1. CASE host[i].at \in {"reading", "orphaned"}
    <3>1. host[i].latches = {}
      BY <2>1 DEF Emptied
    <3>2. [host[i] EXCEPT !.at = "orphaned"].latches = host[i].latches
      OBVIOUS
    <3> QED BY <1>1, <2>1, <3>1, <3>2
  <2>2. CASE host[i].at \notin {"reading", "orphaned"}
    BY <1>1, <2>2 DEF NoScene
  <2> QED BY <2>1, <2>2
<1> QED BY <1>1, <1>2 DEF Emptied

\* A new session takes every wait over that a window with content has, and leaves
\* the others.
LEMMA ReconnectAttends ==
  ASSUME Deployment, Shape, Reconnect
  PROVE  Attended' /\ UNCHANGED host
<1> DEFINE shown == {r \in Roots \cap Alive : HasContent(r)}
           fresh == [r \in shown |-> nextId + Cardinality({q \in shown : q <= r})]
<1>1. /\ window' = [r \in Roots |-> IF r \in shown THEN [window[r] EXCEPT !.scene = fresh[r]] ELSE window[r]]
      /\ surface' = [s \in Surfaces |->
           IF s \notin Alive THEN surface[s]
           ELSE IF RootOf[s] \notin shown
           THEN [surface[s] EXCEPT !.unbound = @ \cup (Outstanding(s) \ {window[RootOf[s]].scene})]
           ELSE [surface[s] EXCEPT !.callbacks = IF @ = {} THEN @ ELSE {fresh[RootOf[s]]},
                                   !.barrier   = IF @ = 0 THEN 0 ELSE fresh[RootOf[s]]]]
      /\ UNCHANGED host
  BY DEF Reconnect
<1>2. surface \in [Surfaces -> SurfaceRecord] /\ window \in [Roots -> WindowRecord]
      /\ surface' \in [Surfaces -> SurfaceRecord] /\ window' \in [Roots -> WindowRecord]
  BY ReconnectIsQuiet DEF Shape, Types
<1> HIDE DEF shown, fresh
<1>3. ASSUME NEW s \in Alive'
      PROVE  s \in Alive /\ s \in Surfaces /\ RootOf[s] \in Roots
             /\ surface'[s].blocked = surface[s].blocked
  <2>1. s \in Surfaces
    BY DEF Alive
  <2>2. surface'[s].alive = surface[s].alive /\ surface'[s].blocked = surface[s].blocked
    <3>1. CASE s \notin Alive
      BY <1>1, <2>1, <3>1
    <3>2. CASE s \in Alive /\ RootOf[s] \notin shown
      <4> DEFINE more == surface[s].unbound \cup (Outstanding(s) \ {window[RootOf[s]].scene})
      <4>1. surface'[s] = [surface[s] EXCEPT !.unbound = more]
        BY <1>1, <2>1, <3>2
      <4> HIDE DEF more
      <4> QED BY <1>2, <2>1, <4>1 DEF SurfaceRecord
    <3>3. CASE s \in Alive /\ RootOf[s] \in shown
      <4> DEFINE cs == IF surface[s].callbacks = {} THEN surface[s].callbacks ELSE {fresh[RootOf[s]]}
                 fence == IF surface[s].barrier = 0 THEN 0 ELSE fresh[RootOf[s]]
      <4>1. surface'[s] = [surface[s] EXCEPT !.callbacks = cs, !.barrier = fence]
        BY <1>1, <2>1, <3>3
      <4> HIDE DEF cs, fence
      <4> QED BY <1>2, <2>1, <4>1 DEF SurfaceRecord
    <3> QED BY <3>1, <3>2, <3>3
  <2> QED BY <2>1, <2>2 DEF Alive, Roots
<1>4. ASSUME NEW s \in Alive'
      PROVE  /\ surface'[s].callbacks \subseteq BlockedIds(s)' \cup Sent(s)' \cup surface'[s].unbound
             /\ surface'[s].barrier \in Sent(s)' \cup {0} \cup surface'[s].unbound
  <2> DEFINE root == RootOf[s]
             scene == window[root].scene
  <2>1. s \in Alive /\ s \in Surfaces /\ root \in Roots /\ BlockedIds(s)' = BlockedIds(s)
    BY <1>3 DEF BlockedIds
  <2>2. CASE root \in shown
    <3>1. surface'[s] = [surface[s] EXCEPT !.callbacks = IF @ = {} THEN @ ELSE {fresh[root]},
                                           !.barrier   = IF @ = 0 THEN 0 ELSE fresh[root]]
      BY <1>1, <2>1, <2>2
    <3>2. surface[s] \in SurfaceRecord /\ surface'[s] \in SurfaceRecord
      BY <1>2, <2>1
    <3>3. surface'[s].callbacks \subseteq {fresh[root]} /\ surface'[s].barrier \in {0, fresh[root]}
      BY <3>1, <3>2 DEF SurfaceRecord
    <3>4. window'[root].scene = fresh[root]
      BY <1>1, <1>2, <2>1, <2>2 DEF WindowRecord
    <3>5. surface'[s].callbacks \subseteq Ids /\ surface'[s].barrier \in Ids \cup {0} /\ 0 \notin Ids
      BY <3>2 DEF SurfaceRecord, Ids
    <3>6. Sent(s)' = ({window'[root].scene} \cup Latched' \cup presented') \ {0}
      BY DEF Sent
    <3> HIDE DEF root
    <3> QED BY <3>3, <3>4, <3>5, <3>6
  <2>3. CASE root \notin shown
    <3>1. surface'[s] = [surface[s] EXCEPT !.unbound = @ \cup (Outstanding(s) \ {scene})]
      BY <1>1, <2>1, <2>3
    <3>2. surface[s] \in SurfaceRecord
      BY <1>2, <2>1
    <3>3. /\ surface'[s].callbacks = surface[s].callbacks /\ surface'[s].barrier = surface[s].barrier
          /\ surface'[s].unbound = surface[s].unbound \cup (Outstanding(s) \ {scene})
      BY <3>1, <3>2 DEF SurfaceRecord
    <3>4. window'[root].scene = scene
      BY <1>1, <2>1, <2>3
    <3>5. surface[s].callbacks \subseteq Ids /\ 0 \notin Ids
      BY <3>2 DEF SurfaceRecord, Ids
    <3>6. Sent(s)' = ({window'[root].scene} \cup Latched' \cup presented') \ {0}
      BY DEF Sent
    <3> HIDE DEF root, scene
    <3> QED BY <2>1, <3>3, <3>4, <3>5, <3>6 DEF Outstanding
  <2> QED BY <2>2, <2>3
<1> QED BY <1>1, <1>4 DEF Attended

LEMMA StepWaiting ==
  ASSUME Deployment, Waiting, [Next]_vars
  PROVE  Waiting'
<1> DEFINE Tended == Emptied' /\ session' = session /\ (session = TRUE /\ Attended => Attended')
<1>0. Shape /\ Emptied /\ (session = TRUE => Attended) /\ Shape'
  BY StepShape DEF Waiting
<1>1. ASSUME UNCHANGED <<surface, host, presented>>, \A r \in Roots : window'[r].scene = window[r].scene
      PROVE  Attended => Attended'
  <2>1. \A s \in Surfaces : RootOf[s] \in Roots /\ Sent(s)' = Sent(s)
    BY <1>1 DEF Sent, Latched, Roots
  <2> QED BY <1>1, <2>1, SameSurfaces
<1>2. ASSUME UNCHANGED host
      PROVE  Emptied'
  BY <1>0, <1>2 DEF Emptied
<1>4. ASSUME Client
      PROVE  Tended
  <2>1. UNCHANGED hostVars
    <3>1. ASSUME NEW s \in Surfaces, NEW kind \in {"attach", "detach", "redraw", "state"},
                 NEW b \in Buffers \cup {None}, NEW sets \in BOOLEAN, NEW waits \in BOOLEAN, NEW ready \in BOOLEAN,
                 Commit(s, kind, b, sets, waits, ready)
          PROVE  UNCHANGED hostVars
      BY <3>1 DEF Commit
    <3>2. ASSUME NEW s \in Surfaces, DestroySurface(s)
          PROVE  UNCHANGED hostVars
      BY <3>2 DEF DestroySurface
    <3>3. ASSUME NEW b \in Buffers, DestroyBuffer(b)
          PROVE  UNCHANGED hostVars
      BY <3>3 DEF DestroyBuffer
    <3> QED BY <1>4, <3>1, <3>2, <3>3 DEF Client
  <2>2. Emptied' /\ session' = session
    BY <1>2, <2>1 DEF hostVars
  <2>3. ASSUME NEW b \in Buffers, DestroyBuffer(b)
        PROVE  Attended => Attended'
    BY <1>1, <2>3 DEF DestroyBuffer, hostVars
  <2>4. Attended => Attended'
    BY <1>0, <1>4, <2>3, CommitAttends, DestroySurfaceAttends DEF Client
  <2> QED BY <2>2, <2>4
<1>5. ASSUME Compositor
      PROVE  Tended
  <2>1. ASSUME NEW s \in Surfaces, Visit(s)
        PROVE  Tended
    <3>1. Emptied' /\ session' = session
      BY <1>2, <2>1 DEF Visit
    <3> QED BY <1>0, <2>1, <3>1, VisitAttends
  <2>2. ASSUME NEW r \in Roots, Admit(r)
        PROVE  Tended
    <3>1. session' = session
      BY <2>2 DEF Admit
    <3> QED BY <1>0, <2>2, <3>1, AdmitAttends
  <2>3. ASSUME NEW r \in Roots, Reject(r)
        PROVE  Tended
    BY <1>1, <1>2, <2>3 DEF Reject, hostVars
  <2>4. ASSUME NEW r \in Roots, Retire(r)
        PROVE  Tended
    <3>1. /\ window' = [window EXCEPT ![r].scene = 0] /\ presented' = presented \cup {window[r].scene}
          /\ UNCHANGED <<surface, host, session>>
      BY <2>4 DEF Retire
    <3>2. \A s \in Surfaces : RootOf[s] \in Roots /\ Sent(s) \subseteq Sent(s)'
      BY <1>0, <3>1 DEF Sent, Latched, Roots, Shape, Types
    <3> QED BY <1>2, <3>1, <3>2, SameSurfaces
  <2>5. ASSUME NEW i \in Ids, Rendered(i)
        PROVE  Tended
    BY <1>1, <1>2, <2>5 DEF Rendered, hostVars
  <2>6. ASSUME NEW i \in Ids, OnPresented(i)
        PROVE  Tended
    BY <1>0, <1>2, <2>6, FeedbackAttends DEF OnPresented
  <2>7. ASSUME NEW i \in Ids, OnReleased(i)
        PROVE  Tended
    <3>1. /\ UNCHANGED <<surface, host, presented, session>>
          /\ \A r \in Roots : window'[r].scene = window[r].scene
      BY <1>0, <2>7 DEF OnReleased, Shape, Types, WindowRecord
    <3> QED BY <1>1, <1>2, <3>1
  <2> HIDE DEF Tended
  <2> QED BY <1>5, <2>1, <2>2, <2>3, <2>4, <2>5, <2>6, <2>7 DEF Compositor
<1>6. ASSUME Host
      PROVE  Tended
  BY <1>0, <1>6, HostAttends DEF Host
<1>7. ASSUME Disconnect
      PROVE  Emptied' /\ session' = FALSE
  BY <1>0, <1>7, DisconnectEmpties
<1>8. ASSUME Reconnect
      PROVE  Emptied' /\ Attended'
  BY <1>0, <1>2, <1>8, ReconnectAttends
<1>9. ASSUME UNCHANGED vars
      PROVE  Tended
  BY <1>1, <1>2, <1>9 DEF vars
<1> QED BY <1>0, <1>4, <1>5, <1>6, <1>7, <1>8, <1>9 DEF Next, Waiting

LEMMA InitWaiting ==
  ASSUME Deployment, Init
  PROVE  Waiting
<1>1. \A s \in Surfaces : surface[s].callbacks = {} /\ surface[s].barrier = 0
  BY DEF Init, NewSurface
<1>2. \A i \in Ids : host[i].latches = {}
  BY DEF Init, NoScene
<1> QED BY <1>1, <1>2, InitShape DEF Waiting, Attended, Emptied, Alive

LEMMA WaitingIsDue ==
  ASSUME Deployment, Waiting
  PROVE  NothingStranded
<1> SUFFICES ASSUME session, NEW s \in Alive
             PROVE  LET due == {u.id : u \in Range(surface[s].blocked)} \cup {window[r].scene : r \in Roots}
                               \cup (UNION {host[i].latches : i \in Ids}) \cup presented
                    IN  (surface[s].callbacks \cup {surface[s].barrier}) \ surface[s].unbound \subseteq due \cup {0}
  BY DEF NothingStranded
<1>1. BlockedIds(s) = {u.id : u \in Range(surface[s].blocked)}
  BY DEF BlockedIds, Range
<1>2. RootOf[s] \in Roots
  BY DEF Alive, Roots
<1>3. Attended
  BY DEF Waiting
<1> QED BY <1>1, <1>2, <1>3 DEF Attended, Sent, Latched

\* Every frame callback and FIFO barrier waits for something that will still come
\* (NothingStranded), for any surfaces and any number of sessions; only those that a
\* new session found on a window without content are given up.
THEOREM NobodyIsStranded ==
  ASSUME Deployment
  PROVE  Spec => []NothingStranded
<1>1. Init => Waiting
  BY InitWaiting
<1>2. Waiting /\ [Next]_vars => Waiting'
  BY StepWaiting
<1>3. Waiting => NothingStranded
  BY WaitingIsDue
<1> QED BY <1>1, <1>2, <1>3, PTL DEF Spec
=============================================================================
