--------------------------- MODULE DropServer_proofs ---------------------------
(***************************************************************************)
(* The files of handles outlive their users in the drop server, for any     *)
(* number of requests, drops, owners and sessions that overlap in any way.   *)
(* The counts of users and of open handles are the sets they stand for; a    *)
(* file that a handle or a request has is open and is no lock descriptor;    *)
(* and every lock descriptor that is open has its owner, who closes it. That *)
(* a request locks through an open descriptor is not claimed: see SetLock.   *)
(***************************************************************************)
EXTENDS DropServer, FiniteSetTheorems, TLAPS

\* What a deployment gives: some requests at once, some descriptors and handles.
Capacity ==
  IsFiniteSet(Reqs) /\ MaxDesc \in Nat /\ MaxHandles \in Nat

Descs == 1 .. MaxDesc
InUse   == {r \in Reqs : req[r].phase \in {"using", "reopened", "locking"}}
Fresh   == {r \in Reqs : req[r].phase = "opened"}
Relocks == {r \in Reqs : req[r].phase = "reopened"}
InTable == {handles[h].fd : h \in DOMAIN handles}
InHands == {req[r].fd : r \in InUse \cup Fresh}
OwnersLocks == {lockFiles[o] : o \in Owners} \ {NoLock}
NewLocks  == {req[r].lock : r \in Relocks}

Record == [kind : {"none", "open", "use", "flush", "lock"},
           phase : {"free", "found", "opened", "using", "reopened", "locking", "waiting"},
           drop : Drops \cup {0}, fd : Descs \cup {0}, lock : Descs \cup {0}, owner : Owners \cup {0},
           sess : Nat, cancelled : BOOLEAN]

\* What a request carries at each stage of its work.
Stages == \A r \in Reqs :
  /\ req[r].phase \in {"using", "reopened", "locking", "opened", "waiting"} => req[r].fd \in Descs
  /\ req[r].phase \in {"found", "opened"} => req[r].drop \in Drops
  /\ req[r].phase \in {"reopened", "locking"} => req[r].kind = "lock" /\ req[r].lock \in Descs
  /\ req[r].kind \in {"flush", "lock"} => req[r].owner \in Owners

RequestTypes == req \in [Reqs -> Record] /\ Stages
FileTypes ==
  /\ nextDesc \in 1 .. MaxDesc + 1 /\ nextHandle \in 1 .. MaxHandles + 1
  /\ open \subseteq 1 .. nextDesc - 1
  /\ DOMAIN handles \subseteq 1 .. nextHandle - 1
  /\ handles \in [DOMAIN handles -> [fd : Descs, drop : Drops, sess : Nat]]
  /\ users \in [Descs -> Nat] /\ released \in [Descs -> BOOLEAN]
  /\ openFiles \in [Drops -> Nat] /\ drops \subseteq Drops
LockTypes == lockFiles \in [Owners -> 0 .. MaxDesc]
SessionTypes == session \in Nat /\ serving \in Nat /\ epoch \in Nat
Types == RequestTypes /\ FileTypes /\ LockTypes /\ SessionTypes

\* The next descriptor is new to everyone.
NumbersAreNew ==
  /\ \A f \in Descs : f >= nextDesc => ~released[f]
  /\ \A r \in Reqs : req[r].phase \in {"reopened", "locking"} => req[r].lock < nextDesc
  /\ \A o \in Owners : lockFiles[o] < nextDesc

\* The counts are the sets they stand for.
UsersOf == [f \in Descs |-> {r \in InUse : req[r].fd = f}]
UsersCounted == \A f \in Descs : users[f] = Cardinality(UsersOf[f])
HandlesOf == [d \in Drops |-> {h \in DOMAIN handles : handles[h].drop = d}]

\* A file has one handle, or was just opened for one request, or its handle
\* was released and whoever still uses it will close it.
FilesKept ==
  /\ \A h, k \in DOMAIN handles : handles[h].fd = handles[k].fd => h = k
  /\ \A f \in InTable : f \in open /\ ~released[f]
  /\ \A r \in InUse : req[r].fd \in open /\ (released[req[r].fd] \/ req[r].fd \in InTable)
FreshKept ==
  \A r \in Fresh : /\ req[r].fd \in open /\ ~released[req[r].fd] /\ req[r].fd \notin InTable
                   /\ \A q \in InUse \cup Fresh : req[q].fd = req[r].fd => q = r

\* A descriptor is used for a file or for locks, and somebody has it.
Apart == \A f \in InTable \cup InHands : f \notin OwnersLocks /\ f \notin NewLocks
Returned == open \subseteq InTable \cup InHands \cup OwnersLocks \cup NewLocks

Files == NumbersAreNew /\ FilesKept /\ FreshKept /\ Apart /\ Returned
Lifetimes == Types /\ UsersCounted /\ OpenCounted /\ Files

---------------------------------------------------------------------------
\* Counting.

LEMMA UsersAreFinite ==
  ASSUME Capacity, NEW f \in Descs
  PROVE  IsFiniteSet(UsersOf[f]) /\ Cardinality(UsersOf[f]) \in Nat /\ Cardinality(UsersOf[f]) <= Cardinality(Reqs)
<1>1. UsersOf[f] \in SUBSET Reqs
  BY DEF UsersOf, InUse
<1> QED BY <1>1, FS_Subset, FS_CardinalityType DEF Capacity

LEMMA HandlesAreFinite ==
  ASSUME Capacity, FileTypes, NEW d \in Drops
  PROVE  IsFiniteSet(HandlesOf[d]) /\ Cardinality(HandlesOf[d]) \in Nat
<1>1. IsFiniteSet(1 .. nextHandle - 1)
  <2>1. nextHandle - 1 \in Int
    BY DEF FileTypes, Capacity
  <2> QED BY <2>1, FS_Interval
<1>2. HandlesOf[d] \in SUBSET (1 .. nextHandle - 1)
  BY DEF HandlesOf, FileTypes
<1> QED BY <1>1, <1>2, FS_Subset, FS_CardinalityType

\* A file nobody uses, a file one request uses, a file with another user.
LEMMA CountTells ==
  ASSUME Capacity, UsersCounted, NEW f \in Descs
  PROVE  /\ users[f] = 0 <=> UsersOf[f] = {}
         /\ \A r \in UsersOf[f] : users[f] = 1 <=> UsersOf[f] = {r}
<1>1. users[f] = 0 <=> UsersOf[f] = {}
  BY UsersAreFinite, FS_EmptySet DEF UsersCounted
<1>2. ASSUME NEW r \in UsersOf[f]
      PROVE  users[f] = 1 <=> UsersOf[f] = {r}
  <2>1. Cardinality(UsersOf[f]) = 1 <=> \E x : UsersOf[f] = {x}
    BY UsersAreFinite, FS_Singleton
  <2> QED BY <2>1, <1>2 DEF UsersCounted
<1> QED BY <1>1, <1>2

\* Requests that neither take a file nor leave one.
LEMMA SameUsers ==
  ASSUME UsersCounted, users' = users, InUse' = InUse, \A r \in InUse : req'[r].fd = req[r].fd
  PROVE  UsersCounted'
<1>1. UsersOf' = UsersOf
  BY DEF UsersOf
<1> QED BY <1>1 DEF UsersCounted

\* Request r takes file f, or leaves it.
LEMMA Joins ==
  ASSUME Capacity, UsersCounted, FileTypes, NEW r, r \notin InUse, NEW f \in Descs, InUse' = InUse \cup {r},
         req'[r].fd = f, \A q \in InUse : req'[q].fd = req[q].fd, users' = [users EXCEPT ![f] = @ + 1]
  PROVE  UsersCounted'
<1> SUFFICES ASSUME NEW g \in Descs PROVE users'[g] = Cardinality(UsersOf'[g])
  BY DEF UsersCounted
<1>1. UsersOf'[g] = IF g = f THEN UsersOf[g] \cup {r} ELSE UsersOf[g]
  BY DEF UsersOf
<1>2. r \notin UsersOf[g]
  BY DEF UsersOf
<1>3. Cardinality(UsersOf[g] \cup {r}) = Cardinality(UsersOf[g]) + 1
  BY <1>2, UsersAreFinite, FS_AddElement
<1> QED BY <1>1, <1>3, UsersAreFinite DEF UsersCounted, FileTypes

LEMMA Leaves ==
  ASSUME Capacity, UsersCounted, FileTypes, NEW r \in InUse, NEW f \in Descs, InUse' = InUse \ {r},
         req[r].fd = f, \A q \in InUse \ {r} : req'[q].fd = req[q].fd, users' = [users EXCEPT ![f] = @ - 1]
  PROVE  UsersCounted' /\ users' \in [Descs -> Nat]
<1>0. ASSUME NEW g \in Descs PROVE users'[g] = Cardinality(UsersOf'[g]) /\ users'[g] \in Nat
  <2>1. UsersOf'[g] = IF g = f THEN UsersOf[g] \ {r} ELSE UsersOf[g]
    BY DEF UsersOf
  <2>2. g = f => r \in UsersOf[g]
    BY DEF UsersOf
  <2>3. g = f => Cardinality(UsersOf[g] \ {r}) = Cardinality(UsersOf[g]) - 1 /\ IsFiniteSet(UsersOf[g] \ {r})
    BY <2>2, UsersAreFinite, FS_RemoveElement
  <2>4. g = f => Cardinality(UsersOf[g] \ {r}) \in Nat
    BY <2>3, FS_CardinalityType
  <2>5. CASE g = f
    <3>1. users'[g] = users[g] - 1 /\ UsersOf'[g] = UsersOf[g] \ {r}
      BY <2>1, <2>5 DEF FileTypes
    <3> QED BY <3>1, <2>3, <2>4, <2>5 DEF UsersCounted
  <2>6. CASE g # f
    <3>1. users'[g] = users[g] /\ UsersOf'[g] = UsersOf[g]
      BY <2>1, <2>6 DEF FileTypes
    <3> QED BY <3>1, UsersAreFinite DEF UsersCounted
  <2> QED BY <2>5, <2>6
<1> QED BY <1>0 DEF UsersCounted, FileTypes

LEMMA CountsHandles == OpenCounted <=> \A d \in Drops : openFiles[d] = Cardinality(HandlesOf[d])
BY DEF OpenCounted, HandlesOf

LEMMA SameHandles ==
  ASSUME OpenCounted, UNCHANGED <<handles, openFiles>>
  PROVE  OpenCounted'
BY DEF OpenCounted

LEMMA InitLifetimes == ASSUME Capacity, Init PROVE Lifetimes
<1>1. Types
  BY DEF Init, Types, RequestTypes, FileTypes, LockTypes, SessionTypes, Stages, Record, Free, Capacity, NoLock, Descs
<1>2. UsersCounted
  <2>1. \A f \in Descs : UsersOf[f] = {}
    BY DEF Init, UsersOf, InUse, Free
  <2> QED BY <2>1, FS_EmptySet DEF Init, UsersCounted, Descs
<1>3. OpenCounted
  <2>1. \A d \in Drops : HandlesOf[d] = {}
    BY DEF Init, HandlesOf
  <2> QED BY <2>1, FS_EmptySet, CountsHandles DEF Init
<1>4. Files
  BY DEF Init, Files, NumbersAreNew, FilesKept, FreshKept, Apart, Returned, InTable, InHands, OwnersLocks,
         NewLocks, Relocks, InUse, Fresh, Free, Capacity, NoLock, Descs
<1> QED BY <1>1, <1>2, <1>3, <1>4 DEF Lifetimes

---------------------------------------------------------------------------
\* One request goes on.

LEMMA OthersStay ==
  ASSUME RequestTypes, NEW r \in Reqs, NEW x \in Record, req' = [req EXCEPT ![r] = x],
         x.phase \in {"using", "reopened", "locking", "opened", "waiting"} => x.fd \in Descs,
         x.phase \in {"found", "opened"} => x.drop \in Drops,
         x.phase \in {"reopened", "locking"} => x.kind = "lock" /\ x.lock \in Descs,
         x.kind \in {"flush", "lock"} => x.owner \in Owners
  PROVE  RequestTypes' /\ \A q \in Reqs : req'[q] = IF q = r THEN x ELSE req[q]
<1>1. \A q \in Reqs : req'[q] = IF q = r THEN x ELSE req[q]
  BY DEF RequestTypes
<1>2. req' \in [Reqs -> Record]
  BY DEF RequestTypes
<1>3. Stages'
  BY <1>1 DEF RequestTypes, Stages
<1> QED BY <1>1, <1>2, <1>3 DEF RequestTypes

\* A request stops using its file; a flush closes the owner's lock as well.
LEMMA Relinquished ==
  ASSUME Capacity, Lifetimes, NEW r \in Reqs, req[r].phase \in {"using", "locking"}, NEW x \in Record,
         \A q \in Reqs : req'[q] = IF q = r THEN x ELSE req[q], x.phase \in {"free", "waiting"},
         NEW f, f = req[r].fd, users' = [users EXCEPT ![f] = @ - 1],
         NEW gone \in SUBSET OwnersLocks, OwnersLocks \ gone \subseteq OwnersLocks', OwnersLocks' \subseteq OwnersLocks,
         open' = (open \ gone) \ (IF Closes(f) THEN {f} ELSE {}),
         UNCHANGED <<handles, released, openFiles, nextDesc, nextHandle, drops>>
  PROVE  UsersCounted' /\ OpenCounted' /\ FileTypes' /\ Files'
<1>1. r \in InUse /\ f \in Descs /\ r \in UsersOf[f]
  BY DEF InUse, UsersOf, Lifetimes, Types, RequestTypes, Stages
<1>2. InUse' = InUse \ {r} /\ Fresh' = Fresh /\ Relocks' = Relocks /\ r \notin Fresh /\ r \notin Relocks
  BY DEF InUse, Fresh, Relocks
<1>3. InUse \subseteq Reqs /\ Fresh \subseteq Reqs /\ Relocks \subseteq Reqs
  BY DEF InUse, Fresh, Relocks
<1>4. UsersCounted' /\ users' \in [Descs -> Nat]
  BY <1>1, <1>2, <1>3, Leaves DEF Lifetimes, Types
<1>5. OpenCounted'
  BY SameHandles DEF Lifetimes
<1>6. FileTypes'
  BY <1>4 DEF Lifetimes, Types, FileTypes
<1>7. InTable' = InTable /\ NewLocks' = NewLocks
  BY <1>2, <1>3 DEF InTable, NewLocks
<1>8. \A g \in open : g \in open' \/ g \in gone \/ (g = f /\ released[f] /\ UsersOf[f] = {r})
  BY <1>1, CountTells DEF Closes, Lifetimes
<1>9. open' \subseteq open
  OBVIOUS
<1>10. NumbersAreNew'
  <2>1. \A o \in Owners : lockFiles'[o] < nextDesc
    <3> SUFFICES ASSUME NEW o \in Owners PROVE lockFiles'[o] < nextDesc
      OBVIOUS
    <3>1. CASE lockFiles'[o] = NoLock
      BY <3>1 DEF NoLock, Lifetimes, Types, FileTypes, Capacity
    <3>2. CASE lockFiles'[o] # NoLock
      <4>1. lockFiles'[o] \in OwnersLocks
        BY <3>2 DEF OwnersLocks
      <4> QED BY <4>1 DEF OwnersLocks, Lifetimes, Files, NumbersAreNew
    <3> QED BY <3>1, <3>2
  <2> QED BY <2>1 DEF Lifetimes, Files, NumbersAreNew
<1>11. FilesKept'
  <2>1. \A g \in InTable : g \in open' /\ ~released[g]
    BY <1>8 DEF Lifetimes, Files, FilesKept, Apart
  <2>2. \A q \in InUse \ {r} : req[q].fd \in open'
    <3> SUFFICES ASSUME NEW q \in InUse \ {r} PROVE req[q].fd \in open'
      OBVIOUS
    <3>1. req[q].fd \in open /\ req[q].fd \notin gone
      BY DEF Lifetimes, Files, FilesKept, Apart, InHands
    <3>2. req[q].fd = f => q \in UsersOf[f]
      BY <1>1 DEF UsersOf
    <3> QED BY <1>8, <3>1, <3>2
  <2> QED BY <1>2, <1>3, <1>7, <2>1, <2>2 DEF Lifetimes, Files, FilesKept
<1>12. FreshKept'
  <2>1. \A q \in Fresh : req[q].fd \in open'
    <3> SUFFICES ASSUME NEW q \in Fresh PROVE req[q].fd \in open'
      OBVIOUS
    <3>1. req[q].fd \in open /\ req[q].fd \notin gone
      BY DEF Lifetimes, Files, FreshKept, Apart, InHands
    <3>2. req[q].fd # f
      BY <1>1, <1>2 DEF Lifetimes, Files, FreshKept
    <3> QED BY <1>8, <3>1, <3>2
  <2> QED BY <1>2, <1>3, <1>7, <2>1 DEF Lifetimes, Files, FreshKept
<1>13. InHands' \subseteq InHands /\ InHands \ {f} \subseteq InHands'
  BY <1>2, <1>3 DEF InHands
<1>14. Apart'
  BY <1>7, <1>13 DEF Lifetimes, Files, Apart
<1>15. Returned'
  <2> SUFFICES ASSUME NEW g \in open', g = f PROVE f \in InTable' \cup InHands'
    BY <1>7, <1>9, <1>13 DEF Lifetimes, Files, Returned
  <2>1. CASE released[f]
    <3>1. UsersOf[f] # {r}
      BY <1>1, <2>1, CountTells DEF Closes, Lifetimes
    <3>2. PICK q \in UsersOf[f] : q # r
      BY <1>1, <3>1
    <3>3. q \in InUse' /\ req'[q].fd = f
      BY <1>1, <1>2, <1>3, <3>2 DEF UsersOf
    <3> QED BY <3>3 DEF InHands
  <2>2. CASE ~released[f]
    BY <1>1, <1>7, <2>2 DEF Lifetimes, Files, FilesKept
  <2> QED BY <2>1, <2>2
<1> QED BY <1>4, <1>5, <1>6, <1>10, <1>11, <1>12, <1>14, <1>15 DEF Files

LEMMA FreeIsRecord == Free \in Record
BY DEF Free, Record

LEMMA UsedKeeps == ASSUME Capacity, Lifetimes, NEW r \in Reqs, Used(r) PROVE Lifetimes'
<1>1. req' = [req EXCEPT ![r] = Free] /\ Free \in Record /\ Free.phase = "free" /\ Free.kind = "none"
  BY FreeIsRecord DEF Used, Relinquish, Set, Free
<1>2. RequestTypes' /\ \A q \in Reqs : req'[q] = IF q = r THEN Free ELSE req[q]
  <2> HIDE DEF Free
  <2> QED BY <1>1, OthersStay DEF Lifetimes, Types
<1>3. OwnersLocks' = OwnersLocks
  BY DEF Used, OwnersLocks, locks
<1>4. UsersCounted' /\ OpenCounted' /\ FileTypes' /\ Files'
  <2>1. open' = (open \ {}) \ (IF Closes(req[r].fd) THEN {req[r].fd} ELSE {})
    BY DEF Used, Relinquish
  <2>2. users' = [users EXCEPT ![req[r].fd] = @ - 1]
    BY DEF Used, Relinquish
  <2>3. UNCHANGED <<handles, released, openFiles, nextDesc, nextHandle, drops>>
    BY DEF Used, locks, counters, Same
  <2>5. req[r].phase \in {"using", "locking"}
    BY DEF Used
  <2> QED BY ZenonT(60), <1>1, <1>2, <1>3, <2>1, <2>2, <2>3, <2>5, Relinquished
<1>6. LockTypes' /\ SessionTypes'
  BY DEF Used, Same, locks, sessions, Lifetimes, Types, LockTypes, SessionTypes
<1> QED BY <1>2, <1>4, <1>6 DEF Lifetimes, Types

LEMMA FlushedKeeps == ASSUME Capacity, Lifetimes, NEW r \in Reqs, Flushed(r) PROVE Lifetimes'
<1> DEFINE l == lockFiles[req[r].owner]
           gone == {l} \ {NoLock}
<1>0. req[r].owner \in Owners /\ req[r].phase = "using"
  BY DEF Flushed, Lifetimes, Types, RequestTypes, Stages
<1>1. req' = [req EXCEPT ![r] = Free] /\ Free \in Record /\ Free.phase = "free" /\ Free.kind = "none"
  BY FreeIsRecord DEF Flushed, Set, Free
<1>2. RequestTypes' /\ \A q \in Reqs : req'[q] = IF q = r THEN Free ELSE req[q]
  BY <1>1, OthersStay DEF Lifetimes, Types
<1>3. lockFiles' = [lockFiles EXCEPT ![req[r].owner] = NoLock]
  BY DEF Flushed
<1>4. OwnersLocks \ gone \subseteq OwnersLocks' /\ OwnersLocks' \subseteq OwnersLocks /\ gone \subseteq OwnersLocks
  BY <1>0, <1>3 DEF OwnersLocks, Lifetimes, Types, LockTypes
<1>5. LockTypes'
  BY <1>0, <1>3 DEF LockTypes, Lifetimes, Types, NoLock, Capacity
<1>6. UsersCounted' /\ OpenCounted' /\ FileTypes' /\ Files'
  <2>1. NoLock \notin open
    BY DEF Lifetimes, Types, FileTypes, NoLock, Capacity
  <2>2. open' = (open \ gone) \ (IF Closes(req[r].fd) THEN {req[r].fd} ELSE {})
    BY <2>1 DEF Flushed
  <2>3. users' = [users EXCEPT ![req[r].fd] = @ - 1]
    BY DEF Flushed
  <2>4. UNCHANGED <<handles, released, openFiles, nextDesc, nextHandle, drops>>
    BY DEF Flushed, counters, Same
  <2> HIDE DEF l, gone
  <2> QED BY <1>0, <1>1, <1>2, <1>4, <2>2, <2>3, <2>4, Relinquished
<1>8. SessionTypes'
  BY DEF Flushed, Same, sessions, Lifetimes, Types, SessionTypes
<1> QED BY <1>2, <1>5, <1>6, <1>8 DEF Lifetimes, Types

\* A closed lock descriptor fails, a lock is taken, or it is waited for.
LEMMA SetLockKeeps == ASSUME Capacity, Lifetimes, NEW r \in Reqs, SetLock(r) PROVE Lifetimes'
<1>0. req[r].phase = "locking" /\ req[r].kind = "lock" /\ req[r].fd \in Descs /\ req[r].owner \in Owners /\ req[r] \in Record
  BY DEF SetLock, Lifetimes, Types, RequestTypes, Stages
<1>1. PICK x \in Record : /\ req' = [req EXCEPT ![r] = x] /\ x.phase \in {"free", "waiting"}
                          /\ x.phase = "waiting" => x.fd \in Descs
                          /\ x.kind \in {"flush", "lock"} => x.owner \in Owners
  <2>1. CASE Set(r, Free)
    BY <2>1, FreeIsRecord DEF Set, Free
  <2>2. CASE Set(r, [req[r] EXCEPT !.phase = "waiting", !.lock = 0])
    <3> DEFINE y == [req[r] EXCEPT !.phase = "waiting", !.lock = 0]
    <3>1. y \in Record
      BY <1>0 DEF Record
    <3>2. y.phase = "waiting" /\ y.fd = req[r].fd /\ y.owner = req[r].owner
      BY <1>0 DEF Record
    <3> HIDE DEF y
    <3> QED BY <1>0, <2>2, <3>1, <3>2 DEF Set, y
  <2> QED BY <2>1, <2>2 DEF SetLock, Relinquish
<1>2. RequestTypes' /\ \A q \in Reqs : req'[q] = IF q = r THEN x ELSE req[q]
  BY <1>1, OthersStay DEF Lifetimes, Types
<1>3. UNCHANGED <<handles, released, openFiles, lockFiles, nextDesc, nextHandle, drops, sessions>>
  BY DEF SetLock, counters, Same
<1>4. OwnersLocks' = OwnersLocks
  BY <1>3 DEF OwnersLocks
<1>5. users' = [users EXCEPT ![req[r].fd] = @ - 1] /\ open' = (open \ {}) \ (IF Closes(req[r].fd) THEN {req[r].fd} ELSE {})
  BY DEF SetLock, Relinquish
<1>8. UsersCounted' /\ OpenCounted' /\ FileTypes' /\ Files'
  BY ZenonT(60), <1>0, <1>1, <1>2, <1>3, <1>4, <1>5, Relinquished
<1>10. LockTypes' /\ SessionTypes'
  BY <1>3 DEF sessions, Lifetimes, Types, LockTypes, SessionTypes
<1> QED BY <1>2, <1>8, <1>10 DEF Lifetimes, Types

---------------------------------------------------------------------------
\* Requests begin.

\* A request that has nothing yet, or no longer.
LEMMA Bystander ==
  ASSUME Capacity, Lifetimes, NEW r \in Reqs, req[r].phase \in {"free", "found", "waiting"}, NEW x,
         \A q \in Reqs : req'[q] = IF q = r THEN x ELSE req[q], x.phase \in {"free", "found", "waiting"},
         UNCHANGED <<handles, released, users, openFiles, lockFiles, open, nextDesc, nextHandle, drops>>
  PROVE  UsersCounted' /\ OpenCounted' /\ FileTypes' /\ Files'
<1>1. InUse' = InUse /\ Fresh' = Fresh /\ Relocks' = Relocks
  BY DEF InUse, Fresh, Relocks
<1>2. \A q \in InUse \cup Fresh \cup Relocks : req'[q] = req[q] /\ q \in Reqs
  BY DEF InUse, Fresh, Relocks
<1>3. InTable' = InTable /\ InHands' = InHands /\ OwnersLocks' = OwnersLocks /\ NewLocks' = NewLocks
  BY <1>1, <1>2 DEF InTable, InHands, OwnersLocks, NewLocks
<1>4. UsersCounted' /\ OpenCounted' /\ FileTypes'
  BY <1>1, <1>2, SameUsers, SameHandles DEF Lifetimes, Types, FileTypes
<1>5. NumbersAreNew' /\ FilesKept' /\ FreshKept'
  BY <1>1, <1>2, <1>3 DEF Lifetimes, Files, NumbersAreNew, FilesKept, FreshKept
<1>6. Apart' /\ Returned'
  BY <1>3 DEF Lifetimes, Files, Apart, Returned
<1> QED BY <1>4, <1>5, <1>6 DEF Files

\* A request takes the file of a handle.
LEMMA Taken ==
  ASSUME Capacity, Lifetimes, NEW r \in Reqs, req[r].phase \in {"free", "waiting"}, NEW x,
         \A q \in Reqs : req'[q] = IF q = r THEN x ELSE req[q], x.phase = "using", x.fd \in InTable, x.fd \in Descs,
         users' = [users EXCEPT ![x.fd] = @ + 1],
         UNCHANGED <<handles, released, openFiles, lockFiles, open, nextDesc, nextHandle, drops>>
  PROVE  UsersCounted' /\ OpenCounted' /\ FileTypes' /\ Files'
<1>1. InUse' = InUse \cup {r} /\ Fresh' = Fresh /\ Relocks' = Relocks /\ r \notin InUse /\ r \notin Fresh /\ r \notin Relocks
  BY DEF InUse, Fresh, Relocks
<1>2. \A q \in InUse \cup Fresh \cup Relocks : req'[q] = req[q] /\ q \in Reqs
  BY <1>1 DEF InUse, Fresh, Relocks
<1>3. InTable' = InTable /\ OwnersLocks' = OwnersLocks /\ NewLocks' = NewLocks /\ req'[r] = x
  BY <1>1, <1>2 DEF InTable, OwnersLocks, NewLocks
<1>4. InHands' = InHands \cup {x.fd}
  BY <1>1, <1>2, <1>3 DEF InHands
<1>5. UsersCounted'
  BY <1>1, <1>2, <1>3, Joins DEF Lifetimes, Types
<1>6. OpenCounted' /\ FileTypes'
  BY SameHandles DEF Lifetimes, Types, FileTypes
<1>7. NumbersAreNew' /\ FilesKept'
  BY <1>1, <1>2, <1>3 DEF Lifetimes, Files, NumbersAreNew, FilesKept
<1>8. FreshKept'
  BY <1>1, <1>2, <1>3 DEF Lifetimes, Files, FreshKept
<1>9. Apart' /\ Returned'
  BY <1>3, <1>4 DEF Lifetimes, Files, Apart, Returned
<1> QED BY <1>5, <1>6, <1>7, <1>8, <1>9 DEF Files

LEMMA OpenKeeps == ASSUME Capacity, Lifetimes, NEW r \in Reqs, NEW d \in Drops, Open(r, d) PROVE Lifetimes'
<1> DEFINE x == [[Free EXCEPT !.kind = "open", !.phase = "found", !.drop = d] EXCEPT !.sess = serving]
<1>1. req' = [req EXCEPT ![r] = x] /\ serving > 0 /\ req[r] = Free
  BY DEF Open, Arrive, Set
<1>2. x \in Record /\ x.phase = "found" /\ x.drop = d /\ x.kind = "open"
  BY DEF Free, Record, Lifetimes, Types, SessionTypes
<1> HIDE DEF x
<1>3. RequestTypes' /\ \A q \in Reqs : req'[q] = IF q = r THEN x ELSE req[q]
  BY <1>1, <1>2, OthersStay DEF Lifetimes, Types
<1>4. UNCHANGED <<handles, released, users, openFiles, lockFiles, open, nextDesc, nextHandle, drops, sessions>>
  BY DEF Open, Same, tables, locks, counters
<1>5. UsersCounted' /\ OpenCounted' /\ FileTypes' /\ Files'
  BY <1>1, <1>2, <1>3, <1>4, Bystander DEF Free
<1> QED BY <1>3, <1>4, <1>5 DEF Lifetimes, Types, LockTypes, SessionTypes, sessions

LEMMA AcquireKeeps ==
  ASSUME Capacity, Lifetimes, NEW r \in Reqs, NEW h \in DOMAIN handles, NEW k, NEW o,
         <<k, o>> = <<"use", 0>> \/ (k \in {"flush", "lock"} /\ o \in Owners), Acquire(r, h, k, o)
  PROVE  Lifetimes'
<1> DEFINE x == [[Free EXCEPT !.kind = k, !.phase = "using", !.fd = handles[h].fd, !.owner = o] EXCEPT !.sess = serving]
<1>1. req' = [req EXCEPT ![r] = x] /\ serving > 0 /\ req[r] = Free /\ users' = [users EXCEPT ![handles[h].fd] = @ + 1]
  BY DEF Acquire, Arrive, Set
<1>2. handles[h].fd \in Descs /\ handles[h].fd \in InTable
  BY DEF InTable, Lifetimes, Types, FileTypes
<1>3. x \in Record /\ x.phase = "using" /\ x.fd = handles[h].fd /\ x.kind = k /\ x.owner = o
  BY <1>2 DEF Free, Record, Lifetimes, Types, SessionTypes
<1> HIDE DEF x
<1>4. RequestTypes' /\ \A q \in Reqs : req'[q] = IF q = r THEN x ELSE req[q]
  BY <1>1, <1>2, <1>3, OthersStay DEF Lifetimes, Types
<1>5. UNCHANGED <<handles, released, openFiles, lockFiles, open, nextDesc, nextHandle, drops, sessions>>
  BY DEF Acquire, Same, locks, counters
<1>6. UsersCounted' /\ OpenCounted' /\ FileTypes' /\ Files'
  <2>1. req[r].phase = "free"
    BY <1>1 DEF Free
  <2>2. x.fd \in InTable /\ x.fd \in Descs /\ users' = [users EXCEPT ![x.fd] = @ + 1]
    BY <1>1, <1>2, <1>3
  <2> QED BY <1>3, <1>4, <1>5, <2>1, <2>2, Taken
<1> QED BY <1>4, <1>5, <1>6 DEF Lifetimes, Types, LockTypes, SessionTypes, sessions

\* A waiting request gives up, or takes its file again if its handle is there.
LEMMA AgainKeeps == ASSUME Capacity, Lifetimes, NEW r \in Reqs, Again(r) PROVE Lifetimes'
<1>0. req[r].phase = "waiting" /\ req[r].fd \in Descs /\ req[r] \in Record
  BY DEF Again, Lifetimes, Types, RequestTypes, Stages, Free
<1>1. UNCHANGED <<handles, released, openFiles, lockFiles, open, nextDesc, nextHandle, drops, sessions>>
  BY DEF Again, Same, locks, counters
<1>2. CASE Set(r, Free) /\ UNCHANGED users
  <2>1. req' = [req EXCEPT ![r] = Free] /\ Free \in Record /\ Free.phase = "free" /\ Free.kind = "none"
    BY <1>2, FreeIsRecord DEF Set, Free
  <2>2. RequestTypes' /\ \A q \in Reqs : req'[q] = IF q = r THEN Free ELSE req[q]
    BY <2>1, OthersStay DEF Lifetimes, Types
  <2>3. UsersCounted' /\ OpenCounted' /\ FileTypes' /\ Files'
    BY <1>0, <1>1, <1>2, <2>1, <2>2, Bystander
  <2> QED BY <1>1, <2>2, <2>3 DEF Lifetimes, Types, LockTypes, SessionTypes, sessions
<1>3. CASE /\ \E e \in Table : e.fd = req[r].fd
           /\ To(r, "using") /\ users' = [users EXCEPT ![req[r].fd] = @ + 1]
  <2> DEFINE x == [req[r] EXCEPT !.phase = "using"]
  <2>1. req' = [req EXCEPT ![r] = x] /\ req[r].fd \in InTable
    BY <1>3 DEF To, Set, Table, InTable
  <2>2. x \in Record /\ x.phase = "using" /\ x.fd = req[r].fd /\ x.kind = req[r].kind /\ x.owner = req[r].owner
    BY <1>0 DEF Record
  <2>3. req[r].kind \in {"flush", "lock"} => req[r].owner \in Owners
    BY DEF Lifetimes, Types, RequestTypes, Stages
  <2> HIDE DEF x
  <2>4. RequestTypes' /\ \A q \in Reqs : req'[q] = IF q = r THEN x ELSE req[q]
    BY <1>0, <2>1, <2>2, <2>3, OthersStay DEF Lifetimes, Types
  <2>5. UsersCounted' /\ OpenCounted' /\ FileTypes' /\ Files'
    BY <1>0, <1>1, <1>3, <2>1, <2>2, <2>4, Taken
  <2> QED BY <1>1, <2>4, <2>5 DEF Lifetimes, Types, LockTypes, SessionTypes, sessions
<1> QED BY <1>2, <1>3 DEF Again

---------------------------------------------------------------------------
\* Descriptors are opened, stored and released.

LEMMA OpenAreOld ==
  ASSUME Capacity, Lifetimes
  PROVE  /\ nextDesc \notin open /\ nextDesc \notin InTable /\ nextDesc \notin InHands
         /\ nextDesc \notin OwnersLocks /\ nextDesc \notin NewLocks
         /\ InTable \subseteq open /\ InHands \subseteq open
<1>1. nextDesc \notin open
  BY DEF Lifetimes, Types, FileTypes, Capacity
<1>2. InTable \subseteq open /\ InHands \subseteq open
  BY DEF Lifetimes, Files, FilesKept, FreshKept, InHands
<1>3. nextDesc \notin OwnersLocks /\ nextDesc \notin NewLocks
  BY DEF OwnersLocks, NewLocks, Relocks, Lifetimes, Types, RequestTypes, Stages, FileTypes, LockTypes, Files, NumbersAreNew, Capacity,
         Descs
<1> QED BY <1>1, <1>2, <1>3

LEMMA OpenedKeeps == ASSUME Capacity, Lifetimes, NEW r \in Reqs, Opened(r) PROVE Lifetimes'
<1> DEFINE x == [req[r] EXCEPT !.phase = "opened", !.fd = nextDesc]
<1>0. /\ req[r].phase = "found" /\ req[r] \in Record /\ req[r].drop \in Drops
      /\ req[r].kind \in {"flush", "lock"} => req[r].owner \in Owners
  BY DEF Opened, Lifetimes, Types, RequestTypes, Stages, Free
<1>1. req' = [req EXCEPT ![r] = x] /\ nextDesc \in Descs /\ nextDesc' = nextDesc + 1 /\ open' = open \cup {nextDesc}
  BY DEF Opened, NewDesc, Set, Descs, Lifetimes, Types, FileTypes, Capacity
<1>2. x \in Record /\ x.phase = "opened" /\ x.fd = nextDesc /\ x.drop = req[r].drop /\ x.kind = req[r].kind
      /\ x.owner = req[r].owner
  BY <1>0, <1>1 DEF Record
<1> HIDE DEF x
<1>3. RequestTypes' /\ \A q \in Reqs : req'[q] = IF q = r THEN x ELSE req[q]
  BY <1>0, <1>1, <1>2, OthersStay DEF Lifetimes, Types
<1>4. UNCHANGED <<handles, released, users, openFiles, lockFiles, nextHandle, drops, sessions>>
  BY DEF Opened, Same, tables, locks
<1>5. InUse' = InUse /\ Fresh' = Fresh \cup {r} /\ Relocks' = Relocks /\ r \notin InUse /\ r \notin Fresh /\ r \notin Relocks
  BY <1>0, <1>2, <1>3 DEF InUse, Fresh, Relocks
<1>6. \A q \in InUse \cup Fresh \cup Relocks : req'[q] = req[q] /\ q \in Reqs
  BY <1>3, <1>5 DEF InUse, Fresh, Relocks
<1>7. InTable' = InTable /\ OwnersLocks' = OwnersLocks /\ NewLocks' = NewLocks /\ req'[r] = x
  BY <1>3, <1>4, <1>5, <1>6 DEF InTable, OwnersLocks, NewLocks
<1>8. InHands' = InHands \cup {nextDesc}
  BY <1>2, <1>5, <1>6, <1>7 DEF InHands
<1>9. UsersCounted' /\ OpenCounted'
  BY <1>4, <1>5, <1>6, SameUsers, SameHandles DEF Lifetimes
<1>10. FileTypes'
  <2>1. open' \subseteq 1 .. nextDesc' - 1 /\ nextDesc' \in 1 .. MaxDesc + 1
    BY <1>1 DEF Lifetimes, Types, FileTypes, Capacity, Descs
  <2> QED BY <1>4, <2>1 DEF Lifetimes, Types, FileTypes
<1>11. NumbersAreNew'
  <2>1. \A q \in Reqs : req'[q].phase \in {"reopened", "locking"} => req'[q] = req[q] /\ req[q].lock \in Nat
    BY <1>2, <1>3 DEF Lifetimes, Types, RequestTypes, Stages, Descs
  <2>2. \A o \in Owners : lockFiles[o] \in Nat
    BY DEF Lifetimes, Types, LockTypes, Capacity
  <2>3. nextDesc \in Nat
    BY <1>1 DEF Descs
  <2> QED BY <1>1, <1>4, <2>1, <2>2, <2>3 DEF Lifetimes, Files, NumbersAreNew, Descs
<1>12. FilesKept'
  BY <1>1, <1>4, <1>5, <1>6, <1>7 DEF Lifetimes, Files, FilesKept
<1>13. FreshKept'
  <2>1. ~released[nextDesc]
    BY <1>1 DEF Lifetimes, Files, NumbersAreNew, Descs
  <2>2. \A q \in InUse \cup Fresh : req[q].fd # nextDesc
    BY OpenAreOld DEF InHands
  <2> QED BY <1>1, <1>2, <1>4, <1>5, <1>6, <1>7, <2>1, <2>2, OpenAreOld DEF Lifetimes, Files, FreshKept
<1>14. Apart' /\ Returned'
  BY <1>1, <1>7, <1>8, OpenAreOld DEF Lifetimes, Files, Apart, Returned
<1> QED BY <1>3, <1>4, <1>9, <1>10, <1>11, <1>12, <1>13, <1>14
        DEF Lifetimes, Types, Files, LockTypes, SessionTypes, sessions

\* The opened file is stored in the table, or closed if the session is gone.
LEMMA RegisteredKeeps == ASSUME Capacity, Lifetimes, NEW r \in Reqs, Registered(r) PROVE Lifetimes'
<1> DEFINE f == req[r].fd
           d == req[r].drop
<1>0. req[r].phase = "opened" /\ f \in Descs /\ d \in Drops /\ r \in Fresh /\ req[r].sess \in Nat
  BY DEF Registered, Lifetimes, Types, RequestTypes, Stages, Free, Fresh, Record
<1>1. req' = [req EXCEPT ![r] = Free] /\ Free \in Record /\ Free.phase = "free" /\ Free.kind = "none"
  BY FreeIsRecord DEF Registered, Set, Free
<1>2. RequestTypes' /\ \A q \in Reqs : req'[q] = IF q = r THEN Free ELSE req[q]
  BY <1>1, OthersStay DEF Lifetimes, Types
<1>3. UNCHANGED <<released, users, lockFiles, nextDesc, drops, sessions>>
  BY DEF Registered, Same, locks
<1>4. InUse' = InUse /\ Fresh' = Fresh \ {r} /\ Relocks' = Relocks /\ r \notin InUse /\ r \notin Relocks
  BY <1>0, <1>1, <1>2 DEF InUse, Fresh, Relocks
<1>5. \A q \in InUse \cup Fresh' \cup Relocks : req'[q] = req[q] /\ q \in Reqs
  BY <1>2, <1>4 DEF InUse, Fresh, Relocks
<1>6. OwnersLocks' = OwnersLocks /\ NewLocks' = NewLocks
  BY <1>3, <1>4, <1>5 DEF OwnersLocks, NewLocks
<1>7. InHands' = InHands \ {f} /\ f \in InHands
  BY <1>0, <1>4, <1>5 DEF InHands, Lifetimes, Files, FreshKept
<1>8. UsersCounted'
  BY <1>3, <1>4, <1>5, SameUsers DEF Lifetimes
<1>9. open' \subseteq open /\ f \in open /\ ~released[f] /\ f \notin InTable /\ f \notin OwnersLocks
  BY <1>0, <1>7 DEF Registered, Lifetimes, Files, FreshKept, Apart
<1>10. NumbersAreNew'
  <2>1. \A q \in Reqs : req'[q].phase \in {"reopened", "locking"} => req'[q] = req[q]
    BY <1>1, <1>2
  <2> QED BY <1>3, <1>6, <1>9, <2>1 DEF Lifetimes, Files, NumbersAreNew
<1>11. LockTypes' /\ SessionTypes'
  BY <1>3 DEF Lifetimes, Types, LockTypes, SessionTypes, sessions
<1>12. CASE Registers
  <2> DEFINE e == [fd |-> f, drop |-> d, sess |-> req[r].sess]
  <2>0. /\ DOMAIN handles' = DOMAIN handles \cup {nextHandle} /\ nextHandle \notin DOMAIN handles
        /\ \A h \in DOMAIN handles' : handles'[h] = IF h = nextHandle THEN e ELSE handles[h]
        /\ handles' \in [DOMAIN handles' -> [fd : Descs, drop : Drops, sess : Nat]]
    <3>1. handles' = [h \in DOMAIN handles \cup {nextHandle} |-> IF h = nextHandle THEN e ELSE handles[h]]
      BY <1>12 DEF Registered
    <3>2. e \in [fd : Descs, drop : Drops, sess : Nat]
      BY <1>0
    <3>3. nextHandle \notin DOMAIN handles
      BY DEF Lifetimes, Types, FileTypes, Capacity
    <3> HIDE DEF e
    <3> QED BY <3>1, <3>2, <3>3 DEF Lifetimes, Types, FileTypes
  <2>1. /\ nextHandle' = nextHandle + 1 /\ nextHandle <= MaxHandles
        /\ openFiles' = [openFiles EXCEPT ![d] = @ + 1] /\ open' = open
    BY <1>12 DEF Registered
  <2>2. InTable' = InTable \cup {f}
    BY <2>0 DEF InTable
  <2>3. FileTypes'
    <3>1. nextHandle' \in 1 .. MaxHandles + 1 /\ DOMAIN handles' \subseteq 1 .. nextHandle' - 1
      BY <2>0, <2>1 DEF Lifetimes, Types, FileTypes, Capacity
    <3>2. openFiles' \in [Drops -> Nat]
      BY <1>0, <2>1 DEF Lifetimes, Types, FileTypes
    <3> QED BY <1>3, <2>0, <2>1, <3>1, <3>2 DEF Lifetimes, Types, FileTypes
  <2>4. OpenCounted'
    <3> SUFFICES ASSUME NEW c \in Drops PROVE openFiles'[c] = Cardinality(HandlesOf'[c])
      BY DEF OpenCounted, HandlesOf
    <3>1. HandlesOf'[c] = IF c = d THEN HandlesOf[c] \cup {nextHandle} ELSE HandlesOf[c]
      BY <2>0 DEF HandlesOf
    <3>2. nextHandle \notin HandlesOf[c]
      BY <2>0 DEF HandlesOf
    <3>3. Cardinality(HandlesOf[c] \cup {nextHandle}) = Cardinality(HandlesOf[c]) + 1
      BY <3>2, HandlesAreFinite, FS_AddElement DEF Lifetimes, Types
    <3>4. openFiles[c] = Cardinality(HandlesOf[c])
      BY CountsHandles DEF Lifetimes
    <3>5. openFiles'[c] = IF c = d THEN openFiles[c] + 1 ELSE openFiles[c]
      BY <2>1 DEF Lifetimes, Types, FileTypes
    <3> QED BY <3>1, <3>3, <3>4, <3>5
  <2>5. FilesKept'
    <3>1. \A h, k \in DOMAIN handles' : handles'[h].fd = handles'[k].fd => h = k
      <4>1. \A h \in DOMAIN handles : handles[h].fd # f
        BY <1>9 DEF InTable
      <4> QED BY <2>0, <4>1 DEF Lifetimes, Files, FilesKept
    <3> QED BY <1>3, <1>4, <1>5, <1>9, <2>1, <2>2, <3>1 DEF Lifetimes, Files, FilesKept
  <2>6. FreshKept'
    BY <1>0, <1>3, <1>4, <1>5, <2>1, <2>2 DEF Lifetimes, Files, FreshKept
  <2>7. Apart' /\ Returned'
    BY <1>6, <1>7, <2>1, <2>2 DEF Lifetimes, Files, Apart, Returned
  <2> QED BY <1>2, <1>8, <1>10, <1>11, <2>3, <2>4, <2>5, <2>6, <2>7 DEF Lifetimes, Types, Files
<1>13. CASE ~Registers
  <2>1. UNCHANGED <<handles, nextHandle, openFiles>> /\ open' = open \ {f}
    BY <1>13 DEF Registered
  <2>2. InTable' = InTable
    BY <2>1 DEF InTable
  <2>3. OpenCounted' /\ FileTypes'
    BY <1>3, <2>1, SameHandles DEF Lifetimes, Types, FileTypes
  <2>4. FilesKept' /\ FreshKept'
    <3>1. \A q \in InUse \cup Fresh' : req[q].fd # f
      BY <1>0, <1>4 DEF Lifetimes, Files, FreshKept
    <3> QED BY <1>3, <1>4, <1>5, <1>9, <2>1, <2>2, <3>1 DEF Lifetimes, Files, FilesKept, FreshKept
  <2>5. Apart' /\ Returned'
    BY <1>6, <1>7, <2>1, <2>2 DEF Lifetimes, Files, Apart, Returned
  <2> QED BY <1>2, <1>8, <1>10, <1>11, <2>3, <2>4, <2>5 DEF Lifetimes, Types, Files
<1> QED BY <1>12, <1>13

\* A request that uses its file goes on with a lock descriptor.
LEMMA FileStays ==
  ASSUME Capacity, Lifetimes, NEW r \in InUse, NEW x \in Record,
         \A q \in Reqs : req'[q] = IF q = r THEN x ELSE req[q], x.phase \in {"reopened", "locking"}, x.fd = req[r].fd,
         UNCHANGED <<handles, released, users, openFiles, nextHandle, drops>>, \A f \in InTable \cup InHands : f \in open => f \in open'
  PROVE  /\ UsersCounted' /\ OpenCounted' /\ FilesKept' /\ FreshKept'
         /\ InTable' = InTable /\ InHands' = InHands /\ InTable \cup InHands \subseteq open'
<1>1. InUse' = InUse /\ Fresh' = Fresh /\ r \in Reqs /\ r \notin Fresh
  BY DEF InUse, Fresh
<1>2. \A q \in InUse \cup Fresh : req'[q].fd = req[q].fd /\ q \in Reqs
  BY <1>1 DEF InUse, Fresh
<1>3. InTable' = InTable /\ InHands' = InHands
  BY <1>1, <1>2 DEF InTable, InHands
<1>4. UsersCounted' /\ OpenCounted'
  BY <1>1, <1>2, SameUsers, SameHandles DEF Lifetimes
<1>5. InTable \cup InHands \subseteq open'
  BY OpenAreOld
<1>6. FilesKept' /\ FreshKept'
  BY <1>1, <1>2, <1>3, <1>5 DEF Lifetimes, Files, FilesKept, FreshKept, InHands
<1> QED BY <1>3, <1>4, <1>5, <1>6

LEMMA FindLockKeeps == ASSUME Capacity, Lifetimes, NEW r \in Reqs, FindLock(r) PROVE Lifetimes'
<1>0. /\ req[r].phase = "using" /\ req[r].kind = "lock" /\ req[r] \in Record /\ r \in InUse
      /\ req[r].fd \in Descs /\ req[r].owner \in Owners /\ r \notin Relocks
  BY DEF FindLock, Lifetimes, Types, RequestTypes, Stages, Free, InUse, Relocks
<1>1. UNCHANGED <<handles, released, users, openFiles, lockFiles, nextHandle, drops, sessions>>
  BY DEF FindLock, Same, tables, locks
<1>2. OwnersLocks' = OwnersLocks
  BY <1>1 DEF OwnersLocks
<1>3. CASE /\ lockFiles[req[r].owner] # NoLock /\ UNCHANGED <<open, nextDesc>>
           /\ Set(r, [req[r] EXCEPT !.phase = "locking", !.lock = lockFiles[req[r].owner]])
  <2> DEFINE l == lockFiles[req[r].owner]
             x == [req[r] EXCEPT !.phase = "locking", !.lock = l]
  <2>1. l \in Descs /\ l < nextDesc /\ l \in OwnersLocks
    BY <1>0, <1>3 DEF OwnersLocks, Lifetimes, Types, LockTypes, Files, NumbersAreNew, Capacity, Descs, NoLock
  <2>2. x \in Record /\ x.phase = "locking" /\ x.fd = req[r].fd /\ x.lock = l /\ x.kind = "lock" /\ x.owner = req[r].owner
    BY <1>0, <2>1 DEF Record
  <2>3. req' = [req EXCEPT ![r] = x]
    BY <1>3 DEF Set
  <2> HIDE DEF x, l
  <2>4. RequestTypes' /\ \A q \in Reqs : req'[q] = IF q = r THEN x ELSE req[q]
    BY <1>0, <2>1, <2>2, <2>3, OthersStay DEF Lifetimes, Types
  <2>5. /\ UsersCounted' /\ OpenCounted' /\ FilesKept' /\ FreshKept'
        /\ InTable' = InTable /\ InHands' = InHands
    BY <1>0, <1>1, <1>3, <2>2, <2>4, FileStays
  <2>6. Relocks' = Relocks
    BY <1>0, <2>2, <2>4 DEF Relocks
  <2>7. NewLocks' = NewLocks
    BY <1>0, <2>4, <2>6 DEF NewLocks, Relocks
  <2>8. FileTypes'
    BY <1>1, <1>3 DEF Lifetimes, Types, FileTypes
  <2>9. NumbersAreNew'
    BY <1>1, <1>2, <1>3, <2>1, <2>2, <2>4 DEF Lifetimes, Files, NumbersAreNew
  <2>10. Apart' /\ Returned'
    BY <1>2, <1>3, <2>5, <2>7 DEF Lifetimes, Files, Apart, Returned
  <2> QED BY <1>1, <2>4, <2>5, <2>8, <2>9, <2>10 DEF Lifetimes, Types, Files, LockTypes, SessionTypes, sessions
<1>4. CASE /\ lockFiles[req[r].owner] = NoLock /\ nextDesc <= MaxDesc
           /\ nextDesc' = nextDesc + 1 /\ open' = open \cup {nextDesc}
           /\ Set(r, [req[r] EXCEPT !.phase = "reopened", !.lock = nextDesc])
  <2> DEFINE x == [req[r] EXCEPT !.phase = "reopened", !.lock = nextDesc]
  <2>1. nextDesc \in Descs
    BY <1>4 DEF Lifetimes, Types, FileTypes, Descs, Capacity
  <2>2. x \in Record /\ x.phase = "reopened" /\ x.fd = req[r].fd /\ x.lock = nextDesc /\ x.kind = "lock"
        /\ x.owner = req[r].owner
    BY <1>0, <2>1 DEF Record
  <2>3. req' = [req EXCEPT ![r] = x]
    BY <1>4 DEF Set
  <2> HIDE DEF x
  <2>4. RequestTypes' /\ \A q \in Reqs : req'[q] = IF q = r THEN x ELSE req[q]
    BY <1>0, <2>1, <2>2, <2>3, OthersStay DEF Lifetimes, Types
  <2>5. /\ UsersCounted' /\ OpenCounted' /\ FilesKept' /\ FreshKept'
        /\ InTable' = InTable /\ InHands' = InHands
    BY <1>0, <1>1, <1>4, <2>2, <2>4, FileStays
  <2>6. Relocks' = Relocks \cup {r}
    BY <1>0, <2>2, <2>4 DEF Relocks
  <2>7. NewLocks' = NewLocks \cup {nextDesc}
    BY <1>0, <2>2, <2>4, <2>6 DEF NewLocks, Relocks
  <2>8. FileTypes'
    <3>1. open' \subseteq 1 .. nextDesc' - 1 /\ nextDesc' \in 1 .. MaxDesc + 1
      BY <1>4, <2>1 DEF Lifetimes, Types, FileTypes, Capacity, Descs
    <3> QED BY <1>1, <3>1 DEF Lifetimes, Types, FileTypes
  <2>9. NumbersAreNew'
    <3>1. \A q \in Reqs : req[q].phase \in {"reopened", "locking"} => req[q].lock \in Nat
      BY DEF Lifetimes, Types, RequestTypes, Stages, Descs
    <3>2. \A o \in Owners : lockFiles[o] \in Nat
      BY DEF Lifetimes, Types, LockTypes, Capacity
    <3>3. nextDesc \in Nat
      BY <2>1 DEF Descs
    <3> QED BY <1>1, <1>4, <2>2, <2>4, <3>1, <3>2, <3>3 DEF Lifetimes, Files, NumbersAreNew, Descs
  <2>11. Apart' /\ Returned'
    BY <1>2, <1>4, <2>5, <2>7, OpenAreOld DEF Lifetimes, Files, Apart, Returned
  <2> QED BY <1>1, <2>4, <2>5, <2>8, <2>9, <2>11 DEF Lifetimes, Types, Files, LockTypes, SessionTypes, sessions
<1> QED BY <1>3, <1>4 DEF FindLock, NewDesc

\* The new descriptor becomes the owner's, or another request's came first.
LEMMA StoreLockKeeps == ASSUME Capacity, Lifetimes, NEW r \in Reqs, StoreLock(r) PROVE Lifetimes'
<1> DEFINE n == req[r].lock
           o == req[r].owner
<1>0. /\ req[r].phase = "reopened" /\ req[r].kind = "lock" /\ req[r] \in Record /\ r \in InUse
      /\ req[r].fd \in Descs /\ o \in Owners /\ r \in Relocks /\ n \in NewLocks /\ n \in Descs
  BY DEF StoreLock, Lifetimes, Types, RequestTypes, Stages, Free, InUse, Relocks, NewLocks
<1>1. UNCHANGED <<handles, released, users, openFiles, nextDesc, nextHandle, drops, sessions>>
  BY DEF StoreLock, Same, tables, counters
<1>2. \A f \in InTable \cup InHands : f # n
  BY <1>0 DEF Lifetimes, Files, Apart
<1>3. CASE Raced(o)
  <2> DEFINE l == lockFiles[o]
             x == [req[r] EXCEPT !.phase = "locking", !.lock = l]
  <2>1. l \in Descs /\ l < nextDesc /\ l \in OwnersLocks
    BY <1>0, <1>3 DEF Raced, OwnersLocks, Lifetimes, Types, LockTypes, Files, NumbersAreNew, Capacity, Descs, NoLock
  <2>2. x \in Record /\ x.phase = "locking" /\ x.fd = req[r].fd /\ x.lock = l /\ x.kind = "lock" /\ x.owner = o
    BY <1>0, <2>1 DEF Record
  <2>3. req' = [req EXCEPT ![r] = x] /\ open' = open \ {n} /\ lockFiles' = lockFiles
    BY <1>3 DEF StoreLock, Set
  <2> HIDE DEF x, l
  <2>4. RequestTypes' /\ \A q \in Reqs : req'[q] = IF q = r THEN x ELSE req[q]
    BY <1>0, <2>1, <2>2, <2>3, OthersStay DEF Lifetimes, Types
  <2>5. /\ UsersCounted' /\ OpenCounted' /\ FilesKept' /\ FreshKept'
        /\ InTable' = InTable /\ InHands' = InHands
    <3>1. \A f \in InTable \cup InHands : f \in open => f \in open'
      BY <1>2, <2>3
    <3> QED BY <1>0, <1>1, <2>2, <2>4, <3>1, FileStays
  <2>6. Relocks' = Relocks \ {r}
    BY <1>0, <2>2, <2>4 DEF Relocks
  <2>7. NewLocks' \subseteq NewLocks /\ NewLocks \ {n} \subseteq NewLocks'
    BY <1>0, <2>4, <2>6 DEF NewLocks, Relocks
  <2>8. OwnersLocks' = OwnersLocks
    BY <2>3 DEF OwnersLocks
  <2>9. FileTypes'
    BY <1>1, <2>3 DEF Lifetimes, Types, FileTypes
  <2>10. NumbersAreNew'
    BY <1>1, <2>1, <2>2, <2>3, <2>4, <2>8 DEF Lifetimes, Files, NumbersAreNew
  <2>11. Apart' /\ Returned'
    BY <2>3, <2>5, <2>7, <2>8 DEF Lifetimes, Files, Apart, Returned
  <2> QED BY <1>1, <2>3, <2>4, <2>5, <2>9, <2>10, <2>11 DEF Lifetimes, Types, Files, LockTypes, SessionTypes, sessions
<1>4. CASE ~Raced(o)
  <2> DEFINE x == [req[r] EXCEPT !.phase = "locking"]
  <2>1. x \in Record /\ x.phase = "locking" /\ x.fd = req[r].fd /\ x.lock = n /\ x.kind = "lock" /\ x.owner = o
    BY <1>0 DEF Record
  <2>2. req' = [req EXCEPT ![r] = x] /\ open' = open /\ lockFiles' = [lockFiles EXCEPT ![o] = n] /\ lockFiles[o] = NoLock
    BY <1>4 DEF StoreLock, To, Set, Raced
  <2> HIDE DEF x
  <2>3. RequestTypes' /\ \A q \in Reqs : req'[q] = IF q = r THEN x ELSE req[q]
    BY <1>0, <2>1, <2>2, OthersStay DEF Lifetimes, Types
  <2>4. /\ UsersCounted' /\ OpenCounted' /\ FilesKept' /\ FreshKept'
        /\ InTable' = InTable /\ InHands' = InHands
    BY <1>0, <1>1, <2>1, <2>2, <2>3, FileStays
  <2>5. Relocks' = Relocks \ {r}
    BY <1>0, <2>1, <2>3 DEF Relocks
  <2>6. NewLocks' \subseteq NewLocks /\ NewLocks \ {n} \subseteq NewLocks'
    BY <1>0, <2>3, <2>5 DEF NewLocks, Relocks
  <2>7. OwnersLocks' = OwnersLocks \cup {n}
    <3>1. n # NoLock
      BY <1>0 DEF Descs, NoLock
    <3>2. \A p \in Owners : lockFiles'[p] = IF p = o THEN n ELSE lockFiles[p]
      BY <2>2 DEF Lifetimes, Types, LockTypes
    <3> QED BY <1>0, <2>2, <3>1, <3>2 DEF OwnersLocks
  <2>8. FileTypes' /\ LockTypes'
    BY <1>0, <1>1, <2>2 DEF Lifetimes, Types, FileTypes, LockTypes, Descs
  <2>9. NumbersAreNew'
    <3>1. n < nextDesc
      BY <1>0 DEF Lifetimes, Files, NumbersAreNew
    <3> QED BY <1>0, <1>1, <2>1, <2>2, <2>3, <3>1 DEF Lifetimes, Types, LockTypes, Files, NumbersAreNew
  <2>11. Apart' /\ Returned'
    BY <1>2, <2>2, <2>4, <2>6, <2>7 DEF Lifetimes, Files, Apart, Returned
  <2> QED BY <1>1, <2>3, <2>4, <2>8, <2>9, <2>11 DEF Lifetimes, Types, Files, SessionTypes, sessions
<1> QED BY <1>3, <1>4

\* A released file is closed by its last user.
LEMMA ReleaseKeeps == ASSUME Capacity, Lifetimes, NEW h \in DOMAIN handles, Release(h) PROVE Lifetimes'
<1> DEFINE f == handles[h].fd
           d == handles[h].drop
<1>0. f \in Descs /\ d \in Drops /\ f \in InTable /\ f \in open /\ f \notin OwnersLocks
  BY DEF InTable, Lifetimes, Types, FileTypes, Files, FilesKept, Apart
<1>1. /\ handles' = [k \in DOMAIN handles \ {h} |-> handles[k]]
      /\ openFiles' = [openFiles EXCEPT ![d] = @ - 1] /\ released' = [released EXCEPT ![f] = TRUE]
      /\ open' = IF users[f] > 0 THEN open ELSE open \ {f}
  BY DEF Release, StillUsed
<1>2. UNCHANGED <<users, lockFiles, nextDesc, nextHandle, drops, sessions, req>>
  BY DEF Release, Same, locks, counters
<1>3. DOMAIN handles' = DOMAIN handles \ {h} /\ \A k \in DOMAIN handles' : handles'[k] = handles[k]
  BY <1>1
<1>4. InUse' = InUse /\ Fresh' = Fresh /\ Relocks' = Relocks /\ InHands' = InHands /\ NewLocks' = NewLocks /\ OwnersLocks' = OwnersLocks
  BY <1>2 DEF InUse, Fresh, Relocks, InHands, NewLocks, OwnersLocks
<1>5. InTable' = InTable \ {f}
  BY <1>3 DEF InTable, Lifetimes, Files, FilesKept
<1>6. \A g \in Descs : released'[g] = (g = f \/ released[g])
  BY <1>0, <1>1 DEF Lifetimes, Types, FileTypes
<1>7. users[f] > 0 <=> UsersOf[f] # {}
  <2>1. users[f] \in Nat
    BY <1>0 DEF Lifetimes, Types, FileTypes
  <2>2. users[f] = 0 <=> UsersOf[f] = {}
    BY <1>0, CountTells DEF Lifetimes
  <2> QED BY <2>1, <2>2
<1>8. UsersCounted'
  BY <1>2, <1>4, SameUsers DEF Lifetimes
<1>9. HandlesOf[d] # {} /\ h \in HandlesOf[d]
  BY <1>0 DEF HandlesOf
<1>10. ASSUME NEW c \in Drops PROVE openFiles'[c] = Cardinality(HandlesOf'[c]) /\ openFiles'[c] \in Nat
  <2>1. HandlesOf'[c] = IF c = d THEN HandlesOf[c] \ {h} ELSE HandlesOf[c]
    BY <1>3 DEF HandlesOf
  <2>2. IsFiniteSet(HandlesOf[c]) /\ Cardinality(HandlesOf[c]) \in Nat
    BY HandlesAreFinite DEF Lifetimes, Types
  <2>3. c = d => Cardinality(HandlesOf[c] \ {h}) = Cardinality(HandlesOf[c]) - 1 /\ IsFiniteSet(HandlesOf[c] \ {h})
    BY <1>9, <2>2, FS_RemoveElement
  <2>4. c = d => Cardinality(HandlesOf[c] \ {h}) \in Nat
    BY <2>3, FS_CardinalityType
  <2>5. openFiles[c] = Cardinality(HandlesOf[c])
    BY CountsHandles DEF Lifetimes
  <2>6. openFiles'[c] = IF c = d THEN openFiles[c] - 1 ELSE openFiles[c]
    BY <1>0, <1>1 DEF Lifetimes, Types, FileTypes
  <2> QED BY <2>1, <2>2, <2>3, <2>4, <2>5, <2>6
<1>11. OpenCounted'
  <2>1. \A c \in Drops : HandlesOf'[c] = {k \in DOMAIN handles' : handles'[k].drop = c}
    BY DEF HandlesOf
  <2> QED BY <1>10, <2>1 DEF OpenCounted
<1>12. FileTypes'
  <2>1. openFiles' \in [Drops -> Nat]
    BY <1>1, <1>10 DEF Lifetimes, Types, FileTypes
  <2>2. handles' \in [DOMAIN handles' -> [fd : Descs, drop : Drops, sess : Nat]]
    BY <1>1, <1>3 DEF Lifetimes, Types, FileTypes
  <2> QED BY <1>1, <1>2, <1>3, <2>1, <2>2 DEF Lifetimes, Types, FileTypes
<1>13. NumbersAreNew'
  <2>1. f < nextDesc
    BY <1>0 DEF Lifetimes, Types, FileTypes, Capacity
  <2>2. nextDesc \in Int /\ f \in Int
    BY <1>0 DEF Lifetimes, Types, FileTypes, Capacity, Descs
  <2>3. ASSUME NEW g \in Descs, g >= nextDesc PROVE ~released'[g]
    <3>1. ~released[g] /\ g # f
      BY <2>1, <2>2, <2>3 DEF Lifetimes, Files, NumbersAreNew, Descs
    <3> QED BY <1>6, <3>1
  <2> QED BY <1>2, <2>3 DEF Lifetimes, Files, NumbersAreNew
<1>14. FilesKept'
  <2>1. \A k, m \in DOMAIN handles' : handles'[k].fd = handles'[m].fd => k = m
    BY <1>3 DEF Lifetimes, Files, FilesKept
  <2>2. \A g \in InTable' : g \in open' /\ ~released'[g]
    <3>1. InTable \subseteq Descs
      BY DEF InTable, Lifetimes, Types, FileTypes
    <3> QED BY <1>1, <1>5, <1>6, <3>1 DEF Lifetimes, Files, FilesKept
  <2>3. ASSUME NEW q \in InUse PROVE req[q].fd \in open' /\ (released'[req[q].fd] \/ req[q].fd \in InTable')
    <3>1. req[q].fd \in Descs /\ req[q].fd \in open /\ (released[req[q].fd] \/ req[q].fd \in InTable)
      BY DEF InUse, Lifetimes, Types, RequestTypes, Stages, Files, FilesKept
    <3>2. CASE req[q].fd = f
      <4>1. q \in UsersOf[f]
        BY <1>0, <3>2 DEF UsersOf
      <4> QED BY <1>0, <1>1, <1>6, <1>7, <3>1, <3>2, <4>1
    <3>3. CASE req[q].fd # f
      BY <1>1, <1>5, <1>6, <3>1, <3>3
    <3> QED BY <3>2, <3>3
  <2> QED BY <1>2, <1>4, <2>1, <2>2, <2>3 DEF FilesKept
<1>15. FreshKept'
  <2>1. \A q \in Fresh : req[q].fd \in Descs /\ req[q].fd # f
    BY <1>0 DEF Fresh, Lifetimes, Types, RequestTypes, Stages, Files, FreshKept
  <2> QED BY <1>1, <1>2, <1>4, <1>5, <1>6, <2>1 DEF Lifetimes, Files, FreshKept
<1>16. Apart'
  BY <1>1, <1>2, <1>4, <1>5 DEF Lifetimes, Files, Apart
<1>17. Returned'
  <2>1. ASSUME f \in open' PROVE f \in InHands
    BY <1>0, <1>1, <1>7, <2>1 DEF UsersOf, InHands
  <2> QED BY <1>1, <1>4, <1>5, <2>1 DEF Lifetimes, Files, Returned
<1> QED BY <1>2, <1>8, <1>11, <1>12, <1>13, <1>14, <1>15, <1>16, <1>17
        DEF Lifetimes, Types, RequestTypes, Stages, Files, LockTypes, SessionTypes, sessions

---------------------------------------------------------------------------
\* The end of a session takes every handle and every lock.

LEMMA CloseHandlesKeeps ==
  ASSUME Capacity, Lifetimes, CloseHandles, UNCHANGED <<drops, counters, req>>
  PROVE  /\ RequestTypes' /\ FileTypes' /\ LockTypes' /\ UsersCounted' /\ OpenCounted' /\ Files'
<1>0. {e.fd : e \in Table} = InTable /\ LocksEnded = OwnersLocks
  BY DEF Table, InTable, LocksEnded, OwnersLocks
<1>1. /\ handles' = <<>> /\ openFiles' = [d \in Drops |-> OpenAfter(d)]
      /\ released' = [f \in DOMAIN released |-> released[f] \/ f \in InTable]
      /\ lockFiles' = [o \in Owners |-> NoLock]
      /\ open' = (open \ OwnersLocks) \ {f \in InTable : users[f] = 0}
      /\ UNCHANGED users
  BY <1>0 DEF CloseHandles, HandlesAfter
<1>2. DOMAIN handles' = {} /\ InTable' = {} /\ OwnersLocks' = {}
  BY <1>1 DEF InTable, OwnersLocks, Lifetimes, Files
<1>3. InUse' = InUse /\ Fresh' = Fresh /\ Relocks' = Relocks /\ InHands' = InHands /\ NewLocks' = NewLocks
  BY DEF InUse, Fresh, Relocks, InHands, NewLocks
<1>4. RequestTypes' /\ UsersCounted'
  BY <1>1, <1>3, SameUsers DEF Lifetimes, Types, RequestTypes, Stages
<1>5. \A d \in Drops : openFiles'[d] = 0
  <2> SUFFICES ASSUME NEW d \in Drops PROVE openFiles'[d] = 0
    OBVIOUS
  <2>1. openFiles[d] = Cardinality({h \in DOMAIN handles : handles[h].drop = d}) /\ openFiles[d] \in Nat
    BY DEF Lifetimes, OpenCounted, Types, FileTypes
  <2>2. openFiles'[d] = openFiles[d] - Cardinality({h \in DOMAIN handles : handles[h].drop = d})
    BY <1>1 DEF OpenAfter
  <2> QED BY <2>1, <2>2
<1>6. OpenCounted'
  <2>1. \A d \in Drops : HandlesOf'[d] = {}
    BY <1>2 DEF HandlesOf
  <2>2. \A d \in Drops : HandlesOf'[d] = {h \in DOMAIN handles' : handles'[h].drop = d}
    BY DEF HandlesOf
  <2> QED BY <1>5, <2>1, <2>2, FS_EmptySet DEF OpenCounted
<1>7. FileTypes' /\ LockTypes'
  <2>1. openFiles' \in [Drops -> Nat]
    BY <1>1, <1>5
  <2>2. released' \in [Descs -> BOOLEAN]
    BY <1>1 DEF Lifetimes, Types, FileTypes
  <2>3. handles' \in [DOMAIN handles' -> [fd : Descs, drop : Drops, sess : Nat]]
    BY <1>1
  <2>4. lockFiles' \in [Owners -> 0 .. MaxDesc]
    BY <1>1 DEF NoLock, Capacity
  <2>5. open' \subseteq open
    BY <1>1
  <2> QED BY <1>1, <1>2, <2>1, <2>2, <2>3, <2>4, <2>5 DEF Lifetimes, Types, FileTypes, LockTypes, counters
<1>8. \A f \in Descs : released'[f] = (released[f] \/ f \in InTable)
  BY <1>1 DEF Lifetimes, Types, FileTypes
<1>9. NumbersAreNew'
  <2>1. \A f \in InTable : f < nextDesc
    BY OpenAreOld DEF Lifetimes, Types, FileTypes, Capacity
  <2>2. \A o \in Owners : lockFiles'[o] < nextDesc
    BY <1>1 DEF NoLock, Lifetimes, Types, FileTypes, Capacity
  <2>3. ASSUME NEW f \in Descs, f >= nextDesc PROVE ~released'[f]
    <3>1. f \in Int /\ nextDesc \in Int
      BY DEF Descs, Lifetimes, Types, FileTypes, Capacity
    <3>2. f \notin InTable
      BY <2>1, <2>3, <3>1
    <3>3. ~released[f]
      BY <2>3 DEF Lifetimes, Files, NumbersAreNew
    <3> QED BY <1>8, <3>2, <3>3
  <2> QED BY <2>2, <2>3 DEF Lifetimes, Files, NumbersAreNew, counters
<1>10. FilesKept'
  <2>1. ASSUME NEW q \in InUse PROVE req[q].fd \in open' /\ released'[req[q].fd]
    <3>1. req[q].fd \in Descs /\ req[q].fd \in open /\ (released[req[q].fd] \/ req[q].fd \in InTable) /\ req[q].fd \notin OwnersLocks
      BY DEF InUse, InHands, Lifetimes, Types, RequestTypes, Stages, Files, FilesKept, Apart
    <3>2. q \in UsersOf[req[q].fd]
      BY <3>1 DEF UsersOf
    <3>3. users[req[q].fd] # 0
      BY <3>1, <3>2, CountTells DEF Lifetimes
    <3> QED BY <1>1, <1>8, <3>1, <3>3
  <2> QED BY <1>2, <1>3, <2>1 DEF FilesKept
<1>11. FreshKept'
  <2>1. \A q \in Fresh : req[q].fd \in Descs /\ req[q].fd \notin InTable /\ req[q].fd \notin OwnersLocks
    BY DEF Fresh, InHands, Lifetimes, Types, RequestTypes, Stages, Files, FreshKept, Apart
  <2> QED BY <1>1, <1>2, <1>3, <1>8, <2>1 DEF Lifetimes, Files, FreshKept
<1>12. Apart'
  BY <1>2, <1>3 DEF Lifetimes, Files, Apart
<1>13. Returned'
  <2>1. ASSUME NEW f \in InTable, users[f] # 0 PROVE f \in InHands
    <3>1. f \in Descs
      BY DEF InTable, Lifetimes, Types, FileTypes
    <3> QED BY <2>1, <3>1, CountTells DEF UsersOf, InHands, Lifetimes
  <2> QED BY <1>1, <1>2, <1>3, <2>1 DEF Lifetimes, Files, Returned
<1> QED BY <1>1, <1>2, <1>4, <1>6, <1>7, <1>9, <1>10, <1>11, <1>12, <1>13 DEF Files

LEMMA StartedKeeps == ASSUME Capacity, Lifetimes, Started PROVE Lifetimes'
<1>1. /\ RequestTypes' /\ FileTypes' /\ LockTypes' /\ UsersCounted' /\ OpenCounted' /\ Files'
  BY CloseHandlesKeeps DEF Started
<1>2. SessionTypes'
  BY DEF Started, Lifetimes, Types, SessionTypes
<1> QED BY <1>1, <1>2 DEF Lifetimes, Types

LEMMA EndClosesKeeps == ASSUME Capacity, Lifetimes, NEW s \in closing, EndCloses(s) PROVE Lifetimes'
<1>1. /\ RequestTypes' /\ FileTypes' /\ LockTypes' /\ UsersCounted' /\ OpenCounted' /\ Files'
  BY CloseHandlesKeeps DEF EndCloses
<1>2. SessionTypes'
  BY DEF EndCloses, Lifetimes, Types, SessionTypes
<1> QED BY <1>1, <1>2 DEF Lifetimes, Types

---------------------------------------------------------------------------
\* Steps that leave files and locks alone.

LEMMA NothingChanges ==
  ASSUME Capacity, Lifetimes,
         UNCHANGED <<handles, released, users, openFiles, lockFiles, open, nextDesc, nextHandle>>, drops' \subseteq drops,
         req' \in [Reqs -> Record],
         \A q \in Reqs : /\ req'[q].phase = req[q].phase /\ req'[q].fd = req[q].fd /\ req'[q].lock = req[q].lock
                         /\ req'[q].drop = req[q].drop /\ req'[q].kind = req[q].kind /\ req'[q].owner = req[q].owner
  PROVE  RequestTypes' /\ FileTypes' /\ LockTypes' /\ UsersCounted' /\ OpenCounted' /\ Files'
<1>1. InUse' = InUse /\ Fresh' = Fresh /\ Relocks' = Relocks
  BY DEF InUse, Fresh, Relocks
<1>2. InUse \subseteq Reqs /\ Fresh \subseteq Reqs /\ Relocks \subseteq Reqs
  BY DEF InUse, Fresh, Relocks
<1>3. InTable' = InTable /\ InHands' = InHands /\ OwnersLocks' = OwnersLocks /\ NewLocks' = NewLocks
  BY <1>1, <1>2 DEF InTable, InHands, OwnersLocks, NewLocks
<1>4. RequestTypes'
  BY DEF Lifetimes, Types, RequestTypes, Stages
<1>5. UsersCounted' /\ OpenCounted' /\ FileTypes' /\ LockTypes'
  BY <1>1, <1>2, SameUsers, SameHandles DEF Lifetimes, Types, FileTypes, LockTypes
<1>6. NumbersAreNew' /\ FilesKept' /\ FreshKept'
  BY <1>1, <1>2, <1>3 DEF Lifetimes, Files, NumbersAreNew, FilesKept, FreshKept
<1>7. Apart' /\ Returned'
  BY <1>3 DEF Lifetimes, Files, Apart, Returned
<1> QED BY <1>4, <1>5, <1>6, <1>7 DEF Files

\* The requests of a session are told to stop.
LEMMA CancelledSame ==
  ASSUME Lifetimes, NEW S, req' = Cancelled(S)
  PROVE  /\ req' \in [Reqs -> Record]
         /\ \A q \in Reqs : /\ req'[q].phase = req[q].phase /\ req'[q].fd = req[q].fd /\ req'[q].lock = req[q].lock
                            /\ req'[q].drop = req[q].drop /\ req'[q].kind = req[q].kind /\ req'[q].owner = req[q].owner
<1>1. \A q \in Reqs : req[q] \in Record
  BY DEF Lifetimes, Types, RequestTypes
<1>2. \A q \in Reqs : req'[q] = req[q] \/ (req[q] # Free /\ req'[q] = [req[q] EXCEPT !.cancelled = TRUE])
  BY DEF Cancelled
<1>3. \A q \in Reqs : LET y == [req[q] EXCEPT !.cancelled = TRUE] IN
        /\ y \in Record /\ y.phase = req[q].phase /\ y.fd = req[q].fd /\ y.lock = req[q].lock /\ y.drop = req[q].drop
        /\ y.kind = req[q].kind /\ y.owner = req[q].owner
  BY <1>1 DEF Record
<1>4. req' \in [Reqs -> Record]
  BY <1>1, <1>3 DEF Cancelled
<1> QED BY ZenonT(60), <1>2, <1>3, <1>4

LEMMA AttachKeeps == ASSUME Capacity, Lifetimes, Attach PROVE Lifetimes'
<1>1. UNCHANGED <<handles, released, users, openFiles, lockFiles, open, nextDesc, nextHandle, drops>>
  BY DEF Attach, tables, locks, counters
<1>2. RequestTypes' /\ FileTypes' /\ LockTypes' /\ UsersCounted' /\ OpenCounted' /\ Files'
  BY <1>1, CancelledSame, NothingChanges DEF Attach
<1>3. SessionTypes' /\ serving' = 0 /\ session' # 0
  BY DEF Attach, Lifetimes, Types, SessionTypes
<1> QED BY <1>2, <1>3 DEF Lifetimes, Types

LEMMA EndedKeeps == ASSUME Capacity, Lifetimes, Ended PROVE Lifetimes'
<1>1. UNCHANGED <<handles, released, users, openFiles, lockFiles, open, nextDesc, nextHandle, drops>>
  BY DEF Ended, tables, locks, counters
<1>2. RequestTypes' /\ FileTypes' /\ LockTypes' /\ UsersCounted' /\ OpenCounted' /\ Files'
  BY <1>1, CancelledSame, NothingChanges DEF Ended
<1>3. SessionTypes' /\ serving' = 0 /\ closing' # {}
  BY DEF Ended, Lifetimes, Types, SessionTypes
<1> QED BY <1>2, <1>3 DEF Lifetimes, Types

LEMMA CancelKeeps == ASSUME Capacity, Lifetimes, NEW r \in Reqs, Cancel(r) PROVE Lifetimes'
<1> DEFINE x == [req[r] EXCEPT !.cancelled = TRUE]
<1>0. req[r] \in Record
  BY DEF Cancel, Lifetimes, Types, RequestTypes, Free
<1>1. x \in Record /\ x.phase = req[r].phase /\ x.fd = req[r].fd /\ x.lock = req[r].lock /\ x.drop = req[r].drop
      /\ x.kind = req[r].kind /\ x.owner = req[r].owner
  BY <1>0 DEF Record
<1>2. req' = [req EXCEPT ![r] = x]
  BY DEF Cancel, Set
<1> HIDE DEF x
<1>3. req' \in [Reqs -> Record] /\ \A q \in Reqs : req'[q] = IF q = r THEN x ELSE req[q]
  BY <1>1, <1>2 DEF Lifetimes, Types, RequestTypes
<1>4. UNCHANGED <<handles, released, users, openFiles, lockFiles, open, nextDesc, nextHandle, drops, sessions>>
  BY DEF Cancel, Same, tables, locks, counters
<1>5. RequestTypes' /\ FileTypes' /\ LockTypes' /\ UsersCounted' /\ OpenCounted' /\ Files'
  BY <1>1, <1>3, <1>4, NothingChanges
<1> QED BY <1>4, <1>5 DEF Lifetimes, Types, SessionTypes, sessions

LEMMA IdleKeeps ==
  ASSUME Capacity, Lifetimes, UNCHANGED <<handles, released, users, openFiles, lockFiles, open, counters, sessions, req>>,
         drops' \subseteq drops
  PROVE  Lifetimes'
<1>1. RequestTypes' /\ FileTypes' /\ LockTypes' /\ UsersCounted' /\ OpenCounted' /\ Files'
  <2>1. req' \in [Reqs -> Record]
    BY DEF Lifetimes, Types, RequestTypes
  <2> QED BY <2>1, NothingChanges DEF counters
<1>3. SessionTypes'
  BY DEF Lifetimes, Types, SessionTypes, sessions
<1> QED BY <1>1, <1>3 DEF Lifetimes, Types

LEMMA StepKeeps == ASSUME Capacity, Lifetimes, [Next]_vars PROVE Lifetimes'
<1>1. CASE Attach
  BY <1>1, AttachKeeps
<1>2. CASE Started
  BY <1>2, StartedKeeps
<1>3. CASE Ended
  BY <1>3, EndedKeeps
<1>4. CASE \E s \in closing : EndCloses(s)
  BY <1>4, EndClosesKeeps
<1>5. ASSUME NEW r \in Reqs, Serve(r) PROVE Lifetimes'
  BY <1>5, OpenedKeeps, RegisteredKeeps, UsedKeeps, FlushedKeeps, FindLockKeeps, StoreLockKeeps, SetLockKeeps, AgainKeeps
     DEF Serve
<1>6. ASSUME NEW r \in Reqs, Request(r) PROVE Lifetimes'
  <2>1. CASE \E d \in Drops : Open(r, d)
    BY <2>1, OpenKeeps
  <2>2. CASE \E h \in DOMAIN handles : Acquire(r, h, "use", 0) \/ \E o \in Owners, k \in {"flush", "lock"} : Acquire(r, h, k, o)
    BY <2>2, AcquireKeeps
  <2>3. CASE Cancel(r)
    BY <2>3, CancelKeeps
  <2> QED BY <1>6, <2>1, <2>2, <2>3 DEF Request
<1>7. CASE \E h \in DOMAIN handles : Release(h)
  BY <1>7, ReleaseKeeps
<1>8. CASE MacLock \/ Inventory \/ (\E d \in Drops : RemoveIfIdle(d)) \/ UNCHANGED vars
  <2>1. UNCHANGED <<handles, released, users, openFiles, lockFiles, open, counters, sessions, req>>
    BY <1>8 DEF MacLock, Inventory, RemoveIfIdle, vars, tables, locks
  <2>2. drops' \subseteq drops
    BY <1>8 DEF MacLock, Inventory, RemoveIfIdle, vars
  <2> QED BY <2>1, <2>2, IdleKeeps
<1> QED BY <1>1, <1>2, <1>3, <1>4, <1>5, <1>6, <1>7, <1>8 DEF Next

---------------------------------------------------------------------------
LEMMA LifetimesAreHeld ==
  ASSUME Capacity, Lifetimes
  PROVE  DescriptorsHeld /\ TypeOK
<1>1. NoUseAfterClose
  BY DEF NoUseAfterClose, Lifetimes, Types, RequestTypes, Files, FilesKept, FreshKept, InUse, Fresh
<1>2. DescriptorsReturned
  <2>1. {e.fd : e \in Table} = InTable /\ InHands \subseteq {req[r].fd : r \in Reqs}
    BY DEF Table, InTable, InHands, InUse, Fresh
  <2>2. OwnersLocks \subseteq Range(lockFiles)
    BY DEF OwnersLocks, Range, Lifetimes, Types, LockTypes
  <2>3. NewLocks = {req[r].lock : r \in {q \in Reqs : req[q].phase = "reopened"}}
    BY DEF NewLocks, Relocks
  <2> QED BY <2>1, <2>2, <2>3 DEF DescriptorsReturned, Lifetimes, Files, Returned
<1>3. TypeOK
  <2>1. \A f \in Descs : users[f] \in 0 .. Cardinality(Reqs)
    <3> SUFFICES ASSUME NEW f \in Descs PROVE users[f] \in 0 .. Cardinality(Reqs)
      OBVIOUS
    <3>1. Cardinality(Reqs) \in Nat
      BY FS_CardinalityType DEF Capacity
    <3> QED BY <3>1, UsersAreFinite DEF Lifetimes, UsersCounted
  <2> QED BY <2>1 DEF TypeOK, Lifetimes, Types, FileTypes
<1> QED BY <1>1, <1>2, <1>3 DEF DescriptorsHeld, Lifetimes, Capacity

\* Any requests, drops, owners and sessions that end at any moment: the file of a
\* handle stays open for the requests that read, write or lock it, every open
\* descriptor belongs to a handle, an owner or a request, and a drop counts its
\* open handles (acquire, relinquish, release, closeHandles). The descriptors of
\* locks may be closed before they are used and are not among the files of handles.
THEOREM FilesOutliveTheirUsers == ASSUME Capacity PROVE Spec => [](DescriptorsHeld /\ TypeOK)
<1>1. Init => Lifetimes
  BY InitLifetimes
<1>2. Lifetimes /\ [Next]_vars => Lifetimes'
  BY StepKeeps
<1>3. Lifetimes => DescriptorsHeld /\ TypeOK
  BY LifetimesAreHeld
<1> QED BY <1>1, <1>2, <1>3, PTL DEF Spec

\* A drop that a guest program has open is not removed, although the inventory
\* reclaim works from is older than the program's open (reclaim, removeIdle).
THEOREM OpenDropsAreKept == ASSUME Capacity PROVE Spec => OpenDropsStay
<1>1. Init => Lifetimes
  BY InitLifetimes
<1>2. Lifetimes /\ [Next]_vars => Lifetimes'
  BY StepKeeps
<1>3. ASSUME Lifetimes, [Next]_vars
      PROVE  [\A d \in drops \ drops' : ~\E h \in DOMAIN handles : handles[h].drop = d]_vars
  <2>1. SUFFICES ASSUME NEW d \in drops \ drops' PROVE ~\E h \in DOMAIN handles : handles[h].drop = d
    OBVIOUS
  <2>2. RemoveIfIdle(d) /\ MayRemove(d)
    BY ZenonT(60), <1>3, <2>1 DEF Next, vars, sessions, Attach, Started, Ended, EndCloses, Serve, Opened, Registered, Used, Flushed, FindLock,
       StoreLock, SetLock, Again, Request, Open, Acquire, Cancel, Release, MacLock, Inventory, RemoveIfIdle, Same
  <2>3. d \in Drops /\ openFiles[d] = 0
    BY <1>3, <2>1, <2>2 DEF MayRemove, Lifetimes, Types, FileTypes
  <2>4. HandlesOf[d] = {}
    BY <1>3, <2>3, CountsHandles, HandlesAreFinite, FS_EmptySet DEF Lifetimes, Types
  <2> QED BY <2>3, <2>4 DEF HandlesOf
<1> QED BY <1>1, <1>2, <1>3, PTL DEF Spec, OpenDropsStay
==============================================================================
