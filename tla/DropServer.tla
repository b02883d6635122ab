------------------------------ MODULE DropServer ------------------------------
(***************************************************************************)
(* The host of the drop file system: open files and locks that guest        *)
(* requests reach by handle while the session is replaced, drops reclaimed  *)
(* and descriptors closed.  Requests of one session run concurrently and    *)
(* leave the lock around every file system call.  (DropFileServer.swift)    *)
(***************************************************************************)
EXTENDS Integers, FiniteSets, Functions

CONSTANTS
  Reqs,         \* requests in progress at once
  Drops, Owners,
  MaxSessions,  \* bound: sessions attached
  MaxDesc,      \* bound: descriptors opened
  MaxHandles    \* bound: handles given out

VARIABLES
  session,    \* the current session, 0 for none
  serving,    \* sessions whose requests may arrive
  epoch,      \* sessions attached so far
  closing,    \* sessions whose end has not closed the handles yet
  drops,      \* drops present
  openFiles,  \* openFiles of each drop
  handles,    \* the table of handles
  released, users,  \* of the open file of each descriptor
  lockFiles,  \* the lock descriptor of each owner
  locked,     \* descriptors whose open file holds a lock, with their session
  mac,        \* a Mac program holds the lock
  open,       \* descriptors that are open
  number,     \* the number of each descriptor, used again once it is closed
  nextDesc, nextHandle,
  idle,       \* the inventory reclaim works from
  req,
  strays      \* history: descriptors stored, or locked, by a request that came too late

tables == <<handles, released, users, openFiles>>
locks == <<lockFiles, locked, mac>>
counters == <<nextDesc, nextHandle, number>>
sessions == <<session, serving, epoch, closing>>
vars == <<sessions, drops, tables, locks, open, counters, idle, req, strays>>

Free == [kind |-> "none", phase |-> "free", drop |-> 0, fd |-> 0, lock |-> 0, owner |-> 0, sess |-> 0,
         cancelled |-> FALSE]
NoLock == 0

Init ==
  /\ session = 0 /\ serving = 0 /\ epoch = 0 /\ closing = {}
  /\ drops = Drops /\ openFiles = [d \in Drops |-> 0]
  /\ handles = <<>> /\ released = [f \in 1 .. MaxDesc |-> FALSE] /\ users = [f \in 1 .. MaxDesc |-> 0]
  /\ lockFiles = [o \in Owners |-> NoLock] /\ locked = {} /\ mac = FALSE
  /\ open = {} /\ number = [f \in 1 .. MaxDesc |-> 0] /\ nextDesc = 1 /\ nextHandle = 1
  /\ idle = {} /\ req = [r \in Reqs |-> Free] /\ strays = {}

Table == {handles[h] : h \in DOMAIN handles}
Set(r, x) == req' = [req EXCEPT ![r] = x]
To(r, phase) == Set(r, [req[r] EXCEPT !.phase = phase])

\* A new descriptor gets the lowest number that is free.
NewDesc ==
  /\ nextDesc <= MaxDesc /\ nextDesc' = nextDesc + 1 /\ open' = open \cup {nextDesc}
  /\ \E n \in 1 .. MaxDesc :
       /\ \A k \in 1 .. n - 1 : \E f \in open : number[f] = k
       /\ \A f \in open : number[f] # n
       /\ number' = [number EXCEPT ![nextDesc] = n]

\* A lock ends with the descriptor it was taken through.
LocksStay == locked' = {l \in locked : l.desc \in open'} /\ strays' = strays \cap open'

\* The session a request works for is no longer the current one.
Late(r) == req[r].sess # session
Strays(late, f) == strays' = (strays \cup (IF late THEN {f} ELSE {})) \cap open'

---------------------------------------------------------------------------
\* Sessions.

\* Mutant of OpenAfter: the count of a closed handle is kept.
OpenAfterEnd(d) == openFiles[d]

OpenAfter(d) == openFiles[d] - Cardinality({h \in DOMAIN handles : handles[h].drop = d})

\* Mutants: an ended session keeps its locks, or its handles.
LocksEndedNone == {}
HandlesKept == handles

LocksEnded == {lockFiles[o] : o \in Owners} \ {NoLock}
HandlesAfter == <<>>

\* closeHandles: every handle and lock descriptor goes; a file some request
\* still uses is closed by that request.
CloseHandles ==
  LET files == {e.fd : e \in Table}
      gone == LocksEnded
  IN  /\ handles' = HandlesAfter /\ openFiles' = [d \in Drops |-> OpenAfter(d)]
      /\ released' = [f \in DOMAIN released |-> released[f] \/ f \in files]
      /\ lockFiles' = [o \in Owners |-> NoLock]
      /\ open' = (open \ gone) \ {f \in files : users[f] = 0} /\ LocksStay
      /\ UNCHANGED <<users, mac>>

Cancelled(S) == [r \in Reqs |-> IF req[r] # Free /\ req[r].sess \in S THEN [req[r] EXCEPT !.cancelled = TRUE] ELSE req[r]]

\* attach: the new session replaces the previous one; it starts once the
\* handles are closed.
Attach ==
  /\ epoch < MaxSessions /\ epoch' = epoch + 1 /\ session' = epoch + 1 /\ serving' = 0
  /\ closing' = closing /\ req' = Cancelled({session})
  /\ UNCHANGED <<drops, tables, locks, open, counters, idle, strays>>
Started ==
  /\ session = epoch /\ session > 0 /\ serving = 0
  /\ CloseHandles /\ serving' = session
  /\ UNCHANGED <<session, epoch, closing, drops, counters, idle, req>>

\* onClose of the current session, and detach: the session is taken away under
\* the lock, the handles go afterwards.
Ended ==
  /\ serving > 0 /\ session = serving
  /\ session' = 0 /\ serving' = 0 /\ closing' = closing \cup {session} /\ req' = Cancelled({session})
  /\ UNCHANGED <<epoch, drops, tables, locks, open, counters, idle, strays>>
EndCloses(s) ==
  /\ s \in closing /\ closing' = closing \ {s} /\ CloseHandles
  /\ UNCHANGED <<session, serving, epoch, drops, counters, idle, req>>

---------------------------------------------------------------------------
\* Requests.

Arrive(r, x) ==
  /\ serving > 0 /\ req[r] = Free /\ Set(r, [x EXCEPT !.sess = serving])
Same == UNCHANGED <<sessions, drops, idle>>

\* open and create: the drop is found, the file opened, the handle stored.
Open(r, d) ==
  /\ d \in drops /\ Arrive(r, [Free EXCEPT !.kind = "open", !.phase = "found", !.drop = d])
  /\ Same /\ UNCHANGED <<tables, locks, open, counters, strays>>
Opened(r) ==
  /\ req[r].phase = "found" /\ NewDesc
  /\ Set(r, [req[r] EXCEPT !.phase = "opened", !.fd = nextDesc])
  /\ Same /\ UNCHANGED <<tables, locks, nextHandle, strays>>

Registers == session # 0

Registered(r) ==
  LET x == req[r] IN
  /\ x.phase = "opened" /\ Set(r, Free) /\ nextHandle <= MaxHandles
  /\ IF Registers
     THEN /\ handles' = [h \in DOMAIN handles \cup {nextHandle} |->
                           IF h = nextHandle THEN [fd |-> x.fd, drop |-> x.drop, sess |-> x.sess] ELSE handles[h]]
          /\ nextHandle' = nextHandle + 1 /\ openFiles' = [openFiles EXCEPT ![x.drop] = @ + 1]
          /\ UNCHANGED <<open, locked>> /\ Strays(Late(r), x.fd)
     ELSE /\ open' = open \ {x.fd} /\ LocksStay /\ UNCHANGED <<handles, nextHandle, openFiles>>
  /\ Same /\ UNCHANGED <<released, users, lockFiles, mac, nextDesc, number>>

\* acquire: read, write, setattr, fsync, flush and the lock requests hold the
\* file while they use it.
Acquire(r, h, k, o) ==
  /\ h \in DOMAIN handles /\ handles[h].sess = serving
  /\ Arrive(r, [Free EXCEPT !.kind = k, !.phase = "using", !.fd = handles[h].fd, !.owner = o])
  /\ users' = [users EXCEPT ![handles[h].fd] = @ + 1]
  /\ Same /\ UNCHANGED <<handles, released, openFiles, locks, open, counters, strays>>

Closes(f) == released[f] /\ users[f] = 1

\* relinquish
Relinquish(r, next) ==
  LET f == req[r].fd IN
  /\ users' = [users EXCEPT ![f] = @ - 1] /\ open' = IF Closes(f) THEN open \ {f} ELSE open
  /\ Set(r, next)

Used(r) ==
  /\ req[r].kind = "use" /\ req[r].phase = "using" /\ Relinquish(r, Free) /\ LocksStay
  /\ Same /\ UNCHANGED <<handles, released, openFiles, lockFiles, mac, counters>>

\* Mutant of StillUsed: a released file is closed under its users.
StillUsedNever(f) == FALSE

StillUsed(f) == users[f] > 0

\* release
Release(h) ==
  /\ h \in DOMAIN handles /\ handles[h].sess = serving
  /\ LET e == handles[h] IN
     /\ handles' = [k \in DOMAIN handles \ {h} |-> handles[k]]
     /\ openFiles' = [openFiles EXCEPT ![e.drop] = @ - 1] /\ released' = [released EXCEPT ![e.fd] = TRUE]
     /\ open' = IF StillUsed(e.fd) THEN open ELSE open \ {e.fd}
     /\ LocksStay
  /\ Same /\ UNCHANGED <<users, lockFiles, mac, counters, req>>

\* flush: the owner's locks end.
Flushed(r) ==
  LET x == req[r]
      l == lockFiles[x.owner]
      f == x.fd
  IN  /\ x.kind = "flush" /\ x.phase = "using" /\ Set(r, Free)
      /\ lockFiles' = [lockFiles EXCEPT ![x.owner] = NoLock] /\ users' = [users EXCEPT ![f] = @ - 1]
      /\ open' = (open \ {l}) \ (IF Closes(f) THEN {f} ELSE {}) /\ LocksStay
      /\ Same /\ UNCHANGED <<handles, released, openFiles, mac, counters>>

\* lockDescriptor: the owner's descriptor, or a new one opened without the lock.
FindLock(r) ==
  LET x == req[r] IN
  /\ x.kind = "lock" /\ x.phase = "using"
  /\ \/ /\ lockFiles[x.owner] # NoLock /\ Set(r, [x EXCEPT !.phase = "locking", !.lock = lockFiles[x.owner]])
        /\ UNCHANGED <<open, nextDesc, number>>
     \/ /\ lockFiles[x.owner] = NoLock /\ NewDesc
        /\ Set(r, [x EXCEPT !.phase = "reopened", !.lock = nextDesc])
  /\ Same /\ UNCHANGED <<tables, locks, nextHandle, strays>>

\* Mutant of Raced: another request's descriptor is overwritten.
RacedNever(o) == FALSE

Raced(o) == lockFiles[o] # NoLock

StoreLock(r) ==
  LET x == req[r] IN
  /\ x.phase = "reopened"
  /\ IF Raced(x.owner)
     THEN /\ open' = open \ {x.lock} /\ Set(r, [x EXCEPT !.phase = "locking", !.lock = lockFiles[x.owner]])
          /\ LocksStay /\ UNCHANGED lockFiles
     ELSE lockFiles' = [lockFiles EXCEPT ![x.owner] = x.lock] /\ To(r, "locking") /\ UNCHANGED <<open, locked, strays>>
  /\ Same /\ UNCHANGED <<tables, mac, counters>>

\* fcntl is given a number: nobody keeps the owner's descriptor open for the
\* request, so the number is free by now, or is another file's, or is still the
\* owner's.  The lock of another open file is waited for.
Reached(r) == IF req[r].lock \in open THEN {req[r].lock} ELSE {f \in open : number[f] = number[req[r].lock]}
Conflict(f) == mac \/ \E l \in locked : l.desc # f
SetLock(r) ==
  LET x == req[r] IN
  /\ x.phase = "locking"
  /\ \/ Reached(r) = {} /\ Relinquish(r, Free) /\ LocksStay
     \/ \E f \in Reached(r) :
          \/ /\ ~Conflict(f) /\ Relinquish(r, Free) /\ Strays(Late(r) \/ f # x.lock, f)
             /\ locked' = {l \in {k \in locked : k.desc # f} \cup {[desc |-> f, sess |-> x.sess]} : l.desc \in open'}
          \/ /\ Conflict(f) /\ Relinquish(r, [x EXCEPT !.phase = "waiting", !.lock = 0]) /\ LocksStay
  /\ Same /\ UNCHANGED <<handles, released, openFiles, lockFiles, mac, counters>>

\* Mutant of GivesUp: a cancelled request goes on asking.
GivesUpNever(r) == FALSE

GivesUp(r) == req[r].cancelled

\* setlk waits: it gives up, asks again, or finds its handle gone.
Again(r) ==
  LET x == req[r] IN
  /\ x.phase = "waiting"
  /\ \/ GivesUp(r) /\ Set(r, Free) /\ UNCHANGED users
     \/ /\ ~GivesUp(r) /\ \E e \in Table : e.fd = x.fd
        /\ To(r, "using") /\ users' = [users EXCEPT ![x.fd] = @ + 1]
     \/ ~GivesUp(r) /\ ~(\E e \in Table : e.fd = x.fd) /\ Set(r, Free) /\ UNCHANGED users
  /\ Same /\ UNCHANGED <<handles, released, openFiles, locks, open, counters, strays>>

\* The guest's caller is interrupted.
Cancel(r) ==
  /\ req[r].kind = "lock" /\ ~req[r].cancelled /\ Set(r, [req[r] EXCEPT !.cancelled = TRUE])
  /\ Same /\ UNCHANGED <<tables, locks, open, counters, strays>>
MacLock ==
  /\ (mac \/ locked = {}) /\ mac' = ~mac
  /\ UNCHANGED <<sessions, drops, idle, tables, lockFiles, locked, open, counters, req, strays>>

---------------------------------------------------------------------------
\* reclaim and removeIdle: an inventory, then each drop again under the lock.

Inventory ==
  /\ idle = {} /\ idle' = {d \in drops : openFiles[d] = 0}
  /\ UNCHANGED <<sessions, drops, tables, locks, open, counters, req, strays>>

\* Mutant of MayRemove: what the inventory said is not checked again.
MayRemoveListed(d) == TRUE

MayRemove(d) == openFiles[d] = 0

RemoveIfIdle(d) ==
  /\ d \in idle /\ idle' = idle \ {d}
  /\ drops' = IF MayRemove(d) THEN drops \ {d} ELSE drops
  /\ UNCHANGED <<sessions, tables, locks, open, counters, req, strays>>

---------------------------------------------------------------------------
Serve(r) == Opened(r) \/ Registered(r) \/ Used(r) \/ Flushed(r) \/ FindLock(r) \/ StoreLock(r) \/ SetLock(r) \/ Again(r)
Request(r) ==
  \/ \E d \in Drops : Open(r, d)
  \/ \E h \in DOMAIN handles : Acquire(r, h, "use", 0) \/ \E o \in Owners, k \in {"flush", "lock"} : Acquire(r, h, k, o)
  \/ Cancel(r)
Next ==
  \/ Attach \/ Started \/ Ended \/ (\E s \in closing : EndCloses(s))
  \/ (\E r \in Reqs : Serve(r) \/ Request(r)) \/ (\E h \in DOMAIN handles : Release(h))
  \/ MacLock \/ Inventory \/ (\E d \in Drops : RemoveIfIdle(d))

Spec == Init /\ [][Next]_vars
\* Requests in progress run; no lock has to become free.
Steps == \E r \in Reqs : Serve(r)

---------------------------------------------------------------------------
\* Properties.

TypeOK ==
  /\ open \subseteq 1 .. nextDesc - 1 /\ DOMAIN handles \subseteq 1 .. nextHandle - 1
  /\ \A f \in DOMAIN users : users[f] \in 0 .. Cardinality(Reqs)
  /\ \A d \in Drops : openFiles[d] \in Nat

\* A request that may still touch the file of a handle finds its descriptor open,
\* whoever released the handle or ended the session meanwhile.  (Not so for the
\* descriptors of locks, which no request keeps open: SetLock.)
NoUseAfterClose == \A r \in Reqs :
  req[r].phase \in {"using", "reopened", "locking", "opened"} => req[r].fd \in open

\* A drop counts exactly the handles that are open on it.
OpenCounted == \A d \in Drops : openFiles[d] = Cardinality({h \in DOMAIN handles : handles[h].drop = d})

\* Every open descriptor can still be closed: a handle, an owner's lock or a
\* request in progress has it.
DescriptorsReturned ==
  open \subseteq {e.fd : e \in Table} \cup Range(lockFiles) \cup {req[r].fd : r \in Reqs}
                 \cup {req[r].lock : r \in {q \in Reqs : req[q].phase = "reopened"}}

\* "A drop a guest program has open is never removed."
OpenDropsStay == [][\A d \in drops \ drops' : ~\E h \in DOMAIN handles : handles[h].drop = d]_vars

\* "A handle belongs to the session that opened it": all that a session leaves in
\* the table is what a request of it that ends too late stores there.
HandleOfItsSession == serving > 0 => \A e \in Table : e.sess = serving \/ e.fd \in strays

\* "The session ended: every open file and every lock it held goes", except for a
\* lock that a request takes after the end, or through a number used again.
EndedHoldsNoLock == closing = {} /\ serving = session => \A l \in locked : l.sess = session \/ l.desc \in strays

\* The files of handles stay open for their users, drops count their handles, and
\* every descriptor has somebody who closes it.
DescriptorsHeld == NoUseAfterClose /\ OpenCounted /\ DescriptorsReturned

\* A session takes its handles and locks along.
SessionsLeaveNothing == HandleOfItsSession /\ EndedHoldsNoLock

\* Who waits: a cancelled lock request, which ends whoever keeps the lock
\* (descriptors are bounded).
Waits(r) == r \in Reqs /\ req[r].kind = "lock" /\ req[r].cancelled /\ nextDesc <= MaxDesc
=============================================================================
