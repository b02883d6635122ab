------------------------------ MODULE StagedUpload ------------------------------
(***************************************************************************)
(* Uploads to an exact destination.  The host creates a private staging      *)
(* directory, sends the tree into it, publishes it by one exclusive rename   *)
(* and discards it when anything fails.  Every request has a connection of   *)
(* its own, and a connection the host has shut down may still be served.     *)
(* (UserFileAccess.swift, FileRPC.swift, np_file_service.c)                  *)
(*                                                                         *)
(* The requests of one upload are numbered: CREATE_STAGING, one request per  *)
(* entry of the tree (the first makes .payload itself), PUBLISH_STAGING and  *)
(* DISCARD_STAGING.  All uploads have one destination.                       *)
(***************************************************************************)
EXTENDS Integers, FiniteSets

CONSTANTS
  Uploads,      \* uploads of the host
  Entries,      \* entries of the tree an upload sends
  Slots,        \* clients the service takes at a time
  CancelIn,     \* requests during or before which the user may cancel
  BreakIn,      \* requests whose connection may break
  MayStop,      \* whether the service may be stopped
  MayFail       \* whether a file operation of the guest may fail

Create == 0
Publish == Entries + 1
Discard == Entries + 2
Requests == 0 .. Discard

VARIABLES
  host,      \* per upload: its request, where it is, and whether it is cancelled
  link,      \* per upload and request: the connection, as both kernels know it
  answer,    \* per upload and request: what the host can read
  job,       \* per upload and request: where the serving thread is
  disk,      \* per upload: its staging directory
  target,    \* the destination: an upload and the entries it published
  service    \* the file service

vars == <<host, link, answer, job, disk, target, service>>

None == [of |-> "none", has |-> {}]
NoDirectory == [dir |-> FALSE, marked |-> FALSE, payload |-> {}]

Init ==
  /\ host = [u \in Uploads |-> [at |-> Create, pc |-> "idle", cancelled |-> FALSE]]
  /\ link = [u \in Uploads |-> [r \in Requests |-> "none"]]
  /\ answer = [u \in Uploads |-> [r \in Requests |-> "none"]]
  /\ job = [u \in Uploads |-> [r \in Requests |-> "none"]]
  /\ disk = [u \in Uploads |-> NoDirectory]
  /\ target = None /\ service = "running"

\* A thread that is at one of these holds no slot of the service.
Slotless == {"none", "backlog", "over"}
Busy == {<<u, r>> \in Uploads \X Requests : job[u][r] \notin Slotless}

---------------------------------------------------------------------------
\* The host.

\* FileRPC.operation: a connection and a request on it.  The commit and the
\* cleanup run in detached tasks, which no cancellation reaches.
Call(u) ==
  LET r == host[u].at IN
  /\ host[u].pc = "idle" /\ (host[u].cancelled => r >= Publish)
  /\ host' = [host EXCEPT ![u].pc = "waiting"]
  /\ link' = [link EXCEPT ![u][r] = "open"] /\ job' = [job EXCEPT ![u][r] = "backlog"]
  /\ UNCHANGED <<answer, disk, target, service>>

\* Mutant of AfterFailure: the upload goes on after an entry that failed.
AfterFailureGoesOn(h) ==
  IF h.at \in 1 .. Entries THEN [h EXCEPT !.at = @ + 1, !.pc = "idle"]
  ELSE IF h.at = Discard THEN [h EXCEPT !.pc = "failed"] ELSE [h EXCEPT !.at = Discard, !.pc = "idle"]

\* The catch blocks: any error is followed by the cleanup.
AfterFailure(h) ==
  IF h.at = Discard THEN [h EXCEPT !.pc = "failed"] ELSE [h EXCEPT !.at = Discard, !.pc = "idle"]

AfterSuccess(h) ==
  IF h.at = Publish THEN [h EXCEPT !.pc = "ok"]
  ELSE IF h.at = Discard THEN [h EXCEPT !.pc = "failed"] ELSE [h EXCEPT !.at = @ + 1, !.pc = "idle"]

\* The call returns; the operation shuts its connection down.
Return(u) ==
  LET r == host[u].at IN
  /\ host[u].pc = "waiting" /\ (answer[u][r] # "none" \/ link[u][r] = "shut")
  /\ host' = [host EXCEPT ![u] = IF answer[u][r] = "ok" THEN AfterSuccess(@) ELSE AfterFailure(@)]
  /\ link' = [link EXCEPT ![u][r] = "shut"]
  /\ UNCHANGED <<answer, job, disk, target, service>>

\* Cancellation.cancel shuts the socket of the running request down.
Cancel(u) ==
  LET r == host[u].at IN
  /\ ~host[u].cancelled /\ host[u].pc \in {"idle", "waiting"} /\ r \in CancelIn
  /\ host' = [host EXCEPT ![u].cancelled = TRUE]
  /\ link' = IF host[u].pc = "waiting" THEN [link EXCEPT ![u][r] = "shut"] ELSE link
  /\ UNCHANGED <<answer, job, disk, target, service>>

\* Task.checkCancellation between two requests, the last one before the commit.
Checked(u) ==
  /\ host[u].pc = "idle" /\ host[u].cancelled /\ host[u].at < Discard
  /\ host' = [host EXCEPT ![u] = AfterFailure(@)] /\ host[u].at <= Publish
  /\ UNCHANGED <<link, answer, job, disk, target, service>>

Break(u) ==
  LET r == host[u].at IN
  /\ host[u].pc = "waiting" /\ r \in BreakIn /\ link[u][r] = "open"
  /\ link' = [link EXCEPT ![u][r] = "shut"]
  /\ UNCHANGED <<host, answer, job, disk, target, service>>

---------------------------------------------------------------------------
\* The service.

Job(u, r, to) == job' = [job EXCEPT ![u][r] = to]

Room == Cardinality(Busy) < Slots

\* listen_clients: a client without a slot is shut down at once.
Accept(u, r) ==
  /\ job[u][r] = "backlog" /\ service = "running"
  /\ IF Room
     THEN Job(u, r, "queued") /\ UNCHANGED link
     ELSE Job(u, r, "over") /\ link' = [link EXCEPT ![u][r] = "shut"]
  /\ UNCHANGED <<host, answer, disk, target, service>>

\* np_file_serve: once the reader has seen the end of the connection, a job
\* that nobody has taken is released.
Skip(u, r) ==
  /\ job[u][r] = "queued" /\ link[u][r] = "shut" /\ Job(u, r, "over")
  /\ UNCHANGED <<host, link, answer, disk, target, service>>

\* The answer is written when the connection is still up; the thread keeps its
\* slot until the host closes.
Written(u, r) == link[u][r] = "open"
Answer(u, r, what) ==
  IF Written(u, r)
  THEN answer' = [answer EXCEPT ![u][r] = what] /\ Job(u, r, "idle")
  ELSE UNCHANGED answer /\ Job(u, r, "over")

\* serve_client after the session: the slot is free.
Leave(u, r) ==
  /\ job[u][r] = "idle" /\ link[u][r] = "shut" /\ Job(u, r, "over")
  /\ UNCHANGED <<host, link, answer, disk, target, service>>

Owned(u) == disk[u].dir /\ disk[u].marked

\* create_staging, from mkdirat to the marker that makes the tree owned; a
\* failure in between removes what it made.
MakeDirectory(u) ==
  /\ job[u][Create] = "queued"
  /\ \/ disk' = [disk EXCEPT ![u].dir = TRUE] /\ Job(u, Create, "mark") /\ UNCHANGED answer
     \/ MayFail /\ Answer(u, Create, "error") /\ UNCHANGED disk
  /\ UNCHANGED <<host, link, target, service>>
MakeMarker(u) ==
  /\ job[u][Create] = "mark"
  /\ \/ disk' = [disk EXCEPT ![u].marked = TRUE] /\ Job(u, Create, "respond") /\ UNCHANGED answer
     \/ MayFail /\ disk' = [disk EXCEPT ![u] = NoDirectory] /\ Answer(u, Create, "error")
  /\ UNCHANGED <<host, link, target, service>>

\* Mutant of Acknowledge: an answer that cannot be written is forgotten.
AcknowledgeForgets(u) ==
  /\ job[u][Create] = "respond" /\ Answer(u, Create, "ok")
  /\ UNCHANGED <<host, link, disk, target, service>>

\* op_staging: nobody else knows of a directory whose answer was not written.
Acknowledge(u) ==
  /\ job[u][Create] = "respond"
  /\ IF Written(u, Create) THEN Answer(u, Create, "ok") ELSE Job(u, Create, "check") /\ UNCHANGED answer
  /\ UNCHANGED <<host, link, disk, target, service>>

\* MKDIR, SYMLINK or OPEN of one entry, without following links.
Parent(u, r) == IF r = 1 THEN disk[u].dir ELSE 1 \in disk[u].payload
Put(u, r) ==
  /\ r \in 1 .. Entries /\ job[u][r] = "queued"
  /\ \/ Parent(u, r) /\ disk' = [disk EXCEPT ![u].payload = @ \cup {r}] /\ Answer(u, r, "ok")
     \/ (MayFail \/ ~Parent(u, r)) /\ Answer(u, r, "error") /\ UNCHANGED disk
  /\ UNCHANGED <<host, link, target, service>>

\* Mutant of Vacant: the rename replaces what is there.
VacantAlways == TRUE

\* RENAME_NOREPLACE
Vacant == target = None

\* publish_staging: the rename is the commit point; what follows is best effort.
Verify(u) ==
  /\ job[u][Publish] = "queued"
  /\ IF Owned(u) THEN Job(u, Publish, "rename") /\ UNCHANGED answer ELSE Answer(u, Publish, "error")
  /\ UNCHANGED <<host, link, disk, target, service>>
Rename(u) ==
  /\ job[u][Publish] = "rename"
  /\ IF Vacant /\ 1 \in disk[u].payload
     THEN /\ target' = [of |-> u, has |-> disk[u].payload] /\ disk' = [disk EXCEPT ![u].payload = {}]
          /\ Job(u, Publish, "tidy") /\ UNCHANGED answer
     ELSE Answer(u, Publish, "error") /\ UNCHANGED <<disk, target>>
  /\ UNCHANGED <<host, link, service>>
Tidy(u) ==
  /\ job[u][Publish] = "tidy" /\ Answer(u, Publish, "ok")
  /\ disk' = [disk EXCEPT ![u] = IF @.payload = {} THEN NoDirectory ELSE [@ EXCEPT !.marked = FALSE]]
  /\ UNCHANGED <<host, link, target, service>>

\* discard_owned, for DISCARD_STAGING and for a CREATE nobody waits for.
Ends(u, r, what) == IF r = Create THEN Job(u, r, "over") /\ UNCHANGED answer ELSE Answer(u, r, what)
Check(u, r) ==
  /\ \/ r = Discard /\ job[u][r] = "queued"
     \/ r = Create /\ job[u][r] = "check"
  /\ IF Owned(u) THEN Job(u, r, "sweep") /\ UNCHANGED answer ELSE Ends(u, r, "error")
  /\ UNCHANGED <<host, link, disk, target, service>>

\* discard_contents of the directory: what it finds is .payload, which it opens.
Sweep(u, r) ==
  /\ job[u][r] = "sweep" /\ Job(u, r, IF 1 \in disk[u].payload THEN "inside" ELSE "unmark")
  /\ UNCHANGED <<host, link, answer, disk, target, service>>

\* discard_contents of .payload, by its descriptor, which follows a tree that is
\* published meanwhile.  It removes what it sees; an entry made after it has listed
\* the directory makes the removal of the directory fail.
SweepInside(u, r) ==
  LET here == 1 \in disk[u].payload
      tree == IF here THEN disk[u].payload ELSE IF target.of = u THEN target.has ELSE {} IN
  /\ job[u][r] = "inside"
  /\ IF tree \subseteq {1} THEN Job(u, r, "empty") /\ UNCHANGED <<disk, target>>
     ELSE \E e \in tree \ {1} :
            /\ disk' = IF here THEN [disk EXCEPT ![u].payload = @ \ {e}] ELSE disk
            /\ target' = IF here THEN target ELSE [target EXCEPT !.has = @ \ {e}]
            /\ UNCHANGED job
  /\ UNCHANGED <<host, link, answer, service>>
RemovePayload(u, r) ==
  /\ job[u][r] = "empty"
  /\ IF disk[u].payload = {1}
     THEN disk' = [disk EXCEPT ![u].payload = {}] /\ Job(u, r, "sweep") /\ UNCHANGED answer
     ELSE Ends(u, r, "error") /\ UNCHANGED disk
  /\ UNCHANGED <<host, link, target, service>>
Unmark(u, r) ==
  /\ job[u][r] = "unmark"
  /\ IF Owned(u)
     THEN disk' = [disk EXCEPT ![u].marked = FALSE] /\ Job(u, r, "rmdir") /\ UNCHANGED answer
     ELSE Ends(u, r, "error") /\ UNCHANGED disk
  /\ UNCHANGED <<host, link, target, service>>
RemoveDirectory(u, r) ==
  /\ job[u][r] = "rmdir"
  /\ IF disk[u].dir /\ disk[u].payload = {}
     THEN disk' = [disk EXCEPT ![u] = NoDirectory] /\ Ends(u, r, "ok")
     ELSE Ends(u, r, "error") /\ UNCHANGED disk
  /\ UNCHANGED <<host, link, target, service>>

\* np_file_service_stop: the listener is joined, every client's socket is shut
\* down, and the last thread lets the caller go on.
StopListening ==
  /\ MayStop /\ service = "running" /\ service' = "joined"
  /\ UNCHANGED <<host, link, answer, job, disk, target>>
ShutClients ==
  /\ service = "joined" /\ service' = "draining"
  /\ link' = [u \in Uploads |-> [r \in Requests |->
       IF <<u, r>> \in Busy THEN "shut" ELSE link[u][r]]]
  /\ UNCHANGED <<host, answer, job, disk, target>>

\* Mutant of Drained: the stop does not wait for the threads.
DrainedAtOnce == TRUE
Drained == Busy = {}
Stopped ==
  /\ service = "draining" /\ Drained /\ service' = "stopped"
  /\ UNCHANGED <<host, link, answer, job, disk, target>>
\* Mutant of Refused: the listener stays open.
RefusedNever(u, r) == FALSE

\* The closed listener refuses what was in its backlog.
Refused(u, r) ==
  /\ service = "stopped" /\ job[u][r] = "backlog" /\ Job(u, r, "over")
  /\ link' = [link EXCEPT ![u][r] = "shut"]
  /\ UNCHANGED <<host, answer, disk, target, service>>

Finished == \A u \in Uploads : host[u].pc \in {"ok", "failed"}
Idle == Finished /\ Busy = {} /\ service \in {"running", "stopped"} /\ UNCHANGED vars

Serve(u) ==
  \/ MakeDirectory(u) \/ MakeMarker(u) \/ Acknowledge(u) \/ Verify(u) \/ Rename(u) \/ Tidy(u)
  \/ \E r \in Requests : Put(u, r) \/ Check(u, r) \/ Sweep(u, r) \/ SweepInside(u, r) \/ RemovePayload(u, r) \/ Unmark(u, r)
                         \/ RemoveDirectory(u, r) \/ Skip(u, r) \/ Leave(u, r)
Proceeds(u) == Call(u) \/ Return(u) \/ Checked(u) \/ \E r \in Requests : Accept(u, r) \/ Refused(u, r)
Stopping == StopListening \/ ShutClients \/ Stopped

Next == Stopping \/ Idle \/ \E u \in Uploads : Proceeds(u) \/ Serve(u) \/ Cancel(u) \/ Break(u)

Spec == Init /\ [][Next]_vars
\* Threads of both sides run on; nothing makes the user cancel, a connection
\* break or the service stop.
Steps == ShutClients \/ Stopped \/ \E u \in Uploads : Proceeds(u) \/ Serve(u)

---------------------------------------------------------------------------
\* Types of the variables, which also say that a marker is in a directory.
TypeOK ==
  /\ \A u \in Uploads : host[u].at \in Requests /\ (disk[u].marked => disk[u].dir)
                        /\ disk[u].payload \subseteq 1 .. Entries
  /\ \A u \in Uploads, r \in Requests : link[u][r] \in {"none", "open", "shut"}
  /\ Cardinality(Busy) <= Slots

\* The request went out and its connection ended before the host had an answer: what
\* became of it the host does not know, and it may still be served.
Lost(u, r) == job[u][r] # "none" /\ link[u][r] = "shut" /\ answer[u][r] = "none"

\* What appears at the destination is a whole tree: the rename is exclusive and comes
\* after the last entry, and the cleanup does not reach a tree being published.  Only
\* after a PUBLISH without an answer the host discards what is perhaps published.
WholeTree == target # None /\ ~Lost(target.of, Publish) => target.has = 1 .. Entries

\* A published tree is never replaced by another upload's.
NeverReplaced == target # None => target'.of = target.of

\* An upload that reports success has published its whole tree, and one that reports
\* a failure has not, even when it was cancelled late: the commit finishes
\* independently.  Only the loss of PUBLISH's own answer leaves it open.
ReportsPublication == \A u \in Uploads :
  /\ host[u].pc = "ok" => target = [of |-> u, has |-> 1 .. Entries]
  /\ host[u].pc = "failed" /\ target.of = u => Lost(u, Publish)

\* When an upload has ended and no thread works for it any more, its staging
\* directory is gone, whatever order CREATE, its answer and DISCARD ran in; a later
\* request without an answer may still add to it, or be the DISCARD itself.
StagingRemoved == \A u \in Uploads :
  /\ host[u].pc \in {"ok", "failed"} /\ \A r \in Requests : job[u][r] \in {"none", "over"}
  /\ \A r \in Requests \ {Create} : ~Lost(u, r)
  => ~disk[u].dir

\* np_file_service_stop returns with no thread that still touches its files.
StopIsQuiet == service = "stopped" => Busy = {}

\* Whatever fails, is cancelled or stopped: what is there is whole, and stays so.
UploadsWhole == WholeTree /\ StopIsQuiet

\* Who waits: an upload that began, and the caller of stop.
Waits(k) ==
  \/ k = 1 /\ \E u \in Uploads : host[u].pc \notin {"idle", "ok", "failed"}
  \/ k = 2 /\ service = "joined"
=============================================================================
